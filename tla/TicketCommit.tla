---------------------------- MODULE TicketCommit ----------------------------
(***************************************************************************)
(* The commit that follows a passed verification                           *)
(* (packages/server/src/ticketCommit.ts, called by ticketRunner.ts): a     *)
(* series of git processes in a checkout where other agents, and people,   *)
(* write, stage and commit at the same time.                               *)
(*                                                                         *)
(* The checkout is a repository, git status works, and every file is under *)
(* the directory of the tickets.  What git does (external) is modelled as  *)
(* far as these calls depend on it.                                        *)
(***************************************************************************)
EXTENDS Naturals, FiniteSets

CONSTANTS
  Tickets,
  Files,
  None,        \* no such file
  Limit,       \* MAX_AUTO_COMMIT_FILES
  MaxWrites,   \* bound on writes and deletions
  MaxCommits   \* bound on commits by others

VARIABLES
  work, index, head,   \* per file: None, or who wrote it and when (its mtime)
  phase,               \* ticket -> how far its run and its commit are
  startedAt,           \* ticket -> startedAt
  entries,             \* ticket -> what git status listed, by whether it is deleted
  paths,               \* ticket -> what changedSince kept
  clock, writes, commits

vars == <<work, index, head, phase, startedAt, entries, paths, clock, writes, commits>>

tree == <<work, index, head>>
bounds == <<clock, writes, commits>>

Someone == "someone"

Init == /\ work = [f \in Files |-> [by |-> Someone, at |-> 0]]
        /\ index = work /\ head = work
        /\ phase = [t \in Tickets |-> "queued"]
        /\ startedAt = [t \in Tickets |-> 0]
        /\ entries = [t \in Tickets |-> [f \in {} |-> FALSE]] /\ paths = [t \in Tickets |-> {}]
        /\ clock = 0 /\ writes = 0 /\ commits = 0

Goes(t, from, to) == phase[t] = from /\ phase' = [phase EXCEPT ![t] = to]

-----------------------------------------------------------------------------
(* The checkout.                                                           *)

Works(who) == who = Someone \/ (who \in Tickets /\ phase[who] = "running")

\* A write in this millisecond or a later one; a deletion, by rm or git rm.
Write(who, f) == /\ Works(who) /\ writes < MaxWrites
                 /\ clock' \in {clock, clock + 1}
                 /\ work' = [work EXCEPT ![f] = [by |-> who, at |-> clock']]
                 /\ writes' = writes + 1
                 /\ UNCHANGED <<index, head, phase, startedAt, entries, paths, commits>>

Delete(who, f) == /\ Works(who) /\ writes < MaxWrites /\ work[f] # None
                  /\ work' = [work EXCEPT ![f] = None]
                  /\ index' = index \/ index' = [index EXCEPT ![f] = None]
                  /\ writes' = writes + 1
                  /\ UNCHANGED <<head, phase, startedAt, entries, paths, clock, commits>>

\* git add, and a commit of all that is staged, by someone else.
StageElsewhere(f) == /\ index[f] # work[f]
                     /\ index' = [index EXCEPT ![f] = work[f]]
                     /\ UNCHANGED <<work, head, phase, startedAt, entries, paths, bounds>>

CommitElsewhere == /\ commits < MaxCommits /\ index # head
                   /\ head' = index
                   /\ commits' = commits + 1
                   /\ UNCHANGED <<work, index, phase, startedAt, entries, paths, clock, writes>>

-----------------------------------------------------------------------------
(* The run, as far as the commit depends on it.                            *)

\* start() and, with an answer, replyInternal(): a run begins now.
Begins(t, from) == /\ Goes(t, from, "running")
                   /\ startedAt' = [startedAt EXCEPT ![t] = clock]
                   /\ UNCHANGED <<tree, entries, paths, bounds>>

Start(t) == Begins(t, "queued")
Answer(t) == Begins(t, "decision")

\* The agent exits with a question, or its work is verified.
Exits(t) == /\ Goes(t, "running", "decision") \/ Goes(t, "running", "verified")
            /\ UNCHANGED <<tree, startedAt, entries, paths, bounds>>

-----------------------------------------------------------------------------
(* commit(): one action per git process.                                   *)

Skip(t, from) == Goes(t, from, "skipped") /\ UNCHANGED <<tree, startedAt, entries, paths, bounds>>

\* parseStatusPaths: a D in either column of git status.
Deleted(f) == (index[f] = None /\ head[f] # None) \/ (work[f] = None /\ index[f] # None)

Changed == {f \in Files : work[f] # index[f] \/ index[f] # head[f]}

Survey(t) == /\ Changed # {}
             /\ Goes(t, "verified", "surveyed")
             /\ entries' = [entries EXCEPT ![t] = [f \in Changed |-> Deleted(f)]]
             /\ UNCHANGED <<tree, startedAt, paths, bounds>>

Clean(t) == Changed = {} /\ Skip(t, "verified")

\* Mutant: changedSince keeps whatever is dirty.
KeptMutant(t, f) == TRUE

\* changedSince: the file is looked at again, after git status.
Kept(t, f) == \/ entries[t][f]
              \/ work[f] = None
              \/ work[f].at >= startedAt[t]

Own(t) == {f \in DOMAIN entries[t] : Kept(t, f)}

ChangedSince(t) == /\ Own(t) # {} /\ Cardinality(Own(t)) <= Limit
                   /\ Goes(t, "surveyed", "filtered")
                   /\ paths' = [paths EXCEPT ![t] = Own(t)]
                   /\ UNCHANGED <<tree, startedAt, entries, bounds>>

TooFewOrMany(t) == /\ phase[t] = "surveyed"
                   /\ Own(t) = {} \/ Cardinality(Own(t)) > Limit
                   /\ Skip(t, "surveyed")

\* "pathspec did not match any files": a deletion that is staged already.
Unmatched(t) == \E f \in paths[t] : work[f] = None /\ index[f] = None

Stage(t) == /\ ~Unmatched(t)
            /\ Goes(t, "filtered", "staged")
            /\ index' = [f \in Files |-> IF f \in paths[t] THEN work[f] ELSE index[f]]
            /\ UNCHANGED <<work, head, startedAt, entries, paths, bounds>>

\* git add is refused, for that or because the index is locked.
StageFails(t) == Skip(t, "filtered")

\* git diff --cached: is anything staged?
Diff(t) == /\ \E f \in paths[t] : index[f] # head[f]
           /\ Goes(t, "staged", "diffed")
           /\ UNCHANGED <<tree, startedAt, entries, paths, bounds>>

NothingStaged(t) == (\A f \in paths[t] : index[f] = head[f]) /\ Skip(t, "staged")

\* Mutant: git commit without the paths takes all that is staged.
CommitOnlyMutant(t) == head' = index /\ UNCHANGED index

\* git commit -- paths takes those files as they are now, and no others.
CommitOnly(t) == /\ head' = [f \in Files |-> IF f \in paths[t] THEN work[f] ELSE head[f]]
                 /\ index' = [f \in Files |-> IF f \in paths[t] THEN work[f] ELSE index[f]]

Commit(t) == /\ \E f \in paths[t] : work[f] # head[f]
             /\ ~\E f \in paths[t] : work[f] = None /\ index[f] = None /\ head[f] = None
             /\ Goes(t, "diffed", "committed")
             /\ CommitOnly(t)
             /\ UNCHANGED <<work, startedAt, entries, paths, bounds>>

\* A hook refuses, or nothing is left to commit: what is staged stays so.
CommitFails(t) == Skip(t, "diffed")

Next == \/ \E f \in Files : \/ \E who \in Tickets \cup {Someone} : Write(who, f) \/ Delete(who, f)
                            \/ StageElsewhere(f)
        \/ CommitElsewhere
        \/ \E t \in Tickets : \/ Start(t) \/ Answer(t) \/ Exits(t)
                              \/ Survey(t) \/ Clean(t) \/ ChangedSince(t) \/ TooFewOrMany(t)
                              \/ Stage(t) \/ StageFails(t) \/ Diff(t) \/ NothingStaged(t)
                              \/ Commit(t) \/ CommitFails(t)

Spec == Init /\ [][Next]_vars

-----------------------------------------------------------------------------
Contents == [by : Tickets \cup {Someone}, at : 0..clock] \cup {None}

\* What git status may list.
Listings == UNION {[listed -> BOOLEAN] : listed \in SUBSET Files}

\* Every variable has the shape the code gives it; no file is of tomorrow.
TypeOK ==
  /\ work \in [Files -> Contents] /\ index \in [Files -> Contents] /\ head \in [Files -> Contents]
  /\ phase \in [Tickets -> {"queued", "running", "decision", "verified", "surveyed", "filtered",
                            "staged", "diffed", "committed", "skipped"}]
  /\ clock \in Nat /\ startedAt \in [Tickets -> 0..clock]
  /\ entries \in [Tickets -> Listings]
  /\ paths \in [Tickets -> SUBSET Files]

Commits(t) == phase[t] = "diffed" /\ phase'[t] = "committed"

\* Written before the run began, and not deleted when it was surveyed.
Older(t, f) == /\ work[f] # None /\ work[f].at < startedAt[t]
               /\ f \in DOMAIN entries[t] => ~entries[t][f]

(* "Only paths ... written after the run started", and "anything staged    *)
(* elsewhere in the repo before the ticket ran is not this ticket's to     *)
(* claim": whatever others write, stage and commit between two git         *)
(* processes, a commit leaves what is older than the run as it was, in the *)
(* history and in the index.                                               *)
OnlyItsOwn ==
  [][\A t \in Tickets : Commits(t) =>
       \A f \in Files : Older(t, f) => head'[f] = head[f] /\ index'[f] = index[f]]_vars

(* "Committing at the moment the gate turns green is what keeps one ticket *)
(* equal to one reviewable unit": nothing that a ticket wrote is still in  *)
(* the working tree when its commit is made.                               *)
OneReviewableUnit ==
  \A t \in Tickets : phase[t] = "committed" =>
    \A f \in Files : (work[f] # None /\ work[f].by = t) => work[f] = head[f]
=============================================================================
