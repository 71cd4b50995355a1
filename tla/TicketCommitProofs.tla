------------------------- MODULE TicketCommitProofs -------------------------
(***************************************************************************)
(* A commit takes nothing older than its run, for any tickets and files.   *)
(* The step that commits cannot tell by itself: it needs to know that what *)
(* changedSince kept, two git processes ago, is still not older than the   *)
(* run, whatever was written in between.                                   *)
(***************************************************************************)
EXTENDS TicketCommit, TLAPS

Chosen == {"filtered", "staged", "diffed"}

\* What changedSince kept is still the ticket's own until it is committed.
PathsAreOwn ==
  \A t \in Tickets : phase[t] \in Chosen =>
    \A f \in paths[t] : ~Older(t, f)

IInv == TypeOK /\ PathsAreOwn

LEMMA InitIInv == Init => IInv
  <1> SUFFICES ASSUME Init
               PROVE  IInv
    OBVIOUS
  <1>1. [f \in {} |-> FALSE] \in Listings
    BY DEF Listings
  <1>2. entries \in [Tickets -> Listings]
    BY <1>1 DEF Init
  <1> QED BY <1>2 DEF Init, IInv, TypeOK, PathsAreOwn, Chosen, Contents, Someone

USE DEF TypeOK, Contents

\* A step of a ticket that touches no file keeps the invariant when it
\* reaches no phase in which paths are chosen, or comes from one.
LEMMA Walks ==
  ASSUME IInv, NEW t \in Tickets, NEW from, NEW to, Goes(t, from, to),
         UNCHANGED <<tree, startedAt, entries, paths, bounds>>,
         to \in {"decision", "verified", "staged", "diffed", "skipped"},
         to \in Chosen => from \in Chosen
  PROVE  IInv'
  <1>1. TypeOK'
    BY DEF IInv, Goes, tree, bounds, Chosen
  <1>2. PathsAreOwn'
    <2> SUFFICES ASSUME NEW u \in Tickets, phase'[u] \in Chosen, NEW f \in paths'[u]
                 PROVE  ~Older(u, f)'
      BY DEF PathsAreOwn
    <2>1. phase[u] \in Chosen
      BY DEF IInv, Goes, Chosen
    <2>2. ~Older(u, f)
      BY <2>1 DEF IInv, PathsAreOwn
    <2> QED BY <2>2 DEF Older, tree
  <1> QED BY <1>1, <1>2 DEF IInv

LEMMA SkipWalks ==
  ASSUME IInv, NEW t \in Tickets, NEW from, Skip(t, from)
  PROVE  IInv'
  BY Walks, Zenon DEF Skip, Chosen

\* The tree changes, but no file gets older.
LEMMA TreeChanges ==
  ASSUME IInv, TypeOK', UNCHANGED <<phase, startedAt, entries, paths>>,
         \A f \in Files : \/ work'[f] = work[f]
                          \/ work'[f] = None
                          \/ work'[f] # None /\ work'[f].at >= clock
  PROVE  IInv'
  <1> SUFFICES ASSUME NEW t \in Tickets, phase[t] \in Chosen, NEW f \in paths[t]
               PROVE  ~Older(t, f)'
    BY DEF IInv, PathsAreOwn
  <1>1. ~Older(t, f) /\ f \in Files /\ startedAt[t] \in Nat /\ clock \in Nat /\ startedAt[t] <= clock
    BY DEF IInv, PathsAreOwn
  <1>2. work[f] \in Contents /\ work'[f] \in Contents'
    BY <1>1 DEF IInv
  <1> QED BY <1>1, <1>2 DEF Older

LEMMA TreeActions ==
  ASSUME IInv, NEW f \in Files,
         \/ \E who \in Tickets \cup {Someone} : Write(who, f) \/ Delete(who, f)
         \/ StageElsewhere(f) \/ CommitElsewhere
  PROVE  IInv'
  <1>1. CASE \E who \in Tickets \cup {Someone} : Write(who, f)
    <2> PICK who \in Tickets \cup {Someone} : Write(who, f)
      BY <1>1
    <2>1. clock \in Nat /\ clock' \in Nat /\ clock <= clock'
      BY DEF Write, IInv
    <2>2. TypeOK'
      BY <2>1 DEF Write, IInv
    <2>3. \A g \in Files : work'[g] = work[g] \/ work'[g] = None
                             \/ (work'[g] # None /\ work'[g].at >= clock)
      BY <2>1 DEF Write, IInv
    <2> QED BY <2>2, <2>3, TreeChanges DEF Write
  <1>2. CASE \E who \in Tickets \cup {Someone} : Delete(who, f)
    <2> PICK who \in Tickets \cup {Someone} : Delete(who, f)
      BY <1>2
    <2>1. TypeOK'
      BY DEF Delete, IInv
    <2>2. \A g \in Files : work'[g] = work[g] \/ work'[g] = None
      BY DEF Delete, IInv
    <2> QED BY <2>1, <2>2, TreeChanges DEF Delete
  <1>3. CASE StageElsewhere(f)
    <2>1. TypeOK'
      BY <1>3 DEF StageElsewhere, IInv, bounds
    <2> QED BY <1>3, <2>1, TreeChanges DEF StageElsewhere
  <1>4. CASE CommitElsewhere
    <2>1. TypeOK'
      BY <1>4 DEF CommitElsewhere, IInv
    <2> QED BY <1>4, <2>1, TreeChanges DEF CommitElsewhere
  <1> QED BY <1>1, <1>2, <1>3, <1>4

LEMMA RunActions ==
  ASSUME IInv, NEW t \in Tickets, Start(t) \/ Answer(t) \/ Exits(t)
  PROVE  IInv'
  <1>1. CASE Start(t) \/ Answer(t)
    <2> PICK from \in {"queued", "decision"} : Begins(t, from)
      BY <1>1 DEF Start, Answer
    <2>1. TypeOK'
      BY DEF Begins, Goes, IInv, tree, bounds
    <2>2. PathsAreOwn'
      <3> SUFFICES ASSUME NEW u \in Tickets, phase'[u] \in Chosen, NEW f \in paths'[u]
                   PROVE  ~Older(u, f)'
        BY DEF PathsAreOwn
      <3>1. u # t /\ phase[u] \in Chosen
        BY DEF Begins, Goes, IInv, Chosen
      <3>2. ~Older(u, f) /\ startedAt'[u] = startedAt[u]
        BY <3>1 DEF IInv, PathsAreOwn, Begins
      <3> QED BY <3>2 DEF Older, Begins, tree
    <2> QED BY <2>1, <2>2 DEF IInv
  <1>2. CASE Exits(t)
    BY <1>2, Walks, Zenon DEF Exits, Chosen
  <1> QED BY <1>1, <1>2

LEMMA SurveyKeeps ==
  ASSUME IInv, NEW t \in Tickets, Survey(t)
  PROVE  IInv'
  <1>1. TypeOK'
    <2>1. [f \in Changed |-> Deleted(f)] \in Listings
      <3>1. Changed \in SUBSET Files /\ \A f \in Changed : Deleted(f) \in BOOLEAN
        BY DEF Changed, Deleted
      <3>2. [f \in Changed |-> Deleted(f)] \in [Changed -> BOOLEAN]
        BY <3>1
      <3> QED BY <3>1, <3>2 DEF Listings
    <2>2. entries' \in [Tickets -> Listings]
      BY <2>1 DEF Survey, IInv
    <2> QED BY <2>2 DEF Survey, Goes, IInv, tree, bounds
  <1>2. PathsAreOwn'
    <2> SUFFICES ASSUME NEW u \in Tickets, phase'[u] \in Chosen, NEW f \in paths'[u]
                 PROVE  ~Older(u, f)'
      BY DEF PathsAreOwn
    <2>1. u # t /\ phase[u] \in Chosen
      BY DEF Survey, Goes, IInv, Chosen
    <2>2. ~Older(u, f) /\ entries'[u] = entries[u]
      BY <2>1 DEF IInv, PathsAreOwn, Survey, Goes
    <2> QED BY <2>2 DEF Older, Survey, tree
  <1> QED BY <1>1, <1>2 DEF IInv

LEMMA ChangedSinceKeeps ==
  ASSUME IInv, NEW t \in Tickets, ChangedSince(t)
  PROVE  IInv'
  <1>0. Own(t) \subseteq Files
    <2>1. entries[t] \in Listings
      BY DEF IInv
    <2>2. DOMAIN entries[t] \subseteq Files
      BY <2>1 DEF Listings
    <2> QED BY <2>2 DEF Own
  <1>1. TypeOK'
    BY <1>0 DEF ChangedSince, Goes, IInv, tree, bounds
  <1>2. PathsAreOwn'
    <2> SUFFICES ASSUME NEW u \in Tickets, phase'[u] \in Chosen, NEW f \in paths'[u]
                 PROVE  ~Older(u, f)'
      BY DEF PathsAreOwn
    <2>1. CASE u = t
      <3>1. f \in Own(t)
        BY <2>1 DEF ChangedSince, IInv
      <3>2. f \in DOMAIN entries[t] /\ Kept(t, f) /\ f \in Files
        BY <3>1, <1>0 DEF Own
      <3>3. work[f] \in Contents /\ startedAt[t] \in Nat /\ clock \in Nat
        BY <3>2 DEF IInv
      <3>4. ~Older(t, f)
        BY <3>2, <3>3 DEF Kept, Older
      <3> QED BY <2>1, <3>4 DEF Older, ChangedSince, tree
    <2>2. CASE u # t
      <3>1. phase[u] \in Chosen /\ f \in paths[u]
        BY <2>2 DEF ChangedSince, Goes, IInv
      <3>2. ~Older(u, f)
        BY <3>1 DEF IInv, PathsAreOwn
      <3> QED BY <3>2 DEF Older, ChangedSince, tree
    <2> QED BY <2>1, <2>2
  <1> QED BY <1>1, <1>2 DEF IInv

\* Staging and committing leave the files as they are.
LEMMA StagingKeeps ==
  ASSUME IInv, NEW t \in Tickets, Stage(t) \/ Commit(t)
  PROVE  IInv'
  <1>1. UNCHANGED <<work, startedAt, entries, paths, clock>>
    BY DEF Stage, Commit, bounds
  <1>2. TypeOK'
    BY DEF Stage, Commit, CommitOnly, Goes, IInv, bounds
  <1>3. PathsAreOwn'
    <2> SUFFICES ASSUME NEW u \in Tickets, phase'[u] \in Chosen, NEW f \in paths'[u]
                 PROVE  ~Older(u, f)'
      BY DEF PathsAreOwn
    <2>1. phase[u] \in Chosen
      BY DEF Stage, Commit, Goes, IInv, Chosen
    <2>2. ~Older(u, f)
      BY <1>1, <2>1 DEF IInv, PathsAreOwn
    <2> QED BY <1>1, <2>2 DEF Older
  <1> QED BY <1>2, <1>3 DEF IInv

LEMMA NextIInv == IInv /\ [Next]_vars => IInv'
  <1> SUFFICES ASSUME IInv, [Next]_vars
               PROVE  IInv'
    OBVIOUS
  <1>1. CASE \E f \in Files : \/ \E who \in Tickets \cup {Someone} : Write(who, f) \/ Delete(who, f)
                              \/ StageElsewhere(f)
    BY <1>1, TreeActions
  <1>2. CASE CommitElsewhere
    <2>1. TypeOK'
      BY <1>2 DEF CommitElsewhere, IInv
    <2> QED BY <1>2, <2>1, TreeChanges DEF CommitElsewhere
  <1>3. ASSUME NEW t \in Tickets,
               \/ Start(t) \/ Answer(t) \/ Exits(t) \/ Survey(t) \/ Clean(t)
               \/ ChangedSince(t) \/ TooFewOrMany(t) \/ Stage(t) \/ StageFails(t) \/ Diff(t)
               \/ NothingStaged(t) \/ Commit(t) \/ CommitFails(t)
        PROVE  IInv'
    <2>1. CASE Start(t) \/ Answer(t) \/ Exits(t)
      BY <2>1, RunActions
    <2>2. CASE Survey(t)
      BY <2>2, SurveyKeeps
    <2>3. CASE ChangedSince(t)
      BY <2>3, ChangedSinceKeeps
    <2>4. CASE Stage(t) \/ Commit(t)
      BY <2>4, StagingKeeps
    <2>5. CASE Diff(t)
      BY <2>5, Walks, Zenon DEF Diff, Chosen
    <2>6. CASE Clean(t) \/ TooFewOrMany(t) \/ StageFails(t) \/ NothingStaged(t) \/ CommitFails(t)
      BY <2>6, SkipWalks, Zenon DEF Clean, TooFewOrMany, StageFails, NothingStaged, CommitFails
    <2> QED BY <1>3, <2>1, <2>2, <2>3, <2>4, <2>5, <2>6
  <1>4. CASE UNCHANGED vars
    BY <1>4 DEF vars, IInv, PathsAreOwn, Older
  <1> QED BY <1>1, <1>2, <1>3, <1>4 DEF Next

(* Files, index, history and phases have the shape the code relies on.     *)
THEOREM CommitTypeCorrect == Spec => []TypeOK
  <1>1. IInv => TypeOK
    BY DEF IInv
  <1> QED BY InitIInv, NextIInv, <1>1, PTL DEF Spec

(* "Bounded twice": a commit leaves what is older than the run as it was.  *)
THEOREM CommitsOnlyItsOwn == Spec => OnlyItsOwn
  <1>1. ASSUME IInv, [Next]_vars, NEW t \in Tickets, Commits(t), NEW f \in Files, Older(t, f)
        PROVE  head'[f] = head[f] /\ index'[f] = index[f]
    <2>1. f \notin paths[t]
      BY <1>1 DEF IInv, PathsAreOwn, Commits, Chosen
    <2>2. ASSUME NEW u \in Tickets, Commit(u)
          PROVE  u = t
      BY <1>1, <2>2 DEF Commit, Goes, Commits, IInv
    <2>3. CASE \E u \in Tickets : Commit(u)
      <3>1. Commit(t)
        BY <2>3, <2>2
      <3> QED BY <2>1, <3>1 DEF Commit, CommitOnly, IInv
    <2>4. CASE ~\E u \in Tickets : Commit(u)
      <3>1. ASSUME NEW u \in Tickets, NEW from, NEW to, Goes(u, from, to), to # "committed"
            PROVE  FALSE
        BY <1>1, <3>1 DEF Goes, Commits, IInv
      <3>2. ASSUME NEW u \in Tickets, NEW from, Skip(u, from)
            PROVE  FALSE
        BY <3>1, <3>2, Zenon DEF Skip
      <3>3. ASSUME NEW u \in Tickets
            PROVE  ~(Start(u) \/ Answer(u) \/ Exits(u) \/ Survey(u) \/ ChangedSince(u) \/ Stage(u) \/ Diff(u))
        BY <3>1, <3>3, Zenon DEF Start, Answer, Begins, Exits, Survey, ChangedSince, Stage, Diff
      <3>4. ASSUME NEW u \in Tickets
            PROVE  ~(Clean(u) \/ TooFewOrMany(u) \/ StageFails(u) \/ NothingStaged(u) \/ CommitFails(u))
        BY <3>2, <3>4, Zenon DEF Clean, TooFewOrMany, StageFails, NothingStaged, CommitFails
      <3>5. phase' # phase
        BY <1>1 DEF Commits
      <3>6. UNCHANGED phase
        BY <1>1, <2>4, <3>3, <3>4 DEF Next, vars, Write, Delete, StageElsewhere, CommitElsewhere
      <3> QED BY <3>5, <3>6
    <2> QED BY <2>3, <2>4
  <1>2. IInv /\ [Next]_vars =>
          [\A t \in Tickets : Commits(t) =>
             \A f \in Files : Older(t, f) => head'[f] = head[f] /\ index'[f] = index[f]]_vars
    BY <1>1
  <1> QED BY InitIInv, NextIInv, <1>2, PTL DEF Spec, OnlyItsOwn
=============================================================================
