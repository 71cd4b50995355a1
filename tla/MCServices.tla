----------------------------- MODULE MCServices -----------------------------
(***************************************************************************)
(* Parts of the system that share no state with each other, checked in     *)
(* one run: the records about tickets, the terminals, the panels, the      *)
(* canonical log, the commit of a ticket, the import of history and the    *)
(* processes of agents.  A behaviour stays in the world it starts in.      *)
(***************************************************************************)
EXTENDS TicketRecords, Sequences, TLC

CONSTANTS t1, w1, w2, f1, f2, Windows, Tabs, Sessions, Files, None,
          MaxHooks, MaxFaults, Words, BatchSize, MaxPrompts, MaxImports

VARIABLES world,
          entries, dying, records, file, conn, toServer, toWindow, tab, attached, listed,
          opened, events,
          kind, grave, phase, tried, said, silent, gate, outcome,
          work, index, head, stages, startedAt, listing, paths, time, writes, commits,
          cli, flagsKnown, settled, inFlight, probes, wants, last, unsupportedFlags, runsOf, installs,
          history, arriving, rows, stage, hashSet, unread, candidates, known, failed, run, asked,
          log, catalog, stream, queue, probing, imports, managed, hooks, clock, faults

terminals == <<entries, dying, records, file, conn, toServer, toWindow, tab, attached, listed,
               opened, events>>
panel == <<kind, grave, phase, tried, said, silent, gate, outcome>>
canonical == <<log, catalog, stream, queue, probing, imports, managed, hooks, clock, faults>>
commit == <<work, index, head, stages, startedAt, listing, paths, time, writes, commits>>
agents == <<cli, flagsKnown, settled, inFlight, probes, wants, last, unsupportedFlags, runsOf, installs>>
import == <<history, arriving, rows, stage, hashSet, unread, candidates, known, failed, run, asked>>

Terminal == INSTANCE Terminals WITH Offline <- FALSE, MaxEvents <- 3
ASSUME TabsAssumption == Terminal!IsFiniteSet(Tabs) /\ Null \notin Terminal!Entry

\* Three seats; two of the models a seat falls back on are served by one.
Roster == <<"a", "b", "c">>
Fallbacks == [a |-> <<"b", "x">>, b |-> <<"y", "c">>, c |-> <<"x">>]
Answering == [a |-> "a", b |-> "b", c |-> "c", x |-> "x", y |-> "x"]

\* Two groups; one of them sure, not sure, silent about it, or drastic.
Opinions == {[choice |-> "A", sure |-> None, drastic |-> FALSE],
             [choice |-> "A", sure |-> 3, drastic |-> FALSE],
             [choice |-> "A", sure |-> 8, drastic |-> TRUE],
             [choice |-> "B", sure |-> 8, drastic |-> FALSE]}
Panel == INSTANCE ReviewPanel

\* A start, an end, a tool that may ask, and a notification that may ask.
Kinds == {"SessionStart", "SessionEnd", "PreToolUse", "Notification"}
Canon == INSTANCE CanonicalLog

Committer == INSTANCE TicketCommit
  WITH phase <- stages, entries <- listing, clock <- time, Limit <- 1, MaxWrites <- 3, MaxCommits <- 1

\* Import: backfill refuses a batch size below 1.
ASSUME BatchAssumption == BatchSize \in Nat \ {0}

Import == INSTANCE HistoryImport
  WITH hooks <- arriving, clock <- asked, MaxRuns <- MaxImports

Agent == INSTANCE AgentRuns
  WITH listed <- cli, known <- flagsKnown, runs <- runsOf, changes <- installs, Flags <- {"--model", "--effort"},
       MaxRuns <- 3, MaxChanges <- 1

MCInit == /\ world \in {"records", "terminals", "panel", "log", "commit", "import", "agents"}
          /\ Init
          /\ Terminal!Init
          /\ Panel!Init /\ (world # "panel" => kind = "decision" /\ ~grave)
          /\ Canon!Init
          /\ Committer!Init
          /\ Import!Init
          /\ Agent!Init
          /\ world # "agents" => cli = {} /\ flagsKnown = {} /\ wants = [t \in Tickets |-> {}]

MCNext == \/ /\ world = "records"
             /\ Next
             /\ UNCHANGED <<world, terminals, panel, canonical, commit, import, agents>>
          \/ /\ world = "terminals"
             /\ Terminal!Next
             /\ UNCHANGED <<world, vars, panel, canonical, commit, import, agents>>
          \/ /\ world = "panel"
             /\ Panel!Next
             /\ UNCHANGED <<world, vars, terminals, canonical, commit, import, agents>>
          \/ /\ world = "log"
             /\ Canon!Next
             /\ UNCHANGED <<world, vars, terminals, panel, commit, import, agents>>
          \/ /\ world = "commit"
             /\ Committer!Next
             /\ UNCHANGED <<world, vars, terminals, panel, canonical, import, agents>>
          \/ /\ world = "import"
             /\ Import!Next
             /\ UNCHANGED <<world, vars, terminals, panel, canonical, commit, agents>>
          \/ /\ world = "agents"
             /\ Agent!Next
             /\ UNCHANGED <<world, vars, terminals, panel, canonical, commit, import>>

MCSpec == MCInit /\ [][MCNext]_<<world, vars, terminals, panel, canonical, commit, import, agents>>

\* No window is special.
Symmetry == Permutations(Windows)

-----------------------------------------------------------------------------
(* Terminals: a tab that looks alive is.                                   *)
RunningIsWatched == Terminal!RunningIsWatched

(* Terminals: every window knows what can be resumed.                      *)
ResumableIsListed == Terminal!ResumableIsListed

(* Panels: no answer is adopted on the word of one model.                  *)
AdoptedIsShared == Panel!AdoptedIsShared

(* Panels: no doubt about a finished ticket is lost on the way.            *)
DoubtIsShown == Panel!DoubtIsShown

(* Canonical log: the tree shows what the log says, in order of arrival.   *)
CatalogIsTheLog == Canon!CatalogIsTheLog

(* Commit: a ticket's commit leaves what is older than its run as it was.  *)
OnlyItsOwn == Committer!OnlyItsOwn

(* Import: running it again, or killing it, stores nothing twice and drops *)
(* nothing.                                                                *)
ImportIsIdempotent == Import!ImportIsIdempotent

(* Agents: no flag ends a run, no kill is lost in a probe, and what was    *)
(* dropped is told.                                                        *)
FlagsAreGuarded == Agent!FlagsAreGuarded
=============================================================================
