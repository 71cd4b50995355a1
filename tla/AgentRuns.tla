------------------------------ MODULE AgentRuns ------------------------------
(***************************************************************************)
(* The processes behind the runs of tickets: claude, started with the      *)
(* model and effort of the ticket where the target's claude has such       *)
(* flags (packages/server/src/executors/flagGuard.ts, agentFlags.ts,       *)
(* headlessClaude.ts, and the wiring in index.ts).  What --help lists is   *)
(* asked once and remembered; a claude that refuses a flag all the same is *)
(* started again without flags.                                            *)
(*                                                                         *)
(* One target is modelled; targets share nothing.                          *)
(***************************************************************************)
EXTENDS Naturals, FiniteSets

CONSTANTS
  Tickets,
  Flags,       \* "--model", "--effort"
  Null,
  MaxRuns,     \* bound on the runs of a ticket
  MaxChanges   \* bound on installations of another claude

VARIABLES
  listed, known,     \* the flags that --help lists, and those claude knows
  settled, inFlight, \* the cache: the answer, and the probe under way (0: none)
  probes,            \* the probes that have not ended
  wants,             \* ticket -> the flags it asks for
  last,              \* ticket -> its latest run
  unsupportedFlags,  \* ticket -> what its detail view says was dropped
  runs,              \* ticket -> runs
  changes

vars == <<listed, known, settled, inFlight, probes, wants, last, unsupportedFlags, runs, changes>>

claude == <<listed, known, changes>>
cache == <<settled, inFlight, probes>>

\* plain: without the retry; flagged: with it; bare: the retry.
Alive == {"plain", "flagged", "bare"}

Nothing == [phase |-> "none", probe |-> 0, passed |-> {}, refused |-> FALSE,
            killed |-> FALSE, signalled |-> FALSE, usage |-> FALSE]

Init == /\ listed \in SUBSET Flags /\ known \in SUBSET Flags
        /\ settled = Null /\ inFlight = 0 /\ probes = {}
        /\ wants \in [Tickets -> SUBSET Flags]
        /\ last = [t \in Tickets |-> 0]
        /\ unsupportedFlags = [t \in Tickets |-> {}]
        /\ runs = [t \in Tickets |-> [k \in 1..MaxRuns |-> Nothing]]
        /\ changes = 0

-----------------------------------------------------------------------------
\* Mutant: a kill that came during the probe is forgotten.
LaunchedMutant(t, run, support) ==
  [run EXCEPT !.phase = IF wants[t] \cap support = {} THEN "plain" ELSE "flagged",
              !.passed = wants[t] \cap support,
              !.refused = ~(wants[t] \cap support \subseteq known)]

\* The process starts with the supported flags; deferredHandle passes on the
\* kill that came before it.
Launched(t, run, support) ==
  LET passed == wants[t] \cap support
  IN [run EXCEPT !.phase = IF passed = {} THEN "plain" ELSE "flagged",
                 !.passed = passed,
                 !.refused = ~(passed \subseteq known),
                 !.signalled = run.killed]

Unsettled(t) == last[t] > 0 /\ ~runs[t][last[t]].killed /\ runs[t][last[t]].phase # "done"

\* A first run, or one that follows a run that ended or was cancelled.
Begins(t) == /\ ~Unsettled(t) /\ last[t] < MaxRuns
             /\ last' = [last EXCEPT ![t] = @ + 1]

Started(t, run) == runs' = [runs EXCEPT ![t][last'[t]] = run]

\* spawnWithFlagGuard without flags: as before there was a guard.
SpawnPlain(t) ==
  /\ Begins(t)
  /\ wants[t] = {}
  /\ Started(t, [Nothing EXCEPT !.phase = "plain"])
  /\ UNCHANGED <<claude, cache, wants, unsupportedFlags>>

\* ensure() with an answer in the cache.
SpawnKnown(t) ==
  /\ Begins(t)
  /\ wants[t] # {} /\ settled # Null
  /\ Started(t, Launched(t, Nothing, settled))
  /\ unsupportedFlags' = [unsupportedFlags EXCEPT ![t] = wants[t] \ settled]
  /\ UNCHANGED <<claude, cache, wants>>

NewProbe == CHOOSE p \in 1..(Cardinality(probes) + 1) : p \notin probes

\* ensure() without: the run joins the probe under way, or begins one.
SpawnProbing(t) ==
  /\ Begins(t)
  /\ wants[t] # {} /\ settled = Null
  /\ inFlight' = IF inFlight = 0 THEN NewProbe ELSE inFlight
  /\ probes' = probes \cup {inFlight'}
  /\ Started(t, [Nothing EXCEPT !.phase = "probing", !.probe = inFlight'])
  /\ UNCHANGED <<claude, settled, wants, unsupportedFlags>>

Waiting(t, p) == {k \in 1..MaxRuns : runs[t][k].phase = "probing" /\ runs[t][k].probe = p}

\* The help is read, or not: then nothing is supported, from now on.  Every
\* run that waited goes on.
ProbeEnds(p) ==
  /\ p \in probes
  /\ probes' = probes \ {p}
  /\ inFlight' = 0
  /\ settled' \in {listed, {}}
  /\ runs' = [t \in Tickets |-> [k \in 1..MaxRuns |->
                IF k \in Waiting(t, p) THEN Launched(t, runs[t][k], settled') ELSE runs[t][k]]]
  /\ unsupportedFlags' = [t \in Tickets |->
                IF Waiting(t, p) # {} THEN wants[t] \ settled' ELSE unsupportedFlags[t]]
  /\ UNCHANGED <<claude, wants, last>>

\* The handle of a run that was started again is that of its first process.
Kill(t, k) ==
  /\ runs[t][k].phase \in Alive \cup {"probing"} /\ ~runs[t][k].killed
  /\ runs' = [runs EXCEPT ![t][k].killed = TRUE,
                          ![t][k].signalled = runs[t][k].phase \in {"plain", "flagged"}]
  /\ UNCHANGED <<claude, cache, wants, last, unsupportedFlags>>

\* Mutant: the outcome is passed on as it is.
RefusedMutant(t, k) ==
  /\ runs[t][k].phase = "flagged" /\ runs[t][k].refused
  /\ runs' = [runs EXCEPT ![t][k].phase = "done", ![t][k].usage = TRUE]
  /\ UNCHANGED <<claude, cache, wants, last, unsupportedFlags>>

\* "unknown option": the answer of the probe is dropped and the run started
\* again, once; the ticket is told of the flags that were passed.
Refused(t, k) ==
  /\ runs[t][k].phase = "flagged" /\ runs[t][k].refused
  /\ settled' = Null /\ inFlight' = 0
  /\ unsupportedFlags' = [unsupportedFlags EXCEPT ![t] = runs[t][k].passed]
  /\ runs' = [runs EXCEPT ![t][k].phase = "bare", ![t][k].signalled = FALSE]
  /\ UNCHANGED <<claude, probes, wants, last>>

\* The process ends, by itself or by the signal.
Exits(t, k) ==
  /\ runs[t][k].phase \in Alive
  /\ runs[t][k].refused /\ runs[t][k].phase = "flagged" => runs[t][k].signalled
  /\ runs' = [runs EXCEPT ![t][k].phase = "done"]
  /\ UNCHANGED <<claude, cache, wants, last, unsupportedFlags>>

\* Another claude is installed on the target.
Install == /\ changes < MaxChanges /\ changes' = changes + 1
           /\ listed' \in SUBSET Flags /\ known' \in SUBSET Flags
           /\ UNCHANGED <<cache, wants, last, unsupportedFlags, runs>>

Next == \/ \E t \in Tickets : \/ SpawnPlain(t) \/ SpawnKnown(t) \/ SpawnProbing(t)
                              \/ \E k \in 1..MaxRuns : Kill(t, k) \/ Refused(t, k) \/ Exits(t, k)
        \/ \E p \in probes : ProbeEnds(p)
        \/ Install

Spec == Init /\ [][Next]_vars

-----------------------------------------------------------------------------
(* "kill() arrived while the probe was in flight": a process with flags,   *)
(* or one that needed none, lives on after a cancel only until the signal  *)
(* it was sent reaches it.  (The retry of a refused run is out of reach.)  *)
KillArrives ==
  \A t \in Tickets, k \in 1..MaxRuns :
    (runs[t][k].killed /\ runs[t][k].phase \in {"plain", "flagged"}) => runs[t][k].signalled

(* "the ticket died, which is the one outcome this feature must not        *)
(* introduce": no run ends with a usage error, whichever claude is         *)
(* installed while the answer about another is remembered.                 *)
NoFlagKills == \A t \in Tickets, k \in 1..MaxRuns : ~runs[t][k].usage

(* "so the UI never claims an effort that never happened": what the ticket *)
(* says was dropped is what its latest run went without, though earlier    *)
(* runs of it may still wait for the same probe.  (Until claude refuses    *)
(* what it lists: the retry tells of the flags passed first, and no longer *)
(* of those that the probe dropped, and it lets a second probe begin.)     *)
DroppedIsTold ==
  (\A t \in Tickets, k \in 1..MaxRuns : ~runs[t][k].refused) =>
    \A t \in Tickets : LET latest == runs[t][last[t]]
                      IN (last[t] > 0 /\ latest.phase \in Alive) =>
                           unsupportedFlags[t] = wants[t] \ latest.passed

(* "concurrent callers share the in-flight probe": a run that waits waits  *)
(* for a probe that will end, whoever drops the answer meanwhile.          *)
WaitIsForAProbe ==
  \A t \in Tickets, k \in 1..MaxRuns : runs[t][k].phase = "probing" => runs[t][k].probe \in probes

FlagsAreGuarded == KillArrives /\ NoFlagKills /\ DroppedIsTold /\ WaitIsForAProbe
=============================================================================
