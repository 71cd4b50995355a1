-------------------------- MODULE AgentRunsProofs --------------------------
(***************************************************************************)
(* The guard around a spawn, for any tickets, flags and number of runs.    *)
(* What a ticket is told of dropped flags holds because, until claude      *)
(* refuses a flag, there is one probe at most and none once the answer is  *)
(* known: all the runs that wait learn it in one step.                     *)
(***************************************************************************)
EXTENDS AgentRuns, FiniteSetTheorems, TLAPS

Run == [phase : {"none", "probing", "done"} \cup Alive, probe : Nat,
        passed : SUBSET Flags, refused : BOOLEAN,
        killed : BOOLEAN, signalled : BOOLEAN, usage : BOOLEAN]

TypeOK == /\ listed \in SUBSET Flags /\ known \in SUBSET Flags
          /\ inFlight \in Nat /\ probes \in SUBSET Nat /\ IsFiniteSet(probes)
          /\ settled \in (SUBSET Flags) \cup {Null}
          /\ wants \in [Tickets -> SUBSET Flags]
          /\ last \in [Tickets -> 0..MaxRuns]
          /\ unsupportedFlags \in [Tickets -> SUBSET Flags]
          /\ runs \in [Tickets -> [1..MaxRuns -> Run]]

Calm == \A t \in Tickets, k \in 1..MaxRuns : ~runs[t][k].refused

\* Runs begin in order, are refused after their launch, and pass, or tell
\* of, nothing the ticket did not ask for.
RunsAreSound ==
  \A t \in Tickets :
    /\ unsupportedFlags[t] \subseteq wants[t]
    /\ \A k \in 1..MaxRuns :
         /\ k > last[t] => runs[t][k] = Nothing
         /\ runs[t][k].phase = "probing" => ~runs[t][k].refused
         /\ runs[t][k].passed \subseteq wants[t]

OneProbe == Calm => /\ probes \subseteq {inFlight}
                    /\ 0 \notin probes
                    /\ settled # Null => probes = {}

\* A run that waits is not overtaken by one that got its answer.
NoneOvertakes ==
  Calm => \A t \in Tickets, k \in 1..MaxRuns :
            (runs[t][k].phase = "probing" /\ last[t] > 0 /\ wants[t] # {})
              => runs[t][last[t]].phase \notin Alive

IInv == TypeOK /\ RunsAreSound /\ OneProbe /\ NoneOvertakes /\ FlagsAreGuarded

LEMMA InitIInv ==
  ASSUME MaxRuns \in Nat
  PROVE  Init => IInv
<1> SUFFICES ASSUME Init
             PROVE  IInv
  OBVIOUS
<1>1. Nothing \in Run
  BY DEF Nothing, Run
<1>2. \A t \in Tickets, k \in 1..MaxRuns : runs[t][k] = Nothing
  BY DEF Init
<1>3. TypeOK
  <2>1. last \in [Tickets -> 0..MaxRuns]
    BY DEF Init
  <2>2. runs \in [Tickets -> [1..MaxRuns -> Run]]
    BY <1>1 DEF Init
  <2>3. unsupportedFlags \in [Tickets -> SUBSET Flags]
    BY DEF Init
  <2>4. IsFiniteSet(probes)
    BY FS_EmptySet DEF Init
  <2> QED
    BY <2>1, <2>2, <2>3, <2>4 DEF Init, TypeOK
<1>4. RunsAreSound
  BY <1>2, <1>3 DEF Init, RunsAreSound, Nothing
<1>5. OneProbe /\ NoneOvertakes
  BY <1>2 DEF Init, OneProbe, NoneOvertakes, Nothing
<1>6. FlagsAreGuarded
  BY <1>2 DEF Init, FlagsAreGuarded, KillArrives, NoFlagKills, DroppedIsTold, WaitIsForAProbe,
              Nothing
<1> QED
  BY <1>3, <1>4, <1>5, <1>6 DEF IInv

LEMMA LaunchedRun ==
  ASSUME NEW t \in Tickets, wants \in [Tickets -> SUBSET Flags],
         NEW run \in Run, NEW support \in SUBSET Flags
  PROVE  /\ Launched(t, run, support) \in Run
         /\ Launched(t, run, support).phase \in {"plain", "flagged"}
         /\ Launched(t, run, support).passed = wants[t] \cap support
         /\ Launched(t, run, support).killed = run.killed
         /\ Launched(t, run, support).signalled = run.killed
         /\ Launched(t, run, support).usage = run.usage
BY DEF Launched, Run, Alive

\* A run that begins takes the place of none.
LEMMA Begun ==
  ASSUME MaxRuns \in Nat, IInv, NEW t \in Tickets, NEW run \in Run, Begins(t), Started(t, run)
  PROVE  /\ last' \in [Tickets -> 0..MaxRuns]
         /\ last'[t] \in 1..MaxRuns /\ last'[t] = last[t] + 1
         /\ \A u \in Tickets : u # t => last'[u] = last[u] /\ runs'[u] = runs[u]
         /\ runs[t][last'[t]] = Nothing
         /\ runs' \in [Tickets -> [1..MaxRuns -> Run]]
         /\ runs'[t][last'[t]] = run
         /\ \A u \in Tickets, k \in 1..MaxRuns :
              (u # t \/ k # last'[t]) => runs'[u][k] = runs[u][k]
<1> USE DEF IInv, TypeOK
<1>1. last[t] \in 0..MaxRuns /\ last[t] < MaxRuns /\ last' = [last EXCEPT ![t] = last[t] + 1]
  BY DEF Begins
<1>2. last' \in [Tickets -> 0..MaxRuns] /\ last'[t] \in 1..MaxRuns /\ last'[t] = last[t] + 1
      /\ \A u \in Tickets : u # t => last'[u] = last[u]
  BY <1>1
<1>3. runs[t][last'[t]] = Nothing
  BY <1>1, <1>2 DEF RunsAreSound
<1>4. runs' = [runs EXCEPT ![t][last'[t]] = run]
  BY DEF Started
<1> QED
  BY <1>2, <1>3, <1>4

\* What the three ways to begin have in common.
LEMMA SpawnKeeps ==
  ASSUME MaxRuns \in Nat, IInv, NEW t \in Tickets, NEW run \in Run, Begins(t), Started(t, run),
         wants' = wants,
         run.phase \in {"plain", "flagged", "probing"},
         run.passed \subseteq wants[t],
         run.phase = "probing" => ~run.refused /\ run.probe \in probes',
         ~run.killed, ~run.usage,
         UNCHANGED claude, inFlight' \in Nat, probes' \in SUBSET Nat, IsFiniteSet(probes'),
         settled' \in (SUBSET Flags) \cup {Null},
         unsupportedFlags' \in [Tickets -> SUBSET Flags],
         \A u \in Tickets : u # t => unsupportedFlags'[u] = unsupportedFlags[u],
         unsupportedFlags'[t] \subseteq wants[t],
         run.phase # "probing" => unsupportedFlags'[t] = wants[t] \ run.passed,
         probes \subseteq probes',
         (Calm /\ run.phase # "probing" /\ wants[t] # {}) => probes = {},
         Calm => OneProbe'
  PROVE  IInv'
<1> DEFINE new == last'[t]
<1>1. /\ last' \in [Tickets -> 0..MaxRuns]
      /\ new \in 1..MaxRuns /\ new = last[t] + 1
      /\ \A u \in Tickets : u # t => last'[u] = last[u] /\ runs'[u] = runs[u]
      /\ runs[t][new] = Nothing
      /\ runs' \in [Tickets -> [1..MaxRuns -> Run]]
      /\ runs'[t][new] = run
      /\ \A u \in Tickets, k \in 1..MaxRuns : (u # t \/ k # new) => runs'[u][k] = runs[u][k]
  BY Begun
<1> HIDE DEF new
<1>2. last'[t] = new
  BY DEF new
<1>3. Calm' => Calm
  <2> SUFFICES ASSUME Calm', NEW u \in Tickets, NEW k \in 1..MaxRuns
               PROVE  ~runs[u][k].refused
    BY DEF Calm
  <2>1. CASE u # t \/ k # new
    BY <1>1, <2>1, runs'[u][k] = runs[u][k] DEF Calm
  <2>2. CASE u = t /\ k = new
    BY <1>1, <2>2 DEF Nothing
  <2> QED
    BY <2>1, <2>2
<1>4. TypeOK'
  BY <1>1 DEF IInv, TypeOK, claude
<1>5. RunsAreSound'
  <2> SUFFICES ASSUME NEW u \in Tickets
               PROVE  /\ unsupportedFlags'[u] \subseteq wants'[u]
                      /\ \A k \in 1..MaxRuns :
                           /\ k > last'[u] => runs'[u][k] = Nothing
                           /\ runs'[u][k].phase = "probing" => ~runs'[u][k].refused
                           /\ runs'[u][k].passed \subseteq wants'[u]
    BY DEF RunsAreSound
  <2>1. CASE u # t
    <3>1. last'[u] = last[u] /\ runs'[u] = runs[u] /\ unsupportedFlags'[u] = unsupportedFlags[u]
      BY <1>1, <2>1
    <3> QED
      BY <3>1 DEF IInv, RunsAreSound
  <2>2. CASE u = t
    <3>1. last[t] \in Int
      BY DEF IInv, TypeOK
    <3> SUFFICES ASSUME NEW k \in 1..MaxRuns
                 PROVE  /\ k > new => runs'[t][k] = Nothing
                        /\ runs'[t][k].phase = "probing" => ~runs'[t][k].refused
                        /\ runs'[t][k].passed \subseteq wants[t]
      BY <1>2, <2>2
    <3>2. CASE k = new
      BY <1>1, <3>2
    <3>3. CASE k # new
      <4>1. runs'[t][k] = runs[t][k] /\ (k > new => k > last[t])
        BY <1>1, <3>1, <3>3
      <4> QED
        BY <4>1 DEF IInv, RunsAreSound
    <3> QED
      BY <3>2, <3>3
  <2> QED
    BY <2>1, <2>2
<1>6. OneProbe'
  BY <1>3 DEF OneProbe
<1>7. NoneOvertakes'
  <2> SUFFICES ASSUME Calm', NEW u \in Tickets, NEW k \in 1..MaxRuns,
                      runs'[u][k].phase = "probing", last'[u] > 0, wants'[u] # {}
               PROVE  runs'[u][last'[u]].phase \notin Alive
    BY DEF NoneOvertakes
  <2>1. CASE u # t
    <3>1. last'[u] = last[u] /\ runs'[u] = runs[u]
      BY <1>1, <2>1
    <3> QED
      BY <1>3, <3>1 DEF IInv, NoneOvertakes
  <2>2. CASE u = t /\ run.phase = "probing"
    BY <1>1, <1>2, <2>2 DEF Alive
  <2>3. CASE u = t /\ run.phase # "probing"
    <3>1. runs[t][k].phase = "probing" /\ probes = {}
      BY <1>1, <1>3, <2>3
    <3> QED
      BY <3>1 DEF IInv, FlagsAreGuarded, WaitIsForAProbe
  <2> QED
    BY <2>1, <2>2, <2>3
<1>8. KillArrives' /\ NoFlagKills' /\ WaitIsForAProbe'
  <2> SUFFICES ASSUME NEW u \in Tickets, NEW k \in 1..MaxRuns
               PROVE  /\ (runs'[u][k].killed /\ runs'[u][k].phase \in {"plain", "flagged"})
                            => runs'[u][k].signalled
                      /\ ~runs'[u][k].usage
                      /\ runs'[u][k].phase = "probing" => runs'[u][k].probe \in probes'
    BY DEF KillArrives, NoFlagKills, WaitIsForAProbe
  <2>1. CASE u # t \/ k # new
    BY <1>1, <2>1 DEF IInv, FlagsAreGuarded, KillArrives, NoFlagKills, WaitIsForAProbe
  <2>2. CASE u = t /\ k = new
    BY <1>1, <2>2
  <2> QED
    BY <2>1, <2>2
<1>9. DroppedIsTold'
  <2> SUFFICES ASSUME Calm', NEW u \in Tickets,
                      last'[u] > 0, runs'[u][last'[u]].phase \in Alive
               PROVE  unsupportedFlags'[u] = wants'[u] \ runs'[u][last'[u]].passed
    BY DEF DroppedIsTold, Calm
  <2>1. CASE u # t
    <3>1. last'[u] = last[u] /\ runs'[u] = runs[u]
      BY <1>1, <2>1
    <3> QED
      BY <1>3, <2>1, <3>1 DEF IInv, FlagsAreGuarded, DroppedIsTold, Calm
  <2>2. CASE u = t
    BY <1>1, <1>2, <2>2 DEF Alive
  <2> QED
    BY <2>1, <2>2
<1> QED
  BY <1>4, <1>5, <1>6, <1>7, <1>8, <1>9 DEF IInv, FlagsAreGuarded

LEMMA NothingRun == Nothing \in Run
BY DEF Nothing, Run

LEMMA SpawnPlainKeeps ==
  ASSUME MaxRuns \in Nat, IInv, NEW t \in Tickets, SpawnPlain(t)
  PROVE  IInv'
<1> DEFINE run == [Nothing EXCEPT !.phase = "plain"]
<1>1. run \in Run /\ run.phase = "plain" /\ run.passed = {} /\ ~run.killed /\ ~run.usage
  BY DEF Run, Alive, Nothing
<1>2. Begins(t) /\ Started(t, run) /\ wants[t] = {}
      /\ UNCHANGED <<claude, settled, inFlight, probes, wants, unsupportedFlags>>
  BY DEF SpawnPlain, cache
<1> HIDE DEF run
<1>3. unsupportedFlags[t] \subseteq wants[t]
  BY DEF IInv, RunsAreSound
<1>4. Calm => OneProbe'
  BY <1>2 DEF IInv, OneProbe
<1> QED
  BY <1>1, <1>2, <1>3, <1>4, SpawnKeeps DEF IInv, TypeOK

LEMMA SpawnKnownKeeps ==
  ASSUME MaxRuns \in Nat, IInv, NEW t \in Tickets, SpawnKnown(t)
  PROVE  IInv'
<1> DEFINE run == Launched(t, Nothing, settled)
<1>1. Begins(t) /\ Started(t, run) /\ settled # Null
      /\ UNCHANGED <<claude, settled, inFlight, probes, wants>>
      /\ unsupportedFlags' = [unsupportedFlags EXCEPT ![t] = wants[t] \ settled]
  BY DEF SpawnKnown, cache
<1>2. settled \in SUBSET Flags /\ wants \in [Tickets -> SUBSET Flags]
  BY <1>1 DEF IInv, TypeOK
<1>3. /\ run \in Run /\ run.phase \in {"plain", "flagged"}
      /\ run.passed = wants[t] \cap settled
      /\ ~run.killed /\ ~run.usage
  BY <1>2, NothingRun, LaunchedRun DEF Nothing
<1> HIDE DEF run
<1>4. /\ unsupportedFlags' \in [Tickets -> SUBSET Flags]
      /\ \A u \in Tickets : u # t => unsupportedFlags'[u] = unsupportedFlags[u]
      /\ unsupportedFlags'[t] = wants[t] \ run.passed
      /\ unsupportedFlags'[t] \subseteq wants[t]
      /\ run.passed \subseteq wants[t]
  BY <1>1, <1>2, <1>3 DEF IInv, TypeOK
<1>5. Calm => probes = {} /\ OneProbe'
  BY <1>1 DEF IInv, OneProbe
<1> QED
  BY <1>1, <1>2, <1>3, <1>4, <1>5, SpawnKeeps DEF IInv, TypeOK

\* NewProbe: among more numbers than there are probes, one is free.
LEMMA NewProbeIsNew ==
  ASSUME IsFiniteSet(probes)
  PROVE  NewProbe \in Nat \ {0}
<1> DEFINE n == Cardinality(probes)
           numbers == 1..(n + 1)
<1>1. n \in Nat
  BY FS_CardinalityType
<1>2. IsFiniteSet(numbers) /\ Cardinality(numbers) = n + 1
  BY <1>1, FS_Interval
<1> HIDE DEF n, numbers
<1>3. \E p \in numbers : p \notin probes
  <2>1. CASE numbers \subseteq probes
    <3>1. Cardinality(numbers) <= Cardinality(probes)
      BY <2>1, FS_Subset
    <3> QED
      BY <1>1, <1>2, <3>1 DEF n
  <2> QED
    BY <2>1
<1>4. NewProbe \in numbers
  BY <1>3 DEF NewProbe, numbers, n
<1> QED
  BY <1>1, <1>4 DEF numbers

LEMMA SpawnProbingKeeps ==
  ASSUME MaxRuns \in Nat, IInv, NEW t \in Tickets, SpawnProbing(t)
  PROVE  IInv'
<1> DEFINE run == [Nothing EXCEPT !.phase = "probing", !.probe = inFlight']
<1>1. /\ Begins(t) /\ Started(t, run) /\ settled = Null
      /\ inFlight' = (IF inFlight = 0 THEN NewProbe ELSE inFlight)
      /\ probes' = probes \cup {inFlight'}
      /\ UNCHANGED <<claude, settled, wants, unsupportedFlags>>
  BY DEF SpawnProbing
<1>2. inFlight' \in Nat \ {0}
  BY <1>1, NewProbeIsNew DEF IInv, TypeOK
<1>3. probes' \in SUBSET Nat /\ IsFiniteSet(probes')
  BY <1>1, <1>2, FS_AddElement DEF IInv, TypeOK
<1>4. /\ run \in Run /\ run.phase = "probing" /\ run.probe = inFlight' /\ run.passed = {}
      /\ ~run.refused /\ ~run.killed /\ ~run.usage
  BY <1>2 DEF Run, Alive, Nothing
<1> HIDE DEF run
<1>5. Calm => OneProbe'
  <2> SUFFICES ASSUME Calm
               PROVE  probes' \subseteq {inFlight'} /\ 0 \notin probes' /\ settled' = Null
    BY DEF OneProbe
  <2>1. probes \subseteq {inFlight} /\ 0 \notin probes
    BY DEF IInv, OneProbe
  <2> QED
    BY <1>1, <1>2, <2>1
<1>6. unsupportedFlags[t] \subseteq wants[t]
  BY DEF IInv, RunsAreSound
<1> QED
  BY <1>1, <1>2, <1>3, <1>4, <1>5, <1>6, SpawnKeeps DEF IInv, TypeOK

-----------------------------------------------------------------------------
(* The steps of runs that have begun.                                      *)

\* A step that changes nothing but one run, and tells the ticket nothing.
LEMMA RunKeeps ==
  ASSUME MaxRuns \in Nat, IInv, NEW t \in Tickets, NEW k \in 1..MaxRuns, NEW run \in Run,
         runs' = [runs EXCEPT ![t][k] = run],
         UNCHANGED <<claude, settled, inFlight, probes, wants, last, unsupportedFlags>>,
         runs[t][k].phase # "none",
         run.phase \in {runs[t][k].phase, "done"},
         run.refused = runs[t][k].refused, run.passed = runs[t][k].passed,
         run.usage = runs[t][k].usage, run.probe = runs[t][k].probe,
         run.killed /\ run.phase \in {"plain", "flagged"} => run.signalled
  PROVE  IInv'
<1>1. /\ runs' \in [Tickets -> [1..MaxRuns -> Run]]
      /\ runs'[t][k] = run
      /\ \A u \in Tickets, j \in 1..MaxRuns : (u # t \/ j # k) => runs'[u][j] = runs[u][j]
  BY DEF IInv, TypeOK
<1>2. \A u \in Tickets, j \in 1..MaxRuns :
        /\ runs'[u][j].refused = runs[u][j].refused
        /\ runs'[u][j].passed = runs[u][j].passed
        /\ runs'[u][j].usage = runs[u][j].usage
        /\ runs'[u][j].probe = runs[u][j].probe
        /\ runs'[u][j].phase \in {runs[u][j].phase, "done"}
  <2> SUFFICES ASSUME NEW u \in Tickets, NEW j \in 1..MaxRuns
               PROVE  /\ runs'[u][j].refused = runs[u][j].refused
                      /\ runs'[u][j].passed = runs[u][j].passed
                      /\ runs'[u][j].usage = runs[u][j].usage
                      /\ runs'[u][j].probe = runs[u][j].probe
                      /\ runs'[u][j].phase \in {runs[u][j].phase, "done"}
    OBVIOUS
  <2>1. CASE u # t \/ j # k
    BY <1>1, <2>1, runs'[u][j] = runs[u][j]
  <2>2. CASE u = t /\ j = k
    BY <1>1, <2>2
  <2> QED
    BY <2>1, <2>2
<1>3. Calm' <=> Calm
  BY <1>2 DEF Calm
<1>4. TypeOK'
  BY <1>1 DEF IInv, TypeOK, claude
<1>5. RunsAreSound'
  <2> SUFFICES ASSUME NEW u \in Tickets, NEW j \in 1..MaxRuns
               PROVE  /\ unsupportedFlags[u] \subseteq wants[u]
                      /\ j > last[u] => runs'[u][j] = Nothing
                      /\ runs'[u][j].phase = "probing" => ~runs'[u][j].refused
                      /\ runs'[u][j].passed \subseteq wants[u]
    BY DEF RunsAreSound, IInv
  <2>1. /\ unsupportedFlags[u] \subseteq wants[u]
        /\ j > last[u] => runs[u][j] = Nothing
        /\ runs[u][j].phase = "probing" => ~runs[u][j].refused
        /\ runs[u][j].passed \subseteq wants[u]
    BY DEF RunsAreSound, IInv
  <2>2. j > last[u] => runs'[u][j] = Nothing
    BY <1>1, <2>1 DEF Nothing
  <2> QED
    BY <1>2, <2>1, <2>2
<1>6. OneProbe'
  BY <1>3 DEF IInv, OneProbe
<1>7. \A u \in Tickets : last[u] > 0 => last[u] \in 1..MaxRuns
  BY DEF IInv, TypeOK
<1>8. NoneOvertakes'
  BY <1>2, <1>3, <1>7 DEF IInv, NoneOvertakes, Alive
<1>9. KillArrives' /\ NoFlagKills' /\ WaitIsForAProbe'
  <2>1. KillArrives'
    BY <1>1 DEF IInv, FlagsAreGuarded, KillArrives
  <2>2. NoFlagKills' /\ WaitIsForAProbe'
    BY <1>2 DEF IInv, FlagsAreGuarded, NoFlagKills, WaitIsForAProbe
  <2> QED
    BY <2>1, <2>2
<1>10. DroppedIsTold'
  BY <1>2, <1>3, <1>7 DEF IInv, FlagsAreGuarded, DroppedIsTold, Calm, Alive
<1> QED
  BY <1>4, <1>5, <1>6, <1>8, <1>9, <1>10 DEF IInv, FlagsAreGuarded

LEMMA KillKeeps ==
  ASSUME MaxRuns \in Nat, IInv, NEW t \in Tickets, NEW k \in 1..MaxRuns, Kill(t, k)
  PROVE  IInv'
<1> DEFINE reached == runs[t][k].phase \in {"plain", "flagged"}
           run == [runs[t][k] EXCEPT !.killed = TRUE, !.signalled = reached]
<1>0. reached \in BOOLEAN
  OBVIOUS
<1> HIDE DEF reached
<1>1. runs[t][k] \in Run /\ runs \in [Tickets -> [1..MaxRuns -> Run]]
  BY DEF IInv, TypeOK
<1>2. runs' = [runs EXCEPT ![t][k] = run]
  BY <1>1 DEF Kill, Run, reached
<1>3. UNCHANGED <<claude, settled, inFlight, probes, wants, last, unsupportedFlags>>
  BY DEF Kill, cache
<1>4. runs[t][k].phase # "none"
  BY DEF Kill, Alive
<1>5. run \in Run /\ run.phase = runs[t][k].phase
      /\ run.refused = runs[t][k].refused /\ run.passed = runs[t][k].passed
      /\ run.usage = runs[t][k].usage /\ run.probe = runs[t][k].probe
      /\ run.signalled = reached
  BY <1>0, <1>1 DEF Run
<1> HIDE DEF run
<1>6. run.phase \in {"plain", "flagged"} => run.signalled
  BY <1>5 DEF reached
<1> QED
  BY <1>2, <1>3, <1>4, <1>5, <1>6, RunKeeps

LEMMA ExitsKeeps ==
  ASSUME MaxRuns \in Nat, IInv, NEW t \in Tickets, NEW k \in 1..MaxRuns, Exits(t, k)
  PROVE  IInv'
<1> DEFINE run == [runs[t][k] EXCEPT !.phase = "done"]
<1>1. runs[t][k] \in Run /\ runs \in [Tickets -> [1..MaxRuns -> Run]]
  BY DEF IInv, TypeOK
<1>2. runs' = [runs EXCEPT ![t][k] = run]
  BY <1>1 DEF Exits, Run
<1>3. UNCHANGED <<claude, settled, inFlight, probes, wants, last, unsupportedFlags>>
  BY DEF Exits, cache
<1>4. runs[t][k].phase # "none"
  BY DEF Exits, Alive
<1>5. run \in Run /\ run.phase = "done"
      /\ run.refused = runs[t][k].refused /\ run.passed = runs[t][k].passed
      /\ run.usage = runs[t][k].usage /\ run.probe = runs[t][k].probe
  BY <1>1 DEF Run
<1> HIDE DEF run
<1> QED
  BY <1>2, <1>3, <1>4, <1>5, RunKeeps

\* From here on nothing is said of what a ticket is told.
LEMMA RefusedKeeps ==
  ASSUME MaxRuns \in Nat, IInv, NEW t \in Tickets, NEW k \in 1..MaxRuns, Refused(t, k)
  PROVE  IInv'
<1> DEFINE run == [runs[t][k] EXCEPT !.phase = "bare", !.signalled = FALSE]
<1>1. runs[t][k] \in Run /\ runs \in [Tickets -> [1..MaxRuns -> Run]]
  BY DEF IInv, TypeOK
<1>2. /\ runs' = [runs EXCEPT ![t][k] = run]
      /\ runs[t][k].phase = "flagged" /\ runs[t][k].refused
      /\ settled' = Null /\ inFlight' = 0
      /\ unsupportedFlags' = [unsupportedFlags EXCEPT ![t] = runs[t][k].passed]
      /\ UNCHANGED <<claude, probes, wants, last>>
  BY <1>1 DEF Refused, Run
<1>3. /\ run \in Run /\ run.phase = "bare" /\ run.refused
      /\ run.passed = runs[t][k].passed /\ run.usage = runs[t][k].usage
  BY <1>1, <1>2 DEF Run, Alive
<1> HIDE DEF run
<1>4. /\ runs' \in [Tickets -> [1..MaxRuns -> Run]]
      /\ runs'[t][k] = run
      /\ \A u \in Tickets, j \in 1..MaxRuns : (u # t \/ j # k) => runs'[u][j] = runs[u][j]
  BY <1>1, <1>2, <1>3
<1>5. ~Calm'
  BY <1>3, <1>4 DEF Calm
<1>6. runs[t][k].passed \in SUBSET Flags /\ runs[t][k].passed \subseteq wants[t]
  BY <1>1 DEF IInv, RunsAreSound, Run
<1>7. /\ unsupportedFlags' \in [Tickets -> SUBSET Flags]
      /\ \A u \in Tickets : unsupportedFlags'[u] \subseteq wants'[u]
  BY <1>2, <1>6 DEF IInv, TypeOK, RunsAreSound
<1>8. TypeOK'
  BY <1>2, <1>4, <1>7 DEF IInv, TypeOK, claude
<1>9. \A u \in Tickets, j \in 1..MaxRuns :
        /\ j > last'[u] => runs'[u][j] = Nothing
        /\ runs'[u][j].phase = "probing" => ~runs'[u][j].refused
        /\ runs'[u][j].passed \subseteq wants'[u]
        /\ (runs'[u][j].killed /\ runs'[u][j].phase \in {"plain", "flagged"})
              => runs'[u][j].signalled
        /\ ~runs'[u][j].usage
        /\ runs'[u][j].phase = "probing" => runs'[u][j].probe \in probes'
  <2> SUFFICES ASSUME NEW u \in Tickets, NEW j \in 1..MaxRuns
               PROVE  /\ j > last'[u] => runs'[u][j] = Nothing
                      /\ runs'[u][j].phase = "probing" => ~runs'[u][j].refused
                      /\ runs'[u][j].passed \subseteq wants'[u]
                      /\ (runs'[u][j].killed /\ runs'[u][j].phase \in {"plain", "flagged"})
                            => runs'[u][j].signalled
                      /\ ~runs'[u][j].usage
                      /\ runs'[u][j].phase = "probing" => runs'[u][j].probe \in probes'
    OBVIOUS
  <2>1. /\ j > last[u] => runs[u][j] = Nothing
        /\ runs[u][j].phase = "probing" => ~runs[u][j].refused
        /\ runs[u][j].passed \subseteq wants[u]
        /\ (runs[u][j].killed /\ runs[u][j].phase \in {"plain", "flagged"})
              => runs[u][j].signalled
        /\ ~runs[u][j].usage
        /\ runs[u][j].phase = "probing" => runs[u][j].probe \in probes
    BY DEF IInv, RunsAreSound, FlagsAreGuarded, KillArrives, NoFlagKills, WaitIsForAProbe
  <2>2. CASE u # t \/ j # k
    BY <1>2, <1>4, <2>1, <2>2, runs'[u][j] = runs[u][j]
  <2>3. CASE u = t /\ j = k
    BY <1>2, <1>3, <1>4, <2>1, <2>3 DEF Nothing
  <2> QED
    BY <2>2, <2>3
<1>10. RunsAreSound' /\ KillArrives' /\ NoFlagKills' /\ WaitIsForAProbe'
  BY <1>7, <1>9 DEF RunsAreSound, KillArrives, NoFlagKills, WaitIsForAProbe
<1>11. OneProbe' /\ NoneOvertakes' /\ DroppedIsTold'
  BY <1>5 DEF OneProbe, NoneOvertakes, DroppedIsTold, Calm
<1> QED
  BY <1>8, <1>10, <1>11 DEF IInv, FlagsAreGuarded

\* All that wait learn the answer: until a flag is refused they wait for
\* this probe, and no other is under way.
LEMMA ProbeEndsKeeps ==
  ASSUME MaxRuns \in Nat, IInv, NEW p \in probes, ProbeEnds(p)
  PROVE  IInv'
<1> DEFINE Waits(u, j) == runs[u][j].phase = "probing" /\ runs[u][j].probe = p
<1>1. /\ probes' = probes \ {p} /\ inFlight' = 0
      /\ UNCHANGED <<wants, last>>
      /\ runs \in [Tickets -> [1..MaxRuns -> Run]] /\ wants \in [Tickets -> SUBSET Flags]
  BY DEF ProbeEnds, IInv, TypeOK
<1>2. settled' \in SUBSET Flags
  BY DEF ProbeEnds, IInv, TypeOK
<1>3. \A u \in Tickets, j \in 1..MaxRuns : runs[u][j] \in Run
  BY <1>1
<1>4. \A u \in Tickets, j \in 1..MaxRuns :
        IF Waits(u, j) THEN runs'[u][j] = Launched(u, runs[u][j], settled')
                       ELSE runs'[u][j] = runs[u][j]
  BY DEF ProbeEnds, Waiting
<1>5. \A u \in Tickets :
        /\ ~(\E j \in 1..MaxRuns : Waits(u, j)) => unsupportedFlags'[u] = unsupportedFlags[u]
        /\ (\E j \in 1..MaxRuns : Waits(u, j)) => unsupportedFlags'[u] = wants[u] \ settled'
  BY DEF ProbeEnds, Waiting
<1> HIDE DEF Waits
<1>6. \A u \in Tickets, j \in 1..MaxRuns :
        /\ runs'[u][j] \in Run
        /\ runs'[u][j].killed = runs[u][j].killed
        /\ runs'[u][j].usage = runs[u][j].usage
        /\ ~Waits(u, j) => runs'[u][j] = runs[u][j]
        /\ Waits(u, j) => /\ runs'[u][j].phase \in {"plain", "flagged"}
                          /\ runs'[u][j].passed = wants[u] \cap settled'
                          /\ runs'[u][j].signalled = runs[u][j].killed
  BY <1>1, <1>2, <1>3, <1>4, LaunchedRun
<1>7. \A u \in Tickets, j \in 1..MaxRuns :
        Waits(u, j) => runs[u][j].phase = "probing" /\ ~runs[u][j].refused
  BY DEF Waits, IInv, RunsAreSound
<1>8. Calm' => Calm
  BY <1>6, <1>7 DEF Calm
<1>9. Calm => /\ \A u \in Tickets, j \in 1..MaxRuns :
                   runs[u][j].phase = "probing" => Waits(u, j)
              /\ probes' = {}
  BY <1>1 DEF Waits, IInv, OneProbe, FlagsAreGuarded, WaitIsForAProbe
<1>10. TypeOK'
  <2>1. runs' \in [Tickets -> [1..MaxRuns -> Run]]
    BY <1>6 DEF ProbeEnds
  <2>2. unsupportedFlags' \in [Tickets -> SUBSET Flags]
    BY <1>1, <1>2, <1>5 DEF ProbeEnds, IInv, TypeOK
  <2>3. IsFiniteSet(probes')
    BY <1>1, FS_RemoveElement DEF IInv, TypeOK
  <2> QED
    BY <1>1, <1>2, <2>1, <2>2, <2>3 DEF ProbeEnds, claude, IInv, TypeOK
<1>11. RunsAreSound'
  <2> SUFFICES ASSUME NEW u \in Tickets
               PROVE  /\ unsupportedFlags'[u] \subseteq wants[u]
                      /\ \A j \in 1..MaxRuns :
                           /\ j > last[u] => runs'[u][j] = Nothing
                           /\ runs'[u][j].phase = "probing" => ~runs'[u][j].refused
                           /\ runs'[u][j].passed \subseteq wants[u]
    BY <1>1 DEF RunsAreSound
  <2>1. unsupportedFlags'[u] \subseteq wants[u]
    BY <1>5 DEF IInv, RunsAreSound
  <2> SUFFICES ASSUME NEW j \in 1..MaxRuns
               PROVE  /\ j > last[u] => runs'[u][j] = Nothing
                      /\ runs'[u][j].phase = "probing" => ~runs'[u][j].refused
                      /\ runs'[u][j].passed \subseteq wants[u]
    BY <2>1
  <2>2. CASE Waits(u, j)
    BY <1>6, <1>7, <2>2 DEF IInv, RunsAreSound, Nothing
  <2>3. CASE ~Waits(u, j)
    BY <1>6, <2>3, runs'[u][j] = runs[u][j] DEF IInv, RunsAreSound
  <2> QED
    BY <2>2, <2>3
<1>12. OneProbe' /\ NoneOvertakes'
  BY <1>1, <1>6, <1>8, <1>9 DEF OneProbe, NoneOvertakes
<1>13. KillArrives' /\ NoFlagKills' /\ WaitIsForAProbe'
  <2> SUFFICES ASSUME NEW u \in Tickets, NEW j \in 1..MaxRuns
               PROVE  /\ (runs'[u][j].killed /\ runs'[u][j].phase \in {"plain", "flagged"})
                            => runs'[u][j].signalled
                      /\ ~runs'[u][j].usage
                      /\ runs'[u][j].phase = "probing" => runs'[u][j].probe \in probes'
    BY DEF KillArrives, NoFlagKills, WaitIsForAProbe
  <2>1. CASE Waits(u, j)
    BY <1>6, <2>1 DEF IInv, FlagsAreGuarded, NoFlagKills
  <2>2. CASE ~Waits(u, j)
    BY <1>1, <1>6, <2>2, runs'[u][j] = runs[u][j]
       DEF Waits, IInv, FlagsAreGuarded, KillArrives, NoFlagKills, WaitIsForAProbe
  <2> QED
    BY <2>1, <2>2
<1>14. DroppedIsTold'
  <2> SUFFICES ASSUME Calm, NEW u \in Tickets,
                      last[u] > 0, runs'[u][last[u]].phase \in Alive
               PROVE  unsupportedFlags'[u] = wants[u] \ runs'[u][last[u]].passed
    BY <1>1, <1>8 DEF DroppedIsTold, Calm
  <2>1. last[u] \in 1..MaxRuns
    BY DEF IInv, TypeOK
  <2>2. CASE Waits(u, last[u])
    BY <1>5, <1>6, <2>1, <2>2
  <2>3. CASE ~Waits(u, last[u])
    <3>1. runs'[u][last[u]] = runs[u][last[u]]
      BY <1>6, <2>1, <2>3
    <3>2. unsupportedFlags[u] = wants[u] \ runs[u][last[u]].passed
      BY <3>1, <2>1 DEF IInv, FlagsAreGuarded, DroppedIsTold, Calm
    <3>3. (\E j \in 1..MaxRuns : Waits(u, j)) => wants[u] = {}
      BY <1>7, <3>1 DEF IInv, NoneOvertakes
    <3> QED
      BY <1>5, <3>1, <3>2, <3>3
  <2> QED
    BY <2>2, <2>3
<1> QED
  BY <1>10, <1>11, <1>12, <1>13, <1>14 DEF IInv, FlagsAreGuarded

LEMMA NextIInv ==
  ASSUME MaxRuns \in Nat, IInv, [Next]_vars
  PROVE  IInv'
<1>1. ASSUME NEW t \in Tickets, SpawnPlain(t) \/ SpawnKnown(t) \/ SpawnProbing(t)
      PROVE  IInv'
  BY <1>1, SpawnPlainKeeps, SpawnKnownKeeps, SpawnProbingKeeps
<1>2. ASSUME NEW t \in Tickets, NEW k \in 1..MaxRuns, Kill(t, k) \/ Refused(t, k) \/ Exits(t, k)
      PROVE  IInv'
  BY <1>2, KillKeeps, RefusedKeeps, ExitsKeeps
<1>3. ASSUME NEW p \in probes, ProbeEnds(p)
      PROVE  IInv'
  BY <1>3, ProbeEndsKeeps
<1>4. CASE Install
  BY <1>4 DEF Install, cache, IInv, TypeOK, RunsAreSound, OneProbe, NoneOvertakes, Calm,
              FlagsAreGuarded, KillArrives, NoFlagKills, DroppedIsTold, WaitIsForAProbe
<1>5. CASE UNCHANGED vars
  BY <1>5 DEF vars, IInv, TypeOK, RunsAreSound, OneProbe, NoneOvertakes, Calm,
              FlagsAreGuarded, KillArrives, NoFlagKills, DroppedIsTold, WaitIsForAProbe
<1> QED
  BY <1>1, <1>2, <1>3, <1>4, <1>5 DEF Next

(* No flag ends a run, no kill is lost in a probe, and what was dropped is *)
(* told, for any tickets, flags, number of runs and of upgrades            *)
(* (flagGuard.ts, agentFlags.ts).                                          *)
THEOREM FlagsAreAlwaysGuarded ==
  ASSUME MaxRuns \in Nat
  PROVE  Spec => []FlagsAreGuarded
<1>1. Init => IInv
  BY InitIInv
<1>2. IInv /\ [Next]_vars => IInv'
  BY NextIInv
<1>3. IInv => FlagsAreGuarded
  BY DEF IInv
<1> QED
  BY <1>1, <1>2, <1>3, PTL DEF Spec
=============================================================================
