--------------------------- MODULE ServicesProofs ---------------------------
(***************************************************************************)
(* Theorems about the worlds of MCServices.  First the run registry and    *)
(* the evaluations, for any tickets, labels and bounds, however late the   *)
(* mirrors land: RInv adds to the properties what they rest on.  A ticket  *)
(* without a run has a mirror of its present state under way, only removed *)
(* tickets lose their run, and what a write in progress takes is the       *)
(* registry unless it is dirty.  Then the parts that are proved in modules *)
(* of their own, and at last the canonical log and the import of history,  *)
(* which fold over sequences of any length.                                *)
(***************************************************************************)
EXTENDS MCServices, WellFoundedInduction, SequenceTheorems, TLAPS

\* The types, with the variables TypeOK leaves to the others.
Typed == /\ TypeOK
         /\ evalFile \in [Tickets -> Evaluation \cup {Null}]
         /\ runFile \in [Tickets -> Run \cup {Null}]
         /\ out \in [Tickets -> Run \cup {Null}]
         /\ mirrors \in SUBSET (Tickets \X Ticket)
         /\ verdicts \in SUBSET (Tickets \X Ticket)
         /\ removing \in SUBSET Tickets
         /\ crashes \in Nat

UnrunIsMirrored == \A t \in Tickets : (Exists(t) /\ runs[t] = Null) => <<t, tickets[t]>> \in mirrors
RemovedIsGone == \A t \in removing : tickets[t] = Gone
TakenOrDirty == /\ flush = "timer" => dirty
                /\ (flush = "writing" /\ ~dirty) => out = runs

RInv == /\ Typed
        /\ UnrunIsMirrored
        /\ RemovedIsGone
        /\ TakenOrDirty
        /\ EvaluatedIsFiled
        /\ DirtyOrSaved

-----------------------------------------------------------------------------
(* The helpers.                                                            *)

LEMMA UpsertedRun ==
  ASSUME NEW entry \in Run \cup {Null}, NEW ticket \in Ticket
  PROVE  /\ Upserted(entry, ticket) \in Run
         /\ Filed(entry) => Filed(Upserted(entry, ticket))
  BY NoRecords, FilesAreCounted DEF Upserted, Filed, Run

LEMMA FiledRun ==
  ASSUME NEW entry \in Run \cup {Null}, NEW state \in {"closed", "abandoned"}
  PROVE  /\ FiledAs(entry, state) \in Run \cup {Null}
         /\ entry # Null => FiledAs(entry, state) # Null
         /\ FiledAs(entry, state) # Null => Filed(FiledAs(entry, state))
  BY NoRecords DEF FiledAs, Filed, Run

LEMMA SeededEvaluation ==
  ASSUME NEW eval \in Evaluation \cup {Null}, NEW ticket \in Ticket
  PROVE  /\ Seeded(eval, ticket) \in Evaluation
         /\ eval # Null /\ eval.human => Seeded(eval, ticket) = eval
         /\ ~(eval # Null /\ eval.human) => ~Seeded(eval, ticket).human
  BY NoRecords DEF Seeded, Evaluation, Ticket

LEMMA LandedRun ==
  ASSUME NEW t \in Tickets, NEW ticket \in Ticket, NEW entry \in Run \cup {Null}
  PROVE  LET landed == FiledWhenEvaluated(t, ticket, Upserted(entry, ticket))
         IN /\ landed \in Run
            /\ Filed(entry) => Filed(landed)
            /\ Outcome(t, ticket) => Filed(landed)
<1>1. /\ Upserted(entry, ticket) \in Run /\ Upserted(entry, ticket) # Null
      /\ Filed(entry) => Filed(Upserted(entry, ticket))
  BY UpsertedRun, NoRecords
<1>2. FiledAs(Upserted(entry, ticket), "closed") \in Run
  BY <1>1, FiledRun
<1>3. Filed(FiledAs(Upserted(entry, ticket), "closed"))
  BY <1>1, <1>2, FiledRun, NoRecords
<1> QED BY <1>1, <1>2, <1>3 DEF FiledWhenEvaluated

\* What storing a run does to the registry.
LEMMA PutKeeps ==
  ASSUME RInv, NEW t \in Tickets, NEW entry \in Run \cup {Null}, PutRun(t, entry)
  PROVE  /\ runs' \in [Tickets -> Run \cup {Null}]
         /\ runFile' = runFile /\ out' = out
         /\ runs' = [runs EXCEPT ![t] = entry]
         /\ dirty' \in BOOLEAN /\ flush' \in {"idle", "timer", "writing"}
         /\ TakenOrDirty'
         /\ DirtyOrSaved'
<1> USE DEF RInv, Typed, TypeOK
<1>1. CASE entry = Null /\ runs[t] = Null
  <2>1. runs' = runs
    BY <1>1 DEF PutRun
  <2> QED BY <1>1, <2>1 DEF PutRun, TakenOrDirty, DirtyOrSaved
<1>2. CASE ~(entry = Null /\ runs[t] = Null)
  <2>1. Touch
    BY <1>2 DEF PutRun
  <2> QED BY <2>1 DEF PutRun, Touch, TakenOrDirty, DirtyOrSaved
<1> QED BY <1>1, <1>2

LEMMA RegistryKept ==
  ASSUME RInv, UNCHANGED registry
  PROVE  TakenOrDirty' /\ DirtyOrSaved'
  BY DEF RInv, registry, TakenOrDirty, DirtyOrSaved

-----------------------------------------------------------------------------
LEMMA InitRInv == Init => RInv
<1> SUFFICES ASSUME Init PROVE RInv
  OBVIOUS
<1>1. Typed
  BY DEF Init, Typed, TypeOK
<1>2. \A t \in Tickets : ~Exists(t)
  BY DEF Init, Exists
<1> QED BY <1>1, <1>2 DEF Init, RInv, UnrunIsMirrored, RemovedIsGone, TakenOrDirty,
                        EvaluatedIsFiled, DirtyOrSaved

LEMMA CreateKeeps ==
  ASSUME RInv, NEW t \in Tickets, Create(t)
  PROVE  RInv'
<1> DEFINE ticket == [state |-> "working", auto |-> "unrated"]
<1>1. ticket \in Ticket
  BY DEF Ticket
<1>2. /\ tickets' = [tickets EXCEPT ![t] = ticket]
      /\ mirrors' = mirrors \cup {<<t, ticket>>}
      /\ UNCHANGED <<stores, registry, verdicts, evaluating, removing, crashes>>
      /\ tickets[t] = Null
  BY DEF Create, Mirror
<1>3. Typed'
  BY <1>1, <1>2 DEF RInv, Typed, TypeOK, stores, registry
<1>4. UnrunIsMirrored' /\ RemovedIsGone' /\ EvaluatedIsFiled'
  BY <1>1, <1>2, NoRecords
     DEF RInv, Typed, TypeOK, UnrunIsMirrored, RemovedIsGone, EvaluatedIsFiled, Exists, Outcome,
         stores, registry
<1> QED BY <1>2, <1>3, <1>4, RegistryKept DEF RInv

LEMMA UpdateKeeps ==
  ASSUME RInv, NEW t \in Tickets, NEW ticket \in Ticket, Update(t, ticket)
  PROVE  RInv'
<1>1. /\ tickets' = [tickets EXCEPT ![t] = ticket]
      /\ mirrors' = mirrors \cup {<<t, ticket>>}
      /\ verdicts' \in {verdicts, verdicts \cup {<<t, ticket>>}}
      /\ UNCHANGED <<stores, registry, evaluating, removing, crashes>>
      /\ Exists(t)
  BY DEF Update, Mirror
<1>2. Typed'
  BY <1>1 DEF RInv, Typed, TypeOK, stores, registry
<1>3. UnrunIsMirrored' /\ RemovedIsGone' /\ EvaluatedIsFiled'
  BY <1>1, NoRecords
     DEF RInv, Typed, TypeOK, UnrunIsMirrored, RemovedIsGone, EvaluatedIsFiled, Exists, Outcome,
         stores, registry
<1> QED BY <1>1, <1>2, <1>3, RegistryKept DEF RInv

LEMMA CheckoutKeeps ==
  ASSUME RInv, Checkout
  PROVE  RInv'
<1>1. /\ mirrors' = mirrors \cup {<<t, tickets[t]>> : t \in {u \in Tickets : Exists(u)}}
      /\ UNCHANGED <<tickets, stores, registry, verdicts, evaluating, removing, crashes>>
  BY DEF Checkout
<1>2. \A t \in Tickets : Exists(t) => tickets[t] \in Ticket
  BY DEF RInv, Typed, TypeOK, Exists
<1>3. mirrors' \in SUBSET (Tickets \X Ticket)
  BY <1>1, <1>2 DEF RInv, Typed
<1>4. Typed'
  BY <1>1, <1>3 DEF RInv, Typed, TypeOK, stores, registry
<1>5. UnrunIsMirrored' /\ RemovedIsGone' /\ EvaluatedIsFiled'
  BY <1>1 DEF RInv, UnrunIsMirrored, RemovedIsGone, EvaluatedIsFiled, Exists, Outcome,
              stores, registry
<1> QED BY <1>1, <1>4, <1>5, RegistryKept DEF RInv

LEMMA MirrorLandsKeeps ==
  ASSUME RInv, NEW t \in Tickets, NEW ticket \in Ticket, MirrorLands(t, ticket)
  PROVE  RInv'
<1> DEFINE landed == FiledWhenEvaluated(t, ticket, Upserted(runs[t], ticket))
<1>1. /\ mirrors' = mirrors \ {<<t, ticket>>}
      /\ PutRun(t, landed)
      /\ UNCHANGED <<tickets, stores, verdicts, evaluating, removing, crashes>>
  BY DEF MirrorLands, bounds
<1>2. runs[t] \in Run \cup {Null}
  BY DEF RInv, Typed, TypeOK
<1>3. /\ landed \in Run
      /\ Filed(runs[t]) => Filed(landed)
      /\ Outcome(t, ticket) => Filed(landed)
  BY <1>2, LandedRun
<1> HIDE DEF landed
<1>4. /\ runs' = [runs EXCEPT ![t] = landed]
      /\ runs' \in [Tickets -> Run \cup {Null}]
      /\ runFile' = runFile /\ out' = out
      /\ dirty' \in BOOLEAN /\ flush' \in {"idle", "timer", "writing"}
      /\ TakenOrDirty' /\ DirtyOrSaved'
  BY <1>1, <1>3, PutKeeps
<1>5. Typed'
  BY <1>1, <1>4 DEF RInv, Typed, TypeOK, stores
<1>6. UnrunIsMirrored' /\ RemovedIsGone'
  BY <1>1, <1>3, <1>4, NoRecords
     DEF RInv, Typed, TypeOK, UnrunIsMirrored, RemovedIsGone, Exists
<1>7. EvaluatedIsFiled'
  <2> SUFFICES ASSUME NEW u \in Tickets,
                      Exists(u), Outcome(u, tickets[u]), runs'[u] # Null,
                      evaluating[u] = Null, <<u, tickets[u]>> \notin mirrors'
               PROVE  Filed(runs'[u])
    BY <1>1 DEF EvaluatedIsFiled, Exists, Outcome, stores
  <2>1. CASE u = t /\ tickets[t] = ticket
    BY <2>1, <1>3, <1>4 DEF RInv, Typed, TypeOK
  <2>2. CASE u = t /\ tickets[t] # ticket
    <3>1. <<t, tickets[t]>> \notin mirrors
      BY <2>2, <1>1
    <3>2. Filed(runs[t])
      BY <2>2, <3>1 DEF RInv, UnrunIsMirrored, EvaluatedIsFiled
    <3> QED BY <2>2, <3>2, <1>3, <1>4 DEF RInv, Typed, TypeOK
  <2>3. CASE u # t
    BY <2>3, <1>1, <1>4 DEF RInv, Typed, TypeOK, EvaluatedIsFiled
  <2> QED BY <2>1, <2>2, <2>3
<1> QED BY <1>4, <1>5, <1>6, <1>7 DEF RInv

LEMMA VerdictLandsKeeps ==
  ASSUME RInv, NEW t \in Tickets, NEW ticket \in Ticket, VerdictLands(t, ticket)
  PROVE  RInv'
<1>1. /\ verdicts' = verdicts \ {<<t, ticket>>}
      /\ evals' = [evals EXCEPT ![t] = Seeded(evals[t], ticket)]
      /\ UNCHANGED <<tickets, evalFile, registry, mirrors, evaluating, removing, crashes>>
  BY DEF VerdictLands, bounds, RInv, Typed, TypeOK
<1>2. evals[t] \in Evaluation \cup {Null}
  BY DEF RInv, Typed, TypeOK
<1>3. Seeded(evals[t], ticket) \in Evaluation
  BY <1>2, SeededEvaluation
<1>4. Typed'
  BY <1>1, <1>3 DEF RInv, Typed, TypeOK, registry
<1>5. UnrunIsMirrored' /\ RemovedIsGone'
  BY <1>1 DEF RInv, UnrunIsMirrored, RemovedIsGone, Exists, registry
<1>6. \A u \in Tickets : Outcome(u, tickets[u])' => Outcome(u, tickets[u])
  <2> SUFFICES ASSUME NEW u \in Tickets, Outcome(u, tickets[u])'
               PROVE  Outcome(u, tickets[u])
    OBVIOUS
  <2>1. CASE u = t
    BY <2>1, <1>1, <1>2, SeededEvaluation DEF Outcome, RInv, Typed, TypeOK
  <2>2. CASE u # t
    BY <2>2, <1>1 DEF Outcome, RInv, Typed, TypeOK
  <2> QED BY <2>1, <2>2
<1>7. EvaluatedIsFiled'
  BY <1>1, <1>6 DEF RInv, EvaluatedIsFiled, Exists, registry
<1> QED BY <1>1, <1>4, <1>5, <1>7, RegistryKept DEF RInv

LEMMA FileTouchedKeeps ==
  ASSUME RInv, NEW t \in Tickets, FileTouched(t)
  PROVE  RInv'
<1> DEFINE entry == [runs[t] EXCEPT !.files = @ + 1]
<1>1. /\ runs[t] \in Run /\ runs[t].files < MaxFiles
      /\ PutRun(t, entry)
      /\ UNCHANGED <<tickets, stores, mirrors, verdicts, evaluating, removing, crashes>>
  BY DEF FileTouched, calls, bounds, RInv, Typed, TypeOK
<1>2. entry \in Run /\ Filed(entry) = Filed(runs[t])
  BY <1>1, FilesAreCounted, NoRecords DEF Run, Filed
<1> HIDE DEF entry
<1>3. /\ runs' = [runs EXCEPT ![t] = entry]
      /\ runs' \in [Tickets -> Run \cup {Null}]
      /\ runFile' = runFile /\ out' = out
      /\ dirty' \in BOOLEAN /\ flush' \in {"idle", "timer", "writing"}
      /\ TakenOrDirty' /\ DirtyOrSaved'
  BY <1>1, <1>2, PutKeeps
<1>4. Typed'
  BY <1>1, <1>3 DEF RInv, Typed, TypeOK, stores
<1>5. UnrunIsMirrored' /\ RemovedIsGone' /\ EvaluatedIsFiled'
  BY <1>1, <1>2, <1>3, NoRecords
     DEF RInv, Typed, TypeOK, UnrunIsMirrored, RemovedIsGone, EvaluatedIsFiled, Exists, Outcome, stores
<1> QED BY <1>3, <1>4, <1>5 DEF RInv

LEMMA RemoveKeeps ==
  ASSUME RInv, NEW t \in Tickets, Remove(t)
  PROVE  RInv'
<1>1. /\ tickets' = [tickets EXCEPT ![t] = Gone]
      /\ removing' = removing \cup {t}
      /\ UNCHANGED <<stores, registry, mirrors, verdicts, evaluating, crashes>>
  BY DEF Remove, bounds
<1>2. Typed'
  BY <1>1 DEF RInv, Typed, TypeOK, stores, registry
<1>3. UnrunIsMirrored' /\ RemovedIsGone' /\ EvaluatedIsFiled'
  BY <1>1 DEF RInv, Typed, TypeOK, UnrunIsMirrored, RemovedIsGone, EvaluatedIsFiled, Exists, Outcome,
              stores, registry
<1> QED BY <1>1, <1>2, <1>3, RegistryKept DEF RInv

LEMMA RemoveRunKeeps ==
  ASSUME RInv, NEW t \in Tickets, RemoveRun(t)
  PROVE  RInv'
<1>1. /\ t \in removing /\ removing' = removing \ {t}
      /\ PutRun(t, Null)
      /\ UNCHANGED <<tickets, stores, mirrors, verdicts, evaluating, crashes>>
  BY DEF RemoveRun, bounds
<1>2. /\ runs' = [runs EXCEPT ![t] = Null]
      /\ runs' \in [Tickets -> Run \cup {Null}]
      /\ runFile' = runFile /\ out' = out
      /\ dirty' \in BOOLEAN /\ flush' \in {"idle", "timer", "writing"}
      /\ TakenOrDirty' /\ DirtyOrSaved'
  BY <1>1, PutKeeps
<1>3. Typed'
  BY <1>1, <1>2 DEF RInv, Typed, TypeOK, stores
<1>4. UnrunIsMirrored' /\ RemovedIsGone' /\ EvaluatedIsFiled'
  BY <1>1, <1>2
     DEF RInv, Typed, TypeOK, UnrunIsMirrored, RemovedIsGone, EvaluatedIsFiled, Exists, Outcome, stores
<1> QED BY <1>2, <1>3, <1>4 DEF RInv

LEMMA FileAwayKeeps ==
  ASSUME RInv, NEW t \in Tickets, NEW state \in {"closed", "abandoned"}, FileAway(t, state)
  PROVE  RInv'
<1> DEFINE entry == FiledAs(runs[t], state)
<1>1. /\ runs[t] \in Run
      /\ PutRun(t, entry)
      /\ UNCHANGED <<tickets, stores, mirrors, verdicts, evaluating, removing, crashes>>
  BY DEF FileAway, calls, RInv, Typed, TypeOK
<1>2. entry \in Run /\ Filed(entry)
  BY <1>1, FiledRun, NoRecords
<1> HIDE DEF entry
<1>3. /\ runs' = [runs EXCEPT ![t] = entry]
      /\ runs' \in [Tickets -> Run \cup {Null}]
      /\ runFile' = runFile /\ out' = out
      /\ dirty' \in BOOLEAN /\ flush' \in {"idle", "timer", "writing"}
      /\ TakenOrDirty' /\ DirtyOrSaved'
  BY <1>1, <1>2, PutKeeps
<1>4. Typed'
  BY <1>1, <1>3 DEF RInv, Typed, TypeOK, stores
<1>5. UnrunIsMirrored' /\ RemovedIsGone' /\ EvaluatedIsFiled'
  BY <1>1, <1>2, <1>3, NoRecords
     DEF RInv, Typed, TypeOK, UnrunIsMirrored, RemovedIsGone, EvaluatedIsFiled, Exists, Outcome, stores
<1> QED BY <1>3, <1>4, <1>5 DEF RInv

LEMMA EvaluateKeeps ==
  ASSUME RInv, NEW t \in Tickets, NEW label \in HumanLabels, Evaluate(t, label)
  PROVE  RInv'
<1>1. PICK eval \in Evaluation, request \in Request :
        /\ evals' = [evals EXCEPT ![t] = eval]
        /\ evaluating' = [evaluating EXCEPT ![t] = request]
  <2>1. CASE evals[t] # Null
    <3>1. Labelled(label) \in Evaluation
      BY DEF Labelled, Evaluation
    <3>2. [step |-> "file", label |-> label] \in Request
      BY DEF Request
    <3> QED BY <2>1, <3>1, <3>2 DEF Evaluate
  <2>2. CASE evals[t] = Null
    <3>1. tickets[t] \in Ticket /\ evals[t] \in Evaluation \cup {Null}
      BY <2>2 DEF Evaluate, Exists, RInv, Typed, TypeOK
    <3>2. Seeded(evals[t], tickets[t]) \in Evaluation
      BY <3>1, SeededEvaluation
    <3>3. [step |-> "label", label |-> label] \in Request
      BY DEF Request
    <3> QED BY <2>2, <3>2, <3>3 DEF Evaluate, RInv, Typed, TypeOK
  <2> QED BY <2>1, <2>2
<1>2. UNCHANGED <<tickets, evalFile, registry, mirrors, verdicts, removing, crashes>>
  BY DEF Evaluate
<1>3. Typed'
  BY <1>1, <1>2 DEF RInv, Typed, TypeOK, registry
<1>4. UnrunIsMirrored' /\ RemovedIsGone' /\ EvaluatedIsFiled'
  BY <1>1, <1>2, NoRecords
     DEF RInv, Typed, TypeOK, UnrunIsMirrored, RemovedIsGone, EvaluatedIsFiled, Exists, Outcome,
         registry
<1> QED BY <1>2, <1>3, <1>4, RegistryKept DEF RInv

LEMMA EvaluateLabelsKeeps ==
  ASSUME RInv, NEW t \in Tickets, EvaluateLabels(t)
  PROVE  RInv'
<1>1. /\ evaluating[t] \in Request
      /\ evals' = [evals EXCEPT ![t] = Labelled(evaluating[t].label)]
      /\ evaluating' = [evaluating EXCEPT ![t].step = "file"]
      /\ UNCHANGED <<tickets, evalFile, registry, mirrors, verdicts, removing, crashes>>
  BY DEF EvaluateLabels, Resumes, bounds, RInv, Typed, TypeOK
<1>2. Labelled(evaluating[t].label) \in Evaluation
  BY <1>1 DEF Labelled, Evaluation, Request
<1>3. [evaluating[t] EXCEPT !.step = "file"] \in Request
  BY <1>1 DEF Request
<1>4. Typed'
  BY <1>1, <1>2, <1>3 DEF RInv, Typed, TypeOK, registry
<1>5. UnrunIsMirrored' /\ RemovedIsGone' /\ EvaluatedIsFiled'
  BY <1>1, <1>3, NoRecords
     DEF RInv, Typed, TypeOK, UnrunIsMirrored, RemovedIsGone, EvaluatedIsFiled, Exists, Outcome,
         registry
<1> QED BY <1>1, <1>4, <1>5, RegistryKept DEF RInv

LEMMA EvaluateFilesKeeps ==
  ASSUME RInv, NEW t \in Tickets, EvaluateFiles(t)
  PROVE  RInv'
<1>1. /\ evaluating' = [evaluating EXCEPT ![t] = Null]
      /\ UNCHANGED <<tickets, stores, mirrors, verdicts, removing, crashes>>
      /\ runs[t] \in Run \cup {Null}
  BY DEF EvaluateFiles, bounds, RInv, Typed, TypeOK
<1>2. CASE Exists(t) /\ Outcome(t, tickets[t])
  <2> DEFINE entry == FiledAs(runs[t], "closed")
  <2>1. PutRun(t, entry)
    BY <1>2 DEF EvaluateFiles
  <2>2. /\ entry \in Run \cup {Null}
        /\ runs[t] # Null => entry # Null
        /\ entry # Null => Filed(entry)
    BY <1>1, FiledRun
  <2> HIDE DEF entry
  <2>3. /\ runs' = [runs EXCEPT ![t] = entry]
        /\ runs' \in [Tickets -> Run \cup {Null}]
        /\ runFile' = runFile /\ out' = out
        /\ dirty' \in BOOLEAN /\ flush' \in {"idle", "timer", "writing"}
        /\ TakenOrDirty' /\ DirtyOrSaved'
    BY <2>1, <2>2, PutKeeps
  <2>4. Typed'
    BY <1>1, <2>3 DEF RInv, Typed, TypeOK, stores
  <2>5. UnrunIsMirrored' /\ RemovedIsGone' /\ EvaluatedIsFiled'
    BY <1>1, <2>2, <2>3
       DEF RInv, Typed, TypeOK, UnrunIsMirrored, RemovedIsGone, EvaluatedIsFiled, Exists, Outcome, stores
  <2> QED BY <2>3, <2>4, <2>5 DEF RInv
<1>3. CASE ~(Exists(t) /\ Outcome(t, tickets[t]))
  <2>1. UNCHANGED registry
    BY <1>3 DEF EvaluateFiles
  <2>2. Typed'
    BY <1>1, <2>1 DEF RInv, Typed, TypeOK, stores, registry
  <2>3. UnrunIsMirrored' /\ RemovedIsGone' /\ EvaluatedIsFiled'
    BY <1>1, <1>3, <2>1
       DEF RInv, Typed, TypeOK, UnrunIsMirrored, RemovedIsGone, EvaluatedIsFiled, Exists, Outcome,
           stores, registry
  <2> QED BY <2>1, <2>2, <2>3, RegistryKept DEF RInv
<1> QED BY <1>2, <1>3

LEMMA FilesKeep ==
  ASSUME RInv, FlushEvals \/ TimerFires \/ WriteEnds
  PROVE  RInv'
<1>1. /\ UNCHANGED <<tickets, evals, runs, mirrors, verdicts, evaluating, removing, crashes>>
      /\ evalFile' \in {evals, evalFile}
      /\ runFile' \in {runFile, out} /\ out' \in {out, runs}
      /\ dirty' \in {FALSE, dirty} /\ flush' \in {"idle", "writing", flush}
  BY DEF FlushEvals, TimerFires, WriteEnds, calls, bounds, registry, stores
<1>2. Typed'
  BY <1>1 DEF RInv, Typed, TypeOK
<1>3. UnrunIsMirrored' /\ RemovedIsGone' /\ EvaluatedIsFiled'
  BY <1>1 DEF RInv, UnrunIsMirrored, RemovedIsGone, EvaluatedIsFiled, Exists, Outcome
<1>4. TakenOrDirty' /\ DirtyOrSaved'
  BY DEF RInv, Typed, TypeOK, FlushEvals, TimerFires, WriteEnds, registry, TakenOrDirty, DirtyOrSaved
<1> QED BY <1>2, <1>3, <1>4 DEF RInv

LEMMA RestartKeeps ==
  ASSUME RInv, Restart
  PROVE  RInv'
<1>1. PICK loaded \in Survivors :
        /\ runFile' = loaded
        /\ runs' = [t \in Tickets |->
             IF ~Exists(t) THEN Null
             ELSE LET entry == Upserted(loaded[t], tickets[t])
                  IN IF tickets[t].state = "settled" /\ evalFile[t] # Null /\ evalFile[t].human
                     THEN FiledAs(entry, "closed") ELSE entry]
        /\ dirty' = \E t \in Tickets : Exists(t) \/ loaded[t] # Null
  BY DEF Restart
<1>2. /\ evals' = evalFile /\ crashes' = crashes + 1
      /\ flush' = IF dirty' THEN "timer" ELSE "idle"
      /\ mirrors' = {} /\ verdicts' = {} /\ removing' = {}
      /\ evaluating' = [t \in Tickets |-> Null]
      /\ UNCHANGED <<tickets, evalFile, out>>
  BY DEF Restart
<1>3. loaded \in [Tickets -> Run \cup {Null}]
  BY DEF Survivors, RInv, Typed
<1>4. \A t \in Tickets :
        Exists(t) => /\ runs'[t] \in Run
                     /\ (tickets[t].state = "settled" /\ evalFile[t] # Null /\ evalFile[t].human)
                          => Filed(runs'[t])
  <2> SUFFICES ASSUME NEW t \in Tickets, Exists(t)
               PROVE  /\ runs'[t] \in Run
                      /\ (tickets[t].state = "settled" /\ evalFile[t] # Null /\ evalFile[t].human)
                           => Filed(runs'[t])
    OBVIOUS
  <2> DEFINE entry == Upserted(loaded[t], tickets[t])
  <2>1. tickets[t] \in Ticket /\ loaded[t] \in Run \cup {Null}
    BY <1>3 DEF RInv, Typed, TypeOK, Exists
  <2>2. entry \in Run
    BY <2>1, UpsertedRun
  <2>3. FiledAs(entry, "closed") \in Run /\ Filed(FiledAs(entry, "closed"))
    BY <2>2, FiledRun, NoRecords
  <2>4. runs'[t] = IF tickets[t].state = "settled" /\ evalFile[t] # Null /\ evalFile[t].human
                   THEN FiledAs(entry, "closed") ELSE entry
    BY <1>1
  <2> HIDE DEF entry
  <2> QED BY <2>2, <2>3, <2>4
<1>5. \A t \in Tickets : ~Exists(t) => runs'[t] = Null
  BY <1>1
<1>6. runs' \in [Tickets -> Run \cup {Null}]
  <2>1. runs' = [t \in Tickets |-> runs'[t]]
    BY <1>1
  <2>2. \A t \in Tickets : runs'[t] \in Run \cup {Null}
    BY <1>4, <1>5
  <2> HIDE <1>1
  <2> QED BY <2>1, <2>2
<1>7. dirty' \in BOOLEAN
  BY <1>1
<1>8. Typed'
  BY <1>1, <1>2, <1>3, <1>6, <1>7 DEF RInv, Typed, TypeOK
<1>9. UnrunIsMirrored' /\ RemovedIsGone' /\ EvaluatedIsFiled'
  BY <1>2, <1>4, <1>5, NoRecords
     DEF UnrunIsMirrored, RemovedIsGone, EvaluatedIsFiled, Exists, Outcome
<1>10. TakenOrDirty' /\ DirtyOrSaved'
  <2>1. CASE dirty'
    BY <2>1, <1>2 DEF TakenOrDirty, DirtyOrSaved
  <2>2. CASE ~dirty'
    <3>1. \A t \in Tickets : ~Exists(t) /\ loaded[t] = Null
      BY <2>2, <1>1
    <3>2. runs' = loaded
      BY <3>1, <1>3, <1>5, <1>6
    <3> QED BY <2>2, <3>2, <1>1, <1>2 DEF TakenOrDirty, DirtyOrSaved
  <2> QED BY <2>1, <2>2, <1>7
<1> QED BY <1>8, <1>9, <1>10 DEF RInv

-----------------------------------------------------------------------------
LEMMA NextKeeps ==
  ASSUME RInv, [Next]_vars
  PROVE  RInv'
<1>1. CASE Next
  <2>1. ASSUME NEW t \in Tickets,
               \/ Create(t) \/ FileTouched(t) \/ Remove(t) \/ RemoveRun(t)
               \/ EvaluateLabels(t) \/ EvaluateFiles(t)
        PROVE  RInv'
    BY <2>1, CreateKeeps, FileTouchedKeeps, RemoveKeeps, RemoveRunKeeps, EvaluateLabelsKeeps,
       EvaluateFilesKeeps
  <2>2. ASSUME NEW t \in Tickets, NEW ticket \in Ticket,
               Update(t, ticket) \/ MirrorLands(t, ticket) \/ VerdictLands(t, ticket)
        PROVE  RInv'
    BY <2>2, UpdateKeeps, MirrorLandsKeeps, VerdictLandsKeeps
  <2>3. ASSUME NEW t \in Tickets, NEW state \in {"closed", "abandoned"}, FileAway(t, state)
        PROVE  RInv'
    BY <2>3, FileAwayKeeps
  <2>4. ASSUME NEW t \in Tickets, NEW label \in HumanLabels, Evaluate(t, label)
        PROVE  RInv'
    BY <2>4, EvaluateKeeps
  <2>5. ASSUME Checkout \/ FlushEvals \/ TimerFires \/ WriteEnds \/ Restart
        PROVE  RInv'
    BY <2>5, CheckoutKeeps, FilesKeep, RestartKeeps
  <2> QED BY <1>1, <2>1, <2>2, <2>3, <2>4, <2>5 DEF Next
<1>2. CASE UNCHANGED vars
  BY <1>2 DEF vars, RInv, Typed, TypeOK, UnrunIsMirrored, RemovedIsGone, TakenOrDirty,
              EvaluatedIsFiled, DirtyOrSaved, Exists, Outcome
<1> QED BY <1>1, <1>2

(* The conjunction holds in every reachable state.                         *)
THEOREM RInvHolds == Spec => []RInv
<1>1. RInv /\ [Next]_vars => RInv'
  BY NextKeeps
<1> QED BY InitRInv, <1>1, PTL DEF Spec

(* The board and the sidebar settle on the same event, for any number of   *)
(* tickets and any delay of the mirrors (index.ts mirrorTicket).           *)
THEOREM EvaluatedRunsAreFiled == Spec => []EvaluatedIsFiled
<1>1. RInv => EvaluatedIsFiled
  BY DEF RInv
<1> QED BY RInvHolds, <1>1, PTL

(* A registry with nothing left to write is the one in the file            *)
(* (runStore.ts scheduleFlush and touch).                                  *)
THEOREM NoChangeIsForgotten == Spec => []DirtyOrSaved
<1>1. RInv => DirtyOrSaved
  BY DEF RInv
<1> QED BY RInvHolds, <1>1, PTL

-----------------------------------------------------------------------------
(* One step, for the property about what a human decided.                  *)

Stands(t) ==
  /\ (Filed(runs[t]) /\ runs'[t] # Null) => Filed(runs'[t])
  /\ (evals[t] # Null /\ evals[t].human) =>
       \/ evals'[t] = evals[t]
       \/ evals'[t] # Null /\ evals'[t].human /\ evaluating'[t] # evaluating[t]

LEMMA PutStands ==
  ASSUME RInv, NEW t \in Tickets, NEW entry, PutRun(t, entry), UNCHANGED evals,
         Filed(runs[t]) /\ entry # Null => Filed(entry)
  PROVE  \A u \in Tickets : Stands(u)
  BY DEF PutRun, Stands, RInv, Typed, TypeOK

LEMMA StepStands ==
  ASSUME RInv, [Next]_vars, crashes' = crashes
  PROVE  \A t \in Tickets : Stands(t)
<1>1. CASE UNCHANGED <<evals, runs>>
  BY <1>1 DEF Stands
<1>2. ASSUME NEW t \in Tickets, NEW ticket \in Ticket, MirrorLands(t, ticket)
      PROVE  \A u \in Tickets : Stands(u)
  <2>1. PutRun(t, FiledWhenEvaluated(t, ticket, Upserted(runs[t], ticket))) /\ UNCHANGED evals
    BY <1>2 DEF MirrorLands, stores
  <2>2. runs[t] \in Run \cup {Null}
    BY DEF RInv, Typed, TypeOK
  <2> QED BY <2>1, <2>2, LandedRun, PutStands
<1>3. ASSUME NEW t \in Tickets, NEW ticket \in Ticket, VerdictLands(t, ticket)
      PROVE  \A u \in Tickets : Stands(u)
  <2>1. UNCHANGED runs /\ evals' = [evals EXCEPT ![t] = Seeded(evals[t], ticket)]
        /\ evals[t] \in Evaluation \cup {Null}
    BY <1>3 DEF VerdictLands, registry, RInv, Typed, TypeOK
  <2>2. evals[t] # Null /\ evals[t].human => Seeded(evals[t], ticket) = evals[t]
    BY <2>1, SeededEvaluation
  <2> QED BY <2>1, <2>2 DEF Stands, RInv, Typed, TypeOK
<1>4. ASSUME NEW t \in Tickets, FileTouched(t)
      PROVE  \A u \in Tickets : Stands(u)
  <2> DEFINE entry == [runs[t] EXCEPT !.files = @ + 1]
  <2>1. PutRun(t, entry) /\ UNCHANGED evals /\ runs[t] \in Run
    BY <1>4 DEF FileTouched, stores, RInv, Typed, TypeOK
  <2>2. Filed(runs[t]) => Filed(entry)
    BY <2>1, FilesAreCounted, NoRecords, <1>4 DEF Run, Filed, FileTouched
  <2> HIDE DEF entry
  <2> QED BY <2>1, <2>2, PutStands
<1>5. ASSUME NEW t \in Tickets, RemoveRun(t)
      PROVE  \A u \in Tickets : Stands(u)
  BY <1>5, PutStands DEF RemoveRun, stores
<1>6. ASSUME NEW t \in Tickets, NEW state \in {"closed", "abandoned"}, FileAway(t, state)
      PROVE  \A u \in Tickets : Stands(u)
  <2>1. PutRun(t, FiledAs(runs[t], state)) /\ UNCHANGED evals /\ runs[t] \in Run \cup {Null}
    BY <1>6 DEF FileAway, stores, RInv, Typed, TypeOK
  <2> QED BY <2>1, FiledRun, PutStands
<1>7. ASSUME NEW t \in Tickets, NEW label \in HumanLabels, Evaluate(t, label)
      PROVE  \A u \in Tickets : Stands(u)
  <2>1. UNCHANGED runs
    BY <1>7 DEF Evaluate, registry
  <2>2. CASE evals[t] = Null
    BY <1>7, <2>1, <2>2 DEF Evaluate, Stands, RInv, Typed, TypeOK
  <2>3. CASE evals[t] # Null
    <3>1. /\ evals' = [evals EXCEPT ![t] = Labelled(label)]
          /\ evaluating' = [evaluating EXCEPT ![t] = [step |-> "file", label |-> label]]
          /\ evaluating[t] = Null
      BY <1>7, <2>3 DEF Evaluate
    <3>2. /\ Labelled(label) \in Evaluation /\ Labelled(label).human
          /\ [step |-> "file", label |-> label] \in Request
      BY DEF Labelled, Evaluation, Request
    <3> QED BY <2>1, <3>1, <3>2, NoRecords DEF Stands, RInv, Typed, TypeOK
  <2> QED BY <2>2, <2>3
<1>8. ASSUME NEW t \in Tickets, EvaluateLabels(t)
      PROVE  \A u \in Tickets : Stands(u)
  <2>1. /\ UNCHANGED runs
        /\ evals' = [evals EXCEPT ![t] = Labelled(evaluating[t].label)]
        /\ evaluating' = [evaluating EXCEPT ![t].step = "file"]
        /\ evaluating[t] \in Request /\ evaluating[t].step = "label"
    BY <1>8 DEF EvaluateLabels, Resumes, registry, RInv, Typed, TypeOK
  <2>2. Labelled(evaluating[t].label) \in Evaluation /\ Labelled(evaluating[t].label).human
    BY <2>1 DEF Labelled, Evaluation, Request
  <2>3. evaluating'[t].step = "file"
    BY <2>1 DEF Request, RInv, Typed, TypeOK
  <2> QED BY <2>1, <2>2, <2>3, NoRecords DEF Stands, RInv, Typed, TypeOK
<1>9. ASSUME NEW t \in Tickets, EvaluateFiles(t)
      PROVE  \A u \in Tickets : Stands(u)
  <2>1. UNCHANGED evals /\ runs[t] \in Run \cup {Null}
    BY <1>9 DEF EvaluateFiles, stores, RInv, Typed, TypeOK
  <2>2. CASE Exists(t) /\ Outcome(t, tickets[t])
    <3>1. PutRun(t, FiledAs(runs[t], "closed"))
      BY <1>9, <2>2 DEF EvaluateFiles
    <3> QED BY <2>1, <3>1, FiledRun, PutStands
  <2>3. CASE ~(Exists(t) /\ Outcome(t, tickets[t]))
    BY <1>9, <2>1, <2>3, <1>1 DEF EvaluateFiles, registry
  <2> QED BY <2>2, <2>3
<1>10. CASE Restart
  BY <1>10 DEF Restart, RInv, Typed
<1>11. CASE UNCHANGED vars
  BY <1>11, <1>1 DEF vars
<1>12. ASSUME NEW t \in Tickets, Create(t) \/ Remove(t) \/ \E ticket \in Ticket : Update(t, ticket)
       PROVE  \A u \in Tickets : Stands(u)
  BY <1>12, <1>1 DEF Create, Remove, Update, stores, registry
<1>13. ASSUME Checkout \/ FlushEvals \/ TimerFires \/ WriteEnds
       PROVE  \A u \in Tickets : Stands(u)
  BY <1>13, <1>1 DEF Checkout, FlushEvals, TimerFires, WriteEnds, stores, registry
<1> QED BY <1>2, <1>3, <1>4, <1>5, <1>6, <1>7, <1>8, <1>9, <1>10, <1>11, <1>12, <1>13 DEF Next

(* "A human's close is final" (runStore.ts:146), and so is a human label,  *)
(* whatever mirrors, settlements and requests are under way.               *)
THEOREM HumansAreNotOverruled == Spec => HumanStands
<1>1. RInv /\ [Next]_vars =>
        [crashes' = crashes =>
           \A t \in Tickets :
             /\ (Filed(runs[t]) /\ runs'[t] # Null) => Filed(runs'[t])
             /\ (evals[t] # Null /\ evals[t].human) =>
                  \/ evals'[t] = evals[t]
                  \/ evals'[t] # Null /\ evals'[t].human /\ evaluating'[t] # evaluating[t]]_vars
  BY StepStands DEF Stands
<1> QED BY RInvHolds, <1>1, PTL DEF Spec, HumanStands

-----------------------------------------------------------------------------
(***************************************************************************)
(* What is proved of the commit of a ticket and of the processes behind it *)
(* holds in MCServices, where each is one of several worlds: a behaviour   *)
(* of MCServices, seen through the variables of a part, is one of that     *)
(* part.                                                                   *)
(***************************************************************************)

ProvedCommit == INSTANCE TicketCommitProofs
  WITH phase <- stages, entries <- listing, clock <- time, Limit <- 1, MaxWrites <- 3, MaxCommits <- 1

ProvedAgent == INSTANCE AgentRunsProofs
  WITH listed <- cli, known <- flagsKnown, runs <- runsOf, changes <- installs, Flags <- {"--model", "--effort"},
       MaxRuns <- 3, MaxChanges <- 1

ProvedPanel == INSTANCE ReviewPanelProofs

ProvedTerminal == INSTANCE TerminalsProofs WITH Offline <- FALSE, MaxEvents <- 3

-----------------------------------------------------------------------------
(* The commit: the same formulas, action by action.                        *)

LEMMA SameCommitInit == Committer!Init = ProvedCommit!Init
  BY DEF Committer!Init, ProvedCommit!Init, Committer!Someone, ProvedCommit!Someone

LEMMA SameCardinality ==
  ASSUME NEW S
  PROVE  Committer!Cardinality(S) = ProvedCommit!Cardinality(S)
  BY DEF Committer!Cardinality, ProvedCommit!Cardinality

LEMMA SameWrite ==
  ASSUME NEW who, NEW f
  PROVE  Committer!Write(who, f) = ProvedCommit!Write(who, f)
  BY DEF Committer!Write, ProvedCommit!Write, Committer!Works, ProvedCommit!Works,
         Committer!Someone, ProvedCommit!Someone

LEMMA SameDelete ==
  ASSUME NEW who, NEW f
  PROVE  Committer!Delete(who, f) = ProvedCommit!Delete(who, f)
  BY DEF Committer!Delete, ProvedCommit!Delete, Committer!Works, ProvedCommit!Works,
         Committer!Someone, ProvedCommit!Someone

LEMMA SameStageElsewhere ==
  ASSUME NEW f
  PROVE  Committer!StageElsewhere(f) = ProvedCommit!StageElsewhere(f)
  BY DEF Committer!StageElsewhere, ProvedCommit!StageElsewhere, Committer!bounds,
         ProvedCommit!bounds

LEMMA SameCommitElsewhere == Committer!CommitElsewhere = ProvedCommit!CommitElsewhere
  BY DEF Committer!CommitElsewhere, ProvedCommit!CommitElsewhere

LEMMA SameStart ==
  ASSUME NEW t
  PROVE  Committer!Start(t) = ProvedCommit!Start(t)
  BY DEF Committer!Start, ProvedCommit!Start, Committer!Begins, ProvedCommit!Begins,
         Committer!Goes, ProvedCommit!Goes, Committer!tree, ProvedCommit!tree,
         Committer!bounds, ProvedCommit!bounds

LEMMA SameAnswer ==
  ASSUME NEW t
  PROVE  Committer!Answer(t) = ProvedCommit!Answer(t)
  BY DEF Committer!Answer, ProvedCommit!Answer, Committer!Begins,
         ProvedCommit!Begins, Committer!Goes, ProvedCommit!Goes, Committer!tree,
         ProvedCommit!tree, Committer!bounds, ProvedCommit!bounds

LEMMA SameExits ==
  ASSUME NEW t
  PROVE  Committer!Exits(t) = ProvedCommit!Exits(t)
  BY DEF Committer!Exits, ProvedCommit!Exits, Committer!Goes, ProvedCommit!Goes,
         Committer!tree, ProvedCommit!tree, Committer!bounds, ProvedCommit!bounds

LEMMA SameSurvey ==
  ASSUME NEW t
  PROVE  Committer!Survey(t) = ProvedCommit!Survey(t)
  BY DEF Committer!Survey, ProvedCommit!Survey, Committer!Changed,
         ProvedCommit!Changed, Committer!Deleted, ProvedCommit!Deleted,
         Committer!Goes, ProvedCommit!Goes, Committer!tree, ProvedCommit!tree,
         Committer!bounds, ProvedCommit!bounds

LEMMA SameClean ==
  ASSUME NEW t
  PROVE  Committer!Clean(t) = ProvedCommit!Clean(t)
  BY DEF Committer!Clean, ProvedCommit!Clean, Committer!Changed,
         ProvedCommit!Changed, Committer!Skip, ProvedCommit!Skip, Committer!Goes,
         ProvedCommit!Goes, Committer!tree, ProvedCommit!tree, Committer!bounds,
         ProvedCommit!bounds

LEMMA SameChangedSince ==
  ASSUME NEW t
  PROVE  Committer!ChangedSince(t) = ProvedCommit!ChangedSince(t)
  BY SameCardinality DEF Committer!ChangedSince, ProvedCommit!ChangedSince,
         Committer!Own, ProvedCommit!Own, Committer!Kept, ProvedCommit!Kept,
         Committer!Goes, ProvedCommit!Goes, Committer!tree, ProvedCommit!tree,
         Committer!bounds, ProvedCommit!bounds

LEMMA SameTooFewOrMany ==
  ASSUME NEW t
  PROVE  Committer!TooFewOrMany(t) = ProvedCommit!TooFewOrMany(t)
  BY SameCardinality DEF Committer!TooFewOrMany, ProvedCommit!TooFewOrMany,
         Committer!Own, ProvedCommit!Own, Committer!Kept, ProvedCommit!Kept,
         Committer!Skip, ProvedCommit!Skip, Committer!Goes, ProvedCommit!Goes,
         Committer!tree, ProvedCommit!tree, Committer!bounds, ProvedCommit!bounds

LEMMA SameStage ==
  ASSUME NEW t
  PROVE  Committer!Stage(t) = ProvedCommit!Stage(t)
  BY DEF Committer!Stage, ProvedCommit!Stage, Committer!Unmatched,
         ProvedCommit!Unmatched, Committer!Goes, ProvedCommit!Goes,
         Committer!bounds, ProvedCommit!bounds

LEMMA SameStageFails ==
  ASSUME NEW t
  PROVE  Committer!StageFails(t) = ProvedCommit!StageFails(t)
  BY DEF Committer!StageFails, ProvedCommit!StageFails, Committer!Skip,
         ProvedCommit!Skip, Committer!Goes, ProvedCommit!Goes, Committer!tree,
         ProvedCommit!tree, Committer!bounds, ProvedCommit!bounds

LEMMA SameDiff ==
  ASSUME NEW t
  PROVE  Committer!Diff(t) = ProvedCommit!Diff(t)
  BY DEF Committer!Diff, ProvedCommit!Diff, Committer!Goes, ProvedCommit!Goes,
         Committer!tree, ProvedCommit!tree, Committer!bounds, ProvedCommit!bounds

LEMMA SameNothingStaged ==
  ASSUME NEW t
  PROVE  Committer!NothingStaged(t) = ProvedCommit!NothingStaged(t)
  BY DEF Committer!NothingStaged, ProvedCommit!NothingStaged, Committer!Skip,
         ProvedCommit!Skip, Committer!Goes, ProvedCommit!Goes, Committer!tree,
         ProvedCommit!tree, Committer!bounds, ProvedCommit!bounds

LEMMA SameCommit ==
  ASSUME NEW t
  PROVE  Committer!Commit(t) = ProvedCommit!Commit(t)
  BY DEF Committer!Commit, ProvedCommit!Commit, Committer!CommitOnly,
         ProvedCommit!CommitOnly, Committer!Goes, ProvedCommit!Goes,
         Committer!bounds, ProvedCommit!bounds

LEMMA SameCommitFails ==
  ASSUME NEW t
  PROVE  Committer!CommitFails(t) = ProvedCommit!CommitFails(t)
  BY DEF Committer!CommitFails, ProvedCommit!CommitFails, Committer!Skip,
         ProvedCommit!Skip, Committer!Goes, ProvedCommit!Goes, Committer!tree,
         ProvedCommit!tree, Committer!bounds, ProvedCommit!bounds

LEMMA SameCommitNext == Committer!Next = ProvedCommit!Next
  BY SameWrite, SameDelete, SameStageElsewhere, SameCommitElsewhere, SameStart,
         SameAnswer, SameExits, SameSurvey, SameClean, SameChangedSince,
         SameTooFewOrMany, SameStage, SameStageFails, SameDiff, SameNothingStaged,
         SameCommit, SameCommitFails DEF Committer!Next, ProvedCommit!Next,
         Committer!Someone, ProvedCommit!Someone

(* A behaviour of MCServices is one of the commit.                         *)
LEMMA ServicesRunTheCommit == MCSpec => ProvedCommit!Spec
<1>1. MCInit => ProvedCommit!Init
  BY SameCommitInit DEF MCInit
<1>2. [MCNext]_<<world, vars, terminals, panel, canonical, commit, import, agents>>
        => [ProvedCommit!Next]_(ProvedCommit!vars)
  <2>1. CASE UNCHANGED commit
    BY <2>1 DEF commit, ProvedCommit!vars
  <2>2. CASE Committer!Next
    BY <2>2, SameCommitNext
  <2> QED
    BY <2>1, <2>2 DEF MCNext
<1> QED
  BY <1>1, <1>2, PTL DEF MCSpec, ProvedCommit!Spec

(* A commit of a ticket leaves what is older than its run as it was        *)
(* (ticketCommit.ts).                                                      *)
THEOREM ServicesCommitOnlyTheirOwn == MCSpec => OnlyItsOwn
<1>1. ProvedCommit!OnlyItsOwn => OnlyItsOwn
  BY DEF OnlyItsOwn, Committer!OnlyItsOwn, ProvedCommit!OnlyItsOwn, Committer!Commits,
         ProvedCommit!Commits, Committer!Older, ProvedCommit!Older, Committer!vars, ProvedCommit!vars
<1> QED
  BY <1>1, ServicesRunTheCommit, ProvedCommit!CommitsOnlyItsOwn, PTL

-----------------------------------------------------------------------------
(* The agents, likewise.                                                   *)

LEMMA SameAgentCardinality ==
  ASSUME NEW S
  PROVE  Agent!Cardinality(S) = ProvedAgent!Cardinality(S)
  BY DEF Agent!Cardinality, ProvedAgent!Cardinality

LEMMA SameAgentInit == Agent!Init = ProvedAgent!Init
  BY DEF Agent!Init, ProvedAgent!Init, Agent!Nothing, ProvedAgent!Nothing

LEMMA SameAgentSpawnPlain ==
  ASSUME NEW t
  PROVE  Agent!SpawnPlain(t) = ProvedAgent!SpawnPlain(t)
  BY DEF Agent!SpawnPlain, ProvedAgent!SpawnPlain, Agent!Begins, ProvedAgent!Begins,
         Agent!Unsettled, ProvedAgent!Unsettled, Agent!Started, ProvedAgent!Started,
         Agent!Nothing, ProvedAgent!Nothing, Agent!claude, ProvedAgent!claude,
         Agent!cache, ProvedAgent!cache

LEMMA SameAgentSpawnKnown ==
  ASSUME NEW t
  PROVE  Agent!SpawnKnown(t) = ProvedAgent!SpawnKnown(t)
  BY DEF Agent!SpawnKnown, ProvedAgent!SpawnKnown, Agent!Begins, ProvedAgent!Begins,
         Agent!Unsettled, ProvedAgent!Unsettled, Agent!Started, ProvedAgent!Started,
         Agent!Nothing, ProvedAgent!Nothing, Agent!claude, ProvedAgent!claude,
         Agent!cache, ProvedAgent!cache, Agent!Launched, ProvedAgent!Launched

LEMMA SameAgentSpawnProbing ==
  ASSUME NEW t
  PROVE  Agent!SpawnProbing(t) = ProvedAgent!SpawnProbing(t)
  BY SameAgentCardinality DEF Agent!SpawnProbing, ProvedAgent!SpawnProbing,
         Agent!Begins, ProvedAgent!Begins, Agent!Unsettled, ProvedAgent!Unsettled,
         Agent!Started, ProvedAgent!Started, Agent!Nothing, ProvedAgent!Nothing,
         Agent!claude, ProvedAgent!claude, Agent!NewProbe, ProvedAgent!NewProbe

LEMMA SameAgentProbeEnds ==
  ASSUME NEW p
  PROVE  Agent!ProbeEnds(p) = ProvedAgent!ProbeEnds(p)
  BY DEF Agent!ProbeEnds, ProvedAgent!ProbeEnds, Agent!Waiting, ProvedAgent!Waiting,
         Agent!Launched, ProvedAgent!Launched, Agent!claude, ProvedAgent!claude

LEMMA SameAgentKill ==
  ASSUME NEW t, NEW k
  PROVE  Agent!Kill(t, k) = ProvedAgent!Kill(t, k)
  BY DEF Agent!Kill, ProvedAgent!Kill, Agent!Alive, ProvedAgent!Alive, Agent!claude,
         ProvedAgent!claude, Agent!cache, ProvedAgent!cache

LEMMA SameAgentRefused ==
  ASSUME NEW t, NEW k
  PROVE  Agent!Refused(t, k) = ProvedAgent!Refused(t, k)
  BY DEF Agent!Refused, ProvedAgent!Refused, Agent!claude, ProvedAgent!claude

LEMMA SameAgentExits ==
  ASSUME NEW t, NEW k
  PROVE  Agent!Exits(t, k) = ProvedAgent!Exits(t, k)
  BY DEF Agent!Exits, ProvedAgent!Exits, Agent!Alive, ProvedAgent!Alive,
         Agent!claude, ProvedAgent!claude, Agent!cache, ProvedAgent!cache

LEMMA SameAgentInstall == Agent!Install = ProvedAgent!Install
  BY DEF Agent!Install, ProvedAgent!Install, Agent!cache, ProvedAgent!cache

LEMMA SameAgentNext == Agent!Next = ProvedAgent!Next
  BY SameAgentSpawnPlain, SameAgentSpawnKnown, SameAgentSpawnProbing,
         SameAgentProbeEnds, SameAgentKill, SameAgentRefused, SameAgentExits,
         SameAgentInstall DEF Agent!Next, ProvedAgent!Next

(* A behaviour of MCServices is one of the agents.                         *)
LEMMA ServicesRunTheAgents == MCSpec => ProvedAgent!Spec
<1>1. MCInit => ProvedAgent!Init
  BY SameAgentInit DEF MCInit
<1>2. [MCNext]_<<world, vars, terminals, panel, canonical, commit, import, agents>>
        => [ProvedAgent!Next]_(ProvedAgent!vars)
  <2>1. CASE UNCHANGED agents
    BY <2>1 DEF agents, ProvedAgent!vars
  <2>2. CASE Agent!Next
    BY <2>2, SameAgentNext
  <2> QED
    BY <2>1, <2>2 DEF MCNext
<1> QED
  BY <1>1, <1>2, PTL DEF MCSpec, ProvedAgent!Spec

(* No flag ends a run, no kill is lost in a probe, and what was dropped is *)
(* told (flagGuard.ts).                                                    *)
THEOREM ServicesGuardFlags == MCSpec => []FlagsAreGuarded
<1>1. ProvedAgent!FlagsAreGuarded => FlagsAreGuarded
  BY DEF FlagsAreGuarded, Agent!FlagsAreGuarded, ProvedAgent!FlagsAreGuarded,
         Agent!KillArrives, ProvedAgent!KillArrives, Agent!NoFlagKills, ProvedAgent!NoFlagKills,
         Agent!DroppedIsTold, ProvedAgent!DroppedIsTold, Agent!WaitIsForAProbe,
         ProvedAgent!WaitIsForAProbe, Agent!Alive, ProvedAgent!Alive
<1>2. ProvedAgent!Spec => []ProvedAgent!FlagsAreGuarded
  BY ProvedAgent!FlagsAreAlwaysGuarded
<1> QED
  BY <1>1, <1>2, ServicesRunTheAgents, PTL
-----------------------------------------------------------------------------
(* The panels, likewise.                                                   *)

LEMMA SamePanelCardinality ==
  ASSUME NEW S
  PROVE  Panel!Cardinality(S) = ProvedPanel!Cardinality(S)
  BY DEF Panel!Cardinality, ProvedPanel!Cardinality

LEMMA SameVoters == Panel!Voters = ProvedPanel!Voters
  BY DEF Panel!Voters, ProvedPanel!Voters, Panel!Kept, ProvedPanel!Kept,
         Panel!Answered, ProvedPanel!Answered, Panel!Seats, ProvedPanel!Seats

LEMMA SamePanelInit == Panel!Init = ProvedPanel!Init
  BY DEF Panel!Init, ProvedPanel!Init, Panel!Seats, ProvedPanel!Seats

LEMMA SameRunIsOver == Panel!RunIsOver = ProvedPanel!RunIsOver
  BY DEF Panel!RunIsOver, ProvedPanel!RunIsOver, Panel!Seats, ProvedPanel!Seats

LEMMA SameCarries ==
  ASSUME NEW group
  PROVE  Panel!Carries(group) = ProvedPanel!Carries(group)
  BY SamePanelCardinality, SameVoters DEF Panel!Carries, ProvedPanel!Carries,
     Panel!Majority, ProvedPanel!Majority

LEMMA SameWinner == Panel!Winner = ProvedPanel!Winner
  BY SamePanelCardinality, SameVoters DEF Panel!Winner, ProvedPanel!Winner,
     Panel!Group, ProvedPanel!Group

LEMMA SameSeatChain ==
  ASSUME NEW s
  PROVE  Panel!SeatChain(s) = ProvedPanel!SeatChain(s)
  BY DEF Panel!SeatChain, ProvedPanel!SeatChain, Panel!Seats, ProvedPanel!Seats

LEMMA SameConfident ==
  ASSUME NEW group
  PROVE  Panel!Confident(group) = ProvedPanel!Confident(group)
  BY SamePanelCardinality DEF Panel!Confident, ProvedPanel!Confident,
     Panel!MapThenSumSet, ProvedPanel!MapThenSumSet, Panel!MapThenFoldSet,
     ProvedPanel!MapThenFoldSet

LEMMA SameSettles ==
  ASSUME NEW group
  PROVE  Panel!Settles(group) = ProvedPanel!Settles(group)
  BY SameConfident, SameVoters DEF Panel!Settles, ProvedPanel!Settles,
     Panel!Applied, ProvedPanel!Applied, Panel!Failed, ProvedPanel!Failed,
     Panel!Irreversible, ProvedPanel!Irreversible

LEMMA SameSeatFails ==
  ASSUME NEW s
  PROVE  Panel!SeatFails(s) = ProvedPanel!SeatFails(s)
  BY SameSeatChain DEF Panel!SeatFails, ProvedPanel!SeatFails

LEMMA SameSeatAnswers ==
  ASSUME NEW s, NEW content
  PROVE  Panel!SeatAnswers(s, content) = ProvedPanel!SeatAnswers(s, content)
  BY SameSeatChain DEF Panel!SeatAnswers, ProvedPanel!SeatAnswers

LEMMA SameResolve == Panel!Resolve = ProvedPanel!Resolve
  BY SameRunIsOver, SameCarries, SameWinner, SameSettles, SamePanelCardinality, SameVoters
     DEF Panel!Resolve, ProvedPanel!Resolve, Panel!Failed, ProvedPanel!Failed

LEMMA SameTiebreak == Panel!Tiebreak = ProvedPanel!Tiebreak
  BY SameCarries, SameSettles, SameVoters
     DEF Panel!Tiebreak, ProvedPanel!Tiebreak, Panel!Failed, ProvedPanel!Failed

LEMMA SameGate ==
  /\ \A passed, fromPanel \in BOOLEAN :
       Panel!GateRules(passed, fromPanel) = ProvedPanel!GateRules(passed, fromPanel)
  /\ Panel!GateIsSilent = ProvedPanel!GateIsSilent
  /\ Panel!Inconclusive = ProvedPanel!Inconclusive
  /\ \A passed \in BOOLEAN : Panel!LastSeatRules(passed) = ProvedPanel!LastSeatRules(passed)
  BY DEF Panel!GateRules, ProvedPanel!GateRules, Panel!GateIsSilent, ProvedPanel!GateIsSilent,
         Panel!Inconclusive, ProvedPanel!Inconclusive, Panel!LastSeatRules,
         ProvedPanel!LastSeatRules, Panel!GateAttempts, ProvedPanel!GateAttempts,
         Panel!Verdict, ProvedPanel!Verdict

LEMMA SameVotes ==
  ASSUME NEW vote
  PROVE  Panel!Votes(vote) = ProvedPanel!Votes(vote)
  BY SameVoters DEF Panel!Votes, ProvedPanel!Votes

LEMMA SameMerge == Panel!Merge = ProvedPanel!Merge
  BY SameRunIsOver, SameVotes, SameVoters, SamePanelCardinality
     DEF Panel!Merge, ProvedPanel!Merge, Panel!Majority, ProvedPanel!Majority,
         Panel!Verdict, ProvedPanel!Verdict

LEMMA SameCheckPage ==
  ASSUME NEW page
  PROVE  Panel!CheckPage(page) = ProvedPanel!CheckPage(page)
  BY DEF Panel!CheckPage, ProvedPanel!CheckPage, Panel!Checked, ProvedPanel!Checked

LEMMA SamePanelNext == Panel!Next = ProvedPanel!Next
  BY SameSeatFails, SameSeatAnswers, SameResolve, SameTiebreak, SameGate, SameMerge,
     SameCheckPage DEF Panel!Next, ProvedPanel!Next, Panel!Seats, ProvedPanel!Seats,
     Panel!Contents, ProvedPanel!Contents

(* A behaviour of MCServices is one of a panel.                            *)
LEMMA ServicesRunThePanel == MCSpec => ProvedPanel!Spec
<1>1. MCInit => ProvedPanel!Init
  BY SamePanelInit DEF MCInit
<1>2. [MCNext]_<<world, vars, terminals, panel, canonical, commit, import, agents>>
        => [ProvedPanel!Next]_(ProvedPanel!vars)
  <2>1. CASE UNCHANGED panel
    BY <2>1 DEF panel, ProvedPanel!vars
  <2>2. CASE Panel!Next
    BY <2>2, SamePanelNext
  <2> QED
    BY <2>1, <2>2 DEF MCNext
<1> QED
  BY <1>1, <1>2, PTL DEF MCSpec, ProvedPanel!Spec

LEMMA SameModelsOf ==
  ASSUME NEW seats
  PROVE  Panel!ModelsOf(seats) = ProvedPanel!ModelsOf(seats)
  BY DEF Panel!ModelsOf, ProvedPanel!ModelsOf

LEMMA ThreeSeats == ProvedPanel!RosterIsAList
  BY DEF ProvedPanel!RosterIsAList, ProvedPanel!Seats, Roster

(* No answer is adopted on the word of one model (decisionPanel.ts).       *)
THEOREM ServicesShareAdoption == MCSpec => []AdoptedIsShared
<1>1. ProvedPanel!AdoptedIsShared => AdoptedIsShared
  BY SamePanelCardinality, SameModelsOf, SameVoters
     DEF AdoptedIsShared, Panel!AdoptedIsShared, ProvedPanel!AdoptedIsShared,
         Panel!Majority, ProvedPanel!Majority, Panel!Irreversible, ProvedPanel!Irreversible
<1>2. ProvedPanel!Spec => []ProvedPanel!AdoptedIsShared
  BY ThreeSeats, ProvedPanel!AdoptionIsShared
<1> QED
  BY <1>1, <1>2, ServicesRunThePanel, PTL

(* No doubt about a finished ticket is lost on the way (ticketVerifier.ts).*)
THEOREM ServicesShowDoubt == MCSpec => []DoubtIsShown
<1>1. ProvedPanel!DoubtIsShown => DoubtIsShown
  BY SamePanelCardinality, SameModelsOf, SameVotes
     DEF DoubtIsShown, Panel!DoubtIsShown, ProvedPanel!DoubtIsShown,
         Panel!Majority, ProvedPanel!Majority
<1>2. ProvedPanel!Spec => []ProvedPanel!DoubtIsShown
  BY ThreeSeats, ProvedPanel!DoubtIsAlwaysShown
<1> QED
  BY <1>1, <1>2, ServicesRunThePanel, PTL

-----------------------------------------------------------------------------
(* The terminals, likewise.                                               *)

LEMMA SameTerminalEnumeration ==
  ASSUME NEW S
  PROVE  Terminal!SetToSeq(S) = ProvedTerminal!SetToSeq(S)
  BY DEF Terminal!SetToSeq, ProvedTerminal!SetToSeq, Terminal!IsInjective,
     ProvedTerminal!IsInjective, Terminal!Cardinality, ProvedTerminal!Cardinality

LEMMA SameTerminalResumable ==
  ASSUME NEW recs, NEW es
  PROVE  Terminal!Resumable(recs, es) = ProvedTerminal!Resumable(recs, es)
  BY DEF Terminal!Resumable, ProvedTerminal!Resumable

LEMMA SameTerminalSent ==
  ASSUME NEW broadcasts, NEW told
  PROVE  Terminal!Sent(broadcasts, told) = ProvedTerminal!Sent(broadcasts, told)
  BY DEF Terminal!Sent, ProvedTerminal!Sent

LEMMA SameTerminalList == Terminal!List = ProvedTerminal!List
  BY SameTerminalResumable DEF Terminal!List, ProvedTerminal!List

LEMMA SameTerminalOnly ==
  ASSUME NEW ws, NEW msgs
  PROVE  Terminal!Only(ws, msgs) = ProvedTerminal!Only(ws, msgs)
  BY DEF Terminal!Only, ProvedTerminal!Only

LEMMA SameTerminalSays ==
  ASSUME NEW w, NEW k, NEW ts
  PROVE  Terminal!Says(w, k, ts) = ProvedTerminal!Says(w, k, ts)
  BY SameTerminalEnumeration DEF Terminal!Says, ProvedTerminal!Says

LEMMA SameTerminalDrops ==
  ASSUME NEW w
  PROVE  Terminal!Drops(w) = ProvedTerminal!Drops(w)
  BY DEF Terminal!Drops, ProvedTerminal!Drops

LEMMA SameTerminalInit == Terminal!Init = ProvedTerminal!Init
  BY DEF Terminal!Init, ProvedTerminal!Init

LEMMA SameTerminalServeReattach ==
  ASSUME NEW w, NEW t
  PROVE  Terminal!ServeReattach(w, t) = ProvedTerminal!ServeReattach(w, t)
  BY SameTerminalSent, SameTerminalOnly DEF Terminal!ServeReattach,
     ProvedTerminal!ServeReattach, Terminal!Takes, ProvedTerminal!Takes,
     Terminal!IsLive, ProvedTerminal!IsLive, Terminal!Subscribed,
     ProvedTerminal!Subscribed, Terminal!page, ProvedTerminal!page

LEMMA SameTerminalServeSpawn ==
  ASSUME NEW w, NEW t
  PROVE  Terminal!ServeSpawn(w, t) = ProvedTerminal!ServeSpawn(w, t)
  BY SameTerminalSent, SameTerminalOnly, SameTerminalList DEF Terminal!ServeSpawn,
     ProvedTerminal!ServeSpawn, Terminal!Takes, ProvedTerminal!Takes,
     Terminal!IsLive, ProvedTerminal!IsLive, Terminal!page, ProvedTerminal!page

LEMMA SameTerminalSpawnFails ==
  ASSUME NEW w, NEW t
  PROVE  Terminal!SpawnFails(w, t) = ProvedTerminal!SpawnFails(w, t)
  BY SameTerminalList, SameTerminalResumable DEF Terminal!SpawnFails,
     ProvedTerminal!SpawnFails, Terminal!Event, ProvedTerminal!Event,
     Terminal!Takes, ProvedTerminal!Takes, Terminal!IsLive, ProvedTerminal!IsLive,
     Terminal!page, ProvedTerminal!page

LEMMA SameTerminalServeAttach ==
  ASSUME NEW w, NEW t
  PROVE  Terminal!ServeAttach(w, t) = ProvedTerminal!ServeAttach(w, t)
  BY SameTerminalSent, SameTerminalOnly DEF Terminal!ServeAttach,
     ProvedTerminal!ServeAttach, Terminal!Takes, ProvedTerminal!Takes,
     Terminal!HasFrame, ProvedTerminal!HasFrame, Terminal!IsLive,
     ProvedTerminal!IsLive, Terminal!Subscribed, ProvedTerminal!Subscribed,
     Terminal!page, ProvedTerminal!page

LEMMA SameTerminalServeClose ==
  ASSUME NEW w, NEW t
  PROVE  Terminal!ServeClose(w, t) = ProvedTerminal!ServeClose(w, t)
  BY SameTerminalSent, SameTerminalOnly, SameTerminalList DEF Terminal!ServeClose,
     ProvedTerminal!ServeClose, Terminal!Takes, ProvedTerminal!Takes,
     Terminal!IsLive, ProvedTerminal!IsLive, Terminal!page, ProvedTerminal!page

LEMMA SameTerminalPtyExits ==
  ASSUME NEW t, NEW how
  PROVE  Terminal!PtyExits(t, how) = ProvedTerminal!PtyExits(t, how)
  BY SameTerminalSent, SameTerminalOnly, SameTerminalList DEF Terminal!PtyExits,
     ProvedTerminal!PtyExits, Terminal!Event, ProvedTerminal!Event, Terminal!IsLive,
     ProvedTerminal!IsLive, Terminal!page, ProvedTerminal!page

LEMMA SameTerminalLateExit ==
  ASSUME NEW d
  PROVE  Terminal!LateExit(d) = ProvedTerminal!LateExit(d)
  BY SameTerminalSent, SameTerminalOnly, SameTerminalList DEF Terminal!LateExit,
     ProvedTerminal!LateExit, Terminal!page, ProvedTerminal!page

LEMMA SameTerminalFlush == Terminal!Flush = ProvedTerminal!Flush
  BY DEF Terminal!Flush, ProvedTerminal!Flush, Terminal!page, ProvedTerminal!page

LEMMA SameTerminalRestart == Terminal!Restart = ProvedTerminal!Restart
  BY DEF Terminal!Restart, ProvedTerminal!Restart, Terminal!Event,
     ProvedTerminal!Event

LEMMA SameTerminalOpen ==
  ASSUME NEW w, NEW t
  PROVE  Terminal!Open(w, t) = ProvedTerminal!Open(w, t)
  BY SameTerminalSays DEF Terminal!Open, ProvedTerminal!Open, Terminal!InUse,
     ProvedTerminal!InUse, Terminal!Shows, ProvedTerminal!Shows, Terminal!Attaches,
     ProvedTerminal!Attaches, Terminal!server, ProvedTerminal!server

LEMMA SameTerminalAdopt ==
  ASSUME NEW w, NEW t
  PROVE  Terminal!Adopt(w, t) = ProvedTerminal!Adopt(w, t)
  BY SameTerminalSays DEF Terminal!Adopt, ProvedTerminal!Adopt, Terminal!Event,
     ProvedTerminal!Event, Terminal!IsLive, ProvedTerminal!IsLive, Terminal!Shows,
     ProvedTerminal!Shows, Terminal!Attaches, ProvedTerminal!Attaches,
     Terminal!server, ProvedTerminal!server

LEMMA SameTerminalClose ==
  ASSUME NEW w, NEW t
  PROVE  Terminal!Close(w, t) = ProvedTerminal!Close(w, t)
  BY SameTerminalSays DEF Terminal!Close, ProvedTerminal!Close, Terminal!InUse,
     ProvedTerminal!InUse, Terminal!Shows, ProvedTerminal!Shows, Terminal!Shown,
     ProvedTerminal!Shown, Terminal!Exits, ProvedTerminal!Exits, Terminal!server,
     ProvedTerminal!server

LEMMA SameTerminalResume ==
  ASSUME NEW w, NEW t
  PROVE  Terminal!Resume(w, t) = ProvedTerminal!Resume(w, t)
  BY SameTerminalSays DEF Terminal!Resume, ProvedTerminal!Resume, Terminal!Event,
     ProvedTerminal!Event, Terminal!InUse, ProvedTerminal!InUse, Terminal!Exits,
     ProvedTerminal!Exits, Terminal!Shows, ProvedTerminal!Shows, Terminal!Attaches,
     ProvedTerminal!Attaches, Terminal!server, ProvedTerminal!server

LEMMA SameTerminalConnect ==
  ASSUME NEW w
  PROVE  Terminal!Connect(w) = ProvedTerminal!Connect(w)
  BY SameTerminalSays, SameTerminalResumable DEF Terminal!Connect,
     ProvedTerminal!Connect, Terminal!Attaches, ProvedTerminal!Attaches,
     Terminal!server, ProvedTerminal!server

LEMMA SameTerminalBreak ==
  ASSUME NEW w
  PROVE  Terminal!Break(w) = ProvedTerminal!Break(w)
  BY SameTerminalDrops DEF Terminal!Break, ProvedTerminal!Break, Terminal!Event,
     ProvedTerminal!Event

LEMMA SameTerminalReload ==
  ASSUME NEW w, NEW v
  PROVE  Terminal!Reload(w, v) = ProvedTerminal!Reload(w, v)
  BY SameTerminalDrops DEF Terminal!Reload, ProvedTerminal!Reload, Terminal!Event,
     ProvedTerminal!Event

LEMMA SameTerminalHearsList ==
  ASSUME NEW w
  PROVE  Terminal!HearsList(w) = ProvedTerminal!HearsList(w)
  BY DEF Terminal!HearsList, ProvedTerminal!HearsList, Terminal!Hears,
     ProvedTerminal!Hears, Terminal!server, ProvedTerminal!server

LEMMA SameTerminalHearsRestore ==
  ASSUME NEW w
  PROVE  Terminal!HearsRestore(w) = ProvedTerminal!HearsRestore(w)
  BY DEF Terminal!HearsRestore, ProvedTerminal!HearsRestore, Terminal!Hears,
     ProvedTerminal!Hears, Terminal!server, ProvedTerminal!server, Terminal!page,
     ProvedTerminal!page

LEMMA SameTerminalHearsNoPty ==
  ASSUME NEW w
  PROVE  Terminal!HearsNoPty(w) = ProvedTerminal!HearsNoPty(w)
  BY SameTerminalSays DEF Terminal!HearsNoPty, ProvedTerminal!HearsNoPty,
     Terminal!Hears, ProvedTerminal!Hears, Terminal!Shown, ProvedTerminal!Shown,
     Terminal!Exits, ProvedTerminal!Exits, Terminal!Attaches,
     ProvedTerminal!Attaches, Terminal!server, ProvedTerminal!server

LEMMA SameTerminalHearsExit ==
  ASSUME NEW w
  PROVE  Terminal!HearsExit(w) = ProvedTerminal!HearsExit(w)
  BY DEF Terminal!HearsExit, ProvedTerminal!HearsExit, Terminal!Hears,
     ProvedTerminal!Hears, Terminal!Shown, ProvedTerminal!Shown, Terminal!Exits,
     ProvedTerminal!Exits, Terminal!server, ProvedTerminal!server

LEMMA SameTerminalNext == Terminal!Next = ProvedTerminal!Next
  BY SameTerminalServeReattach, SameTerminalServeSpawn, SameTerminalSpawnFails,
     SameTerminalServeAttach, SameTerminalServeClose, SameTerminalPtyExits,
     SameTerminalLateExit, SameTerminalFlush, SameTerminalRestart, SameTerminalOpen,
     SameTerminalAdopt, SameTerminalClose, SameTerminalResume, SameTerminalConnect,
     SameTerminalBreak, SameTerminalReload, SameTerminalHearsList,
     SameTerminalHearsRestore, SameTerminalHearsNoPty, SameTerminalHearsExit
     DEF Terminal!Next, ProvedTerminal!Next, Terminal!Exits, ProvedTerminal!Exits

(* A behaviour of MCServices is one of the terminals.                      *)
LEMMA ServicesRunTheTerminals == MCSpec => ProvedTerminal!Spec
<1>1. MCInit => ProvedTerminal!Init
  BY SameTerminalInit DEF MCInit
<1>2. [MCNext]_<<world, vars, terminals, panel, canonical, commit, import, agents>>
        => [ProvedTerminal!Next]_(ProvedTerminal!vars)
  <2>1. CASE UNCHANGED terminals
    BY <2>1 DEF terminals, ProvedTerminal!vars
  <2>2. CASE Terminal!Next
    BY <2>2, SameTerminalNext
  <2> QED
    BY <2>1, <2>2 DEF MCNext
<1> QED
  BY <1>1, <1>2, PTL DEF MCSpec, ProvedTerminal!Spec

LEMMA TabsAreFinite == ProvedTerminal!ConstantsOK
  BY TabsAssumption DEF ProvedTerminal!ConstantsOK, ProvedTerminal!IsFiniteSet,
     Terminal!IsFiniteSet, ProvedTerminal!Entry, Terminal!Entry,
     ProvedTerminal!Exits, Terminal!Exits

(* Every window knows what can be resumed (index.ts).                      *)
THEOREM ServicesListResumable == MCSpec => []ResumableIsListed
<1>1. ProvedTerminal!ResumableIsListed => ResumableIsListed
  BY SameTerminalResumable
     DEF ResumableIsListed, Terminal!ResumableIsListed, ProvedTerminal!ResumableIsListed,
         Terminal!Settled, ProvedTerminal!Settled
<1>2. ProvedTerminal!Spec => []ProvedTerminal!ResumableIsListed
  BY TabsAreFinite, ProvedTerminal!EveryWindowKnows
<1> QED
  BY <1>1, <1>2, ServicesRunTheTerminals, PTL

(* A tab that looks alive is (terminalManager.ts, ChatOverlay.tsx).        *)
THEOREM ServicesWatchRunning == MCSpec => []RunningIsWatched
<1>1. ProvedTerminal!RunningIsWatched => RunningIsWatched
  BY DEF RunningIsWatched, Terminal!RunningIsWatched, ProvedTerminal!RunningIsWatched,
         Terminal!Settled, ProvedTerminal!Settled, Terminal!IsLive, ProvedTerminal!IsLive
<1>2. ProvedTerminal!Spec => []ProvedTerminal!RunningIsWatched
  BY TabsAreFinite, ProvedTerminal!NoTabLooksAlive
<1> QED
  BY <1>1, <1>2, ServicesRunTheTerminals, PTL

-----------------------------------------------------------------------------
(***************************************************************************)
(* Induction and recursion over the numbers up to n, for the folds below.  *)
(***************************************************************************)
LEMMA Least ==
  ASSUME NEW T, T \subseteq Nat, T # {}
  PROVE  \E m \in T : \A k \in T : ~(k < m)
<1> DEFINE R == OpToRel(<, Nat)
<1>1. IsWellFoundedOn(R, Nat)
  BY NatLessThanWellFounded
<1>2. \A x, y \in Nat : y < x => <<y, x>> \in R
  BY DEF OpToRel
<1> HIDE DEF R
<1>3. PICK m \in T : \A k \in T : ~(<<k, m>> \in R)
  BY <1>1, WFMin
<1> QED
  BY <1>2, <1>3

\* G: the numbers of which something holds.
LEMMA Induction ==
  ASSUME NEW n \in Nat, NEW G, 0 \in G, \A i \in 1..n : i - 1 \in G => i \in G
  PROVE  \A i \in 0..n : i \in G
<1> DEFINE Bad == {i \in 0..n : i \notin G}
<1>1. SUFFICES ASSUME Bad # {} PROVE FALSE
  OBVIOUS
<1>2. PICK m \in Bad : \A k \in Bad : ~(k < m)
  <2>1. Bad \subseteq Nat
    OBVIOUS
  <2> HIDE DEF Bad
  <2> QED
    BY <1>1, <2>1, Least
<1>3. m \in 1..n /\ m - 1 \in 0..n /\ m - 1 < m
  BY <1>2
<1>4. m - 1 \in G
  BY <1>2, <1>3
<1> QED
  BY <1>2, <1>3, <1>4

\* F gives, from the value reached and the number of the next element, the next.
Follows(f, b, F, n) == f[0] = b /\ \A i \in 1..n : f[i] = F[<<f[i - 1], i>>]

LEMMA Recursion ==
  ASSUME NEW V, NEW b \in V, NEW n \in Nat, NEW F \in [V \X (1..n) -> V]
  PROVE  \E f \in [0..n -> V] : Follows(f, b, F, n)
<1> DEFINE Upto(f, m) == f[0] = b /\ \A i \in 1..m : f[i] = F[<<f[i - 1], i>>]
           G == {m \in 0..n : \E f \in [0..m -> V] : Upto(f, m)}
<1>1. 0 \in G
  <2> DEFINE f == [i \in 0..0 |-> b]
  <2>1. f \in [0..0 -> V] /\ f[0] = b /\ 1..0 = {} /\ 0 \in 0..n
    OBVIOUS
  <2> HIDE DEF f
  <2>2. Upto(f, 0)
    BY <2>1
  <2> QED
    BY <2>1, <2>2
<1>2. ASSUME NEW m \in 1..n, m - 1 \in G PROVE m \in G
  <2>1. PICK f \in [0..(m - 1) -> V] : Upto(f, m - 1)
    BY <1>2
  <2> DEFINE g == [i \in 0..m |-> IF i = m THEN F[<<f[m - 1], m>>] ELSE f[i]]
  <2>2. f[m - 1] \in V /\ F[<<f[m - 1], m>>] \in V
    OBVIOUS
  <2>3. g \in [0..m -> V]
    BY <2>2
  <2>4. g[0] = b
    BY <2>1
  <2>5. ASSUME NEW i \in 1..m PROVE g[i] = F[<<g[i - 1], i>>]
    <3>1. CASE i = m
      <4>1. m \in 0..m /\ m - 1 \in 0..m /\ m - 1 # m
        OBVIOUS
      <4>2. g[m] = F[<<f[m - 1], m>>] /\ g[m - 1] = f[m - 1]
        BY <4>1
      <4> QED
        BY <3>1, <4>2
    <3>2. CASE i # m
      <4>1. i \in 1..(m - 1) /\ i \in 0..m /\ i - 1 \in 0..m /\ i - 1 # m
        BY <3>2
      <4>2. g[i] = f[i] /\ g[i - 1] = f[i - 1]
        BY <3>2, <4>1
      <4> QED
        BY <2>1, <4>1, <4>2
    <3> QED
      BY <3>1, <3>2
  <2> HIDE DEF g
  <2> QED
    BY <2>3, <2>4, <2>5
<1>3. n \in G
  <2> HIDE DEF G
  <2> QED
    BY <1>1, <1>2, Induction
<1> QED
  BY <1>3 DEF Follows

(***************************************************************************)
(* The canonical log.                                                      *)
(***************************************************************************)
Shown == {"starting", "ready", "thinking", "using-tool", "waiting-user", "completed",
          "failed", "stopped", Canon!Absent}

Names == Kinds \cup {"PermissionRequest"}
Key == (Sessions \X Names \X {"id", "at", "state"} \X Nat) \cup (Sessions \X {"migration"})
Event == [n : Nat, session : Sessions, key : Key, state : Shown]
Hook == [session : Sessions, kind : Kinds, asks : BOOLEAN, at : Nat, n : Nat]

Taken(past, e) == IF Canon!Logged(past, e) THEN past ELSE Append(past, e)

\* The folds of the log and of the tree, as the functions they are.
LEMMA AppendedFold ==
  ASSUME NEW past \in Seq(Event), NEW es \in Seq(Event)
  PROVE  \E f \in [0..Len(es) -> Seq(Event)] :
           /\ f[0] = past
           /\ \A i \in 1..Len(es) : f[i] = Taken(f[i - 1], es[i])
           /\ Canon!Appended(past, es) = f[Len(es)]
<1> DEFINE n == Len(es)
           F == [x \in Seq(Event) \X (1..n) |-> Taken(x[1], es[x[2]])]
           Fold(g) == g = [i \in 0..n |->
                             IF i = 0 THEN past
                             ELSE IF Canon!Logged(g[i - 1], es[i]) THEN g[i - 1]
                             ELSE Append(g[i - 1], es[i])]
           c == CHOOSE g : Fold(g)
<1>1. n \in Nat /\ \A i \in 1..n : es[i] \in Event
  OBVIOUS
<1>2. F \in [Seq(Event) \X (1..n) -> Seq(Event)]
  <2>1. ASSUME NEW x \in Seq(Event) \X (1..n) PROVE Taken(x[1], es[x[2]]) \in Seq(Event)
    <3>1. x[1] \in Seq(Event) /\ es[x[2]] \in Event
      BY <1>1
    <3> QED
      BY <3>1, AppendProperties DEF Taken
  <2> QED
    BY <2>1
<1>3. PICK f \in [0..n -> Seq(Event)] : Follows(f, past, F, n)
  <2> DEFINE V == Seq(Event)
  <2>1. past \in V /\ F \in [V \X (1..n) -> V] /\ n \in Nat
    BY <1>2
  <2> HIDE DEF F, V, n, Fold, c
  <2>2. \E f \in [0..n -> V] : Follows(f, past, F, n)
    BY <2>1, Recursion
  <2> QED
    BY <2>2 DEF V
<1>4. \A i \in 1..n : f[i] = Taken(f[i - 1], es[i])
  <2>1. \A i \in 1..n : f[i - 1] \in Seq(Event)
    BY <1>1
  <2> QED
    BY <1>3, <2>1 DEF Follows
<1>5. Fold(f)
  <2>1. \A i \in 0..n : f[i] = IF i = 0 THEN past
                               ELSE IF Canon!Logged(f[i - 1], es[i]) THEN f[i - 1]
                               ELSE Append(f[i - 1], es[i])
    <3> HIDE DEF n, F
    <3>1. \A i \in 0..n : i # 0 => i \in 1..n
      BY <1>1
    <3> QED
      BY <1>3, <1>4, <3>1 DEF Taken, Follows
  <2> QED
    BY <2>1
<1>6. Canon!Appended(past, es) = c[n]
  BY DEF Canon!Appended
<1>7. Fold(c)
  <2> HIDE DEF Fold
  <2> QED
    BY <1>5
<1>8. \A i \in 0..n : c[i] = f[i]
  <2> DEFINE G == {i \in 0..n : c[i] = f[i]}
  <2>1. 0 \in G
    <3> HIDE DEF c
    <3> QED
      BY <1>1, <1>3, <1>7 DEF Follows
  <2>2. ASSUME NEW i \in 1..n, i - 1 \in G PROVE i \in G
    <3>1. c[i] = Taken(c[i - 1], es[i])
      <4> HIDE DEF c, n
      <4>1. i \in 0..n /\ i # 0
        BY <1>1
      <4> QED
        BY <1>7, <4>1 DEF Taken
    <3> QED
      BY <1>4, <2>2, <3>1
  <2> HIDE DEF G
  <2>3. \A i \in 0..n : i \in G
    BY <1>1, <2>1, <2>2, Induction
  <2> QED
    BY <2>3 DEF G
<1> HIDE DEF c
<1> QED
  BY <1>1, <1>3, <1>4, <1>6, <1>8 DEF Follows

LEMMA AppliedFold ==
  ASSUME NEW cat \in [Sessions -> Shown], NEW es \in Seq(Event)
  PROVE  \E f \in [0..Len(es) -> [Sessions -> Shown]] :
           /\ f[0] = cat
           /\ \A i \in 1..Len(es) : f[i] = Canon!Apply(f[i - 1], es[i])
           /\ Canon!Applied(cat, es) = f[Len(es)]
<1> DEFINE n == Len(es)
           V == [Sessions -> Shown]
           F == [x \in V \X (1..n) |-> Canon!Apply(x[1], es[x[2]])]
           Fold(g) == g = [i \in 0..n |-> IF i = 0 THEN cat ELSE Canon!Apply(g[i - 1], es[i])]
           c == CHOOSE g : Fold(g)
<1>1. n \in Nat /\ \A i \in 1..n : es[i] \in Event
  OBVIOUS
<1>2. F \in [V \X (1..n) -> V]
  <2>1. ASSUME NEW x \in V \X (1..n) PROVE Canon!Apply(x[1], es[x[2]]) \in V
    <3>1. x[1] \in V /\ es[x[2]].session \in Sessions /\ es[x[2]].state \in Shown
      BY <1>1 DEF Event
    <3>2. "starting" \in Shown
      BY DEF Shown
    <3> QED
      BY <3>1, <3>2 DEF Canon!Apply
  <2> QED
    BY <2>1
<1>3. PICK f \in [0..n -> V] : Follows(f, cat, F, n)
  <2>1. cat \in V /\ n \in Nat
    OBVIOUS
  <2> HIDE DEF F, V, n, Fold, c
  <2> QED
    BY <1>2, <2>1, Recursion
<1>4. \A i \in 1..n : f[i] = Canon!Apply(f[i - 1], es[i])
  <2>1. \A i \in 1..n : f[i - 1] \in V
    BY <1>1
  <2> QED
    BY <1>3, <2>1 DEF Follows
<1>5. Fold(f)
  <2>1. \A i \in 0..n : f[i] = IF i = 0 THEN cat ELSE Canon!Apply(f[i - 1], es[i])
    <3> HIDE DEF n, F
    <3>1. \A i \in 0..n : i # 0 => i \in 1..n
      BY <1>1
    <3> QED
      BY <1>3, <1>4, <3>1 DEF Follows
  <2> QED
    BY <2>1
<1>6. Canon!Applied(cat, es) = c[n]
  BY DEF Canon!Applied
<1>7. Fold(c)
  <2> HIDE DEF Fold
  <2> QED
    BY <1>5
<1>8. \A i \in 0..n : c[i] = f[i]
  <2> DEFINE G == {i \in 0..n : c[i] = f[i]}
  <2>1. 0 \in G
    <3> HIDE DEF c
    <3> QED
      BY <1>1, <1>3, <1>7 DEF Follows
  <2>2. ASSUME NEW i \in 1..n, i - 1 \in G PROVE i \in G
    <3>1. c[i] = Canon!Apply(c[i - 1], es[i])
      <4> HIDE DEF c, n
      <4>1. i \in 0..n /\ i # 0
        BY <1>1
      <4> QED
        BY <1>7, <4>1
    <3> QED
      BY <1>4, <2>2, <3>1
  <2> HIDE DEF G
  <2>3. \A i \in 0..n : i \in G
    BY <1>1, <2>1, <2>2, Induction
  <2> QED
    BY <2>3 DEF G
<1> HIDE DEF c
<1> QED
  BY <1>1, <1>3, <1>4, <1>6, <1>8 DEF Follows

\* The log is only appended to, and what is new in it is what was handed over.
LEMMA AppendedGrows ==
  ASSUME NEW past \in Seq(Event), NEW es \in Seq(Event)
  PROVE  /\ Canon!Appended(past, es) \in Seq(Event)
         /\ Len(past) <= Len(Canon!Appended(past, es))
         /\ \A i \in 1..Len(past) : Canon!Appended(past, es)[i] = past[i]
         /\ \A i \in 1..Len(Canon!Appended(past, es)) : i > Len(past) =>
              \E k \in 1..Len(es) : Canon!Appended(past, es)[i] = es[k]
<1> DEFINE Grown(now) == /\ now \in Seq(Event) /\ Len(past) <= Len(now)
                         /\ \A i \in 1..Len(past) : now[i] = past[i]
                         /\ \A i \in 1..Len(now) : i > Len(past) =>
                              \E k \in 1..Len(es) : now[i] = es[k]
<1>1. PICK f \in [0..Len(es) -> Seq(Event)] :
        /\ f[0] = past
        /\ \A i \in 1..Len(es) : f[i] = Taken(f[i - 1], es[i])
        /\ Canon!Appended(past, es) = f[Len(es)]
  BY AppendedFold
<1> DEFINE G == {i \in 0..Len(es) : Grown(f[i])}
<1>2. 0 \in G
  BY <1>1
<1>3. ASSUME NEW i \in 1..Len(es), i - 1 \in G PROVE i \in G
  <2>1. CASE f[i] = f[i - 1]
    <3>1. Grown(f[i - 1]) /\ i \in 0..Len(es)
      BY <1>3
    <3> HIDE DEF Grown
    <3> QED
      BY <2>1, <3>1
  <2>2. CASE f[i] = Append(f[i - 1], es[i])
    <3> DEFINE was == f[i - 1]
    <3>1. Grown(was) /\ es[i] \in Event
      BY <1>3
    <3>2. f[i] = Append(was, es[i])
      BY <2>2
    <3> HIDE DEF was
    <3>3. /\ Append(was, es[i]) \in Seq(Event) /\ Len(Append(was, es[i])) = Len(was) + 1
          /\ \A k \in 1..Len(was) : Append(was, es[i])[k] = was[k]
          /\ Append(was, es[i])[Len(was) + 1] = es[i]
      BY <3>1, AppendProperties
    <3>4. Grown(Append(was, es[i]))
      BY <3>1, <3>3
    <3>5. i \in 0..Len(es)
      OBVIOUS
    <3> HIDE DEF Grown
    <3> QED
      BY <3>2, <3>4, <3>5
  <2> QED
    BY <1>1, <2>1, <2>2 DEF Taken
<1>4. Grown(f[Len(es)])
  <2>1. Len(es) \in Nat /\ Len(es) \in 0..Len(es)
    OBVIOUS
  <2> HIDE DEF G
  <2>2. \A i \in 0..Len(es) : i \in G
    BY <1>2, <1>3, <2>1, Induction
  <2> QED
    BY <2>1, <2>2 DEF G
<1> QED
  BY <1>1, <1>4

\* Applying what is new to the tree of the rest is applying everything.
LEMMA AppliedJoins ==
  ASSUME NEW cat \in [Sessions -> Shown], NEW past \in Seq(Event), NEW now \in Seq(Event),
         Len(past) <= Len(now), \A i \in 1..Len(past) : now[i] = past[i]
  PROVE  Canon!Applied(cat, now)
           = Canon!Applied(Canon!Applied(cat, past), SubSeq(now, Len(past) + 1, Len(now)))
<1> DEFINE n == Len(past)
           m == Len(now) - n
           new == SubSeq(now, n + 1, Len(now))
<1>1. /\ n \in Nat /\ m \in Nat /\ Len(now) = n + m
      /\ new \in Seq(Event) /\ Len(new) = m /\ \A i \in 1..m : new[i] = now[n + i]
  OBVIOUS
<1>2. PICK f \in [0..Len(now) -> [Sessions -> Shown]] :
        /\ f[0] = cat
        /\ \A i \in 1..Len(now) : f[i] = Canon!Apply(f[i - 1], now[i])
        /\ Canon!Applied(cat, now) = f[Len(now)]
  BY AppliedFold
<1>3. PICK g \in [0..n -> [Sessions -> Shown]] :
        /\ g[0] = cat
        /\ \A i \in 1..n : g[i] = Canon!Apply(g[i - 1], past[i])
        /\ Canon!Applied(cat, past) = g[n]
  BY AppliedFold
<1>4. g[n] \in [Sessions -> Shown]
  BY <1>1, <1>3
<1> HIDE DEF new, m
<1>5. PICK h \in [0..m -> [Sessions -> Shown]] :
        /\ h[0] = g[n]
        /\ \A i \in 1..m : h[i] = Canon!Apply(h[i - 1], new[i])
        /\ Canon!Applied(g[n], new) = h[m]
  BY <1>1, <1>4, AppliedFold
<1>6. f[n] = g[n]
  <2> DEFINE G == {i \in 0..n : f[i] = g[i]}
  <2>1. 0 \in G
    BY <1>1, <1>2, <1>3
  <2>2. ASSUME NEW i \in 1..n, i - 1 \in G PROVE i \in G
    BY <1>1, <1>2, <1>3, <2>2
  <2> HIDE DEF G
  <2>3. \A i \in 0..n : i \in G
    BY <1>1, <2>1, <2>2, Induction
  <2> QED
    BY <1>1, <2>3 DEF G
<1>7. f[n + m] = h[m]
  <2> DEFINE G == {i \in 0..m : f[n + i] = h[i]}
  <2>1. 0 \in G
    BY <1>1, <1>5, <1>6
  <2>2. ASSUME NEW i \in 1..m, i - 1 \in G PROVE i \in G
    <3>1. n + i \in 1..Len(now) /\ n + i - 1 = n + (i - 1) /\ new[i] = now[n + i]
      BY <1>1
    <3>2. f[n + (i - 1)] = h[i - 1]
      BY <2>2
    <3> QED
      BY <1>2, <1>5, <3>1, <3>2
  <2> HIDE DEF G
  <2>3. \A i \in 0..m : i \in G
    BY <1>1, <2>1, <2>2, Induction
  <2> QED
    BY <1>1, <2>3 DEF G
<1> QED
  BY <1>1, <1>2, <1>3, <1>5, <1>7 DEF new

\* Hooks are in the order of their arrival: those of the log, the one being
\* probed, those behind it.
InOrder ==
  /\ \A h, g \in probing : h = g
  /\ \A i \in 1..Len(log) : log[i].n <= hooks
  /\ \A h \in probing : h.n <= hooks /\ \A i \in 1..Len(log) : log[i].n <= h.n
  /\ \A j \in 1..Len(queue) :
       /\ queue[j].n <= hooks
       /\ \A i \in 1..Len(log) : log[i].n <= queue[j].n
       /\ \A h \in probing : h.n <= queue[j].n
       /\ \A i \in 1..j : queue[i].n <= queue[j].n

LogTyped ==
  /\ log \in Seq(Event)
  /\ catalog \in [Sessions -> Shown]
  /\ queue \in Seq(Hook)
  /\ probing \in SUBSET Hook
  /\ imports \in SUBSET Sessions
  /\ managed \in SUBSET Sessions
  /\ hooks \in Nat
  /\ clock \in Nat

LogInv == LogTyped /\ InOrder /\ Canon!CatalogIsTheLog

LEMMA ReplayTyped ==
  ASSUME NEW es \in Seq(Event)
  PROVE  Canon!Replay(es) \in [Sessions -> Shown]
<1>1. [s \in Sessions |-> Canon!Absent] \in [Sessions -> Shown]
  BY DEF Shown
<1> DEFINE none == [s \in Sessions |-> Canon!Absent]
<1> HIDE DEF none
<1>2. PICK f \in [0..Len(es) -> [Sessions -> Shown]] : Canon!Applied(none, es) = f[Len(es)]
  BY <1>1, AppliedFold DEF none
<1> QED
  BY <1>2 DEF Canon!Replay, none

LEMMA HookEvents ==
  ASSUME NEW h \in Hook
  PROVE  /\ Canon!Canonical(h) \in Seq(Event)
         /\ \A i \in 1..Len(Canon!Canonical(h)) : Canon!Canonical(h)[i].n = h.n
<1> DEFINE eff == Canon!Effective(h.kind, h.asks)
           news == Canon!Entry(h, Canon!ContentKey(h), Canon!Implied(eff))
           state == Canon!Entry(h, <<h.session, h.kind, "state", h.at>>,
                                Canon!Normalized(Canon!Advanced(h), h.kind))
<1>1. h.kind \in Names /\ eff \in Names
  BY DEF Canon!Effective, Hook, Names
<1>2. Canon!ContentKey(h) \in Key
  BY <1>1 DEF Canon!ContentKey, Hook, Key
<1>3. Canon!Implied(eff) \in Shown
  BY DEF Canon!Implied, Shown, Canon!Absent
<1>4. <<h.session, h.kind, "state", h.at>> \in Key
  BY <1>1 DEF Hook, Key
<1>5. Canon!Normalized(Canon!Advanced(h), h.kind) \in Shown
  BY DEF Canon!Normalized, Shown
<1>6. news \in Event /\ news.n = h.n
  BY <1>2, <1>3 DEF Canon!Entry, Event, Hook
<1>7. state \in Event /\ state.n = h.n
  BY <1>4, <1>5 DEF Canon!Entry, Event, Hook
<1>8. Canon!Canonical(h) = Append(Canon!Content(h), state)
  BY DEF Canon!Canonical
<1>9. Canon!Content(h) = <<>> \/ Canon!Content(h) = <<news>>
  BY DEF Canon!Content
<1> HIDE DEF news, state
<1>10. CASE Canon!Content(h) = <<>>
  <2>1. Append(<<>>, state) = <<state>>
    OBVIOUS
  <2>2. <<state>> \in Seq(Event) /\ Len(<<state>>) = 1 /\ <<state>>[1] = state
    BY <1>7
  <2> QED
    BY <1>7, <1>8, <1>10, <2>1, <2>2
<1>11. CASE Canon!Content(h) = <<news>>
  <2> DEFINE es == Append(<<news>>, state)
  <2>1. <<news>> \in Seq(Event) /\ Len(<<news>>) = 1 /\ <<news>>[1] = news
    BY <1>6
  <2>2. es \in Seq(Event) /\ Len(es) = 2 /\ es[1] = news /\ es[2] = state
    BY <1>7, <2>1, AppendProperties
  <2>3. Canon!Canonical(h) = es
    BY <1>8, <1>11
  <2> HIDE DEF es
  <2> QED
    BY <1>6, <1>7, <2>2, <2>3
<1> QED
  BY <1>9, <1>10, <1>11

\* However many events are stored, the tree stays the replay of the log.
LEMMA StoredReplays ==
  ASSUME LogTyped, Canon!CatalogIsReplay, NEW es \in Seq(Event), Canon!Stored(es)
  PROVE  /\ log' \in Seq(Event)
         /\ catalog' \in [Sessions -> Shown]
         /\ Canon!CatalogIsReplay'
         /\ Len(log) <= Len(log')
         /\ \A i \in 1..Len(log) : log'[i] = log[i]
         /\ \A i \in 1..Len(log') : i > Len(log) => \E k \in 1..Len(es) : log'[i] = es[k]
<1>1. log \in Seq(Event) /\ log' = Canon!Appended(log, es)
  BY DEF LogTyped, Canon!Stored
<1>2. /\ log' \in Seq(Event)
      /\ Len(log) <= Len(log')
      /\ \A i \in 1..Len(log) : log'[i] = log[i]
      /\ \A i \in 1..Len(log') : i > Len(log) => \E k \in 1..Len(es) : log'[i] = es[k]
  BY <1>1, AppendedGrows
<1> DEFINE none == [s \in Sessions |-> Canon!Absent]
<1>3. none \in [Sessions -> Shown]
  BY DEF Shown
<1>4. catalog = Canon!Applied(none, log)
  BY DEF Canon!CatalogIsReplay, Canon!Replay
<1>5. catalog' = Canon!Applied(catalog, SubSeq(log', Len(log) + 1, Len(log')))
  BY DEF Canon!Stored
<1>6. Canon!CatalogIsReplay' <=> catalog' = Canon!Applied(none, log')
  BY DEF Canon!CatalogIsReplay, Canon!Replay
<1>7. Canon!Replay(log') = Canon!Applied(none, log')
  BY DEF Canon!Replay
<1> HIDE DEF none
<1>8. catalog' = Canon!Applied(none, log')
  BY <1>1, <1>2, <1>3, <1>4, <1>5, AppliedJoins
<1>9. catalog' \in [Sessions -> Shown]
  BY <1>2, <1>7, <1>8, ReplayTyped
<1> QED
  BY <1>2, <1>6, <1>8, <1>9

LEMMA Numbers ==
  ASSUME LogTyped
  PROVE  /\ Len(queue) \in Nat /\ hooks \in Nat
         /\ \A i \in 1..Len(queue) : queue[i].n \in Nat
         /\ \A i \in 1..Len(log) : log[i].n \in Nat
         /\ \A g \in probing : g.n \in Nat
<1>1. /\ \A i \in 1..Len(queue) : queue[i] \in Hook
      /\ \A i \in 1..Len(log) : log[i] \in Event
      /\ \A g \in probing : g \in Hook
  BY DEF LogTyped
<1>2. (\A h \in Hook : h.n \in Nat) /\ \A e \in Event : e.n \in Nat
  BY DEF Hook, Event
<1>3. Len(queue) \in Nat /\ hooks \in Nat
  BY DEF LogTyped
<1> QED
  BY <1>1, <1>2, <1>3

LEMMA LogOrder ==
  ASSUME log \in Seq(Event)
  PROVE  Canon!ArrivalOrder <=>
           \A i, j \in 1..Len(log) : (i < j /\ log[j].n # 0) => log[i].n <= log[j].n
BY DEF Canon!ArrivalOrder

LEMMA ArriveKeepsLog ==
  ASSUME LogInv, NEW s \in Sessions, NEW k \in Kinds, NEW asks \in BOOLEAN, NEW ticks \in BOOLEAN,
         Canon!Arrive(s, k, asks, ticks)
  PROVE  LogInv'
<1> DEFINE h == [session |-> s, kind |-> k, asks |-> asks, at |-> clock', n |-> hooks']
<1>1. LogTyped /\ InOrder /\ Canon!CatalogIsTheLog
  BY DEF LogInv
<1>2. /\ hooks' = hooks + 1 /\ clock' \in Nat /\ hooks' \in Nat
      /\ queue' = Append(queue, h)
      /\ UNCHANGED <<log, catalog, probing, imports, managed>>
  BY <1>1 DEF Canon!Arrive, LogTyped
<1>3. h \in Hook /\ h.n = hooks'
  BY <1>2 DEF Hook
<1> HIDE DEF h
<1>4. /\ queue' \in Seq(Hook) /\ Len(queue') = Len(queue) + 1
      /\ queue'[Len(queue) + 1] = h
      /\ \A i \in 1..Len(queue) : queue'[i] = queue[i]
  BY <1>1, <1>2, <1>3, AppendProperties DEF LogTyped
<1>5. LogTyped'
  BY <1>1, <1>2, <1>4 DEF LogTyped
<1>6. /\ Len(queue) \in Nat /\ hooks \in Nat
      /\ \A i \in 1..Len(queue) : queue[i].n \in Nat
      /\ \A i \in 1..Len(log) : log[i].n \in Nat
      /\ \A g \in probing : g.n \in Nat
  BY <1>1, Numbers
<1>7. ASSUME NEW j \in 1..Len(queue')
      PROVE  /\ queue'[j].n <= hooks'
             /\ \A i \in 1..Len(log) : log[i].n <= queue'[j].n
             /\ \A g \in probing : g.n <= queue'[j].n
             /\ \A i \in 1..j : queue'[i].n <= queue'[j].n
  <2>1. CASE j = Len(queue) + 1
    <3>1. queue'[j].n = hooks + 1
      BY <1>2, <1>3, <1>4, <2>1
    <3>2. \A i \in 1..Len(queue) : queue'[i].n <= hooks + 1
      BY <1>1, <1>4, <1>6 DEF InOrder
    <3>3. (\A i \in 1..Len(log) : log[i].n <= hooks + 1) /\ \A g \in probing : g.n <= hooks + 1
      BY <1>1, <1>6 DEF InOrder
    <3> QED
      BY <1>2, <1>6, <2>1, <3>1, <3>2, <3>3
  <2>2. CASE j \in 1..Len(queue)
    <3>1. queue'[j] = queue[j] /\ \A i \in 1..j : queue'[i] = queue[i]
      BY <1>4, <1>6, <2>2
    <3>2. queue[j].n <= hooks + 1
      BY <1>1, <1>6, <2>2 DEF InOrder
    <3> QED
      BY <1>1, <1>2, <2>2, <3>1, <3>2 DEF InOrder
  <2> QED
    BY <1>4, <1>6, <2>1, <2>2
<1>8. InOrder'
  <2>1. (\A i \in 1..Len(log) : log[i].n <= hooks') /\ \A g \in probing : g.n <= hooks'
    BY <1>1, <1>2, <1>6 DEF InOrder
  <2> QED
    BY <1>1, <1>2, <1>7, <2>1 DEF InOrder
<1>9. Canon!CatalogIsTheLog'
  BY <1>1, <1>2 DEF Canon!CatalogIsTheLog, Canon!ArrivalOrder, Canon!CatalogIsReplay
<1> QED
  BY <1>5, <1>8, <1>9 DEF LogInv

LEMMA ProbeKeepsLog ==
  ASSUME LogInv, Canon!Probe
  PROVE  LogInv'
<1>1. LogTyped /\ InOrder /\ Canon!CatalogIsTheLog
  BY DEF LogInv
<1>2. /\ queue # <<>> /\ probing' = {Head(queue)} /\ queue' = Tail(queue)
      /\ UNCHANGED <<log, catalog, imports, managed, hooks, clock>>
  BY DEF Canon!Probe, Canon!bounds
<1>3. /\ Len(queue) \in Nat /\ 1 \in 1..Len(queue) /\ Head(queue) = queue[1] /\ queue[1] \in Hook
      /\ queue' \in Seq(Hook) /\ Len(queue') = Len(queue) - 1
      /\ \A i \in 1..Len(queue') : i + 1 \in 1..Len(queue) /\ queue'[i] = queue[i + 1]
  BY <1>1, <1>2, HeadTailProperties DEF LogTyped
<1>4. LogTyped'
  BY <1>1, <1>2, <1>3 DEF LogTyped
<1>5. ASSUME NEW j \in 1..Len(queue')
      PROVE  /\ queue'[j].n <= hooks
             /\ \A i \in 1..Len(log) : log[i].n <= queue'[j].n
             /\ queue[1].n <= queue'[j].n
             /\ \A i \in 1..j : queue'[i].n <= queue'[j].n
  <2>1. /\ j + 1 \in 1..Len(queue) /\ queue'[j] = queue[j + 1]
        /\ 1 \in 1..(j + 1) /\ \A i \in 1..j : i + 1 \in 1..(j + 1) /\ queue'[i] = queue[i + 1]
    BY <1>3
  <2> QED
    BY <1>1, <2>1 DEF InOrder
<1>6. InOrder'
  BY <1>1, <1>2, <1>3, <1>5 DEF InOrder
<1>7. Canon!CatalogIsTheLog'
  BY <1>1, <1>2 DEF Canon!CatalogIsTheLog, Canon!ArrivalOrder, Canon!CatalogIsReplay
<1> QED
  BY <1>4, <1>6, <1>7 DEF LogInv

LEMMA ProcessKeepsLog ==
  ASSUME LogInv, NEW h \in probing, NEW kept \in 0..Len(Canon!Canonical(h)), Canon!Process(h, kept)
  PROVE  LogInv'
<1> DEFINE es == SubSeq(Canon!Canonical(h), 1, kept)
<1>1. LogTyped /\ InOrder /\ Canon!ArrivalOrder /\ Canon!CatalogIsReplay
  BY DEF LogInv, Canon!CatalogIsTheLog
<1>2. h \in Hook /\ h.n \in Nat
  BY <1>1 DEF LogTyped, Hook
<1>3. es \in Seq(Event) /\ \A k \in 1..Len(es) : es[k].n = h.n
  BY <1>2, HookEvents
<1>4. /\ Canon!Stored(es) /\ probing' = probing \ {h}
      /\ UNCHANGED <<queue, imports, managed, hooks, clock>>
  BY DEF Canon!Process
<1> HIDE DEF es
<1>5. /\ log' \in Seq(Event) /\ catalog' \in [Sessions -> Shown] /\ Canon!CatalogIsReplay'
      /\ Len(log) <= Len(log') /\ \A i \in 1..Len(log) : log'[i] = log[i]
      /\ \A i \in 1..Len(log') : i > Len(log) => log'[i].n = h.n
  BY <1>1, <1>3, <1>4, StoredReplays
<1>6. LogTyped'
  BY <1>1, <1>4, <1>5 DEF LogTyped
<1>7. probing' = {}
  BY <1>1, <1>4 DEF InOrder
<1>8. Len(log) \in Nat /\ Len(log') \in Nat
  BY <1>1, <1>5 DEF LogTyped
<1>9. \A i \in 1..Len(log') : log'[i].n <= h.n
  BY <1>1, <1>2, <1>5, <1>8 DEF InOrder
<1>10. InOrder'
  <2>1. \A i \in 1..Len(log') : log'[i].n \in Nat
    <3>1. \A i \in 1..Len(log') : log'[i] \in Event
      BY <1>5
    <3>2. \A e \in Event : e.n \in Nat
      BY DEF Event
    <3> QED
      BY <3>1, <3>2
  <2>2. h.n <= hooks /\ hooks \in Nat /\ \A j \in 1..Len(queue) : h.n <= queue[j].n /\ queue[j].n \in Nat
    BY <1>1, Numbers DEF InOrder
  <2>3. \A i \in 1..Len(log') : log'[i].n <= hooks /\ \A j \in 1..Len(queue) : log'[i].n <= queue[j].n
    BY <1>2, <1>9, <2>1, <2>2
  <2> QED
    BY <1>1, <1>4, <1>7, <2>3 DEF InOrder
<1>11. Canon!ArrivalOrder'
  <2>1. ASSUME NEW i \in 1..Len(log'), NEW j \in 1..Len(log'), i < j, log'[j].n # 0
        PROVE  log'[i].n <= log'[j].n
    <3>1. CASE j > Len(log)
      BY <1>5, <1>9, <3>1
    <3>2. CASE ~(j > Len(log))
      <4>1. i \in 1..Len(log) /\ j \in 1..Len(log)
        BY <1>8, <2>1, <3>2
      <4> QED
        BY <1>1, <1>5, <2>1, <4>1, LogOrder DEF LogTyped
    <3> QED
      BY <3>1, <3>2
  <2> QED
    BY <1>5, <2>1 DEF Canon!ArrivalOrder
<1> QED
  BY <1>5, <1>6, <1>10, <1>11 DEF LogInv, Canon!CatalogIsTheLog

LEMMA ImportKeepsLog ==
  ASSUME LogInv, NEW s \in Sessions, Canon!Import(s)
  PROVE  LogInv'
<1> DEFINE es == <<Canon!Migration(s)>>
<1>1. LogTyped /\ InOrder /\ Canon!ArrivalOrder /\ Canon!CatalogIsReplay
  BY DEF LogInv, Canon!CatalogIsTheLog
<1>2. Canon!Migration(s) \in Event /\ Canon!Migration(s).n = 0
  BY DEF Canon!Migration, Event, Key, Shown
<1>3. es \in Seq(Event) /\ \A k \in 1..Len(es) : es[k].n = 0
  BY <1>2
<1>4. /\ imports' = imports \ {s}
      /\ Canon!Stored(es) \/ UNCHANGED <<log, catalog>>
      /\ UNCHANGED <<queue, probing, managed, hooks, clock>>
  BY DEF Canon!Import, Canon!bounds
<1> HIDE DEF es
<1>5. CASE UNCHANGED <<log, catalog>>
  BY <1>1, <1>4, <1>5 DEF LogInv, LogTyped, InOrder, Canon!CatalogIsTheLog, Canon!ArrivalOrder,
       Canon!CatalogIsReplay
<1>6. CASE Canon!Stored(es)
  <2>1. /\ log' \in Seq(Event) /\ catalog' \in [Sessions -> Shown] /\ Canon!CatalogIsReplay'
        /\ Len(log) <= Len(log') /\ \A i \in 1..Len(log) : log'[i] = log[i]
        /\ \A i \in 1..Len(log') : i > Len(log) => log'[i].n = 0
    BY <1>1, <1>3, <1>6, StoredReplays
  <2>2. LogTyped'
    BY <1>1, <1>4, <2>1 DEF LogTyped
  <2>3. Len(log) \in Nat /\ Len(log') \in Nat
    BY <1>1, <2>1 DEF LogTyped
  <2>4. ASSUME NEW x \in Nat, \A i \in 1..Len(log) : log[i].n <= x
        PROVE  \A i \in 1..Len(log') : log'[i].n <= x
    BY <2>1, <2>3, <2>4
  <2>5. InOrder'
    <3>1. /\ hooks \in Nat /\ \A h \in probing : h.n \in Nat
          /\ \A j \in 1..Len(queue) : queue[j].n \in Nat
      BY <1>1, Numbers
    <3>2. \A i \in 1..Len(log') : log'[i].n <= hooks
      BY <1>1, <2>4, <3>1 DEF InOrder
    <3>3. \A h \in probing : \A i \in 1..Len(log') : log'[i].n <= h.n
      BY <1>1, <2>4, <3>1 DEF InOrder
    <3>4. \A j \in 1..Len(queue) : \A i \in 1..Len(log') : log'[i].n <= queue[j].n
      BY <1>1, <2>4, <3>1 DEF InOrder
    <3> QED
      BY <1>1, <1>4, <3>2, <3>3, <3>4 DEF InOrder
  <2>6. Canon!ArrivalOrder'
    <3>1. ASSUME NEW i \in 1..Len(log'), NEW j \in 1..Len(log'), i < j, log'[j].n # 0
          PROVE  log'[i].n <= log'[j].n
      <4>1. i \in 1..Len(log) /\ j \in 1..Len(log)
        BY <2>1, <2>3, <3>1
      <4> QED
        BY <1>1, <2>1, <3>1, <4>1, LogOrder DEF LogTyped
    <3> QED
      BY <2>1, <3>1 DEF Canon!ArrivalOrder
  <2> QED
    BY <2>1, <2>2, <2>5, <2>6 DEF LogInv, Canon!CatalogIsTheLog
<1> QED
  BY <1>4, <1>5, <1>6

LEMMA RestartKeepsLog ==
  ASSUME LogInv, Canon!Restart
  PROVE  LogInv'
<1>1. LogTyped /\ InOrder /\ Canon!ArrivalOrder
  BY DEF LogInv, Canon!CatalogIsTheLog
<1>2. /\ catalog' = Canon!Replay(log) /\ queue' = <<>> /\ probing' = {} /\ imports' = managed
      /\ UNCHANGED <<log, managed, hooks, clock>>
  BY DEF Canon!Restart
<1>3. catalog' \in [Sessions -> Shown]
  BY <1>1, <1>2, ReplayTyped DEF LogTyped
<1>4. LogTyped'
  BY <1>1, <1>2, <1>3 DEF LogTyped
<1>5. InOrder'
  BY <1>1, <1>2 DEF InOrder
<1>6. Canon!CatalogIsTheLog'
  BY <1>1, <1>2 DEF Canon!CatalogIsTheLog, Canon!ArrivalOrder, Canon!CatalogIsReplay
<1> QED
  BY <1>4, <1>5, <1>6 DEF LogInv

LEMMA LogNext ==
  ASSUME LogInv, [Canon!Next]_canonical
  PROVE  LogInv'
<1> USE DEF LogInv, LogTyped, InOrder, Canon!CatalogIsTheLog, Canon!ArrivalOrder, Canon!CatalogIsReplay
<1>1. CASE UNCHANGED canonical
  BY <1>1 DEF canonical
<1>2. ASSUME NEW s \in Sessions, Canon!Manage(s) PROVE LogInv'
  BY <1>2 DEF Canon!Manage, Canon!bounds
<1>3. ASSUME NEW h \in probing, Canon!ProbeFails(h) PROVE LogInv'
  BY <1>3 DEF Canon!ProbeFails
<1> USE DEF LogInv
<1> HIDE DEF LogInv, LogTyped, InOrder, Canon!CatalogIsTheLog, Canon!ArrivalOrder, Canon!CatalogIsReplay
<1> QED
  BY <1>1, <1>2, <1>3, ArriveKeepsLog, ProbeKeepsLog, ProcessKeepsLog, ImportKeepsLog, RestartKeepsLog
     DEF Canon!Next

(***************************************************************************)
(* The tree shows what the log says, and the log has the hooks in the      *)
(* order of their arrival, for any number of hooks, imports, failures and  *)
(* restarts (canonicalPipeline.ts, eventStore.ts, projection.ts).          *)
(***************************************************************************)
THEOREM ServicesReplayTheLog == MCSpec => []CatalogIsTheLog
<1>1. MCInit => LogInv
  <2> SUFFICES ASSUME MCInit PROVE LogInv
    OBVIOUS
  <2>1. /\ log = <<>> /\ catalog = [s \in Sessions |-> Canon!Absent]
        /\ queue = <<>> /\ probing = {} /\ imports = {} /\ managed = {} /\ hooks = 0 /\ clock = 0
    BY DEF MCInit, Canon!Init
  <2>2. LogTyped
    BY <2>1 DEF LogTyped, Shown
  <2>3. InOrder /\ Canon!ArrivalOrder
    BY <2>1 DEF InOrder, Canon!ArrivalOrder
  <2>4. <<>> \in Seq(Event) /\ Len(<<>>) = 0
    OBVIOUS
  <2>5. catalog \in [Sessions -> Shown]
    BY <2>2 DEF LogTyped
  <2>6. Canon!Applied(catalog, <<>>) = catalog
    <3>1. PICK f \in [0..Len(<<>>) -> [Sessions -> Shown]] :
            f[0] = catalog /\ Canon!Applied(catalog, <<>>) = f[Len(<<>>)]
      BY <2>4, <2>5, AppliedFold, Zenon
    <3> QED
      BY <2>4, <3>1
  <2>7. Canon!CatalogIsReplay
    BY <2>1, <2>6 DEF Canon!CatalogIsReplay, Canon!Replay
  <2> QED
    BY <2>2, <2>3, <2>7 DEF LogInv, Canon!CatalogIsTheLog
<1>2. LogInv /\ [MCNext]_<<world, vars, terminals, panel, canonical, commit, import, agents>> => LogInv'
  BY LogNext DEF MCNext, canonical
<1>3. LogInv => CatalogIsTheLog
  BY DEF LogInv, CatalogIsTheLog
<1> QED
  BY <1>1, <1>2, <1>3, PTL DEF MCSpec

-----------------------------------------------------------------------------
(***************************************************************************)
(* The import.  The hashes a run has met are those of the rows it found    *)
(* and of its own rows, and what it has yet to write is none of those.     *)
(***************************************************************************)
Prompt == Import!Prompts
ImportRow == [prompt : Prompt, run : Nat, known : Nat]

ImportTyped ==
  /\ history \in [Sessions -> Seq(Prompt)]
  /\ arriving \in SUBSET [prompt : Prompt, at : Nat]
  /\ rows \in Seq(ImportRow)
  /\ stage \in {"none", "scan", "write"}
  /\ hashSet \in SUBSET Prompt
  /\ unread \in SUBSET Sessions
  /\ candidates \in Seq(Prompt)
  /\ known \in Nat
  /\ failed \in SUBSET Prompt
  /\ run \in Nat
  /\ asked \in Nat

Distinct(seq) == \A i, j \in 1..Len(seq) : i # j => seq[i] # seq[j]

\* What the run counts as in the database: the rows it found and its own.
Counts(i) == i <= known \/ rows[i].run = run

Importing ==
  /\ run > 0
  /\ known <= Len(rows)
  /\ Distinct(candidates)
  /\ \A k \in 1..Len(candidates) : candidates[k] \in hashSet
  /\ \A i \in 1..Len(rows) : Counts(i) =>
       /\ rows[i].prompt \in hashSet
       /\ \A k \in 1..Len(candidates) : candidates[k] # rows[i].prompt
  /\ \A p \in hashSet : \/ \E i \in 1..Len(rows) : rows[i].prompt = p
                        \/ \E k \in 1..Len(candidates) : candidates[k] = p
                        \/ p \in failed

RowsOnce ==
  \A j \in 1..Len(rows) : rows[j].run > 0 =>
    \A i \in 1..(j - 1) : (i <= rows[j].known \/ rows[i].run = rows[j].run) =>
      rows[i].prompt # rows[j].prompt

ImportInv ==
  /\ ImportTyped
  /\ \A i \in 1..Len(rows) : rows[i].run <= run /\ (rows[i].run = run /\ run > 0 => rows[i].known = known)
  /\ RowsOnce
  /\ stage # "none" => Importing

LEMMA TrimmedType ==
  ASSUME NEW p \in Prompt
  PROVE  Import!Trimmed(p) \in Prompt
BY DEF Import!Trimmed, Prompt, Import!Prompts

Met(acc, line) ==
  IF Import!Trimmed(line) \in acc.met THEN acc
  ELSE [met |-> acc.met \cup {Import!Trimmed(line)},
        picked |-> Append(acc.picked, Import!Trimmed(line))]

Picking == [met : SUBSET Prompt, picked : Seq(Prompt)]

LEMMA PickedFold ==
  ASSUME NEW s \in Sessions, history \in [Sessions -> Seq(Prompt)], NEW met \in SUBSET Prompt
  PROVE  \E f \in [0..Len(history[s]) -> Picking] :
           /\ f[0] = [met |-> met, picked |-> <<>>]
           /\ \A i \in 1..Len(history[s]) : f[i] = Met(f[i - 1], history[s][i])
           /\ Import!Picked(s, met) = f[Len(history[s])]
<1> DEFINE lines == history[s]
           n == Len(lines)
           V == Picking
           b == [met |-> met, picked |-> <<>>]
           F == [x \in V \X (1..n) |-> Met(x[1], lines[x[2]])]
           Fold(g) == g = [i \in 0..n |->
                             IF i = 0 THEN b
                             ELSE LET p == Import!Trimmed(lines[i])
                                  IN IF p \in g[i - 1].met THEN g[i - 1]
                                     ELSE [met |-> g[i - 1].met \cup {p},
                                           picked |-> Append(g[i - 1].picked, p)]]
           c == CHOOSE g : Fold(g)
<1>1. n \in Nat /\ \A i \in 1..n : lines[i] \in Prompt
  OBVIOUS
<1>2. F \in [V \X (1..n) -> V]
  <2>1. ASSUME NEW acc \in V, NEW line \in Prompt PROVE Met(acc, line) \in V
    <3>1. Import!Trimmed(line) \in Prompt /\ acc.met \in SUBSET Prompt /\ acc.picked \in Seq(Prompt)
      BY TrimmedType DEF Picking
    <3>2. Append(acc.picked, Import!Trimmed(line)) \in Seq(Prompt)
      BY <3>1, AppendProperties
    <3> QED
      BY <3>1, <3>2 DEF Met, Picking
  <2>2. \A x \in V \X (1..n) : x[1] \in V /\ lines[x[2]] \in Prompt
    BY <1>1
  <2> HIDE DEF V, n, lines
  <2> QED
    BY <2>1, <2>2
<1>3. PICK f \in [0..n -> V] : Follows(f, b, F, n)
  <2>1. b \in V /\ n \in Nat
    BY DEF Picking
  <2> HIDE DEF F, V, n, b, Fold, c
  <2> QED
    BY <1>2, <2>1, Recursion
<1>4. \A i \in 1..n : f[i] = Met(f[i - 1], lines[i])
  <2>1. \A i \in 1..n : f[i - 1] \in V
    BY <1>1
  <2> HIDE DEF V, lines, n, b
  <2> QED
    BY <1>3, <2>1 DEF Follows
<1>5. Fold(f)
  <2>1. \A i \in 0..n : f[i] = IF i = 0 THEN b
                               ELSE LET p == Import!Trimmed(lines[i])
                                    IN IF p \in f[i - 1].met THEN f[i - 1]
                                       ELSE [met |-> f[i - 1].met \cup {p},
                                             picked |-> Append(f[i - 1].picked, p)]
    <3> HIDE DEF n, F, V, b, lines
    <3>1. \A i \in 0..n : i # 0 => i \in 1..n
      BY <1>1
    <3> QED
      BY <1>3, <1>4, <3>1 DEF Follows, Met
  <2> HIDE DEF n, V, b, lines
  <2> QED
    BY <2>1
<1>6. Import!Picked(s, met) = c[n]
  BY DEF Import!Picked
<1>7. Fold(c)
  <2> HIDE DEF Fold
  <2> QED
    BY <1>5
<1>8. \A i \in 0..n : c[i] = f[i]
  <2> HIDE DEF c, n, V, b, lines, F
  <2> DEFINE G == {i \in 0..n : c[i] = f[i]}
  <2>1. 0 \in G
    BY <1>1, <1>3, <1>7 DEF Follows
  <2>2. ASSUME NEW i \in 1..n, i - 1 \in G PROVE i \in G
    <3>1. i \in 0..n /\ i # 0
      BY <1>1
    <3>2. c[i] = Met(c[i - 1], lines[i])
      BY <1>7, <3>1 DEF Met
    <3> QED
      BY <1>4, <2>2, <3>1, <3>2
  <2> HIDE DEF G
  <2>3. \A i \in 0..n : i \in G
    BY <1>1, <2>1, <2>2, Induction
  <2> QED
    BY <2>3 DEF G
<1>9. f[0] = b
  BY <1>3 DEF Follows
<1>10. Import!Picked(s, met) = f[n]
  <2> HIDE DEF c, n, F, Fold, V, b, lines
  <2> QED
    BY <1>1, <1>6, <1>8
<1> HIDE DEF c, F, Fold
<1> QED
  BY <1>4, <1>9, <1>10

\* What was met before is not picked, and nothing is picked twice.
LEMMA PickedIsNew ==
  ASSUME NEW s \in Sessions, history \in [Sessions -> Seq(Prompt)], NEW met \in SUBSET Prompt
  PROVE  /\ Import!Picked(s, met) \in Picking
         /\ met \subseteq Import!Picked(s, met).met
         /\ \A p \in Import!Picked(s, met).met \ met :
              \E k \in 1..Len(Import!Picked(s, met).picked) : Import!Picked(s, met).picked[k] = p
         /\ \A k \in 1..Len(Import!Picked(s, met).picked) :
              Import!Picked(s, met).picked[k] \in Import!Picked(s, met).met \ met
         /\ Distinct(Import!Picked(s, met).picked)
<1> DEFINE lines == history[s]
           Good(acc) == /\ acc \in Picking
                        /\ met \subseteq acc.met
                        /\ \A p \in acc.met \ met : \E k \in 1..Len(acc.picked) : acc.picked[k] = p
                        /\ \A k \in 1..Len(acc.picked) : acc.picked[k] \in acc.met \ met
                        /\ Distinct(acc.picked)
<1>1. PICK f \in [0..Len(lines) -> Picking] :
        /\ f[0] = [met |-> met, picked |-> <<>>]
        /\ \A i \in 1..Len(lines) : f[i] = Met(f[i - 1], lines[i])
        /\ Import!Picked(s, met) = f[Len(lines)]
  BY PickedFold
<1>2. Len(lines) \in Nat /\ \A i \in 1..Len(lines) : lines[i] \in Prompt
  OBVIOUS
<1> HIDE DEF lines
<1>3. Good(f[0])
  <2>1. [met |-> met, picked |-> <<>>] \in Picking /\ Len(<<>>) = 0
    BY DEF Picking
  <2> QED
    BY <1>1, <2>1 DEF Distinct
<1>4. ASSUME NEW acc, Good(acc), NEW line \in Prompt PROVE Good(Met(acc, line))
  <2> DEFINE p == Import!Trimmed(line)
             now == Append(acc.picked, p)
  <2>1. CASE p \in acc.met
    BY <1>4, <2>1 DEF Met
  <2>2. CASE p \notin acc.met
    <3>1. p \in Prompt /\ acc.picked \in Seq(Prompt) /\ acc.met \in SUBSET Prompt
      BY <1>4, TrimmedType DEF Picking
    <3>2. Met(acc, line) = [met |-> acc.met \cup {p}, picked |-> now]
      BY <2>2 DEF Met
    <3> HIDE DEF p, now
    <3>3. /\ now \in Seq(Prompt) /\ Len(now) = Len(acc.picked) + 1 /\ Len(acc.picked) \in Nat
          /\ now[Len(acc.picked) + 1] = p
          /\ \A k \in 1..Len(acc.picked) : now[k] = acc.picked[k]
      BY <3>1, AppendProperties DEF now
    <3>4. Met(acc, line) \in Picking /\ Met(acc, line).met = acc.met \cup {p} /\ Met(acc, line).picked = now
      BY <3>1, <3>2, <3>3 DEF Picking
    <3>5. Distinct(now)
      <4>1. \A k \in 1..Len(acc.picked) : now[k] # p
        BY <1>4, <2>2, <3>3
      <4>2. \A i, j \in 1..Len(acc.picked) : i # j => now[i] # now[j]
        BY <1>4, <3>3 DEF Distinct
      <4>3. \A i \in 1..Len(now) : i \in 1..Len(acc.picked) \/ i = Len(acc.picked) + 1
        BY <3>3
      <4> QED
        BY <3>3, <4>1, <4>2, <4>3 DEF Distinct
    <3>6. \A k \in 1..Len(now) : now[k] \in (acc.met \cup {p}) \ met
      BY <1>4, <2>2, <3>3
    <3>7. \A q \in (acc.met \cup {p}) \ met : \E k \in 1..Len(now) : now[k] = q
      <4>1. p = now[Len(acc.picked) + 1] /\ Len(acc.picked) + 1 \in 1..Len(now)
        BY <3>3
      <4>2. \A k \in 1..Len(acc.picked) : k \in 1..Len(now) /\ now[k] = acc.picked[k]
        BY <3>3
      <4> QED
        BY <1>4, <4>1, <4>2
    <3> QED
      BY <1>4, <3>4, <3>5, <3>6, <3>7
  <2> QED
    BY <2>1, <2>2
<1>5. Good(f[Len(lines)])
  <2> DEFINE G == {i \in 0..Len(lines) : Good(f[i])}
  <2> HIDE DEF Good
  <2>1. 0 \in G
    BY <1>2, <1>3
  <2>2. ASSUME NEW i \in 1..Len(lines), i - 1 \in G PROVE i \in G
    <3>1. i \in 0..Len(lines) /\ Good(f[i - 1]) /\ lines[i] \in Prompt
      BY <1>2, <2>2
    <3> QED
      BY <1>1, <1>4, <3>1
  <2> HIDE DEF G
  <2>3. \A i \in 0..Len(lines) : i \in G
    BY <1>2, <2>1, <2>2, Induction
  <2> QED
    BY <1>2, <2>3 DEF G
<1> QED
  BY <1>1, <1>5

-----------------------------------------------------------------------------
\* A batch is the front of what is to be written, and the rest is the rest.
LEMMA BatchIsFront ==
  ASSUME candidates \in Seq(Prompt)
  PROVE  /\ Import!Batch \in Seq(Prompt) /\ Import!Rest \in Seq(Prompt)
         /\ Len(Import!Batch) \in 0..Len(candidates)
         /\ DOMAIN Import!Batch = 1..Len(Import!Batch)
         /\ Len(Import!Rest) = Len(candidates) - Len(Import!Batch)
         /\ \A i \in 1..Len(Import!Batch) : Import!Batch[i] = candidates[i]
         /\ \A i \in 1..Len(Import!Rest) : Import!Rest[i] = candidates[i + Len(Import!Batch)]
<1> DEFINE n == Len(candidates)
           m == IF BatchSize < n THEN BatchSize ELSE n
<1>1. n \in Nat /\ m \in 0..n
  BY BatchAssumption
<1>2. Import!Batch = SubSeq(candidates, 1, m)
  BY DEF Import!Batch
<1> HIDE DEF m, n
<1>3. Import!Batch \in Seq(Prompt) /\ Len(Import!Batch) = m /\ \A i \in 1..m : Import!Batch[i] = candidates[i]
  BY <1>1, <1>2 DEF n
<1> QED
  BY <1>1, <1>3 DEF Import!Rest, n

Keeping(refused, acc, i) == IF i \in refused THEN acc ELSE Append(acc, Import!Batch[i])

LEMMA KeptFold ==
  ASSUME NEW refused, candidates \in Seq(Prompt)
  PROVE  \E f \in [0..Len(Import!Batch) -> Seq(Prompt)] :
           /\ f[0] = <<>>
           /\ \A i \in 1..Len(Import!Batch) : f[i] = Keeping(refused, f[i - 1], i)
           /\ Import!Kept(refused) = f[Len(Import!Batch)]
<1> DEFINE n == Len(Import!Batch)
           V == Seq(Prompt)
           b == <<>>
           F == [x \in V \X (1..n) |-> Keeping(refused, x[1], x[2])]
           Fold(g) == g = [i \in 0..n |->
                             IF i = 0 THEN b
                             ELSE IF i \in refused THEN g[i - 1]
                             ELSE Append(g[i - 1], Import!Batch[i])]
           c == CHOOSE g : Fold(g)
<1>1. n \in Nat /\ \A i \in 1..n : Import!Batch[i] \in Prompt
  BY BatchIsFront
<1>2. F \in [V \X (1..n) -> V]
  <2>1. ASSUME NEW acc \in V, NEW i \in 1..n PROVE Keeping(refused, acc, i) \in V
    BY <1>1, AppendProperties DEF Keeping
  <2>2. \A x \in V \X (1..n) : x[1] \in V /\ x[2] \in 1..n
    OBVIOUS
  <2> HIDE DEF V, n
  <2> QED
    BY <2>1, <2>2
<1>3. PICK f \in [0..n -> V] : Follows(f, b, F, n)
  <2>1. b \in V /\ n \in Nat
    BY <1>1
  <2> HIDE DEF F, V, n, b, Fold, c
  <2> QED
    BY <1>2, <2>1, Recursion
<1>4. \A i \in 1..n : f[i] = Keeping(refused, f[i - 1], i)
  <2>1. \A i \in 1..n : f[i - 1] \in V
    BY <1>1
  <2> HIDE DEF V, n, b
  <2> QED
    BY <1>3, <2>1 DEF Follows
<1>5. Fold(f)
  <2>1. \A i \in 0..n : f[i] = IF i = 0 THEN b
                               ELSE IF i \in refused THEN f[i - 1]
                               ELSE Append(f[i - 1], Import!Batch[i])
    <3> HIDE DEF n, F, V, b
    <3>1. \A i \in 0..n : i # 0 => i \in 1..n
      BY <1>1
    <3> QED
      BY <1>3, <1>4, <3>1 DEF Follows, Keeping
  <2> HIDE DEF n, V, b
  <2> QED
    BY <2>1
<1>6. Import!Kept(refused) = c[n]
  BY DEF Import!Kept
<1>7. Fold(c)
  <2> HIDE DEF Fold
  <2> QED
    BY <1>5
<1>8. \A i \in 0..n : c[i] = f[i]
  <2> HIDE DEF c, n, V, b, F
  <2> DEFINE G == {i \in 0..n : c[i] = f[i]}
  <2>1. 0 \in G
    BY <1>1, <1>3, <1>7 DEF Follows
  <2>2. ASSUME NEW i \in 1..n, i - 1 \in G PROVE i \in G
    <3>1. i \in 0..n /\ i # 0
      BY <1>1
    <3>2. c[i] = Keeping(refused, c[i - 1], i)
      BY <1>7, <3>1 DEF Keeping
    <3> QED
      BY <1>4, <2>2, <3>1, <3>2
  <2> HIDE DEF G
  <2>3. \A i \in 0..n : i \in G
    BY <1>1, <2>1, <2>2, Induction
  <2> QED
    BY <2>3 DEF G
<1>9. f[0] = b
  BY <1>3 DEF Follows
<1>10. Import!Kept(refused) = f[n]
  <2> HIDE DEF c, n, F, Fold, V, b
  <2> QED
    BY <1>1, <1>6, <1>8
<1> HIDE DEF c, F, Fold
<1> QED
  BY <1>4, <1>9, <1>10

\* Of a batch everything is kept but what is refused, once.
LEMMA KeptIsTheRest ==
  ASSUME NEW refused, candidates \in Seq(Prompt), Distinct(Import!Batch)
  PROVE  /\ Import!Kept(refused) \in Seq(Prompt)
         /\ \A k \in 1..Len(Import!Kept(refused)) :
              \E m \in 1..Len(Import!Batch) : Import!Kept(refused)[k] = Import!Batch[m]
         /\ \A m \in 1..Len(Import!Batch) :
              m \notin refused => \E k \in 1..Len(Import!Kept(refused)) : Import!Kept(refused)[k] = Import!Batch[m]
         /\ Distinct(Import!Kept(refused))
<1> DEFINE batch == Import!Batch
           n == Len(batch)
           Good(acc, i) == /\ acc \in Seq(Prompt)
                           /\ \A k \in 1..Len(acc) : \E m \in 1..i : acc[k] = batch[m]
                           /\ \A m \in 1..i : m \notin refused => \E k \in 1..Len(acc) : acc[k] = batch[m]
                           /\ Distinct(acc)
<1>1. PICK f \in [0..n -> Seq(Prompt)] :
        /\ f[0] = <<>>
        /\ \A i \in 1..n : f[i] = Keeping(refused, f[i - 1], i)
        /\ Import!Kept(refused) = f[n]
  BY KeptFold
<1>2. n \in Nat /\ (\A i \in 1..n : batch[i] \in Prompt) /\ Distinct(batch)
  BY BatchIsFront
<1>3. \A acc, i : Keeping(refused, acc, i) = IF i \in refused THEN acc ELSE Append(acc, batch[i])
  BY DEF Keeping
<1> HIDE DEF n, batch
<1>4. Good(f[0], 0)
  <2>1. <<>> \in Seq(Prompt) /\ Len(<<>>) = 0
    OBVIOUS
  <2> QED
    BY <1>1, <2>1 DEF Distinct
<1>5. ASSUME NEW i \in 1..n, NEW acc, Good(acc, i - 1) PROVE Good(Keeping(refused, acc, i), i)
  <2>0. /\ i \in Nat /\ i \in 1..i /\ \A m \in 1..(i - 1) : m \in 1..i /\ m # i /\ m \in 1..n
        /\ \A m \in 1..i : m = i \/ m \in 1..(i - 1)
    BY <1>2
  <2>1. CASE i \in refused
    <3>1. Keeping(refused, acc, i) = acc
      BY <1>3, <2>1
    <3>2. \A k \in 1..Len(acc) : \E m \in 1..i : acc[k] = batch[m]
      BY <1>5, <2>0
    <3>3. \A m \in 1..i : m \notin refused => \E k \in 1..Len(acc) : acc[k] = batch[m]
      BY <1>5, <2>0, <2>1
    <3> QED
      BY <1>5, <3>1, <3>2, <3>3
  <2>2. CASE i \notin refused
    <3> DEFINE now == Append(acc, batch[i])
    <3>1. Keeping(refused, acc, i) = now
      BY <1>3, <2>2
    <3>2. acc \in Seq(Prompt) /\ batch[i] \in Prompt
      BY <1>2, <1>5
    <3>3. /\ now \in Seq(Prompt) /\ Len(now) = Len(acc) + 1 /\ Len(acc) \in Nat
          /\ now[Len(acc) + 1] = batch[i]
          /\ \A k \in 1..Len(acc) : now[k] = acc[k] /\ k \in 1..Len(now)
      BY <3>2, AppendProperties
    <3> HIDE DEF now
    <3>4. Len(acc) + 1 \in 1..Len(now) /\ \A k \in 1..Len(now) : k \in 1..Len(acc) \/ k = Len(acc) + 1
      BY <3>3
    <3>5. \A k \in 1..Len(now) : \E m \in 1..i : now[k] = batch[m]
      BY <1>5, <2>0, <3>3, <3>4
    <3>6. \A m \in 1..i : m \notin refused => \E k \in 1..Len(now) : now[k] = batch[m]
      BY <1>5, <2>0, <3>3, <3>4
    <3>7. \A k \in 1..Len(acc) : now[k] # batch[i]
      <4>1. \A m \in 1..(i - 1) : batch[m] # batch[i]
        BY <1>2, <2>0 DEF Distinct, n
      <4> QED
        BY <1>5, <3>3, <4>1
    <3>8. \A k, l \in 1..Len(acc) : k # l => now[k] # now[l]
      BY <1>5, <3>3 DEF Distinct
    <3>9. Distinct(now)
      BY <3>3, <3>4, <3>7, <3>8 DEF Distinct
    <3> QED
      BY <3>1, <3>3, <3>5, <3>6, <3>9
  <2> QED
    BY <2>1, <2>2
<1>6. Good(f[n], n)
  <2> DEFINE G == {i \in 0..n : Good(f[i], i)}
  <2> HIDE DEF Good
  <2>1. 0 \in G
    BY <1>2, <1>4
  <2>2. ASSUME NEW i \in 1..n, i - 1 \in G PROVE i \in G
    <3>1. i \in 0..n /\ Good(f[i - 1], i - 1)
      BY <1>2, <2>2
    <3> QED
      BY <1>1, <1>5, <3>1
  <2> HIDE DEF G
  <2>3. \A i \in 0..n : i \in G
    BY <1>2, <2>1, <2>2, Induction
  <2> QED
    BY <1>2, <2>3 DEF G
<1> QED
  BY <1>1, <1>6 DEF n, batch

-----------------------------------------------------------------------------
(* Every step of the import, and of the sessions beside it, keeps the     *)
(* invariant.                                                              *)

LEMMA AskKeepsImport ==
  ASSUME ImportInv, NEW s \in Sessions, NEW p \in Prompt, Import!Ask(s, p)
  PROVE  ImportInv'
<1>1. history' \in [Sessions -> Seq(Prompt)]
  <2>1. Append(history[s], p) \in Seq(Prompt)
    BY AppendProperties DEF ImportInv, ImportTyped
  <2> QED
    BY <2>1 DEF ImportInv, ImportTyped, Import!Ask
<1>2. asked' \in Nat /\ arriving' \in SUBSET [prompt : Prompt, at : Nat]
  BY DEF ImportInv, ImportTyped, Import!Ask
<1> QED
  BY <1>1, <1>2 DEF ImportInv, ImportTyped, Import!Ask, Import!import, RowsOnce, Importing, Counts, Distinct

LEMMA CaptureKeepsImport ==
  ASSUME ImportInv, NEW h \in arriving, Import!Capture(h)
  PROVE  ImportInv'
<1> DEFINE n == Len(rows)
           new == [prompt |-> h.prompt, run |-> 0, known |-> 0]
<1>1. /\ rows' = Append(rows, new) /\ rows \in Seq(ImportRow) /\ new \in ImportRow /\ new.run = 0
      /\ n \in Nat
  BY DEF Import!Capture, Import!Row, ImportRow, ImportInv, ImportTyped
<1>2. rows' \in Seq(ImportRow) /\ Len(rows') = n + 1 /\ rows'[n + 1] = new /\ \A i \in 1..n : rows'[i] = rows[i]
  BY <1>1, AppendProperties
<1>3. UNCHANGED <<history, stage, hashSet, unread, candidates, known, failed, run, asked>>
      /\ arriving' \subseteq arriving
  BY DEF Import!Capture, Import!import
<1> HIDE DEF new, n
<1>4. \A i \in 1..(n + 1) : i \in 1..n \/ i = n + 1
  BY <1>1
<1>5. ImportTyped'
  BY <1>2, <1>3 DEF ImportInv, ImportTyped
<1>6. \A i \in 1..(n + 1) : rows'[i].run <= run /\ (rows'[i].run = run /\ run > 0 => rows'[i].known = known)
  BY <1>1, <1>2, <1>4 DEF ImportInv, ImportTyped, n
<1>7. RowsOnce'
  <2> SUFFICES ASSUME NEW j \in 1..(n + 1), rows'[j].run > 0, NEW i \in 1..(j - 1),
                      i <= rows'[j].known \/ rows'[i].run = rows'[j].run
               PROVE  rows'[i].prompt # rows'[j].prompt
    BY <1>2 DEF RowsOnce
  <2>1. j \in 1..n /\ i \in 1..n
    BY <1>1, <1>2, <1>4
  <2> QED
    BY <1>2, <2>1 DEF ImportInv, RowsOnce, n
<1>8. ASSUME stage' # "none" PROVE Importing'
  <2>0. Importing
    BY <1>3, <1>8 DEF ImportInv
  <2>1. /\ run > 0 /\ known <= Len(rows') /\ known <= n
    BY <1>1, <1>2, <2>0 DEF ImportInv, ImportTyped, Importing, n
  <2>2. \A i \in 1..Len(rows') : Counts(i)' => i \in 1..n /\ Counts(i)
    BY <1>1, <1>2, <1>3, <1>4, <2>1 DEF Counts, ImportInv, ImportTyped
  <2>3. \A i \in 1..Len(rows') : Counts(i)' =>
          /\ rows'[i].prompt \in hashSet
          /\ \A k \in 1..Len(candidates) : candidates[k] # rows'[i].prompt
    BY <1>2, <2>0, <2>2 DEF Importing, n
  <2>4. \A p \in hashSet : \/ \E i \in 1..Len(rows') : rows'[i].prompt = p
                           \/ \E k \in 1..Len(candidates) : candidates[k] = p
                           \/ p \in failed
    <3>1. \A i \in 1..n : i \in 1..Len(rows') /\ rows'[i] = rows[i]
      BY <1>1, <1>2
    <3> QED
      BY <2>0, <3>1 DEF Importing, n
  <2> QED
    BY <1>3, <2>0, <2>1, <2>3, <2>4 DEF Importing, Distinct
<1> QED
  BY <1>2, <1>3, <1>5, <1>6, <1>7, <1>8 DEF ImportInv

LEMMA LoadKeepsImport ==
  ASSUME ImportInv, Import!Load
  PROVE  ImportInv'
<1> USE DEF Import!Load
<1>1. /\ rows \in Seq(ImportRow) /\ Len(rows) \in Nat /\ run \in Nat
      /\ \A i \in 1..Len(rows) : rows[i] \in ImportRow /\ rows[i].run <= run
  BY DEF ImportInv, ImportTyped
<1>2. hashSet' = {rows[i].prompt : i \in 1..Len(rows)}
  BY <1>1 DEF Import!Loaded
<1>3. hashSet' \in SUBSET Prompt
  BY <1>1, <1>2 DEF ImportRow
<1>4. ImportTyped'
  BY <1>1, <1>3 DEF ImportInv, ImportTyped
<1>5. \A i \in 1..Len(rows) : rows[i].run <= run + 1 /\ rows[i].run # run + 1
  BY <1>1 DEF ImportRow
<1>6. RowsOnce'
  BY DEF ImportInv, RowsOnce
<1>7. Importing'
  <2>1. Len(candidates') = 0 /\ run' > 0 /\ known' = Len(rows')
    BY <1>1
  <2>2. \A i \in 1..Len(rows) : rows[i].prompt \in hashSet'
    BY <1>2
  <2>3. \A p \in hashSet' : \E i \in 1..Len(rows) : rows[i].prompt = p
    BY <1>2
  <2> QED
    BY <1>1, <2>1, <2>2, <2>3 DEF Importing, Distinct
<1> QED
  BY <1>1, <1>4, <1>5, <1>6, <1>7 DEF ImportInv

LEMMA ScanKeepsImport ==
  ASSUME ImportInv, NEW s \in Sessions, Import!Scan(s)
  PROVE  ImportInv'
<1> DEFINE found == Import!Picked(s, hashSet)
<1>1. /\ stage = "scan" /\ unread' = unread \ {s}
      /\ UNCHANGED <<history, arriving, rows, stage, known, failed, run, asked>>
  BY DEF Import!Scan
<1>2. RowsOnce' /\ \A i \in 1..Len(rows') :
        rows'[i].run <= run' /\ (rows'[i].run = run' /\ run' > 0 => rows'[i].known = known')
  BY <1>1 DEF ImportInv, RowsOnce
<1>3. CASE UNCHANGED <<hashSet, candidates>>
  BY <1>1, <1>2, <1>3 DEF ImportInv, ImportTyped, Importing, Counts, Distinct
<1>4. CASE hashSet' = found.met /\ candidates' = candidates \o found.picked
  <2> DEFINE n == Len(candidates)
             m == Len(found.picked)
  <2>1. history \in [Sessions -> Seq(Prompt)] /\ hashSet \in SUBSET Prompt /\ candidates \in Seq(Prompt)
    BY DEF ImportInv, ImportTyped
  <2>2. /\ found \in Picking /\ hashSet \subseteq found.met
        /\ \A p \in found.met \ hashSet : \E k \in 1..m : found.picked[k] = p
        /\ \A k \in 1..m : found.picked[k] \in found.met \ hashSet
        /\ Distinct(found.picked)
    BY <2>1, PickedIsNew, Zenon
  <2> HIDE DEF found
  <2>3. found.met \in SUBSET Prompt /\ found.picked \in Seq(Prompt)
    BY <2>2 DEF Picking
  <2>4. /\ candidates' \in Seq(Prompt) /\ Len(candidates') = n + m /\ n \in Nat /\ m \in Nat
        /\ \A i \in 1..(n + m) : candidates'[i] = IF i <= n THEN candidates[i] ELSE found.picked[i - n]
    BY <1>4, <2>1, <2>3, ConcatProperties, LenProperties
  <2> HIDE DEF n, m
  <2>5. \A i \in 1..n : i \in 1..(n + m) /\ candidates'[i] = candidates[i]
    BY <2>4
  <2>6. \A i \in 1..m : n + i \in 1..(n + m) /\ candidates'[n + i] = found.picked[i]
    <3> TAKE i \in 1..m
    <3>1. n + i \in 1..(n + m) /\ ~(n + i <= n) /\ (n + i) - n = i
      BY <2>4
    <3> QED
      BY <2>4, <3>1
  <2>7. \A i \in 1..(n + m) : i \in 1..n \/ \E l \in 1..m : i = n + l
    <3> TAKE i \in 1..(n + m)
    <3>1. i \notin 1..n => i - n \in 1..m /\ i = n + (i - n)
      BY <2>4
    <3> QED
      BY <3>1
  <2>8. Importing
    BY <1>1 DEF ImportInv
  <2>9. \A k \in 1..n : candidates[k] \in hashSet
    BY <2>8 DEF Importing, n
  <2>10. Distinct(candidates')
    <3> SUFFICES ASSUME NEW i \in 1..(n + m), NEW j \in 1..(n + m), i # j
                 PROVE  candidates'[i] # candidates'[j]
      BY <2>4 DEF Distinct
    <3>1. CASE i \in 1..n /\ j \in 1..n
      BY <2>5, <2>8, <3>1 DEF Importing, Distinct, n
    <3>2. CASE i \in 1..n /\ j \notin 1..n
      <4>1. PICK l \in 1..m : j = n + l
        BY <2>7, <3>2
      <4>2. candidates'[j] = found.picked[l] /\ found.picked[l] \notin hashSet
        BY <2>2, <2>6, <4>1 DEF m
      <4>3. candidates'[i] \in hashSet
        BY <2>5, <2>9, <3>2
      <4> QED
        BY <4>2, <4>3
    <3>3. CASE i \notin 1..n /\ j \in 1..n
      <4>1. PICK l \in 1..m : i = n + l
        BY <2>7, <3>3
      <4>2. candidates'[i] = found.picked[l] /\ found.picked[l] \notin hashSet
        BY <2>2, <2>6, <4>1 DEF m
      <4>3. candidates'[j] \in hashSet
        BY <2>5, <2>9, <3>3
      <4> QED
        BY <4>2, <4>3
    <3>4. CASE i \notin 1..n /\ j \notin 1..n
      <4>1. PICK k \in 1..m, l \in 1..m : i = n + k /\ j = n + l
        BY <2>7, <3>4
      <4>2. k # l
        BY <4>1
      <4> QED
        BY <2>2, <2>6, <4>1, <4>2 DEF Distinct, m
    <3> QED
      BY <3>1, <3>2, <3>3, <3>4
  <2>11. \A k \in 1..(n + m) : candidates'[k] \in hashSet'
    <3> TAKE k \in 1..(n + m)
    <3>1. CASE k \in 1..n
      BY <1>4, <2>2, <2>5, <2>9, <3>1
    <3>2. CASE k \notin 1..n
      <4>1. PICK l \in 1..m : k = n + l
        BY <2>7, <3>2
      <4>2. candidates'[k] = found.picked[l] /\ found.picked[l] \in found.met
        BY <2>2, <2>6, <4>1 DEF m
      <4> QED
        BY <1>4, <4>2
    <3> QED
      BY <3>1, <3>2
  <2>12. ASSUME NEW i \in 1..Len(rows), Counts(i)
         PROVE  rows[i].prompt \in hashSet' /\ \A k \in 1..(n + m) : candidates'[k] # rows[i].prompt
    <3>1. rows[i].prompt \in hashSet /\ \A k \in 1..n : candidates[k] # rows[i].prompt
      BY <2>8, <2>12 DEF Importing, n
    <3>2. ASSUME NEW k \in 1..(n + m) PROVE candidates'[k] # rows[i].prompt
      <4>1. CASE k \in 1..n
        BY <2>5, <3>1, <4>1
      <4>2. CASE k \notin 1..n
        <5>1. PICK l \in 1..m : k = n + l
          BY <2>7, <4>2
        <5>2. candidates'[k] = found.picked[l] /\ found.picked[l] \notin hashSet
          BY <2>2, <2>6, <5>1 DEF m
        <5> QED
          BY <3>1, <5>2
      <4> QED
        BY <4>1, <4>2
    <3>3. rows[i].prompt \in hashSet'
      BY <1>4, <2>2, <3>1
    <3> QED
      BY <3>2, <3>3
  <2>13. ASSUME NEW p \in hashSet'
         PROVE  \/ \E i \in 1..Len(rows) : rows[i].prompt = p
                \/ \E k \in 1..(n + m) : candidates'[k] = p
                \/ p \in failed
    <3>1. CASE p \in hashSet
      BY <2>5, <2>8, <3>1 DEF Importing, n
    <3>2. CASE p \notin hashSet
      <4>1. PICK k \in 1..m : found.picked[k] = p
        BY <1>4, <2>2, <2>13, <3>2 DEF m
      <4> QED
        BY <2>6, <4>1
    <3> QED
      BY <3>1, <3>2
  <2>14. Importing'
    BY <1>1, <2>4, <2>8, <2>10, <2>11, <2>12, <2>13 DEF Importing, Counts
  <2>15. ImportTyped'
    BY <1>1, <1>4, <2>3, <2>4 DEF ImportInv, ImportTyped
  <2> QED
    BY <1>2, <2>14, <2>15 DEF ImportInv
<1> QED
  BY <1>3, <1>4 DEF Import!Scan

-----------------------------------------------------------------------------
LEMMA WriteKeepsImport ==
  ASSUME ImportInv, Import!Write
  PROVE  ImportInv'
<1> DEFINE n == Len(rows)
           batch == Import!Batch
           b == Len(batch)
<1>1. /\ stage = "write" /\ candidates' = Import!Rest
      /\ UNCHANGED <<history, arriving, stage, hashSet, unread, known, run, asked>>
  BY DEF Import!Write
<1>2. PICK refused \in SUBSET DOMAIN batch :
        /\ rows' = rows \o [i \in DOMAIN Import!Kept(refused) |-> Import!Row(Import!Kept(refused)[i], run)]
        /\ failed' = failed \cup Import!Refused(refused)
  BY DEF Import!Write
<1> DEFINE kept == Import!Kept(refused)
           m == Len(kept)
           new == [i \in DOMAIN kept |-> Import!Row(kept[i], run)]
<1>3. /\ candidates \in Seq(Prompt) /\ rows \in Seq(ImportRow) /\ n \in Nat
      /\ run \in Nat /\ known \in Nat /\ failed \in SUBSET Prompt
      /\ \A i \in 1..n : rows[i].run <= run /\ (rows[i].run = run /\ run > 0 => rows[i].known = known)
  BY DEF ImportInv, ImportTyped
<1>4. Importing
  BY <1>1 DEF ImportInv
<1>5. /\ batch \in Seq(Prompt) /\ b \in Nat /\ DOMAIN batch = 1..b
      /\ candidates' \in Seq(Prompt) /\ Len(candidates') = Len(candidates) - b
      /\ b <= Len(candidates) /\ Len(candidates) \in Nat
      /\ \A i \in 1..b : batch[i] = candidates[i] /\ i \in 1..Len(candidates)
      /\ \A i \in 1..Len(candidates') : candidates'[i] = candidates[i + b] /\ i + b \in 1..Len(candidates)
      /\ \A i \in 1..Len(candidates) : i \in 1..b \/ (i - b \in 1..Len(candidates') /\ (i - b) + b = i)
  BY <1>1, <1>3, BatchIsFront
<1>6. Distinct(batch) /\ Distinct(candidates')
  <2>1. \A i, j \in 1..Len(candidates) : i # j => candidates[i] # candidates[j]
    BY <1>4 DEF Importing, Distinct
  <2> HIDE DEF batch
  <2>2. Distinct(batch)
    BY <1>5, <2>1 DEF Distinct
  <2>3. ASSUME NEW i \in 1..Len(candidates'), NEW j \in 1..Len(candidates'), i # j
        PROVE  candidates'[i] # candidates'[j]
    <3>1. i + b # j + b
      BY <1>5, <2>3
    <3>2. candidates'[i] = candidates[i + b] /\ i + b \in 1..Len(candidates)
      BY <1>5
    <3>3. candidates'[j] = candidates[j + b] /\ j + b \in 1..Len(candidates)
      BY <1>5
    <3> QED
      BY <2>1, <3>1, <3>2, <3>3
  <2> QED
    BY <2>2, <2>3 DEF Distinct
<1>7. /\ kept \in Seq(Prompt) /\ m \in Nat
      /\ \A k \in 1..m : \E l \in 1..b : kept[k] = batch[l]
      /\ \A l \in 1..b : l \notin refused => \E k \in 1..m : kept[k] = batch[l]
      /\ \A k, l \in 1..m : k # l => kept[k] # kept[l]
  <2>1. /\ kept \in Seq(Prompt)
        /\ \A k \in 1..m : \E l \in 1..b : kept[k] = batch[l]
        /\ \A l \in 1..b : l \notin refused => \E k \in 1..m : kept[k] = batch[l]
        /\ Distinct(kept)
    BY <1>3, <1>6, KeptIsTheRest, Zenon
  <2> HIDE DEF kept, batch
  <2>2. m \in Nat
    BY <2>1
  <2>3. \A k, l \in 1..m : k # l => kept[k] # kept[l]
    <3> HIDE DEF b
    <3> QED
      BY <2>1, Zenon DEF Distinct
  <2> HIDE DEF m, b
  <2> QED
    BY <2>1, <2>2, <2>3, Zenon
<1>7a. rows' = rows \o new
  BY <1>2
<1> HIDE DEF kept, batch
<1>8. run > 0 /\ known <= n
  BY <1>4 DEF Importing
<1>9. /\ new \in Seq(ImportRow) /\ Len(new) = m
      /\ \A i \in 1..m : new[i] = [prompt |-> kept[i], run |-> run, known |-> known]
  <2>1. DOMAIN kept = 1..m /\ \A i \in 1..m : kept[i] \in Prompt
    BY <1>7
  <2>2. \A i \in 1..m : new[i] = [prompt |-> kept[i], run |-> run, known |-> known]
    BY <1>8, <2>1 DEF Import!Row
  <2>4. new = [i \in 1..m |-> new[i]]
    BY <2>1
  <2> HIDE DEF new
  <2>3. \A i \in 1..m : new[i] \in ImportRow
    <3>1. ASSUME NEW p \in Prompt PROVE [prompt |-> p, run |-> run, known |-> known] \in ImportRow
      BY <1>3 DEF ImportRow
    <3> QED
      BY <2>1, <2>2, <3>1
  <2> QED
    BY <1>7, <2>2, <2>3, <2>4, IsASeq, LenProperties
<1> HIDE DEF new
<1>10. /\ rows' \in Seq(ImportRow) /\ Len(rows') = n + m
       /\ \A i \in 1..(n + m) : rows'[i] = IF i <= n THEN rows[i] ELSE new[i - n]
  <2>1. rows \o new = rows'
    BY <1>7a
  <2> HIDE DEF n, m
  <2>2. /\ rows \o new \in Seq(ImportRow) /\ Len(rows \o new) = Len(rows) + Len(new)
        /\ \A i \in 1..(Len(rows) + Len(new)) :
             (rows \o new)[i] = IF i <= Len(rows) THEN rows[i] ELSE new[i - Len(rows)]
    BY <1>3, <1>9, ConcatProperties
  <2> QED
    BY <1>9, <2>1, <2>2 DEF n
<1> HIDE DEF n, m, b
<1>11. \A i \in 1..n : i \in 1..(n + m) /\ rows'[i] = rows[i]
  BY <1>3, <1>7, <1>10
<1>12. \A k \in 1..m : n + k \in 1..(n + m) /\ rows'[n + k].prompt = kept[k]
                       /\ rows'[n + k].run = run /\ rows'[n + k].known = known
  <2> TAKE k \in 1..m
  <2>1. n + k \in 1..(n + m) /\ ~(n + k <= n) /\ (n + k) - n = k
    BY <1>3, <1>7
  <2> QED
    BY <1>9, <1>10, <2>1
<1>13. \A i \in 1..(n + m) : i \in 1..n \/ \E k \in 1..m : i = n + k
  <2> TAKE i \in 1..(n + m)
  <2>1. i \notin 1..n => i - n \in 1..m /\ i = n + (i - n)
    BY <1>3, <1>7
  <2> QED
    BY <2>1
<1>14. \A i \in 1..(n + m) : rows'[i].run <= run /\ (rows'[i].run = run => rows'[i].known = known)
  <2> TAKE i \in 1..(n + m)
  <2>1. CASE i \in 1..n
    BY <1>3, <1>8, <1>11, <2>1
  <2>2. CASE i \notin 1..n
    BY <1>3, <1>12, <1>13, <2>2
  <2> QED
    BY <2>1, <2>2
<1>15. \A k \in 1..m : \E l \in 1..Len(candidates) : kept[k] = candidates[l] /\ l \in 1..b
  BY <1>5, <1>7
<1>16. \A i \in 1..n : Counts(i) =>
         /\ rows[i].prompt \in hashSet
         /\ \A l \in 1..Len(candidates) : candidates[l] # rows[i].prompt
  BY <1>4 DEF Importing, n
<1>17. \A l \in 1..Len(candidates) : candidates[l] \in hashSet
  BY <1>4 DEF Importing
<1>18. RowsOnce'
  <2> SUFFICES ASSUME NEW j \in 1..(n + m), rows'[j].run > 0, NEW i \in 1..(j - 1),
                      i <= rows'[j].known \/ rows'[i].run = rows'[j].run
               PROVE  rows'[i].prompt # rows'[j].prompt
    BY <1>10 DEF RowsOnce
  <2>1. CASE j \in 1..n
    <3>1. i \in 1..n
      BY <1>3, <2>1
    <3> QED
      BY <1>11, <2>1, <3>1 DEF ImportInv, RowsOnce, n
  <2>2. CASE j \notin 1..n
    <3>1. PICK k \in 1..m : j = n + k
      BY <1>13, <2>2
    <3>2. rows'[j].prompt = kept[k] /\ rows'[j].run = run /\ rows'[j].known = known
      BY <1>12, <3>1
    <3>3. CASE i \in 1..n
      <4>1. Counts(i)
        BY <1>11, <3>2, <3>3 DEF Counts
      <4> QED
        BY <1>11, <1>15, <1>16, <3>2, <3>3, <4>1
    <3>4. CASE i \notin 1..n
      <4>1. i \in 1..(n + m)
        BY <1>3, <1>7
      <4>2. PICK l \in 1..m : i = n + l
        BY <1>13, <3>4, <4>1
      <4>3. l # k
        BY <1>3, <3>1, <4>2
      <4> QED
        BY <1>7, <1>12, <3>2, <4>2, <4>3 DEF m
    <3> QED
      BY <3>3, <3>4
  <2> QED
    BY <2>1, <2>2
<1>19. \A k \in 1..Len(candidates') : candidates'[k] \in hashSet
  BY <1>5, <1>17
<1>20. ASSUME NEW i \in 1..(n + m), i <= known \/ rows'[i].run = run
       PROVE  rows'[i].prompt \in hashSet /\ \A k \in 1..Len(candidates') : candidates'[k] # rows'[i].prompt
  <2>1. CASE i \in 1..n
    <3>1. Counts(i)
      BY <1>11, <1>20, <2>1 DEF Counts
    <3> QED
      BY <1>5, <1>11, <1>16, <2>1, <3>1
  <2>2. CASE i \notin 1..n
    <3>1. PICK k \in 1..m : i = n + k
      BY <1>13, <2>2
    <3>2. PICK l \in 1..b : kept[k] = candidates[l] /\ l \in 1..Len(candidates)
      BY <1>15
    <3>3. rows'[i].prompt = candidates[l]
      BY <1>12, <3>1, <3>2
    <3>4. ASSUME NEW c \in 1..Len(candidates') PROVE candidates'[c] # candidates[l]
      <4>1. c + b # l /\ c + b \in 1..Len(candidates) /\ candidates'[c] = candidates[c + b]
        BY <1>5
      <4> QED
        BY <1>4, <3>2, <4>1 DEF Importing, Distinct
    <3> QED
      BY <1>17, <3>2, <3>3, <3>4
  <2> QED
    BY <2>1, <2>2
<1>21. ASSUME NEW p \in hashSet
       PROVE  \/ \E i \in 1..(n + m) : rows'[i].prompt = p
              \/ \E k \in 1..Len(candidates') : candidates'[k] = p
              \/ p \in failed'
  <2>1. CASE \E i \in 1..n : rows[i].prompt = p
    BY <1>11, <2>1
  <2>2. CASE p \in failed
    BY <1>2, <2>2
  <2>3. ASSUME NEW k \in 1..Len(candidates), candidates[k] = p
        PROVE  \/ \E i \in 1..(n + m) : rows'[i].prompt = p
               \/ \E c \in 1..Len(candidates') : candidates'[c] = p
               \/ p \in failed'
    <3>1. CASE k \in 1..b
      <4>1. batch[k] = p
        BY <1>5, <2>3, <3>1
      <4>2. CASE k \in refused
        <5>1. p \in Import!Refused(refused)
          BY <4>1, <4>2 DEF Import!Refused, batch
        <5> QED
          BY <1>2, <5>1
      <4>3. CASE k \notin refused
        <5>1. PICK l \in 1..m : kept[l] = p
          BY <1>7, <3>1, <4>1, <4>3 DEF b, m
        <5> QED
          BY <1>12, <5>1
      <4> QED
        BY <4>2, <4>3
    <3>2. CASE k \notin 1..b
      BY <1>5, <2>3, <3>2
    <3> QED
      BY <3>1, <3>2
  <2> QED
    BY <1>4, <2>1, <2>2, <2>3 DEF Importing, n
<1>22. Importing'
  <2>1. known <= n + m
    BY <1>3, <1>7, <1>8
  <2> QED
    BY <1>1, <1>6, <1>8, <1>10, <1>19, <1>20, <1>21, <2>1 DEF Importing, Counts
<1>23. ImportTyped'
  <2>1. failed' \in SUBSET Prompt
    <3>1. \A i \in refused : batch[i] \in Prompt
      BY <1>5
    <3> QED
      BY <1>2, <1>3, <3>1 DEF Import!Refused, batch
  <2> QED
    BY <1>1, <1>5, <1>10, <2>1 DEF ImportInv, ImportTyped
<1> QED
  BY <1>1, <1>10, <1>14, <1>18, <1>22, <1>23 DEF ImportInv

LEMMA ImportNext ==
  ASSUME ImportInv, [Import!Next]_import
  PROVE  ImportInv'
<1>0. ASSUME UNCHANGED <<rows, stage, hashSet, candidates, known, failed, run>>, ImportTyped' PROVE ImportInv'
  BY <1>0 DEF ImportInv, Importing, RowsOnce, Counts, Distinct
<1>1. CASE UNCHANGED import
  BY <1>0, <1>1 DEF import, ImportInv, ImportTyped
<1>2. ASSUME NEW h \in arriving, Import!Missed(h) PROVE ImportInv'
  BY <1>0, <1>2 DEF Import!Missed, Import!import, ImportInv, ImportTyped
<1>3. ASSUME Import!ScanEnds PROVE ImportInv'
  BY <1>3 DEF Import!ScanEnds, ImportInv, ImportTyped, Importing, RowsOnce, Counts, Distinct
<1>4. ASSUME Import!Ends PROVE ImportInv'
  BY <1>4 DEF Import!Ends, ImportInv, ImportTyped, RowsOnce
<1> QED
  BY <1>1, <1>2, <1>3, <1>4, AskKeepsImport, CaptureKeepsImport, LoadKeepsImport, ScanKeepsImport,
     WriteKeepsImport
     DEF Import!Next, Prompt

(***************************************************************************)
(* Whatever is captured, killed and run again, for any number of sessions, *)
(* prompts and imports and any size of batch, an import stores no prompt   *)
(* that the database had when it began and none twice, and what it skips   *)
(* is stored, still to be written, or refused (importClaudeHistory).       *)
(***************************************************************************)
THEOREM ServicesImportOnce == MCSpec => []ImportIsIdempotent
<1>1. MCInit => ImportInv
  BY DEF MCInit, Import!Init, ImportInv, ImportTyped, RowsOnce, Importing
<1>2. ImportInv /\ [MCNext]_<<world, vars, terminals, panel, canonical, commit, import, agents>> => ImportInv'
  BY ImportNext DEF MCNext, import
<1>3. ImportInv => ImportIsIdempotent
  <2> SUFFICES ASSUME ImportInv PROVE Import!ImportedOnce /\ Import!NothingDropped
    BY DEF ImportIsIdempotent, Import!ImportIsIdempotent
  <2>1. /\ Len(rows) \in Nat /\ DOMAIN rows = 1..Len(rows)
        /\ DOMAIN candidates = 1..Len(candidates)
    BY DEF ImportInv, ImportTyped
  <2>2. Import!ImportedOnce
    <3> SUFFICES ASSUME NEW j \in 1..Len(rows), rows[j].run > 0, NEW i \in 1..Len(rows), i < j,
                        i <= rows[j].known \/ rows[i].run = rows[j].run
                 PROVE  rows[i].prompt # rows[j].prompt
      BY <2>1 DEF Import!ImportedOnce, Import!Before
    <3>1. i \in 1..(j - 1)
      BY <2>1
    <3> QED
      BY <3>1 DEF ImportInv, RowsOnce
  <2>3. Import!NothingDropped
    BY <2>1 DEF ImportInv, Importing, Import!NothingDropped
  <2> QED
    BY <2>2, <2>3
<1> QED
  BY <1>1, <1>2, <1>3, PTL DEF MCSpec
=============================================================================
