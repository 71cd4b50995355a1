--------------------------- MODULE TicketRecords ---------------------------
(***************************************************************************)
(* What the server writes down about tickets beside the tickets: the run   *)
(* registry behind the sidebar (packages/server/src/runStore.ts and        *)
(* runAdapters/ticketRuns.ts), the evaluations (evalStore.ts), and the     *)
(* wiring between the three (index.ts).                                    *)
(*                                                                         *)
(* Every change of a ticket is mirrored into the registry after a git      *)
(* probe of its directory, which may take any time: mirrors land late and  *)
(* out of order, each with the ticket as it was when it set out.  Titles,  *)
(* times and repositories of runs are left out.  The runner is any         *)
(* sequence of ticket changes, and the ticket file is taken as reliable    *)
(* (TicketRestart is about it).                                            *)
(***************************************************************************)
EXTENDS Naturals

CONSTANTS Tickets, Null, Gone,
          AutoLabels,    \* what seedAutoLabel may make of an outcome
          HumanLabels,   \* what a human may say
          MaxChanges, MaxEvaluations, MaxFilings, MaxFiles, MaxCrashes   \* bounds

VARIABLES
  tickets,     \* Null before creation, Gone after removal
  evals,       \* the evaluation of each ticket, in memory
  evalFile,    \* and in evaluations.json
  runs,        \* the run of each ticket, in memory
  runFile,     \* and in runs.json, as load() would read it
  dirty,       \* memory has changes no write has taken yet
  flush,       \* "idle", "timer" (50 ms) or "writing"
  out,         \* what is being written
  mirrors,     \* mirrorTicket calls that wait for their probe
  verdicts,    \* onSettled calls that have not reached the evaluations yet
  evaluating,  \* per ticket, the evaluate request in progress
  removing,    \* tickets whose removal waits for the ticket file
  changes, evaluations, filings, crashes

vars == <<tickets, evals, evalFile, runs, runFile, dirty, flush, out, mirrors, verdicts,
          evaluating, removing, changes, evaluations, filings, crashes>>

stores == <<evals, evalFile>>
registry == <<runs, runFile, dirty, flush, out>>
calls == <<mirrors, verdicts, evaluating, removing>>
bounds == <<changes, evaluations, filings, crashes>>

\* queued, running and verifying are one to the registry, done and failed
\* too; auto is what seedAutoLabel makes of the outcome.
Ticket == [state : {"working", "decision"}, auto : {"unrated"}]
       \cup [state : {"settled"}, auto : AutoLabels]
Evaluation == [label : {"unrated"} \cup AutoLabels \cup HumanLabels, human : BOOLEAN]
Run == [state : {"running", "waiting", "closed", "abandoned"}, files : 0..MaxFiles]
Request == [step : {"label", "file"}, label : HumanLabels]

ASSUME NoRecords == /\ Null \notin Ticket \cup Evaluation \cup Run \cup Request
                    /\ Gone \notin Ticket \cup {Null}
ASSUME FilesAreCounted == MaxFiles \in Nat

Exists(t) == tickets[t] \notin {Null, Gone}

Init == /\ tickets = [t \in Tickets |-> Null]
        /\ evals = [t \in Tickets |-> Null] /\ evalFile = evals
        /\ runs = [t \in Tickets |-> Null] /\ runFile = runs
        /\ dirty = FALSE /\ flush = "idle" /\ out = runs
        /\ mirrors = {} /\ verdicts = {} /\ removing = {}
        /\ evaluating = [t \in Tickets |-> Null]
        /\ changes = 0 /\ evaluations = 0 /\ filings = 0 /\ crashes = 0

-----------------------------------------------------------------------------
(* The stores.                                                             *)

Filed(run) == run # Null /\ run.state \in {"closed", "abandoned"}

\* Mutant: the adapter's state is believed, whatever a human filed.
UpsertedMutant(run, ticket) ==
  [state |-> IF ticket.state = "working" THEN "running" ELSE "waiting",
   files |-> IF run = Null THEN 0 ELSE run.files]

\* runStore.upsert of ticketToUpsert: a filed run keeps its state.
Upserted(run, ticket) ==
  [state |-> IF Filed(run) THEN run.state
             ELSE IF ticket.state = "working" THEN "running" ELSE "waiting",
   files |-> IF run = Null THEN 0 ELSE run.files]

\* runStore.close and abandon; a run that is not there stays so.
FiledAs(run, state) == IF run = Null THEN Null ELSE [run EXCEPT !.state = state]

\* ticketRunOutcome: a settled ticket that a human evaluated is filed away.
Outcome(t, ticket) == ticket.state = "settled" /\ evals[t] # Null /\ evals[t].human

FiledWhenEvaluated(t, ticket, run) ==
  IF Outcome(t, ticket) THEN FiledAs(run, "closed") ELSE run

\* touch(): one timer at a time, and none is set while a write is under way.
Touch == /\ dirty' = TRUE
         /\ flush' = IF flush = "idle" THEN "timer" ELSE flush
         /\ UNCHANGED <<runFile, out>>

PutRun(t, run) == /\ runs' = [runs EXCEPT ![t] = run]
                  /\ IF run = Null /\ runs[t] = Null THEN UNCHANGED <<dirty, flush, out, runFile>>
                     ELSE Touch

\* upsertFromTicket: a human label sticks.
Seeded(eval, ticket) == IF eval # Null /\ eval.human THEN eval
                        ELSE [label |-> ticket.auto, human |-> FALSE]

-----------------------------------------------------------------------------
(* Tickets change, and every change is broadcast and mirrored.             *)

Mirror(t, ticket) == mirrors' = mirrors \cup {<<t, ticket>>}

Change == changes < MaxChanges /\ changes' = changes + 1

Create(t) ==
  LET ticket == [state |-> "working", auto |-> "unrated"]
  IN /\ Change
     /\ tickets[t] = Null
     /\ tickets' = [tickets EXCEPT ![t] = ticket]
     /\ Mirror(t, ticket)
     /\ UNCHANGED <<stores, registry, verdicts, evaluating, removing, evaluations, filings, crashes>>

\* Whatever the runner does; a ticket that settles is evaluated as well.
Update(t, ticket) ==
  /\ Change
  /\ Exists(t)
  /\ tickets' = [tickets EXCEPT ![t] = ticket]
  /\ Mirror(t, ticket)
  /\ verdicts' = IF ticket.state = "settled" THEN verdicts \cup {<<t, ticket>>} ELSE verdicts
  /\ UNCHANGED <<stores, registry, evaluating, removing, evaluations, filings, crashes>>

\* A branch was switched: every ticket is mirrored anew (refreshAfterCheckout).
Checkout ==
  /\ Change
  /\ mirrors' = mirrors \cup {<<t, tickets[t]>> : t \in {u \in Tickets : Exists(u)}}
  /\ UNCHANGED <<tickets, stores, registry, verdicts, evaluating, removing,
                 evaluations, filings, crashes>>

\* Mutant: the mirror leaves the filing of evaluated tickets to others.
MirrorLandsMutant(t, ticket) ==
  /\ <<t, ticket>> \in mirrors
  /\ mirrors' = mirrors \ {<<t, ticket>>}
  /\ PutRun(t, Upserted(runs[t], ticket))
  /\ UNCHANGED <<tickets, stores, verdicts, evaluating, removing, bounds>>

\* The probe is over: upsert with the ticket of then, evaluation of now.
MirrorLands(t, ticket) ==
  /\ <<t, ticket>> \in mirrors
  /\ mirrors' = mirrors \ {<<t, ticket>>}
  /\ PutRun(t, FiledWhenEvaluated(t, ticket, Upserted(runs[t], ticket)))
  /\ UNCHANGED <<tickets, stores, verdicts, evaluating, removing, bounds>>

\* onSettled reaches the evaluations, perhaps after a delegation update.
VerdictLands(t, ticket) ==
  /\ <<t, ticket>> \in verdicts
  /\ verdicts' = verdicts \ {<<t, ticket>>}
  /\ evals' = [evals EXCEPT ![t] = Seeded(@, ticket)]
  /\ UNCHANGED <<tickets, evalFile, registry, mirrors, evaluating, removing, bounds>>

\* PostToolUse of an edit: recordTouchedFile, on a run that is known.
FileTouched(t) ==
  /\ runs[t] # Null
  /\ runs[t].files < MaxFiles
  /\ PutRun(t, [runs[t] EXCEPT !.files = @ + 1])
  /\ UNCHANGED <<tickets, stores, calls, bounds>>

-----------------------------------------------------------------------------
(* What people do.                                                         *)

\* The ticket leaves the map at once, its run after the ticket file is written.
Remove(t) ==
  /\ Exists(t)
  /\ tickets' = [tickets EXCEPT ![t] = Gone]
  /\ removing' = removing \cup {t}
  /\ UNCHANGED <<stores, registry, mirrors, verdicts, evaluating, bounds>>

RemoveRun(t) ==
  /\ t \in removing
  /\ removing' = removing \ {t}
  /\ PutRun(t, Null)
  /\ UNCHANGED <<tickets, stores, mirrors, verdicts, evaluating, bounds>>

\* POST /api/runs/close and /api/runs/abandon.
FileAway(t, state) ==
  /\ filings < MaxFilings /\ filings' = filings + 1
  /\ runs[t] # Null
  /\ PutRun(t, FiledAs(runs[t], state))
  /\ UNCHANGED <<tickets, stores, calls, changes, evaluations, crashes>>

Labelled(label) == [label |-> label, human |-> TRUE]

\* A record is seeded first where there is none; each store call waits for
\* its flush.  With neither record nor ticket nothing happens.
Evaluate(t, label) ==
  /\ evaluations < MaxEvaluations /\ evaluations' = evaluations + 1
  /\ evaluating[t] = Null
  /\ \/ /\ evals[t] # Null
        /\ evals' = [evals EXCEPT ![t] = Labelled(label)]
        /\ evaluating' = [evaluating EXCEPT ![t] = [step |-> "file", label |-> label]]
     \/ /\ evals[t] = Null /\ Exists(t)
        /\ evals' = [evals EXCEPT ![t] = Seeded(@, tickets[t])]
        /\ evaluating' = [evaluating EXCEPT ![t] = [step |-> "label", label |-> label]]
  /\ UNCHANGED <<tickets, evalFile, registry, mirrors, verdicts, removing, changes, filings, crashes>>

Resumes(t, step) == evaluating[t] # Null /\ evaluating[t].step = step /\ evalFile[t] = evals[t]

EvaluateLabels(t) ==
  /\ Resumes(t, "label")
  /\ evals' = [evals EXCEPT ![t] = Labelled(evaluating[t].label)]
  /\ evaluating' = [evaluating EXCEPT ![t].step = "file"]
  /\ UNCHANGED <<tickets, evalFile, registry, mirrors, verdicts, removing, bounds>>

EvaluateFiles(t) ==
  /\ Resumes(t, "file")
  /\ evaluating' = [evaluating EXCEPT ![t] = Null]
  /\ IF Exists(t) /\ Outcome(t, tickets[t]) THEN PutRun(t, FiledAs(runs[t], "closed"))
     ELSE UNCHANGED registry
  /\ UNCHANGED <<tickets, stores, mirrors, verdicts, removing, bounds>>

-----------------------------------------------------------------------------
(* Files.                                                                  *)

FlushEvals == /\ evalFile # evals
              /\ evalFile' = evals
              /\ UNCHANGED <<tickets, evals, registry, calls, bounds>>

\* Mutant: the changes count as saved once the write is over.
WriteEndsMutant == /\ flush = "writing"
                   /\ flush' = "idle" /\ dirty' = FALSE /\ runFile' = out
                   /\ UNCHANGED <<tickets, stores, runs, out, calls, bounds>>

TimerFires ==
  /\ flush = "timer"
  /\ IF dirty THEN dirty' = FALSE /\ out' = runs /\ flush' = "writing"
     ELSE flush' = "idle" /\ UNCHANGED <<dirty, out>>
  /\ UNCHANGED <<tickets, stores, runs, runFile, calls, bounds>>

WriteEnds == /\ flush = "writing"
             /\ flush' = "idle" /\ runFile' = out
             /\ UNCHANGED <<tickets, stores, runs, dirty, out, calls, bounds>>

\* What runs.json holds after a crash; a torn file is read as empty.
Survivors == IF flush = "writing" THEN {runFile, out, [t \in Tickets |-> Null]} ELSE {runFile}

\* A crash (a write that fails is one: nobody handles its rejection) and the
\* next start, which mirrors every ticket, files the evaluated ones and
\* drops runs without a ticket before it listens.
Restart ==
  /\ crashes < MaxCrashes /\ crashes' = crashes + 1
  /\ evals' = evalFile
  /\ \E loaded \in Survivors :
       /\ runFile' = loaded
       /\ runs' = [t \in Tickets |->
            IF ~Exists(t) THEN Null
            ELSE LET run == Upserted(loaded[t], tickets[t])
                 IN IF tickets[t].state = "settled" /\ evalFile[t] # Null /\ evalFile[t].human
                    THEN FiledAs(run, "closed") ELSE run]
       /\ dirty' = \E t \in Tickets : Exists(t) \/ loaded[t] # Null
  /\ flush' = IF dirty' THEN "timer" ELSE "idle"
  /\ mirrors' = {} /\ verdicts' = {} /\ removing' = {}
  /\ evaluating' = [t \in Tickets |-> Null]
  /\ UNCHANGED <<tickets, evalFile, out, changes, evaluations, filings>>

Next ==
  \/ \E t \in Tickets :
       \/ Create(t) \/ FileTouched(t) \/ Remove(t) \/ RemoveRun(t)
       \/ EvaluateLabels(t) \/ EvaluateFiles(t)
       \/ \E ticket \in Ticket : \/ Update(t, ticket)
                                 \/ MirrorLands(t, ticket)
                                 \/ VerdictLands(t, ticket)
       \/ \E state \in {"closed", "abandoned"} : FileAway(t, state)
       \/ \E label \in HumanLabels : Evaluate(t, label)
  \/ Checkout \/ FlushEvals \/ TimerFires \/ WriteEnds \/ Restart

Spec == Init /\ [][Next]_vars

-----------------------------------------------------------------------------
TypeOK == /\ tickets \in [Tickets -> Ticket \cup {Null, Gone}]
          /\ evals \in [Tickets -> Evaluation \cup {Null}]
          /\ runs \in [Tickets -> Run \cup {Null}]
          /\ evaluating \in [Tickets -> Request \cup {Null}]
          /\ dirty \in BOOLEAN /\ flush \in {"idle", "timer", "writing"}

(* What a human decided stands while the server runs: a filed run does not *)
(* open again under late or stale mirrors ("A human's close is final",     *)
(* runStore.ts:146), and a label is changed by nobody but a human.         *)
HumanStands ==
  [][crashes' = crashes =>
       \A t \in Tickets :
         /\ (Filed(runs[t]) /\ runs'[t] # Null) => Filed(runs'[t])
         /\ (evals[t] # Null /\ evals[t].human) =>
              \/ evals'[t] = evals[t]
              \/ evals'[t] # Null /\ evals'[t].human /\ evaluating'[t] # evaluating[t]]_vars

(* The board and the sidebar settle on the same event (ticketRuns.ts:37):  *)
(* once every call is through, the run of a settled ticket that a human    *)
(* evaluated is filed, whether the label, the settlement, a retry, a late  *)
(* mirror or a restart came first.                                         *)
EvaluatedIsFiled ==
  \A t \in Tickets :
    (/\ Exists(t) /\ Outcome(t, tickets[t]) /\ runs[t] # Null
     /\ evaluating[t] = Null /\ <<t, tickets[t]>> \notin mirrors) => Filed(runs[t])

(* A registry that has nothing left to write is the one in the file: no    *)
(* change is forgotten because it was made while another was written.      *)
DirtyOrSaved == (flush = "idle" /\ ~dirty) => runFile = runs
=============================================================================
