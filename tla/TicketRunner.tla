---------------------------- MODULE TicketRunner ----------------------------
(***************************************************************************)
(* The ticket runner of the server (packages/server/src/ticketRunner.ts):  *)
(* autonomous agent runs driven by tickets, with a bounded number of       *)
(* slots, a FIFO backlog, a verification gate, a commit, and a question    *)
(* that parks the ticket until a human or an advisory panel answers it.    *)
(*                                                                         *)
(* The program is one JavaScript thread.  An action below is what runs     *)
(* between two awaits; what a function still has to do after an await is a *)
(* continuation.  There are two kinds of continuation:                     *)
(*   - those that wait for the store's flush.  The store serialises its    *)
(*     flushes, so they resume in the order of the updates: flushq;        *)
(*   - those that wait for the outside world (the cwd check, the agent     *)
(*     process, the verifier, the commit, the panel), which answer in any  *)
(*     order.  Each belongs to one run of an agent: runs[r].pc.            *)
(*                                                                         *)
(* A run is one attempt to work on a ticket: it begins when start(),       *)
(* reply() or resumeInterrupted() takes a slot, and it carries the call of *)
(* onMainDone that its process's exit triggers, and the panel consultation *)
(* that call ends with.                                                    *)
(***************************************************************************)
EXTENDS Integers, Sequences, FiniteSets

CONSTANTS
  Tickets,      \* the ids the store may hand out
  Concurrency,  \* options.concurrency: tickets executing at once
  MaxAttempts,  \* bound: how often a run may be asked for (create, retry, answer)
  Operations,   \* what happens besides create: a subset of AllOperations
  Advisors      \* TRUE when adviseDecision is wired and the ticket may use it

AllOperations == {"cancel", "retry", "reply", "remove", "timeout"}

ASSUME TicketsAssumption == IsFiniteSet(Tickets)
ASSUME ConcurrencyAssumption == Concurrency \in Nat \ {0}
ASSUME OperationsAssumption == Operations \subseteq AllOperations
ASSUME AdvisorsAssumption == Advisors \in BOOLEAN

VARIABLES
  tickets,   \* the store's map: id -> record (state "unborn"/"removed": absent)
  running,   \* the ids that hold a slot
  queue,     \* the backlog of ids
  handles,   \* id -> the run whose process cancel and timeout would kill
  timers,    \* id -> the run whose wallclock timer is registered for the id
  runs,      \* every run so far, in the order they began
  flushq,    \* continuations waiting for their update to be flushed
  attempts   \* how often a run has been asked for (only to bound the model)

vars == <<tickets, running, queue, handles, timers, runs, flushq, attempts>>

NoRun == 0
Runs == 1..Len(runs)

Terminal == {"done", "failed"}
Absent == {"unborn", "removed"}
States == {"queued", "running", "verifying", "decision"} \cup Terminal \cup Absent

(***************************************************************************)
(* session:  the conversation to resume (claudeSessionId), named by the    *)
(*           run that opened it;                                           *)
(* question: the question the ticket waits on (decisionQuestion), named by *)
(*           the run that asked it;                                        *)
(* stage, about: decisionPanel.stage and decisionPanel.question.           *)
(***************************************************************************)
Stages == {"none", "pending", "deciding", "decided", "failed"}
TicketRecord == [state : States, session : Nat, question : Nat,
                 stage : Stages, about : Nat]

(***************************************************************************)
(* pc of a run.  "live" and "killed" are the times its process exists;     *)
(* "parking", "judging" and "consulting" wait for a flush of onMainDone    *)
(* and consultPanel; "over": nothing is left to do.                        *)
(* thread: the conversation it works in; answers: the question its prompt  *)
(* answers; told: it has announced its conversation; armed: its wallclock  *)
(* timer has neither fired nor been cleared.                               *)
(***************************************************************************)
Alive == {"live", "killed"}
Working == {"validating", "starting", "parking", "judging", "verifying",
            "committing"} \cup Alive
Phases == Working \cup {"consulting", "advising", "over"}
RunRecord == [pc : Phases, id : Tickets, thread : Nat, answers : Nat, 
              told : BOOLEAN, armed : BOOLEAN]

RunKinds == {"starting", "parked", "judge", "consult", "escalated", "adopted"}
TicketKinds == {"enqueue", "release", "noted",
                "recovered"}  \* the last one is recover()'s, in TicketRestart
Continuation == [k : RunKinds, r : Runs] \cup [k : TicketKinds, t : Tickets]

Exists(t) == tickets[t].state \notin Absent
IsTerminal(t) == tickets[t].state \in Terminal
Unsettled(t) == Exists(t) /\ ~IsTerminal(t)

Phase(r, p) == [runs EXCEPT ![r].pc = p]

NewRun(t, p, thread, answers) ==
  [pc |-> p, id |-> t, thread |-> thread, answers |-> answers,
   told |-> FALSE, armed |-> FALSE]

-----------------------------------------------------------------------------
(* The chokepoints every handler goes through.  The operators named        *)
(* ...Mutant are not the code: each is a plausible mistake in the operator *)
(* that follows it, and breaks a property that holds of the code.          *)

ThenReleaseMutant(t) == [k |-> "noted", t |-> t]
ThenRelease(t) == [k |-> "release", t |-> t]
ThenEnqueueMutant(t) == [k |-> "noted", t |-> t]
ThenEnqueue(t) == [k |-> "enqueue", t |-> t]

\* store.update: the map changes at once, the caller continues as c.
Store(t, rec, fq, c) ==
  /\ tickets' = [tickets EXCEPT ![t] = rec]
  /\ flushq' = Append(fq, c)

\* clearTimer, as what it does to the registered timers and to the runs.
Unregistered(t) == [timers EXCEPT ![t] = NoRun]
Disarmed(t, rs) == IF timers[t] = NoRun THEN rs ELSE [rs EXCEPT ![timers[t]].armed = FALSE]

HasRoomMutant(R) == Cardinality(R) <= Concurrency
HasRoom(R) == Cardinality(R) < Concurrency

\* Mutant: the freed slot is not offered to the backlog.
PumpMutant(R, q, rs) == running' = R /\ queue' = q /\ runs' = rs

(***************************************************************************)
(* pump(): shift the backlog while a slot is free, start() what is still   *)
(* queued.  R, q and rs are the slots, the backlog and the runs before it; *)
(* n is the number of shifts; order lists the positions that start, from   *)
(* the head of the backlog on.                                             *)
(***************************************************************************)
Pump(R, q, rs) ==
  \E n \in 0..Len(q) :
    LET Startable(m) == {i \in 1..m : tickets[q[i]].state = "queued"}
        Held(m) == R \cup {q[i] : i \in Startable(m)}
    IN  /\ \A m \in 0..(n-1) : HasRoom(Held(m))
        /\ n = Len(q) \/ ~HasRoom(Held(n))
        /\ queue' = SubSeq(q, n + 1, Len(q))
        /\ running' = Held(n)
        /\ \E order \in [1..Cardinality(Startable(n)) -> Startable(n)] :
             /\ \A j, k \in DOMAIN order : j < k => order[j] < order[k]
             /\ \A i \in Startable(n) : \E k \in DOMAIN order : order[k] = i
             /\ runs' = rs \o [k \in DOMAIN order |->
                          NewRun(q[order[k]], "validating", Len(rs) + k, NoRun)]

Release(t, rs) ==
  /\ handles' = [handles EXCEPT ![t] = NoRun]
  /\ timers' = Unregistered(t)
  /\ Pump(running \ {t}, queue, Disarmed(t, rs))

\* fail() and the catch-all of apply: an update of an absent ticket writes
\* nothing, and its caller goes straight on to release the slot.
Settle(t, state, rs, fq) ==
  \/ /\ Exists(t)
     /\ Store(t, [tickets[t] EXCEPT !.state = state], fq, ThenRelease(t))
     /\ runs' = rs
     /\ UNCHANGED <<running, queue, handles, timers>>
  \/ /\ ~Exists(t)
     /\ Release(t, rs)
     /\ flushq' = fq
     /\ UNCHANGED tickets

Fail(t, rs, fq) == Settle(t, "failed", rs, fq)

\* handles.get(id)?.kill(): a signal; the process exits later.
Kill(t) ==
  IF handles[t] # NoRun /\ runs[handles[t]].pc = "live"
  THEN Phase(handles[t], "killed")
  ELSE runs

ContinuedMutant(rec) == rec
Continued(rec) == [rec EXCEPT !.state = "running", !.question = NoRun]

(***************************************************************************)
(* replyInternal: continue a parked ticket with an answer.  It takes a     *)
(* slot whatever the limit.                                                *)
(***************************************************************************)
Answer(t, rs, fq) ==
  \/ /\ tickets[t].state # "decision"
     /\ runs' = rs
     /\ flushq' = fq
     /\ UNCHANGED <<tickets, running, queue, handles, timers>>
  \/ /\ tickets[t].state = "decision"
     /\ tickets[t].session = NoRun
     /\ Fail(t, rs, fq)
  \/ /\ tickets[t].state = "decision"
     /\ tickets[t].session # NoRun
     /\ running' = running \cup {t}
     /\ runs' = Append(rs, NewRun(t, "starting", tickets[t].session, tickets[t].question))
     /\ Store(t, Continued(tickets[t]), fq, [k |-> "starting", r |-> Len(rs) + 1])
     /\ UNCHANGED <<queue, handles, timers>>

-----------------------------------------------------------------------------
Init ==
  /\ tickets = [t \in Tickets |-> [state |-> "unborn", session |-> NoRun,
                                   question |-> NoRun, stage |-> "none", about |-> NoRun]]
  /\ running = {}
  /\ queue = <<>>
  /\ handles = [t \in Tickets |-> NoRun]
  /\ timers = [t \in Tickets |-> NoRun]
  /\ runs = <<>>
  /\ flushq = <<>>
  /\ attempts = 0

Ask == /\ attempts < MaxAttempts
       /\ attempts' = attempts + 1

(* Requests of the user.                                                   *)

Create(t) ==
  /\ tickets[t].state = "unborn"
  /\ Ask
  /\ Store(t, [tickets[t] EXCEPT !.state = "queued"], flushq, ThenEnqueue(t))
  /\ UNCHANGED <<running, queue, handles, timers, runs>>

RequeuedMutant(rec) == [rec EXCEPT !.state = "retrying"]
Requeued(rec) == [rec EXCEPT !.state = "queued", !.question = NoRun,
                             !.stage = "none", !.about = NoRun]

\* A retry re-runs the goal from scratch, but keeps the session id.
Retry(t) ==
  /\ "retry" \in Operations
  /\ tickets[t].state = "failed"
  /\ Ask
  /\ Store(t, Requeued(tickets[t]), flushq, ThenEnqueue(t))
  /\ UNCHANGED <<running, queue, handles, timers, runs>>

Reply(t) ==
  /\ "reply" \in Operations
  /\ tickets[t].state = "decision"
  /\ Ask
  /\ Answer(t, runs, flushq)

Without(q, t) ==
  LET i == CHOOSE j \in 1..Len(q) : q[j] = t
  IN  IF \E j \in 1..Len(q) : q[j] = t
      THEN SubSeq(q, 1, i - 1) \o SubSeq(q, i + 1, Len(q))
      ELSE q

Cancel(t) ==
  /\ "cancel" \in Operations
  /\ Unsettled(t)
  /\ runs' = Kill(t)
  /\ queue' = Without(queue, t)
  /\ Store(t, [tickets[t] EXCEPT !.state = "failed"], flushq, ThenRelease(t))
  /\ UNCHANGED <<running, handles, timers, attempts>>

\* The route's remove(): the store forgets the ticket, the runner is not told.
Remove(t) ==
  /\ "remove" \in Operations
  /\ Exists(t)
  /\ Store(t, [tickets[t] EXCEPT !.state = "removed"], flushq, [k |-> "noted", t |-> t])
  /\ UNCHANGED <<running, queue, handles, timers, runs, attempts>>

(* What the outside world answers.                                         *)

\* start() after validateCwd: the ticket is not looked at again.
CwdRejected(r) ==
  /\ runs[r].pc = "validating"
  /\ Fail(runs[r].id, Phase(r, "over"), flushq)
  /\ UNCHANGED attempts

CwdAccepted(r) ==
  LET t == runs[r].id IN
  /\ runs[r].pc = "validating"
  /\ \/ /\ Exists(t)
        /\ Store(t, [tickets[t] EXCEPT !.state = "running"],
                 flushq, [k |-> "starting", r |-> r])
        /\ runs' = Phase(r, "starting")
        /\ UNCHANGED <<running, queue, handles, timers>>
     \/ /\ ~Exists(t)
        /\ Release(t, Phase(r, "over"))
        /\ UNCHANGED <<tickets, flushq>>
  /\ UNCHANGED attempts

\* noteSession: the agent announces the conversation it works in, once.
Announce(r) ==
  LET t == runs[r].id IN
  /\ runs[r].pc \in Alive
  /\ ~runs[r].told
  /\ Exists(t) /\ tickets[t].session # runs[r].thread
  /\ runs' = [runs EXCEPT ![r].told = TRUE]
  /\ Store(t, [tickets[t] EXCEPT !.session = runs[r].thread],
           flushq, [k |-> "noted", t |-> t])
  /\ UNCHANGED <<running, queue, handles, timers, attempts>>

\* What onMainDone records of an agent that ended well: outcome.sessionId may
\* be missing, and then the id announced earlier stays.
Reported(r, sid, state) ==
  [tickets[runs[r].id] EXCEPT
     !.state = state,
     !.session = IF sid = NoRun THEN tickets[runs[r].id].session ELSE sid]

\* The process of r exits: its done promise settles, once.
ExitedMutant(r, p) == runs
Exited(r, p) == Phase(r, p)

\* onMainDone runs up to its first await.
AgentFails(r) ==
  LET t == runs[r].id IN
  /\ runs[r].pc \in Alive
  /\ Unsettled(t)
  /\ timers' = Unregistered(t)
  /\ runs' = Disarmed(t, Exited(r, "over"))
  /\ Store(t, [tickets[t] EXCEPT !.state = "failed"], flushq, ThenRelease(t))
  /\ UNCHANGED <<running, queue, handles, attempts>>

AgentAsks(r) ==
  LET t == runs[r].id IN
  /\ runs[r].pc \in Alive
  /\ Unsettled(t)
  /\ timers' = Unregistered(t)
  /\ runs' = Disarmed(t, Exited(r, "parking"))
  /\ \E sid \in {NoRun, runs[r].thread} :
       Store(t, [Reported(r, sid, "decision") EXCEPT
                   !.question = r,
                   !.stage = IF Advisors THEN "pending" ELSE "none",
                   !.about = IF Advisors THEN r ELSE NoRun],
             flushq, [k |-> "parked", r |-> r])
  /\ UNCHANGED <<running, queue, handles, attempts>>

AgentReports(r) ==
  LET t == runs[r].id IN
  /\ runs[r].pc \in Alive
  /\ Unsettled(t)
  /\ timers' = Unregistered(t)
  /\ runs' = Disarmed(t, Exited(r, "judging"))
  /\ \E sid \in {NoRun, runs[r].thread} :
       Store(t, Reported(r, sid, "verifying"), flushq, [k |-> "judge", r |-> r])
  /\ UNCHANGED <<running, queue, handles, attempts>>

\* Whatever the outcome, a settled or removed ticket only gives its slot back.
AgentEndsLate(r) ==
  LET t == runs[r].id IN
  /\ runs[r].pc \in Alive
  /\ IsTerminal(t) \/ ~Exists(t)
  /\ Release(t, Exited(r, "over"))
  /\ UNCHANGED <<tickets, flushq, attempts>>

VerifierPasses(r) ==
  LET t == runs[r].id IN
  /\ runs[r].pc = "verifying"
  /\ ~IsTerminal(t)
  /\ runs' = Phase(r, "committing")
  /\ UNCHANGED <<tickets, running, queue, handles, timers, flushq, attempts>>

VerifierRejects(r) ==
  /\ runs[r].pc = "verifying"
  /\ ~IsTerminal(runs[r].id)
  /\ Fail(runs[r].id, Phase(r, "over"), flushq)
  /\ UNCHANGED attempts

StillVerifyingMutant(t) == tickets[t].state = "running"
StillVerifying(t) == tickets[t].state = "verifying"

\* verify() threw: fail closed, but only a ticket that is still verifying.
VerifierThrows(r) ==
  LET t == runs[r].id IN
  /\ runs[r].pc = "verifying"
  /\ \/ /\ StillVerifying(t)
        /\ Fail(t, Phase(r, "over"), flushq)
     \/ /\ ~StillVerifying(t)
        /\ Release(t, Phase(r, "over"))
        /\ UNCHANGED <<tickets, flushq>>
  /\ UNCHANGED attempts

VerdictIsLate(r) ==
  LET t == runs[r].id IN
  /\ runs[r].pc = "verifying"
  /\ IsTerminal(t)
  /\ Release(t, Phase(r, "over"))
  /\ UNCHANGED <<tickets, flushq, attempts>>

\* commitVerified never throws; afterwards the state is not looked at again.
Committed(r) ==
  /\ runs[r].pc = "committing"
  /\ Settle(runs[r].id, "done", Phase(r, "over"), flushq)
  /\ UNCHANGED attempts

EscalationMutant(rec, r) == rec
Escalation(rec, r) == [rec EXCEPT !.stage = "failed", !.about = r]

\* The panel answers (stage "decided") or escalates (stage "failed").
PanelAnswers(r) ==
  LET t == runs[r].id IN
  /\ runs[r].pc = "advising"
  /\ tickets[t].state = "decision"
  /\ \/ /\ Ask
        /\ Store(t, [tickets[t] EXCEPT !.stage = "decided", !.about = r],
                 flushq, [k |-> "adopted", r |-> r])
     \/ /\ Store(t, Escalation(tickets[t], r), flushq, [k |-> "escalated", r |-> r])
        /\ UNCHANGED attempts
  /\ runs' = Phase(r, "consulting")
  /\ UNCHANGED <<running, queue, handles, timers>>

PanelIsLate(r) ==
  /\ runs[r].pc = "advising"
  /\ tickets[runs[r].id].state # "decision"
  /\ runs' = Phase(r, "over")
  /\ UNCHANGED <<tickets, running, queue, handles, timers, flushq, attempts>>

\* The wallclock timer armed for run r fires: onTimeout(id) kills whichever
\* process the id has now.
Timeout(r) ==
  LET t == runs[r].id
      fired(rs) == [rs EXCEPT ![r].armed = FALSE]
  IN
  /\ runs[r].armed
  /\ \/ /\ ~IsTerminal(t)
        /\ Fail(t, fired(Kill(t)), flushq)
     \/ /\ IsTerminal(t)
        /\ runs' = fired(runs)
        /\ UNCHANGED <<tickets, running, queue, handles, timers, flushq>>
  /\ UNCHANGED attempts

-----------------------------------------------------------------------------
(* Continuations whose update has been flushed, first come first served.   *)

Resumes(k) == flushq # <<>> /\ Head(flushq).k = k

AttachedMutant(t, r) == handles
Attached(t, r) == [handles EXCEPT ![t] = r]

\* start(), replyInternal() and resumeInterrupted() after their update: spawn
\* and attach the process.  Nothing looks at the ticket's state again.
Spawned ==
  LET r == Head(flushq).r
      t == runs[r].id
      capped == "timeout" \in Operations
  IN
  /\ Resumes("starting")
  /\ handles' = Attached(t, r)
  /\ timers' = IF capped THEN [timers EXCEPT ![t] = r] ELSE timers
  /\ runs' = [runs EXCEPT ![r].pc = "live", ![r].armed = capped]
  /\ flushq' = Tail(flushq)
  /\ UNCHANGED <<tickets, running, queue, attempts>>

SpawnThrows ==
  LET r == Head(flushq).r IN
  /\ Resumes("starting")
  /\ Fail(runs[r].id, Phase(r, "over"), Tail(flushq))
  /\ UNCHANGED attempts

\* The question is on file: give the slot back, then consult the panel.
Parked ==
  LET r == Head(flushq).r
      t == runs[r].id
  IN
  /\ Resumes("parked")
  /\ \/ /\ tickets[t].state = "decision" /\ Advisors
        /\ Release(t, Phase(r, "consulting"))
        /\ Store(t, [tickets[t] EXCEPT !.stage = "deciding", !.about = r],
                 Tail(flushq), [k |-> "consult", r |-> r])
     \/ /\ ~(tickets[t].state = "decision" /\ Advisors)
        /\ Release(t, Phase(r, "over"))
        /\ flushq' = Tail(flushq)
        /\ UNCHANGED tickets
  /\ UNCHANGED attempts

\* Mutant: the slot is given back while the verifier works.
JudgingMutant ==
  /\ Resumes("judge")
  /\ Release(runs[Head(flushq).r].id, Phase(Head(flushq).r, "verifying"))
  /\ flushq' = Tail(flushq)
  /\ UNCHANGED <<tickets, attempts>>

Judging ==
  LET r == Head(flushq).r IN
  /\ Resumes("judge")
  /\ runs' = Phase(r, "verifying")
  /\ flushq' = Tail(flushq)
  /\ UNCHANGED <<tickets, running, queue, handles, timers, attempts>>

Consulting ==
  LET r == Head(flushq).r IN
  /\ Resumes("consult")
  /\ runs' = Phase(r, "advising")
  /\ flushq' = Tail(flushq)
  /\ UNCHANGED <<tickets, running, queue, handles, timers, attempts>>

Escalated ==
  LET r == Head(flushq).r IN
  /\ Resumes("escalated")
  /\ runs' = Phase(r, "over")
  /\ flushq' = Tail(flushq)
  /\ UNCHANGED <<tickets, running, queue, handles, timers, attempts>>

\* The panel's answer is applied to whatever question the ticket has now.
Adopted ==
  LET r == Head(flushq).r IN
  /\ Resumes("adopted")
  /\ Answer(runs[r].id, Phase(r, "over"), Tail(flushq))
  /\ UNCHANGED attempts

Known(t) == t \in running \/ \E i \in 1..Len(queue) : queue[i] = t

\* enqueue()
Enqueued ==
  LET t == Head(flushq).t IN
  /\ Resumes("enqueue")
  /\ \/ Known(t) /\ UNCHANGED <<running, queue, runs>>
     \/ ~Known(t) /\ Pump(running, Append(queue, t), runs)
  /\ flushq' = Tail(flushq)
  /\ UNCHANGED <<tickets, handles, timers, attempts>>

\* fail(), cancel() and onMainDone after the update that settled the ticket
Released ==
  /\ Resumes("release")
  /\ Release(Head(flushq).t, runs)
  /\ flushq' = Tail(flushq)
  /\ UNCHANGED <<tickets, attempts>>

Noted ==
  /\ Resumes("noted")
  /\ flushq' = Tail(flushq)
  /\ UNCHANGED <<tickets, running, queue, handles, timers, runs, attempts>>

Flush == \/ Spawned \/ SpawnThrows \/ Parked \/ Judging \/ Consulting
         \/ Escalated \/ Adopted \/ Enqueued \/ Released \/ Noted

-----------------------------------------------------------------------------
User == \E t \in Tickets : Create(t) \/ Retry(t) \/ Reply(t) \/ Cancel(t) \/ Remove(t)

\* The answer the run waits for; an agent's process exits in one of four ways.
World(r) ==
  \/ CwdRejected(r) \/ CwdAccepted(r)
  \/ AgentFails(r) \/ AgentAsks(r) \/ AgentReports(r) \/ AgentEndsLate(r)
  \/ VerifierPasses(r) \/ VerifierRejects(r) \/ VerifierThrows(r) \/ VerdictIsLate(r)
  \/ Committed(r)
  \/ PanelAnswers(r) \/ PanelIsLate(r)

Next == \/ User
        \/ Flush
        \/ \E r \in Runs : World(r) \/ Announce(r) \/ Timeout(r)

Spec == Init /\ [][Next]_vars

(***************************************************************************)
(* Every await ends: the store's write, the cwd check, the verifier, the   *)
(* commit and the panel answer or time out, and an agent's process exits.  *)
(* The user is never obliged to do anything, and a timer need not fire     *)
(* before the process exits.                                               *)
(***************************************************************************)
Fairness == /\ WF_vars(Flush)
            /\ \A r \in 1..MaxAttempts : WF_vars(r \in Runs /\ World(r))

FairSpec == Spec /\ Fairness
-----------------------------------------------------------------------------
(* Every variable has the shape the code gives it. *)
TypeOK ==
  /\ tickets \in [Tickets -> TicketRecord]
  /\ running \subseteq Tickets
  /\ queue \in Seq(Tickets)
  /\ handles \in [Tickets -> {NoRun} \cup Runs]
  /\ timers \in [Tickets -> {NoRun} \cup Runs]
  /\ runs \in Seq(RunRecord)
  /\ flushq \in Seq(Continuation)
  /\ attempts \in Nat

(***************************************************************************)
(* No slot is idle while tickets wait: pump() runs after every release and *)
(* every push, whichever handler did it and however the handlers interleave*)
(* (pump, releaseSlot, enqueue).                                           *)
(***************************************************************************)
WorkConserving == queue # <<>> => Cardinality(running) >= Concurrency

(***************************************************************************)
(* A run waits for one flush at a time, in the phase that flush resumes:   *)
(* no interleaving of the handlers completes a process twice or spawns for *)
(* a run that has moved on (attach, onMainDone, consultPanel).             *)
(***************************************************************************)
ResumedPhase(k) ==
  IF k = "starting" THEN "starting"
  ELSE IF k = "parked" THEN "parking"
  ELSE IF k = "judge" THEN "judging"
  ELSE "consulting"

Awaits(i) == flushq[i].k \in RunKinds

ResumesOnce ==
  \A i \in 1..Len(flushq) :
    Awaits(i) => /\ runs[flushq[i].r].pc = ResumedPhase(flushq[i].k)
                 /\ \A j \in 1..Len(flushq) :
                      Awaits(j) /\ flushq[j].r = flushq[i].r => i = j

(***************************************************************************)
(* A slot is never leaked: whoever holds one still has a run that will     *)
(* come back to it, or a settled update about to release it.               *)
(***************************************************************************)
Pending(c) == \E i \in 1..Len(flushq) : flushq[i] = c

Driven(t) == \E r \in Runs : runs[r].id = t /\ runs[r].pc \in Working

SlotHasKeeper ==
  \A t \in running :
    \/ Pending([k |-> "release", t |-> t])
    \/ Driven(t)

(***************************************************************************)
(* A ticket that shows as running or verifying is driven by somebody: the  *)
(* handlers of an earlier run never leave it in flight with no run at work,*)
(* which no later event would ever move (onMainDone, start).               *)
(***************************************************************************)
InFlight == {"running", "verifying"}

WorkIsDriven == \A t \in Tickets : tickets[t].state \in InFlight => Driven(t)

(***************************************************************************)
(* A queued ticket is never forgotten: it is in the backlog, or start() is *)
(* checking its directory, or the create or retry that queued it is about  *)
(* to enqueue it.  (enqueue() drops an id that holds a slot, and pump()    *)
(* drops an id whose ticket is not queued.)                                *)
(***************************************************************************)
Kept(t) == \/ \E i \in 1..Len(queue) : queue[i] = t
           \/ \E r \in Runs : runs[r].id = t /\ runs[r].pc = "validating"
           \/ Pending([k |-> "enqueue", t |-> t])

QueuedIsKept ==
  \A t \in Tickets : tickets[t].state = "queued" => Kept(t)

(***************************************************************************)
(* A question is answered at most once, although a human and the panel     *)
(* race to answer it (replyInternal, consultPanel).                        *)
(***************************************************************************)
AnsweredOnce ==
  \A r, s \in Runs : r # s /\ runs[r].answers = runs[s].answers => runs[r].answers = NoRun

(***************************************************************************)
(* The agent cancel would kill is the agent that is running; a ticket has  *)
(* therefore one agent at a time.                                          *)
(***************************************************************************)
AgentsAreReachable == \A r \in Runs : runs[r].pc = "live" => handles[runs[r].id] = r

(***************************************************************************)
(* A ticket that is being worked on holds a slot ("interactive reply       *)
(* re-acquires a slot immediately", replyInternal).                        *)
(***************************************************************************)
WorkHoldsSlot ==
  \A t \in Tickets : tickets[t].state \in InFlight => t \in running

(***************************************************************************)
(* What the panel says on a ticket is about the question the ticket waits  *)
(* on ("a late panel answer must never re-park or overwrite a ticket that  *)
(* has already moved on", consultPanel).                                   *)
(***************************************************************************)
PanelIsAboutTheQuestion ==
  \A t \in Tickets :
    tickets[t].state = "decision" /\ tickets[t].stage # "none"
      => tickets[t].about = tickets[t].question

(***************************************************************************)
(* The runner implements TicketPool: the lifecycle of every ticket, the    *)
(* limit, and that work in flight goes on.  An answer takes a slot         *)
(* whatever the limit, so the limit counts only where nothing is answered. *)
(***************************************************************************)
Pool == INSTANCE TicketPool WITH
          state <- [t \in Tickets |-> tickets[t].state],
          Limit <- IF "reply" \in Operations \/ Advisors
                   THEN Concurrency + MaxAttempts ELSE Concurrency

PoolSpec == Pool!PSpec

(***************************************************************************)
(* A ticket cancelled while it is queued is never worked on ("cancels a    *)
(* queued ticket without ever spawning it", ticketRunner.test.ts).         *)
(***************************************************************************)
CancelledNeverRuns ==
  [][\A t \in Tickets : tickets[t].state = "failed" => tickets'[t].state # "running"]_vars

\* Liveness: a slot taken is given back.
SlotsComeBack == \A t \in Tickets : t \in running ~> t \notin running

\* Liveness: a queued ticket is started, settled or removed.
QueuedProceeds == \A t \in Tickets : tickets[t].state = "queued" ~> tickets[t].state # "queued"

\* Liveness: work in flight ends: settled, parked, or queued again by a retry.
InFlightProceeds ==
  \A t \in Tickets : tickets[t].state \in InFlight ~> tickets[t].state \notin InFlight

\* Liveness: a question handed to the panel comes back decided or escalated,
\* unless the ticket has moved on.
ConsultationEnds ==
  \A t \in Tickets :
    (tickets[t].state = "decision" /\ tickets[t].stage \in {"pending", "deciding"})
      ~> ~(tickets[t].state = "decision" /\ tickets[t].stage \in {"pending", "deciding"})
=============================================================================
