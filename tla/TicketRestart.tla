--------------------------- MODULE TicketRestart ----------------------------
(***************************************************************************)
(* The ticket runner together with what a restart of the server leaves it: *)
(* the file of ticketStore.ts, its load() at boot, and recover().          *)
(*                                                                         *)
(* A flush takes its snapshot of the map when it begins, that is when the  *)
(* flush before it has ended, and the file holds it when it ends.  The     *)
(* write is a plain writeFile: a server that stops half way leaves a file  *)
(* load() cannot parse, and load() then starts with no tickets.            *)
(***************************************************************************)
EXTENDS TicketRunner

CONSTANT MaxCrashes  \* bound: how often the server stops

VARIABLES
  disk,      \* the tickets of the file
  writing,   \* the snapshot the flush in progress writes (disk if there is none)
  recovery,  \* recover(): its phase and what is left of the list it iterates
  crashes

restartVars == <<disk, writing, recovery, crashes>>
allVars == <<vars, restartVars>>

\* "boot": loaded, recover() not yet called, no request served.
Recovering == {"boot", "resume", "panels", "backlog"}

Idle == [phase |-> "over", todo |-> {}]

RInit ==
  /\ Init
  /\ disk = tickets
  /\ writing = tickets
  /\ recovery = Idle
  /\ crashes = 0

-----------------------------------------------------------------------------
FlushBegins ==
  /\ writing' = IF flushq = <<>> /\ flushq' # <<>> THEN tickets' ELSE writing
  /\ UNCHANGED disk

\* Mutant: the waiting updates count as covered by this flush.
SnapshotMutant == writing
Snapshot == tickets

\* The next flush begins before the handlers that waited for this one resume.
FlushEnds ==
  /\ disk' = writing
  /\ writing' = IF Len(flushq) > 1 THEN Snapshot
                ELSE IF flushq' # <<>> THEN tickets' ELSE writing

FlushStep ==
  /\ recovery.phase # "boot"
  /\ Flush
  /\ FlushEnds
  /\ UNCHANGED <<recovery, crashes>>

UserStep ==
  /\ recovery.phase # "boot"
  /\ User
  /\ FlushBegins
  /\ UNCHANGED <<recovery, crashes>>

WorldStep(r) ==
  /\ r \in Runs
  /\ World(r)
  /\ FlushBegins
  /\ UNCHANGED <<recovery, crashes>>

EarlyStep(r) ==
  /\ Announce(r) \/ Timeout(r)
  /\ FlushBegins
  /\ UNCHANGED <<recovery, crashes>>

-----------------------------------------------------------------------------
\* What the three loops of recover() act on.
CutOffMutant(rec) == rec.state = "running"
CutOff(rec) == rec.state \in InFlight
PanelCutOffMutant(rec) == rec.state = "decision" /\ rec.stage = "pending"
PanelCutOff(rec) == rec.state = "decision" /\ rec.stage = "deciding"
WaitingMutant(rec) == FALSE
Waiting(rec) == rec.state = "queued"

\* An iteration sees its ticket as it was when list() copied it.
Listed(map, P(_)) == {[t |-> t, was |-> map[t]] : t \in {u \in Tickets : P(map[u])}}

(***************************************************************************)
(* The server stops (a crash, or shutdown() with its process.exit) and     *)
(* starts again.  The agents die with it.                                  *)
(***************************************************************************)
Lost == [t \in Tickets |-> [tickets[t] EXCEPT !.state = "removed"]]

Crash ==
  /\ crashes < MaxCrashes
  /\ crashes' = crashes + 1
  /\ \E file \in {disk} \cup (IF flushq = <<>> THEN {} ELSE {writing, Lost}) :
       /\ tickets' = file
       /\ disk' = file
       /\ writing' = file
       /\ recovery' = [phase |-> "boot",
                       todo |-> Listed(file, CutOff)]
  /\ running' = {}
  /\ queue' = <<>>
  /\ handles' = [t \in Tickets |-> NoRun]
  /\ timers' = [t \in Tickets |-> NoRun]
  /\ runs' = [r \in Runs |-> [runs[r] EXCEPT !.pc = "over", !.armed = FALSE]]
  /\ flushq' = <<>>
  /\ UNCHANGED attempts

\* recover() awaits each update, and the spawn that follows it.
Awaiting ==
  \/ \E t \in Tickets : Pending([k |-> "recovered", t |-> t])
  \/ \E r \in Runs : recovery.phase = "resume" /\ runs[r].pc = "starting"
                     /\ runs[r].thread # r /\ runs[r].answers = NoRun

Done(x, phase) == recovery' = [phase |-> phase, todo |-> recovery.todo \ {x}]

\* First loop, resumeInterrupted: the slot is taken and the state written
\* whatever the ticket has become since list().
ResumeInterrupted ==
  \E x \in recovery.todo :
    /\ recovery.phase \in {"boot", "resume"}
    /\ ~Awaiting
    /\ x.was.session # NoRun
    /\ Exists(x.t)
    /\ running' = running \cup {x.t}
    /\ runs' = Append(runs, NewRun(x.t, "starting", x.was.session, NoRun))
    /\ Store(x.t, [tickets[x.t] EXCEPT !.state = "running"],
             flushq, [k |-> "starting", r |-> Len(runs) + 1])
    /\ Done(x, "resume")
    /\ FlushBegins
    /\ UNCHANGED <<queue, handles, timers, attempts, crashes>>

\* A ticket removed meanwhile: the update finds nothing and the slot is freed.
ResumeNothing ==
  \E x \in recovery.todo :
    /\ recovery.phase = "resume"
    /\ ~Awaiting
    /\ x.was.session # NoRun
    /\ ~Exists(x.t)
    /\ Release(x.t, runs)
    /\ Done(x, "resume")
    /\ UNCHANGED <<tickets, flushq, attempts, disk, writing, crashes>>

Interrupted(rec) == [rec EXCEPT !.state = "failed"]

FailInterrupted ==
  \E x \in recovery.todo :
    /\ recovery.phase \in {"boot", "resume"}
    /\ ~Awaiting
    /\ x.was.session = NoRun
    /\ Done(x, "resume")
    /\ \/ /\ Exists(x.t)
          /\ Store(x.t, Interrupted(tickets[x.t]), flushq, [k |-> "recovered", t |-> x.t])
       \/ /\ ~Exists(x.t)
          /\ UNCHANGED <<tickets, flushq>>
    /\ FlushBegins
    /\ UNCHANGED <<running, queue, handles, timers, runs, attempts, crashes>>

\* Second loop: a panel the restart cut off is handed to the human.
ListPanels ==
  /\ recovery.phase \in {"boot", "resume"}
  /\ recovery.todo = {}
  /\ ~Awaiting
  /\ recovery' = [phase |-> "panels",
                  todo |-> Listed(tickets, PanelCutOff)]
  /\ UNCHANGED <<vars, disk, writing, crashes>>

FailPanel ==
  \E x \in recovery.todo :
    /\ recovery.phase = "panels"
    /\ ~Awaiting
    /\ Done(x, "panels")
    /\ \/ /\ Exists(x.t)
          /\ Store(x.t, [tickets[x.t] EXCEPT !.stage = "failed", !.about = x.was.about],
                   flushq, [k |-> "recovered", t |-> x.t])
       \/ /\ ~Exists(x.t)
          /\ UNCHANGED <<tickets, flushq>>
    /\ FlushBegins
    /\ UNCHANGED <<running, queue, handles, timers, runs, attempts, crashes>>

\* Third loop, synchronous in the code: enqueue what is still queued.
ListBacklog ==
  /\ recovery.phase = "panels"
  /\ recovery.todo = {}
  /\ ~Awaiting
  /\ recovery' = [phase |-> "backlog", todo |-> Listed(tickets, Waiting)]
  /\ UNCHANGED <<vars, disk, writing, crashes>>

Reenqueue ==
  \E x \in recovery.todo :
    /\ recovery.phase = "backlog"
    /\ Done(x, "backlog")
    /\ \/ Known(x.t) /\ UNCHANGED <<running, queue, runs>>
       \/ ~Known(x.t) /\ Pump(running, Append(queue, x.t), runs)
    /\ UNCHANGED <<tickets, handles, timers, flushq, attempts, disk, writing, crashes>>

RecoveryOver ==
  /\ recovery.phase = "backlog"
  /\ recovery.todo = {}
  /\ recovery' = Idle
  /\ UNCHANGED <<vars, disk, writing, crashes>>

Recovered ==
  /\ Resumes("recovered")
  /\ flushq' = Tail(flushq)
  /\ FlushEnds
  /\ UNCHANGED <<tickets, running, queue, handles, timers, runs, attempts, recovery, crashes>>

Recover == \/ ResumeInterrupted \/ ResumeNothing \/ FailInterrupted \/ ListPanels
           \/ FailPanel \/ ListBacklog \/ Reenqueue \/ RecoveryOver \/ Recovered

RNext == \/ FlushStep \/ UserStep \/ Recover \/ Crash
         \/ \E r \in Runs : WorldStep(r) \/ EarlyStep(r)

RSpec == RInit /\ [][RNext]_allVars

MaxRuns == MaxAttempts + MaxCrashes * Cardinality(Tickets)

\* The fairness of TicketRunner, and recover() goes on with its list.
RFairness == /\ WF_allVars(FlushStep)
             /\ WF_allVars(Recover)
             /\ \A r \in 1..MaxRuns : WF_allVars(WorldStep(r))

RFairSpec == RSpec /\ RFairness

-----------------------------------------------------------------------------
(***************************************************************************)
(* No change stays in memory only: once no flush is pending, the file      *)
(* holds the tickets, however the updates and the flushes interleaved      *)
(* (serializedFlush, flush).                                               *)
(***************************************************************************)
FileCatchesUp == flushq = <<>> => disk = tickets

(***************************************************************************)
(* After a restart no ticket stays in flight with nothing driving it:      *)
(* recover() still has it to resume or fail, or a run works on it.         *)
(***************************************************************************)
StillListed(t) == \E x \in recovery.todo : x.t = t

InFlightIsRecovered ==
  \A t \in Tickets : tickets[t].state \in InFlight =>
    Driven(t) \/ (recovery.phase \in {"boot", "resume"} /\ StillListed(t))

(***************************************************************************)
(* A restart resumes the backlog: a queued ticket is kept as before, or    *)
(* recover() has yet to re-enqueue it.                                     *)
(***************************************************************************)
BacklogIsRecovered ==
  \A t \in Tickets : tickets[t].state = "queued" =>
    \/ Kept(t)
    \/ recovery.phase \in {"boot", "resume", "panels"}
    \/ recovery.phase = "backlog" /\ StillListed(t)

(***************************************************************************)
(* A parked ticket that shows its panel as deciding has a panel deciding,  *)
(* or recover() is about to hand it to the human.                          *)
(***************************************************************************)
DecidingIsAttended ==
  \A t \in Tickets :
    tickets[t].state = "decision" /\ tickets[t].stage = "deciding" =>
      \/ \E r \in Runs : runs[r].id = t /\ runs[r].pc \in {"consulting", "advising"}
      \/ recovery.phase \in {"boot", "resume"}
      \/ recovery.phase = "panels" /\ StillListed(t)
=============================================================================
