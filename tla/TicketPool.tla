----------------------------- MODULE TicketPool -----------------------------
(***************************************************************************)
(* What the ticket runner promises when nobody cancels or removes a        *)
(* ticket: the lifecycle of a ticket and the limit on how many are worked  *)
(* on at once.  TicketRunner implements it (its PoolSpec).                 *)
(***************************************************************************)
EXTENDS Integers, FiniteSets

CONSTANTS Tickets, Limit

VARIABLE state

Busy == {t \in Tickets : state[t] \in {"running", "verifying"}}

PInit == state = [t \in Tickets |-> "unborn"]

Move(t, from, to) == state[t] \in from /\ state' = [state EXCEPT ![t] = to]

Submit(t) == Move(t, {"unborn"}, "queued")
Requeue(t) == Move(t, {"failed"}, "queued")
Start(t) == Cardinality(Busy) < Limit /\ Move(t, {"queued"}, "running")
Park(t) == Move(t, {"running"}, "decision")
Continue(t) == Move(t, {"decision"}, "running")
Verify(t) == Move(t, {"running"}, "verifying")
Complete(t) == Move(t, {"verifying"}, "done")
GiveUp(t) == Move(t, {"queued", "running", "verifying", "decision"}, "failed")

\* What a busy ticket may do next.
Advance(t) == t \in Busy /\ (Park(t) \/ Verify(t) \/ Complete(t) \/ GiveUp(t))

PNext == \E t \in Tickets :
  \/ Submit(t) \/ Requeue(t) \/ Start(t) \/ Continue(t) \/ Advance(t) \/ GiveUp(t)

PSafe == PInit /\ [][PNext]_state

PSpec == PSafe /\ \A t \in Tickets : WF_state(Advance(t))
=============================================================================
