-------------------------- MODULE MCTicketRestart ---------------------------
(* TicketRestart for TLC: the ids are interchangeable model values.        *)
EXTENDS TicketRestart, TLC

Symmetry == Permutations(Tickets)
=============================================================================
