--------------------------- MODULE MCTicketRunner ---------------------------
(* TicketRunner for TLC: the ids are interchangeable model values.         *)
EXTENDS TicketRunner, TLC

Symmetry == Permutations(Tickets)
=============================================================================
