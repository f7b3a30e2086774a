----------------------------- MODULE MCTickets -----------------------------
(* Small instances of Tickets. *)
EXTENDS Tickets

CONSTANTS m1, m2
=============================================================================
