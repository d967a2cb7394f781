---------------------------- MODULE MCTicketSla ----------------------------
(* A small instance of TicketSla for TLC: days of four minutes with two     *)
(* working ones, an urgent priority on the calendar and a normal one on     *)
(* working hours.                                                           *)
EXTENDS TicketSla, TLC

CONSTANTS p1, p3

MCWindow == [first_response |-> (p1 :> 1) @@ (p3 :> 2),
             resolution |-> (p1 :> 2) @@ (p3 :> 3)]
=============================================================================
