----------------------------- MODULE MCOutbound -----------------------------
(* Small instances of Outbound for TLC. *)
EXTENDS Outbound, TLC

CONSTANTS m1, m2, a1, t1

OneMessage == {m1}
\* Both messages go to one address and are about one ticket.
SameAddress == [m \in Messages |-> a1]
SameTicket == [m \in Messages |-> t1]
=============================================================================
