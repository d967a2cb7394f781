------------------------------ MODULE MCIntake ------------------------------
(* A small instance of Intake: a message, a reply to it, another message. *)
EXTENDS Intake

CONSTANTS first, reply, other

MCRefs == [m \in Messages |-> IF m = reply THEN {first} ELSE {}]
MCTag == [m \in Messages |-> None]
MCDate == [m \in Messages |-> IF m = other THEN 2 ELSE 1]
Plain == [declared |-> FALSE, complaint |-> FALSE, fields |-> FALSE,
          mailer |-> FALSE, auto |-> FALSE]
\* The reply quotes a delivery report.
MCForm == [m \in Messages |-> [Plain EXCEPT !.fields = (m = reply)]]
=============================================================================
