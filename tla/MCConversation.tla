--------------------------- MODULE MCConversation ---------------------------
(* A small instance of Conversation for TLC: a ticket with history and one  *)
(* that intake has just opened.                                             *)
EXTENDS Conversation, TLC

CONSTANTS oldTicket, newTicket, o1, r1, o2, k1

MCHistory == (oldTicket :> {o1, r1}) @@ (newTicket :> {o2})
MCOpening == (oldTicket :> o1) @@ (newTicket :> o2)
MCSaid == (o1 :> 1) @@ (r1 :> 2) @@ (o2 :> 3) @@ (k1 :> 0)
=============================================================================
