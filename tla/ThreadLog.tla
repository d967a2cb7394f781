----------------------------- MODULE ThreadLog -----------------------------
(***************************************************************************)
(* What the ticket conversation promises its readers (docs/conversation.md *)
(* C1, C2, C8, C10), without saying how: every message has one place, the  *)
(* places of a thread are 1 to its size, a thread only grows, at its end,  *)
(* and a closed thread grows only by the history its ticket already had.   *)
(***************************************************************************)
EXTENDS Naturals

CONSTANTS
  Tickets,
  Keys,        \* idempotency keys: each names one message
  History,     \* the keys of what was said on each ticket before
  Nowhere      \* the place of a message nobody has written

VARIABLES place, size, closed

logVars == <<place, size, closed>>

Init ==
  /\ place = [k \in Keys |-> Nowhere]
  /\ size = [t \in Tickets |-> 0]
  /\ closed \in SUBSET Tickets

\* New messages take the next places of a thread, one each.
Grow(t) ==
  /\ size'[t] >= size[t]
  /\ \A u \in Tickets \ {t} : size'[u] = size[u]
  /\ \A k \in Keys : place'[k] # place[k] =>
       /\ place[k] = Nowhere
       /\ \E i \in size[t] + 1 .. size'[t] : place'[k] = <<t, i>>
       /\ t \in closed => k \in History[t]
  /\ \A i \in size[t] + 1 .. size'[t] : \E k \in Keys : place'[k] = <<t, i>>
  /\ \A j, k \in Keys : place'[j] # place[j] /\ place'[k] = place'[j] => j = k
  /\ UNCHANGED closed

Close(t) == closed' = closed \cup {t} /\ UNCHANGED <<place, size>>

Next ==
  \E t \in Tickets : Grow(t) \/ Close(t)

Spec == Init /\ [][Next]_logVars
=============================================================================
