--------------------------- MODULE OutboundProofs ---------------------------
(***************************************************************************)
(* Proofs about Outbound, for every number of messages, workers, callers   *)
(* and operators and every value of the bounds.  First the types, then the *)
(* lemmas on which fields a step can touch, then one preservation lemma    *)
(* per part of SafetyInv, then the theorems.                               *)
(***************************************************************************)
EXTENDS Outbound, FiniteSetTheorems, TLAPS

USE DEF Procs, rowVars, envVars

\* Moving on within a call keeps the calls well typed.
LEMMA GotoType ==
  ASSUME TypeOK, NEW p \in Procs, call[p].pc # "idle",
         NEW label \in {"send", "mark", "thread", "transient", "permanent", "deadbox",
                        "bounce", "announce", "reopen"},
         Goto(p, label)
  PROVE  /\ call' \in [Procs -> Calls]
         /\ \A q \in Procs : call'[q].pc # "idle" => call'[q].msg \in Messages
  BY DEF TypeOK, Goto, Calls

\* Returning from a call keeps the calls well typed.
LEMMA ReturnType ==
  ASSUME TypeOK, NEW p \in Procs, Return(p)
  PROVE  /\ call' \in [Procs -> Calls]
         /\ \A q \in Procs : call'[q].pc # "idle" => call'[q].msg \in Messages
  BY DEF TypeOK, Return, Calls, IdleCall

\* Using up part of a bound keeps the counters natural numbers.
LEMMA SpendType ==
  ASSUME TypeOK, NEW b \in {"crashes", "slow", "retries"}, Spend(b)
  PROVE  spent' \in [{"crashes", "slow", "retries"} -> Nat]
  BY DEF TypeOK, Spend

\* cancelOutbound's statement keeps the row well typed.
LEMMA CancelRowType ==
  ASSUME TypeOK, NEW m \in Messages, CancelRow(m)
  PROVE  /\ status' \in [Messages -> Statuses]
         /\ attempts' \in [Messages -> Nat]
         /\ maxAttempts' \in [Messages -> Nat]
         /\ due' \in [Messages -> BOOLEAN]
         /\ stale' \in [Messages -> BOOLEAN]
  BY DEF TypeOK, CancelRow, Statuses

\* Every row keeps a status of the outbound_status enum and every call in flight a
\* message, whatever the interleaving.
THEOREM TypeCorrect == Spec => []TypeOK
<1>1. Init => TypeOK
  BY ConstantsAssumption
  DEF Init, TypeOK, Calls, Replies, IdleCall, IdleReply, Statuses, TicketStatuses
<1>2. TypeOK /\ [Next]_vars => TypeOK'
  <2> SUFFICES ASSUME TypeOK, [Next]_vars PROVE TypeOK'
    OBVIOUS
  <2>1. CASE \E k \in Callers : ReplyStep(k) \/ ReplyCrash(k)
    <3> PICK k \in Callers : ReplyStep(k) \/ ReplyCrash(k)
      BY <2>1
    <3>1. ASSUME NEW m \in Messages, ReplyChecksAddress(k, m) PROVE TypeOK'
      BY <3>1 DEF ReplyChecksAddress, IsSuppressed, TypeOK, Replies
    <3>2. CASE QueueOutbound(k)
      <4>1. status' \in [Messages -> Statuses] /\ due' \in [Messages -> BOOLEAN]
        BY <3>2 DEF QueueOutbound, TypeOK, Statuses
      <4>2. PICK r \in Replies :
              /\ reply' = [reply EXCEPT ![k] = r]
              /\ r.pc = "idle" \/ r.msg \in Messages
        <5>1. IdleReply \in Replies /\ IdleReply.pc = "idle"
          BY DEF IdleReply, Replies
        <5>2. [reply[k] EXCEPT !.pc = "close"] \in Replies
              /\ [reply[k] EXCEPT !.pc = "close"].msg \in Messages
          BY <3>2 DEF QueueOutbound, TypeOK, Replies
        <5> QED BY <3>2, <5>1, <5>2 DEF QueueOutbound
      <4>3. /\ reply' \in [Callers -> Replies]
            /\ \A j \in Callers : reply'[j].pc # "idle" => reply'[j].msg \in Messages
        BY <4>2 DEF TypeOK
      <4> QED BY <3>2, <4>1, <4>3 DEF QueueOutbound, TypeOK
    <3>3. CASE ReplyMarksTicket(k)
      BY <3>3 DEF ReplyMarksTicket, TypeOK, Replies, IdleReply, TicketStatuses
    <3>4. CASE ReplyCrash(k)
      BY <3>4, SpendType DEF ReplyCrash, TypeOK, Replies, IdleReply
    <3> QED BY <3>1, <3>2, <3>3, <3>4 DEF ReplyStep
  <2>2. ASSUME NEW w \in Workers, NEW m \in Messages, Claim(w, m) PROVE TypeOK'
    BY <2>2 DEF Claim, TypeOK, Calls, Statuses
  <2>3. ASSUME NEW w \in Workers, DeliverStep(w) PROVE TypeOK'
    <3>1. CASE NoTransport(w)
      BY <3>1, ReturnType, CancelRowType DEF NoTransport, TypeOK
    <3>2. CASE KillSwitchStops(w)
      BY <3>2, GotoType, CancelRowType DEF KillSwitchStops, TypeOK
    <3>3. CASE StartAttempt(w)
      BY <3>3, GotoType DEF StartAttempt, TypeOK
    <3>4. CASE Accept(w)
      BY <3>4, GotoType DEF Accept, TypeOK, Calls
    <3>5. CASE Refuse(w)
      BY <3>5, GotoType DEF Refuse, TypeOK
    <3>6. CASE MarkSent(w)
      BY <3>6, GotoType, ReturnType DEF MarkSent, TypeOK, Statuses
    <3>7. CASE RecordMessageId(w)
      BY <3>7, ReturnType DEF RecordMessageId, TypeOK
    <3>8. CASE RecordingFails(w)
      BY <3>8, GotoType DEF RecordingFails, TypeOK
    <3>9. CASE SuppressDeadMailbox(w)
      BY <3>9, GotoType, ConstantsAssumption DEF SuppressDeadMailbox, TypeOK
    <3>10. CASE Defer(w)
      BY <3>10, ReturnType DEF Defer, TypeOK, Statuses
    <3>11. CASE Fail(w)
      BY <3>11, GotoType DEF Fail, TypeOK, Statuses
    <3> QED BY <2>3, <3>1, <3>2, <3>3, <3>4, <3>5, <3>6, <3>7, <3>8, <3>9, <3>10, <3>11
            DEF DeliverStep
  <2>4. ASSUME NEW p \in Procs, AnnounceStep(p) \/ Crash(p) PROVE TypeOK'
    <3>1. CASE Announce(p)
      BY <3>1, GotoType, ReturnType DEF Announce, TypeOK
    <3>2. CASE Reopen(p)
      BY <3>2, ReturnType DEF Reopen, TypeOK, TicketStatuses
    <3>3. CASE Crash(p)
      BY <3>3, ReturnType, SpendType DEF Crash, TypeOK
    <3> QED BY <2>4, <3>1, <3>2, <3>3 DEF AnnounceStep
  <2>5. ASSUME NEW h \in Hooks, BounceStep(h) PROVE TypeOK'
    <3>1. ASSUME NEW m \in Messages, BounceArrives(h, m) PROVE TypeOK'
      BY <3>1, ConstantsAssumption DEF BounceArrives, TypeOK, Calls
    <3>2. ASSUME NEW a \in Addresses, BounceUnmatched(h, a) PROVE TypeOK'
      BY <3>2 DEF BounceUnmatched, TypeOK
    <3>3. CASE MarkBounced(h)
      BY <3>3, GotoType, ReturnType DEF MarkBounced, TypeOK, Statuses
    <3> QED BY <2>5, <3>1, <3>2, <3>3 DEF BounceStep
  <2>6. ASSUME NEW c \in Consoles, OperatorStep(c) PROVE TypeOK'
    <3>1. ASSUME NEW m \in Messages, RetryChecksAddress(c, m) PROVE TypeOK'
      BY <3>1, SpendType DEF RetryChecksAddress, TypeOK
    <3>2. CASE RetryQueues(c)
      <4>1. retrying[c] \in Messages
        BY <3>2 DEF RetryQueues, TypeOK
      <4>2. attempts[retrying[c]] + MaxAttempts \in Nat
        BY <4>1, ConstantsAssumption DEF TypeOK
      <4>3. CASE status[retrying[c]] \in Retryable
        <5>1. maxAttempts' \in [Messages -> Nat]
          BY <3>2, <4>1, <4>2, <4>3 DEF RetryQueues, TypeOK
        <5> QED BY <3>2, <4>1, <4>3, <5>1 DEF RetryQueues, TypeOK, Statuses
      <4>4. CASE status[retrying[c]] \notin Retryable
        BY <3>2, <4>1, <4>4 DEF RetryQueues, TypeOK
      <4> QED BY <4>3, <4>4
    <3> QED BY <2>6, <3>1, <3>2 DEF OperatorStep
  <2>7. ASSUME NEW m \in Messages, RowStep(m) PROVE TypeOK'
    <3>1. CASE BecomeDue(m)
      BY <3>1 DEF BecomeDue, TypeOK
    <3>2. CASE Stall(m)
      BY <3>2, SpendType DEF Stall, TypeOK
    <3>3. CASE Cancel(m)
      BY <3>3, CancelRowType DEF Cancel, TypeOK
    <3> QED BY <2>7, <3>1, <3>2, <3>3 DEF RowStep
  <2>8. ASSUME NEW a \in Addresses, LiftSuppression(a) PROVE TypeOK'
    BY <2>8 DEF LiftSuppression, TypeOK
  <2>9. CASE ReclaimStalled
    BY <2>9 DEF ReclaimStalled, TypeOK, Statuses, Stalled
  <2>10. CASE SetMode
    BY <2>10 DEF SetMode, TypeOK
  <2>11. CASE UNCHANGED vars
    BY <2>11 DEF vars, TypeOK
  <2> QED BY <2>1, <2>2, <2>3, <2>4, <2>5, <2>6, <2>7, <2>8, <2>9, <2>10, <2>11 DEF Next
<1> QED BY <1>1, <1>2, PTL DEF Spec

-----------------------------------------------------------------------------
(* Claims.                                                                 *)

\* What a step does to one worker's call, for the invariants that only look at
\* the calls in flight: it leaves it, ends it, or moves it along.
CallKept(w) == call'[w] = call[w]
CallEnded(w) == call'[w].pc \in {"idle", "announce", "reopen"}
CallMoved(w, from, to) ==
  /\ call[w].pc \in from
  /\ call'[w].pc \in to
  /\ call'[w].msg = call[w].msg
  /\ call'[w].attempt = call[w].attempt
  /\ call'[w].max = call[w].max

\* Every step that neither claims a message nor hands one to the provider keeps
\* the attempts and the accepted sets, starts no call, and lets no call past the
\* gate but one that was claimed.
LEMMA QuietStep ==
  ASSUME TypeOK, [Next]_vars,
         \A w \in Workers : ~Accept(w) /\ \A m \in Messages : ~Claim(w, m)
  PROVE  /\ attempts' = attempts
         /\ accepted' = accepted
         /\ \A w \in Workers :
              \/ CallKept(w)
              \/ CallEnded(w)
              \/ StartAttempt(w) /\ CallMoved(w, {"claimed"}, {"send"})
              \/ /\ CallMoved(w, {"send", "mark", "thread", "transient", "deadbox"},
                              {"transient", "permanent", "deadbox", "thread"})
                 /\ call'[w].pc = "thread" => call[w].pc = "mark"
<1> USE DEF CallKept, CallEnded, CallMoved, Goto, Return, IdleCall
<1>1. ASSUME NEW k \in Callers, ReplyStep(k) \/ ReplyCrash(k)
      PROVE  attempts' = attempts /\ accepted' = accepted /\ call' = call
  BY <1>1 DEF ReplyStep, ReplyChecksAddress, QueueOutbound, ReplyMarksTicket, ReplyCrash
<1>2. ASSUME NEW v \in Workers, DeliverStep(v), ~Accept(v)
      PROVE  /\ attempts' = attempts /\ accepted' = accepted
             /\ \A w \in Workers \ {v} : CallKept(w)
             /\ \/ CallEnded(v)
                \/ StartAttempt(v) /\ CallMoved(v, {"claimed"}, {"send"})
                \/ /\ CallMoved(v, {"send", "mark", "thread", "transient", "deadbox"},
                                {"transient", "permanent", "deadbox", "thread"})
                   /\ call'[v].pc = "thread" => call[v].pc = "mark"
  <2>1. CASE NoTransport(v)
    BY <2>1 DEF NoTransport, CancelRow, TypeOK
  <2>2. CASE KillSwitchStops(v)
    BY <2>2 DEF KillSwitchStops, CancelRow, TypeOK, Calls
  <2>3. CASE StartAttempt(v)
    BY <2>3 DEF StartAttempt, TypeOK, Calls
  <2>4. CASE Refuse(v)
    BY <2>4 DEF Refuse, TypeOK, Calls
  <2>5. CASE MarkSent(v)
    BY <2>5 DEF MarkSent, TypeOK, Calls
  <2>6. CASE RecordMessageId(v)
    BY <2>6 DEF RecordMessageId, TypeOK
  <2>7. CASE RecordingFails(v)
    BY <2>7 DEF RecordingFails, TypeOK, Calls
  <2>8. CASE SuppressDeadMailbox(v)
    BY <2>8 DEF SuppressDeadMailbox, TypeOK, Calls
  <2>9. CASE Defer(v)
    BY <2>9 DEF Defer, TypeOK
  <2>10. CASE Fail(v)
    BY <2>10 DEF Fail, TypeOK, Calls
  <2> QED BY <1>2, <2>1, <2>2, <2>3, <2>4, <2>5, <2>6, <2>7, <2>8, <2>9, <2>10
          DEF DeliverStep
<1>3. ASSUME NEW p \in Procs, AnnounceStep(p) \/ Crash(p)
      PROVE  /\ attempts' = attempts /\ accepted' = accepted
             /\ \A w \in Workers : CallKept(w) \/ CallEnded(w)
  BY <1>3 DEF AnnounceStep, Announce, Reopen, Crash, TypeOK, Calls
<1>4. ASSUME NEW h \in Hooks, BounceStep(h)
      PROVE  /\ attempts' = attempts /\ accepted' = accepted
             /\ \A w \in Workers : CallKept(w)
  BY <1>4, ConstantsAssumption
  DEF BounceStep, BounceArrives, BounceUnmatched, MarkBounced, TypeOK
<1>5. ASSUME NEW c \in Consoles, OperatorStep(c)
      PROVE  attempts' = attempts /\ accepted' = accepted /\ call' = call
  BY <1>5 DEF OperatorStep, RetryChecksAddress, RetryQueues
<1>6. ASSUME NEW m \in Messages, RowStep(m)
      PROVE  attempts' = attempts /\ accepted' = accepted /\ call' = call
  BY <1>6 DEF RowStep, BecomeDue, Stall, Cancel, CancelRow
<1>7. ASSUME NEW a \in Addresses, LiftSuppression(a)
      PROVE  attempts' = attempts /\ accepted' = accepted /\ call' = call
  BY <1>7 DEF LiftSuppression
<1>8. CASE ReclaimStalled
  BY <1>8 DEF ReclaimStalled
<1>9. CASE SetMode
  BY <1>9 DEF SetMode
<1>10. CASE UNCHANGED vars
  BY <1>10 DEF vars
<1> QED
  BY <1>1, <1>2, <1>3, <1>4, <1>5, <1>6, <1>7, <1>8, <1>9, <1>10 DEF Next

\* The claim is the lock: one claim, one attempt number, one hand-over.
LEMMA ClaimsStayDistinct ==
  ASSUME TypeOK, ClaimsAreDistinct, [Next]_vars
  PROVE  ClaimsAreDistinct'
<1>1. ASSUME NEW w \in Workers, NEW m \in Messages, Claim(w, m)
      PROVE  ClaimsAreDistinct'
  <2>1. /\ accepted' = accepted
        /\ attempts' = [attempts EXCEPT ![m] = @ + 1]
        /\ attempts[m] \in Nat
        /\ \A n \in Messages : attempts[n] \in Nat /\ attempts'[n] \in Nat
                                /\ attempts[n] <= attempts'[n]
        /\ attempts'[m] = attempts[m] + 1
        /\ accepted \in [Messages -> SUBSET Nat]
    BY <1>1 DEF Claim, TypeOK
  <2>2. \A v \in Workers \ {w} : call'[v] = call[v]
    BY <1>1 DEF Claim, TypeOK
  <2>3. /\ call'[w].pc = "claimed" /\ call'[w].msg = m
        /\ call'[w].attempt = attempts[m] + 1
    BY <1>1 DEF Claim, TypeOK
  <2>4. \A v \in Workers \ {w} : InFlight(v, m) => call[v].attempt <= attempts[m]
    BY DEF ClaimsAreDistinct
  <2>5. \A v \in Workers : call[v].attempt \in Nat
    BY DEF TypeOK, Calls
  <2>6. \A n \in Messages : \A i \in accepted'[n] : 1 <= i /\ i <= attempts'[n]
    BY <2>1 DEF ClaimsAreDistinct
  <2>7. ASSUME NEW n \in Messages, InFlight(w, n)'
        PROVE  /\ n = m
               /\ 1 <= call'[w].attempt /\ call'[w].attempt <= attempts'[n]
               /\ call'[w].attempt \notin accepted'[n]
               /\ \A v \in Workers \ {w} :
                    InFlight(v, n)' => call'[v].attempt # call'[w].attempt
    BY <2>1, <2>2, <2>3, <2>4, <2>5, <2>7 DEF ClaimsAreDistinct, InFlight
  <2>8. ASSUME NEW v \in Workers \ {w}, NEW n \in Messages, InFlight(v, n)'
        PROVE  /\ 1 <= call'[v].attempt /\ call'[v].attempt <= attempts'[n]
               /\ call'[v].pc \in {"claimed", "send"} =>
                    call'[v].attempt \notin accepted'[n]
               /\ \A u \in Workers \ {v} :
                    InFlight(u, n)' => call'[u].attempt # call'[v].attempt
    <3>1. InFlight(v, n) /\ call'[v] = call[v]
      BY <2>2, <2>8 DEF InFlight
    <3>2. 1 <= call[v].attempt /\ call[v].attempt <= attempts[n]
      BY <3>1 DEF ClaimsAreDistinct
    <3>3. call[v].attempt <= attempts'[n]
      BY <2>1, <2>5, <3>2
    <3>4. \A u \in Workers \ {v} :
            InFlight(u, n)' => call'[u].attempt # call'[v].attempt
      BY <2>2, <2>7, <2>8, <3>1 DEF ClaimsAreDistinct, InFlight
    <3> QED BY <2>1, <3>1, <3>2, <3>3, <3>4 DEF ClaimsAreDistinct
  <2> QED BY <2>6, <2>7, <2>8 DEF ClaimsAreDistinct
<1>2. ASSUME NEW w \in Workers, Accept(w)
      PROVE  ClaimsAreDistinct'
  BY <1>2, SMTT(20) DEF Accept, Goto, TypeOK, Calls, ClaimsAreDistinct, InFlight
<1>3. CASE \A w \in Workers : ~Accept(w) /\ \A m \in Messages : ~Claim(w, m)
  <2>1. attempts' = attempts /\ accepted' = accepted
    BY <1>3, QuietStep
  <2>2. ASSUME NEW w \in Workers, NEW m \in Messages, InFlight(w, m)'
        PROVE  /\ InFlight(w, m)
               /\ call'[w].attempt = call[w].attempt
               /\ call'[w].pc \in {"claimed", "send"} =>
                    call[w].pc \in {"claimed", "send"}
    BY <1>3, <2>2, QuietStep DEF CallKept, CallEnded, CallMoved, InFlight
  <2>3. \A m \in Messages : \A n \in accepted'[m] : 1 <= n /\ n <= attempts'[m]
    BY <2>1 DEF ClaimsAreDistinct
  <2>4. ASSUME NEW w \in Workers, NEW m \in Messages, InFlight(w, m)'
        PROVE  /\ 1 <= call'[w].attempt /\ call'[w].attempt <= attempts'[m]
               /\ call'[w].pc \in {"claimed", "send"} =>
                    call'[w].attempt \notin accepted'[m]
    BY <2>1, <2>2, <2>4 DEF ClaimsAreDistinct
  <2>5. ASSUME NEW w \in Workers, NEW m \in Messages, InFlight(w, m)',
               NEW v \in Workers \ {w}, InFlight(v, m)'
        PROVE  call'[v].attempt # call'[w].attempt
    <3>1. InFlight(w, m) /\ call'[w].attempt = call[w].attempt
      BY <2>2, <2>5
    <3>2. InFlight(v, m) /\ call'[v].attempt = call[v].attempt
      BY <2>2, <2>5
    <3> QED BY <3>1, <3>2 DEF ClaimsAreDistinct
  <2> QED BY <2>3, <2>4, <2>5 DEF ClaimsAreDistinct
<1> QED BY <1>1, <1>2, <1>3

-----------------------------------------------------------------------------
(* Rows.                                                                   *)

\* Every way a row changes its status, whoever changes it.
RowMoves(m) ==
  \/ status'[m] = status[m]
  \/ status[m] = "none" /\ status'[m] \in {"queued", "suppressed"}
  \/ status[m] = "queued" /\ status'[m] = "sending"
  \/ status[m] \in Cancellable /\ status'[m] = "cancelled"
  \/ status[m] = "sending" /\ status'[m] = "queued"
  \/ /\ status[m] \in Retryable /\ status'[m] = "queued"
     /\ \E c \in Consoles : retrying[c] = m /\ retrying'[c] # m
  \/ status[m] \in {"sent", "bounced"} /\ status'[m] = "bounced"
  \/ /\ status'[m] = "sent"
     /\ \E w \in Workers : /\ InFlight(w, m) /\ call[w].pc = "mark"
                           /\ ~InFlight(w, m)' \/ call'[w].pc = "thread"
  \/ /\ status'[m] \in {"queued", "failed"}
     /\ \E w \in Workers : InFlight(w, m) /\ ~InFlight(w, m)'

\* Whatever the step, a row's status moves only in these ways.
LEMMA RowsMove ==
  ASSUME TypeOK, [Next]_vars, NEW m \in Messages
  PROVE  RowMoves(m)
<1>1. ASSUME NEW k \in Callers, ReplyStep(k) \/ ReplyCrash(k)
      PROVE  RowMoves(m)
  BY <1>1 DEF ReplyStep, ReplyChecksAddress, QueueOutbound, ReplyMarksTicket,
              ReplyCrash, RowMoves, TypeOK
<1>2. ASSUME NEW w \in Workers, NEW n \in Messages, Claim(w, n)
      PROVE  RowMoves(m)
  BY <1>2 DEF Claim, RowMoves, TypeOK
<1>3. ASSUME NEW w \in Workers, DeliverStep(w)
      PROVE  RowMoves(m)
  <2>1. CASE NoTransport(w) \/ KillSwitchStops(w)
    BY <2>1 DEF NoTransport, KillSwitchStops, CancelRow, RowMoves, TypeOK
  <2>2. CASE StartAttempt(w) \/ Accept(w) \/ Refuse(w) \/ RecordMessageId(w)
             \/ RecordingFails(w) \/ SuppressDeadMailbox(w)
    BY <2>2 DEF StartAttempt, Accept, Refuse, RecordMessageId, RecordingFails,
                SuppressDeadMailbox, RowMoves
  <2>3. CASE MarkSent(w)
    <3>1. call'[w].pc \in {"thread", "idle"}
      BY <2>3 DEF MarkSent, Goto, Return, IdleCall, TypeOK, Calls
    <3> QED BY <2>3, <3>1 DEF MarkSent, InFlight, RowMoves, TypeOK
  <2>4. CASE Defer(w)
    BY <2>4 DEF Defer, Return, IdleCall, InFlight, RowMoves, TypeOK
  <2>5. CASE Fail(w)
    BY <2>5 DEF Fail, Goto, InFlight, RowMoves, TypeOK, Calls
  <2> QED BY <1>3, <2>1, <2>2, <2>3, <2>4, <2>5 DEF DeliverStep
<1>4. ASSUME NEW p \in Procs, AnnounceStep(p) \/ Crash(p)
      PROVE  RowMoves(m)
  BY <1>4 DEF AnnounceStep, Announce, Reopen, Crash, RowMoves
<1>5. ASSUME NEW h \in Hooks, BounceStep(h)
      PROVE  RowMoves(m)
  BY <1>5 DEF BounceStep, BounceArrives, BounceUnmatched, MarkBounced, RowMoves, TypeOK
<1>6. ASSUME NEW c \in Consoles, OperatorStep(c)
      PROVE  RowMoves(m)
  BY <1>6, ConstantsAssumption
  DEF OperatorStep, RetryChecksAddress, RetryQueues, RowMoves, TypeOK
<1>7. ASSUME NEW n \in Messages, RowStep(n)
      PROVE  RowMoves(m)
  BY <1>7 DEF RowStep, BecomeDue, Stall, Cancel, CancelRow, RowMoves, TypeOK
<1>8. ASSUME NEW a \in Addresses, LiftSuppression(a)
      PROVE  RowMoves(m)
  BY <1>8 DEF LiftSuppression, RowMoves
<1>9. CASE ReclaimStalled
  BY <1>9 DEF ReclaimStalled, Stalled, RowMoves
<1>10. CASE SetMode
  BY <1>10 DEF SetMode, RowMoves
<1>11. CASE UNCHANGED vars
  BY <1>11 DEF vars, RowMoves
<1> QED
  BY <1>1, <1>2, <1>3, <1>4, <1>5, <1>6, <1>7, <1>8, <1>9, <1>10, <1>11 DEF Next

\* A row that no claim ever took has no attempt, and claims need a queued row.
LEMMA RowsStayUntouched ==
  ASSUME TypeOK, ClaimsAreDistinct, UntouchedRows, [Next]_vars
  PROVE  UntouchedRows'
<1> SUFFICES ASSUME NEW m \in Messages, status'[m] \in {"none", "suppressed"}
             PROVE  attempts'[m] = 0
  BY DEF UntouchedRows
<1>1. status[m] \in {"none", "suppressed"}
  BY RowsMove DEF RowMoves
<1>2. attempts[m] = 0
  BY <1>1 DEF UntouchedRows
<1>3. CASE \A w \in Workers : ~Accept(w) /\ \A n \in Messages : ~Claim(w, n)
  BY <1>2, <1>3, QuietStep
<1>4. ASSUME NEW w \in Workers, Accept(w) PROVE attempts'[m] = 0
  BY <1>2, <1>4 DEF Accept
<1>5. ASSUME NEW w \in Workers, NEW n \in Messages, Claim(w, n)
      PROVE  attempts'[m] = 0
  BY <1>1, <1>2, <1>5 DEF Claim, TypeOK
<1> QED BY <1>3, <1>4, <1>5

\* What the provider accepted stays accepted.
LEMMA AcceptedGrows ==
  ASSUME TypeOK, [Next]_vars
  PROVE  \A m \in Messages : accepted[m] \subseteq accepted'[m]
<1>1. CASE \A w \in Workers : ~Accept(w) /\ \A n \in Messages : ~Claim(w, n)
  BY <1>1, QuietStep
<1>2. ASSUME NEW w \in Workers, Accept(w)
      PROVE  \A m \in Messages : accepted[m] \subseteq accepted'[m]
  BY <1>2 DEF Accept, TypeOK
<1>3. ASSUME NEW w \in Workers, NEW n \in Messages, Claim(w, n)
      PROVE  \A m \in Messages : accepted[m] \subseteq accepted'[m]
  BY <1>3 DEF Claim
<1> QED BY <1>1, <1>2, <1>3

\* A call reaches the success path only by having its message accepted.
LEMMA MarkersStayAccepted ==
  ASSUME TypeOK, MarkerWasAccepted, [Next]_vars
  PROVE  MarkerWasAccepted'
<1> SUFFICES ASSUME NEW w \in Workers, call'[w].pc \in {"mark", "thread"}
             PROVE  accepted'[call'[w].msg] # {}
  BY DEF MarkerWasAccepted
<1>1. CASE \A v \in Workers : ~Accept(v) /\ \A n \in Messages : ~Claim(v, n)
  BY <1>1, QuietStep DEF CallKept, CallEnded, CallMoved, MarkerWasAccepted
<1>2. ASSUME NEW v \in Workers, Accept(v)
      PROVE  accepted'[call'[w].msg] # {}
  <2>1. CASE w = v
    <3>1. call'[w].msg = call[w].msg /\ call[w].msg \in Messages
      BY <1>2, <2>1 DEF Accept, Goto, TypeOK, Calls
    <3>2. call[w].attempt \in accepted'[call[w].msg]
      BY <1>2, <2>1, <3>1 DEF Accept, TypeOK
    <3> QED BY <3>1, <3>2
  <2>2. CASE w # v
    <3>1. call'[w] = call[w]
      BY <1>2, <2>2 DEF Accept, Goto, TypeOK
    <3>2. call[w].msg \in Messages /\ accepted[call[w].msg] # {}
      BY <3>1 DEF MarkerWasAccepted, TypeOK
    <3> QED BY <3>1, <3>2, AcceptedGrows
  <2> QED BY <2>1, <2>2
<1>3. ASSUME NEW v \in Workers, NEW n \in Messages, Claim(v, n)
      PROVE  accepted'[call'[w].msg] # {}
  BY <1>3 DEF Claim, TypeOK, MarkerWasAccepted
<1> QED BY <1>1, <1>2, <1>3

\* A row becomes sent, bounced or threaded only through a call that had its
\* message accepted.
LEMMA SentStaysAccepted ==
  ASSUME TypeOK, SentWasAccepted, MarkerWasAccepted, [Next]_vars
  PROVE  SentWasAccepted'
<1>1. ASSUME NEW m \in Messages, m \in threaded' \ threaded
      PROVE  accepted[m] # {}
  <2>1. PICK w \in Workers : RecordMessageId(w)
    BY <1>1 DEF Next, ReplyStep, ReplyChecksAddress, QueueOutbound, ReplyMarksTicket,
       ReplyCrash, Claim, DeliverStep, NoTransport, KillSwitchStops, StartAttempt,
       Accept, Refuse, MarkSent, RecordingFails, SuppressDeadMailbox, Defer, Fail,
       AnnounceStep, Announce, Reopen, Crash, BounceStep, BounceArrives,
       BounceUnmatched, MarkBounced, OperatorStep, RetryChecksAddress, RetryQueues,
       RowStep, BecomeDue, Stall, Cancel, LiftSuppression, ReclaimStalled, SetMode, vars
  <2> QED BY <1>1, <2>1 DEF RecordMessageId, MarkerWasAccepted
<1>2. ASSUME NEW m \in Messages, status'[m] \in {"sent", "bounced"},
             status[m] \notin {"sent", "bounced"}
      PROVE  accepted[m] # {}
  <2>1. PICK w \in Workers : InFlight(w, m) /\ call[w].pc = "mark"
    BY <1>2, RowsMove DEF RowMoves
  <2> QED BY <2>1 DEF InFlight, MarkerWasAccepted
<1> QED BY <1>1, <1>2, AcceptedGrows DEF SentWasAccepted

-----------------------------------------------------------------------------
(* The kill switch.                                                        *)

\* A call that passed the gate before the mode was narrowed hands over the first
\* message of its loop after that, and no call passes the gate later.
LEMMA GateStaysPassedOnce ==
  ASSUME TypeOK, KillSwitchReachesQueue, GatePassedOnce, [Next]_vars
  PROVE  KillSwitchReachesQueue' /\ GatePassedOnce'
<1> USE DEF KillSwitchReachesQueue, GatePassedOnce, Stopped
<1>1. ASSUME NEW w \in Workers, Accept(w)
      PROVE  KillSwitchReachesQueue' /\ GatePassedOnce'
  BY <1>1 DEF Accept, Goto, TypeOK, Calls
<1>2. ASSUME NEW w \in Workers, NEW m \in Messages, Claim(w, m)
      PROVE  KillSwitchReachesQueue' /\ GatePassedOnce'
  BY <1>2 DEF Claim, TypeOK
<1>3. ASSUME NEW w \in Workers, StartAttempt(w)
      PROVE  KillSwitchReachesQueue' /\ GatePassedOnce'
  BY <1>3 DEF StartAttempt, Goto, TypeOK, Calls
<1>4. CASE SetMode
  BY <1>4 DEF SetMode, TypeOK
<1>5. CASE /\ \A w \in Workers : /\ ~Accept(w) /\ ~StartAttempt(w)
                                 /\ \A m \in Messages : ~Claim(w, m)
           /\ ~SetMode
  <2>1. UNCHANGED <<auto, leaked>>
    BY <1>5 DEF Next, ReplyStep, ReplyChecksAddress, QueueOutbound, ReplyMarksTicket,
       ReplyCrash, DeliverStep, NoTransport, KillSwitchStops, RecordMessageId,
       Refuse, MarkSent, RecordingFails, SuppressDeadMailbox, Defer, Fail,
       AnnounceStep, Announce, Reopen, Crash, BounceStep, BounceArrives,
       BounceUnmatched, MarkBounced, OperatorStep, RetryChecksAddress, RetryQueues,
       RowStep, BecomeDue, Stall, Cancel, LiftSuppression, ReclaimStalled, vars
  <2>2. ASSUME NEW w \in Workers, call'[w].pc = "send"
        PROVE  call'[w] = call[w]
    BY <1>5, <2>2, QuietStep DEF CallKept, CallEnded, CallMoved, StartAttempt
  <2> QED BY <2>1, <2>2
<1> QED BY <1>1, <1>2, <1>3, <1>4, <1>5

-----------------------------------------------------------------------------
(* The theorems.                                                           *)

\* The inductive invariant: the claim is a lock, success is only ever recorded of
\* accepted mail, and the kill switch reaches what is already queued.
THEOREM SafetyInvariant == Spec => []SafetyInv
<1>1. Init => SafetyInv
  <2>1. Init => TypeOK
    BY ConstantsAssumption
    DEF Init, TypeOK, Calls, Replies, IdleCall, IdleReply, Statuses, TicketStatuses
  <2> QED
    BY <2>1 DEF Init, SafetyInv, ClaimsAreDistinct, InFlight, SentWasAccepted,
       MarkerWasAccepted, UntouchedRows, KillSwitchReachesQueue, GatePassedOnce, IdleCall
<1>2. SafetyInv /\ TypeOK' /\ [Next]_vars => SafetyInv'
  BY ClaimsStayDistinct, SentStaysAccepted, MarkersStayAccepted, RowsStayUntouched,
     GateStaysPassedOnce DEF SafetyInv
<1> QED BY <1>1, <1>2, TypeCorrect, PTL DEF Spec

\* Whatever is reclaimed, cancelled, retried or slow: one claim is one attempt
\* number, handed to the provider at most once (claimOutbound).
THEOREM OneHandOverPerClaim == Spec => []ClaimsAreDistinct
BY SafetyInvariant, PTL DEF SafetyInv

\* A row that says sent or bounced, and a threaded Message-ID, are about mail the
\* provider took (markSent, markBounced, recordMessageId).
THEOREM SentMeansAccepted == Spec => []SentWasAccepted
BY SafetyInvariant, PTL DEF SafetyInv

\* A delivery loop hands over at most one agent message after the mode was
\* narrowed, however many were queued (deliverOutbound).
THEOREM KillSwitchHolds == Spec => []KillSwitchReachesQueue
BY SafetyInvariant, PTL DEF SafetyInv

\* A row queued for a suppressed address was never attempted (queueOutbound).
THEOREM SuppressedIsNeverAttempted == Spec => []SuppressedNeverAttempted
<1>1. SafetyInv => SuppressedNeverAttempted
  <2> SUFFICES ASSUME SafetyInv, NEW m \in Messages, status[m] = "suppressed"
               PROVE  /\ attempts[m] = 0
                      /\ accepted[m] = {}
                      /\ \A w \in Workers : ~InFlight(w, m)
    BY DEF SuppressedNeverAttempted
  <2>1. attempts[m] = 0
    BY DEF SafetyInv, UntouchedRows
  <2>2. \A n \in accepted[m] : n \in Nat /\ 1 <= n /\ n <= 0
    BY <2>1 DEF SafetyInv, ClaimsAreDistinct, TypeOK
  <2>3. \A w \in Workers : InFlight(w, m) =>
          call[w].attempt \in Nat /\ 1 <= call[w].attempt /\ call[w].attempt <= 0
    BY <2>1 DEF SafetyInv, ClaimsAreDistinct, TypeOK, Calls
  <2> QED BY <2>1, <2>2, <2>3
<1> QED BY <1>1, SafetyInvariant, PTL

\* A settled row moves only by a retry, a bounce, or the late report of a call
\* still in flight on it (the unguarded updates of markSent, deferOutbound and
\* failOutbound reach no further than that).
THEOREM SettledRowsMoveOnlyBy == Spec => SettledMovesOnlyBy
<1>1. TypeOK /\ [Next]_vars =>
        [\A m \in Messages : status[m] \in Settled /\ status'[m] # status[m] =>
           \/ /\ status[m] \in Retryable /\ status'[m] = "queued"
              /\ \E c \in Consoles : retrying[c] = m /\ retrying'[c] # m
           \/ status[m] = "sent" /\ status'[m] = "bounced"
           \/ \E w \in Workers : InFlight(w, m) /\ ~InFlight(w, m)'
           \/ \E w \in Workers : InFlight(w, m) /\ call'[w].pc = "thread"]_vars
  BY RowsMove DEF RowMoves, Settled, Cancellable
<1> QED BY <1>1, TypeCorrect, PTL DEF Spec, SettledMovesOnlyBy

\* A suppressed row stays suppressed: no retry and no stale report revives it.
THEOREM SuppressedStays == Spec => SuppressedForGood
<1>1. TypeOK /\ SuppressedNeverAttempted /\ [Next]_vars =>
        [\A m \in Messages : status[m] = "suppressed" => status'[m] = "suppressed"]_vars
  BY RowsMove DEF RowMoves, Cancellable, Retryable, SuppressedNeverAttempted
<1> QED BY <1>1, TypeCorrect, SuppressedIsNeverAttempted, PTL DEF Spec, SuppressedForGood

-----------------------------------------------------------------------------
(***************************************************************************)
(* In fair weather the claim alone makes delivery happen once.             *)
(***************************************************************************)

\* Nothing that reads a clock or a console is enabled in fair weather.
LEMMA FairWeatherSteps ==
  ASSUME FairWeather, TypeOK, OnceInv
  PROVE  /\ \A p \in Procs : ~Crash(p)
         /\ \A k \in Callers : ~ReplyCrash(k)
         /\ \A c \in Consoles : ~OperatorStep(c)
         /\ \A m \in Messages : ~Stall(m)
         /\ ~ReclaimStalled
         /\ \A w \in Workers : ~RecordingFails(w)
<1>1. spent.crashes \in Nat /\ spent.retries \in Nat /\ spent.slow \in Nat
  BY DEF TypeOK
<1>2. ~(spent.crashes < MaxCrashes) /\ ~(spent.retries < MaxRetries) /\ ~(spent.slow < MaxSlow)
  BY <1>1 DEF FairWeather
<1>3. \A p \in Procs : ~Crash(p)
  BY <1>2 DEF Crash
<1>4. \A k \in Callers : ~ReplyCrash(k)
  BY <1>2 DEF ReplyCrash
<1>5. \A c \in Consoles : ~OperatorStep(c)
  BY <1>2 DEF OperatorStep, RetryChecksAddress, RetryQueues, OnceInv, NobodyRetries
<1>6. \A m \in Messages : ~Stall(m)
  BY <1>2 DEF Stall, OnceInv, NothingStalls
<1>7. ~ReclaimStalled
  BY DEF ReclaimStalled, Stalled, OnceInv, NothingStalls
<1>8. \A w \in Workers : ~RecordingFails(w)
  BY DEF RecordingFails, FairWeather
<1> QED BY <1>3, <1>4, <1>5, <1>6, <1>7, <1>8

\* A step of the one call in flight on a message leaves OnceInv to what it does to
\* that message.
LEMMA HolderStep ==
  ASSUME TypeOK, OnceInv,
         NEW w \in Workers, NEW m \in Messages, InFlight(w, m),
         \A v \in Workers \ {w} : call'[v] = call[v],
         \A n \in Messages \ {m} : status'[n] = status[n] /\ accepted'[n] = accepted[n],
         \A n \in Messages : ~stale'[n],
         retrying' = retrying,
         \A n \in Messages : InFlight(w, n)' => n = m,
         status'[m] = "sending" => InFlight(w, m)' /\ call'[w].pc # "thread",
         InFlight(w, m)' =>
           /\ IF call'[w].pc = "thread" THEN status'[m] \in {"sent", "bounced"}
                                       ELSE status'[m] \in {"sending", "cancelled"}
           /\ call'[w].pc \notin {"mark", "thread"} => accepted'[m] = {},
         accepted'[m] # {} =>
           status'[m] \in {"sent", "bounced"} \/ (InFlight(w, m)' /\ call'[w].pc = "mark"),
         \A i, j \in accepted'[m] : i = j
  PROVE  OnceInv'
<1>1. \A v \in Workers : InFlight(v, m) => v = w
  BY DEF OnceInv, OneHolder
<1>2. \A v \in Workers \ {w} : \A n \in Messages : InFlight(v, n)' <=> InFlight(v, n)
  BY DEF InFlight
<1>3. \A n \in Messages \ {m} : ~InFlight(w, n)
  BY DEF InFlight
<1>4. NothingStalls'
  BY <1>1, <1>2, <1>3 DEF OnceInv, NothingStalls
<1>5. OneHolder'
  <2> SUFFICES ASSUME NEW u \in Workers, NEW n \in Messages, InFlight(u, n)'
               PROVE /\ IF call'[u].pc = "thread" THEN status'[n] \in {"sent", "bounced"}
                          ELSE status'[n] \in {"sending", "cancelled"}
                     /\ call'[u].pc \notin {"mark", "thread"} => accepted'[n] = {}
                     /\ \A v \in Workers : InFlight(v, n)' => v = u
    BY DEF OneHolder
  <2>1. CASE u = w
    BY <2>1, <1>1, <1>2
  <2>2. CASE u # w
    <3>1. InFlight(u, n) /\ n # m
      BY <2>2, <1>1, <1>2
    <3> QED BY <2>2, <3>1, <1>2 DEF OnceInv, OneHolder
  <2> QED BY <2>1, <2>2
<1>6. AcceptedIsSettled'
  BY <1>1, <1>2, <1>3 DEF OnceInv, AcceptedIsSettled
<1>7. DeliveredOnce'
  BY DEF OnceInv, DeliveredOnce
<1>8. NobodyRetries'
  BY DEF OnceInv, NobodyRetries
<1> QED BY <1>4, <1>5, <1>6, <1>7, <1>8 DEF OnceInv

\* A step that touches no call in flight and no row that one is on.
LEMMA BystanderStep ==
  ASSUME TypeOK, OnceInv,
         \A v \in Workers : \A n \in Messages :
           InFlight(v, n)' => InFlight(v, n) /\ call'[v].pc = call[v].pc,
         \A v \in Workers : \A n \in Messages :
           InFlight(v, n) => InFlight(v, n)' /\ call'[v].pc = call[v].pc,
         accepted' = accepted,
         \A n \in Messages : ~stale'[n],
         retrying' = retrying,
         \A n \in Messages :
           \/ status'[n] = status[n]
           \/ status[n] \in {"sent", "bounced"} /\ status'[n] = "bounced"
           \/ status[n] = "sending" /\ status'[n] = "cancelled"
           \/ status[n] = "queued" /\ status'[n] = "cancelled"
           \/ status[n] = "none" /\ status'[n] \in {"queued", "suppressed"}
  PROVE  OnceInv'
<1>1. NothingStalls'
  BY DEF OnceInv, NothingStalls
<1>2. OneHolder'
  <2> SUFFICES ASSUME NEW u \in Workers, NEW n \in Messages, InFlight(u, n)'
               PROVE /\ IF call'[u].pc = "thread" THEN status'[n] \in {"sent", "bounced"}
                          ELSE status'[n] \in {"sending", "cancelled"}
                     /\ call'[u].pc \notin {"mark", "thread"} => accepted'[n] = {}
                     /\ \A v \in Workers : InFlight(v, n)' => v = u
    BY DEF OneHolder
  <2> QED BY DEF OnceInv, OneHolder
<1>3. AcceptedIsSettled'
  BY DEF OnceInv, AcceptedIsSettled
<1>4. DeliveredOnce' /\ NobodyRetries'
  BY DEF OnceInv, DeliveredOnce, NobodyRetries
<1> QED BY <1>1, <1>2, <1>3, <1>4 DEF OnceInv

\* OnceInv is inductive in fair weather.
LEMMA OnceInvStep ==
  ASSUME FairWeather, TypeOK, OnceInv, [Next]_vars
  PROVE  OnceInv'
<1>s. \A m \in Messages : ~stale[m]
  BY DEF OnceInv, NothingStalls
<1>1. ASSUME NEW k \in Callers, ReplyStep(k) PROVE OnceInv'
  <2>1. ASSUME NEW m \in Messages, ReplyChecksAddress(k, m) PROVE OnceInv'
    BY <2>1, <1>s, BystanderStep DEF ReplyChecksAddress, InFlight
  <2>2. CASE QueueOutbound(k)
    BY <2>2, <1>s, BystanderStep DEF QueueOutbound, InFlight, TypeOK
  <2>3. CASE ReplyMarksTicket(k)
    BY <2>3, <1>s, BystanderStep DEF ReplyMarksTicket, InFlight
  <2> QED BY <1>1, <2>1, <2>2, <2>3 DEF ReplyStep
<1>2. ASSUME NEW w \in Workers, NEW m \in Messages, Claim(w, m) PROVE OnceInv'
  <2>1. /\ \A v \in Workers : ~InFlight(v, m)
        /\ accepted[m] = {}
    BY <1>2 DEF Claim, OnceInv, OneHolder, AcceptedIsSettled
  <2>2. /\ call'[w].pc = "claimed" /\ call'[w].msg = m
        /\ \A v \in Workers \ {w} : call'[v] = call[v]
    BY <1>2 DEF Claim, TypeOK
  <2>3. /\ status'[m] = "sending"
        /\ \A n \in Messages \ {m} : status'[n] = status[n]
        /\ \A n \in Messages : ~stale'[n]
        /\ accepted' = accepted /\ retrying' = retrying
    BY <1>2, <1>s DEF Claim, TypeOK
  <2>4. /\ \A n \in Messages : InFlight(w, n)' <=> n = m
        /\ \A v \in Workers \ {w} : \A n \in Messages : InFlight(v, n)' <=> InFlight(v, n)
        /\ \A n \in Messages : ~InFlight(w, n)
    BY <1>2, <2>2 DEF Claim, InFlight
  <2>5. NothingStalls'
    BY <2>1, <2>2, <2>3, <2>4 DEF OnceInv, NothingStalls
  <2>6. OneHolder'
    <3> SUFFICES ASSUME NEW u \in Workers, NEW n \in Messages, InFlight(u, n)'
                 PROVE /\ IF call'[u].pc = "thread" THEN status'[n] \in {"sent", "bounced"}
                            ELSE status'[n] \in {"sending", "cancelled"}
                       /\ call'[u].pc \notin {"mark", "thread"} => accepted'[n] = {}
                       /\ \A v \in Workers : InFlight(v, n)' => v = u
      BY DEF OneHolder
    <3>1. CASE u = w
      BY <3>1, <2>1, <2>2, <2>3, <2>4
    <3>2. CASE u # w
      <4>1. InFlight(u, n) /\ n # m
        BY <3>2, <2>1, <2>4
      <4> QED BY <3>2, <4>1, <2>2, <2>3, <2>4 DEF OnceInv, OneHolder
    <3> QED BY <3>1, <3>2
  <2>7. AcceptedIsSettled'
    BY <2>1, <2>2, <2>3, <2>4 DEF OnceInv, AcceptedIsSettled
  <2>8. DeliveredOnce' /\ NobodyRetries'
    BY <2>3 DEF OnceInv, DeliveredOnce, NobodyRetries
  <2> QED BY <2>5, <2>6, <2>7, <2>8 DEF OnceInv
<1>3. ASSUME NEW w \in Workers, DeliverStep(w) PROVE OnceInv'
  <2>0. call[w].pc # "idle"
    BY <1>3 DEF DeliverStep, NoTransport, KillSwitchStops, StartAttempt, Accept, Refuse,
                MarkSent, RecordMessageId, RecordingFails, SuppressDeadMailbox, Defer, Fail
  <2>m. PICK m \in Messages : m = call[w].msg
    BY <2>0 DEF TypeOK
  <2>f. \A n \in Messages : InFlight(w, n) =>
          /\ IF call[w].pc = "thread" THEN status[n] \in {"sent", "bounced"}
                                      ELSE status[n] \in {"sending", "cancelled"}
          /\ call[w].pc \notin {"mark", "thread"} => accepted[n] = {}
          /\ \A i, j \in accepted[n] : i = j
    BY DEF OnceInv, OneHolder, DeliveredOnce
  <2> USE DEF Goto, Return, IdleCall, TypeOK, InFlight
  <2>1. CASE NoTransport(w)
    BY <2>1, <2>m, <2>f, <1>s, HolderStep, ConstantsAssumption DEF NoTransport, CancelRow, Cancellable
  <2>2. CASE KillSwitchStops(w)
    BY <2>2, <2>m, <2>f, <1>s, HolderStep DEF KillSwitchStops, CancelRow, Cancellable
  <2>3. CASE StartAttempt(w)
    BY <2>3, <2>m, <2>f, <1>s, HolderStep DEF StartAttempt
  <2>4. CASE Accept(w)
    <3>1. m \in Messages /\ InFlight(w, m) /\ accepted[m] = {}
      BY <2>4, <2>m, <2>f DEF Accept
    <3>2. /\ accepted'[m] = {call[w].attempt}
          /\ \A n \in Messages \ {m} : accepted'[n] = accepted[n]
          /\ status' = status /\ stale' = stale /\ retrying' = retrying
      BY <2>4, <2>m, <3>1 DEF Accept
    <3>3. /\ call'[w].pc = "mark" /\ call'[w].msg = m
          /\ \A v \in Workers \ {w} : call'[v] = call[v]
      BY <2>4, <2>m DEF Accept, FairWeather, Calls
    <3>4. status[m] \in {"sending", "cancelled"}
      BY <2>4, <3>1, <2>f DEF Accept
    <3> HIDE DEF TypeOK
    <3> QED BY <3>1, <3>2, <3>3, <3>4, <1>s, HolderStep
  <2>5. CASE Refuse(w)
    BY <2>5, <2>m, <2>f, <1>s, HolderStep DEF Refuse
  <2>6. CASE MarkSent(w)
    <3>1. m \in Messages /\ InFlight(w, m)
      BY <2>6, <2>m DEF MarkSent
    <3>2. /\ status'[m] = "sent"
          /\ \A n \in Messages \ {m} : status'[n] = status[n]
          /\ \A n \in Messages : ~stale'[n]
          /\ accepted' = accepted /\ retrying' = retrying
      BY <2>6, <2>m, <3>1, <1>s DEF MarkSent
    <3>3. /\ call'[w].pc = "thread" /\ call'[w].msg = m
          /\ \A v \in Workers \ {w} : call'[v] = call[v]
      BY <2>6, <2>m DEF MarkSent, Calls
    <3>4. \A i, j \in accepted'[m] : i = j
      BY <3>1, <3>2, <2>f
    <3> HIDE DEF TypeOK
    <3> QED BY <3>1, <3>2, <3>3, <3>4, HolderStep
  <2>7. CASE RecordMessageId(w)
    <3>1. /\ m \in Messages /\ InFlight(w, m)
          /\ status[m] \in {"sent", "bounced"}
      BY <2>7, <2>m, <2>f DEF RecordMessageId
    <3>2. /\ status' = status /\ stale' = stale /\ accepted' = accepted
          /\ retrying' = retrying
      BY <2>7 DEF RecordMessageId
    <3>3. /\ call'[w].pc = "idle"
          /\ \A v \in Workers \ {w} : call'[v] = call[v]
      BY <2>7 DEF RecordMessageId
    <3>4. \A i, j \in accepted'[m] : i = j
      BY <3>1, <3>2, <2>f
    <3>5. \A n \in Messages : ~InFlight(w, n)'
      BY <3>3
    <3> HIDE DEF TypeOK, InFlight
    <3> QED BY <3>1, <3>2, <3>3, <3>4, <3>5, <1>s, HolderStep
  <2>9. CASE SuppressDeadMailbox(w)
    BY <2>9, <2>m, <2>f, <1>s, HolderStep DEF SuppressDeadMailbox
  <2>10. CASE Defer(w)
    BY <2>10, <2>m, <2>f, <1>s, HolderStep DEF Defer
  <2>11. CASE Fail(w)
    BY <2>11, <2>m, <2>f, <1>s, HolderStep DEF Fail
  <2> QED BY <1>3, <2>1, <2>2, <2>3, <2>4, <2>5, <2>6, <2>7, <2>9, <2>10, <2>11,
             FairWeatherSteps DEF DeliverStep
<1>4. ASSUME NEW p \in Procs, AnnounceStep(p) PROVE OnceInv'
  <2>1. /\ status' = status /\ stale' = stale /\ accepted' = accepted
        /\ retrying' = retrying
    BY <1>4 DEF AnnounceStep, Announce, Reopen
  <2>2. call[p].pc \in {"announce", "reopen"} /\ call'[p].pc \in {"reopen", "idle"}
    BY <1>4 DEF AnnounceStep, Announce, Reopen, Goto, Return, IdleCall, TypeOK, Calls
  <2>3. \A q \in Procs \ {p} : call'[q] = call[q]
    BY <1>4 DEF AnnounceStep, Announce, Reopen, Goto, Return, TypeOK
  <2>4. \A v \in Workers : \A n \in Messages :
          /\ InFlight(v, n)' <=> InFlight(v, n)
          /\ InFlight(v, n) => call'[v].pc = call[v].pc
    BY <2>2, <2>3 DEF InFlight
  <2> QED BY <2>1, <2>4, <1>s, BystanderStep
<1>5. ASSUME NEW h \in Hooks, BounceStep(h) PROVE OnceInv'
  <2>1. h \notin Workers
    BY ConstantsAssumption
  <2>2. ASSUME NEW m \in Messages, BounceArrives(h, m) PROVE OnceInv'
    BY <2>1, <2>2, <1>s, BystanderStep DEF BounceArrives, InFlight, TypeOK
  <2>3. ASSUME NEW a \in Addresses, BounceUnmatched(h, a) PROVE OnceInv'
    BY <2>3, <1>s, BystanderStep DEF BounceUnmatched, InFlight
  <2>4. CASE MarkBounced(h)
    BY <2>1, <2>4, <1>s, BystanderStep DEF MarkBounced, Goto, Return, InFlight, TypeOK
  <2> QED BY <1>5, <2>2, <2>3, <2>4 DEF BounceStep
<1>6. ASSUME NEW m \in Messages, RowStep(m) PROVE OnceInv'
  <2>1. CASE BecomeDue(m)
    BY <2>1, <1>s, BystanderStep DEF BecomeDue, InFlight
  <2>2. CASE Cancel(m)
    BY <2>2, <1>s, BystanderStep DEF Cancel, CancelRow, Cancellable, InFlight, TypeOK
  <2> QED BY <1>6, <2>1, <2>2, FairWeatherSteps DEF RowStep
<1>7. ASSUME NEW a \in Addresses, LiftSuppression(a) PROVE OnceInv'
  BY <1>7, <1>s, BystanderStep DEF LiftSuppression, InFlight
<1>8. CASE SetMode
  BY <1>8, <1>s, BystanderStep DEF SetMode, InFlight
<1>9. CASE UNCHANGED vars
  BY <1>9, <1>s, BystanderStep DEF vars, InFlight
<1> QED BY <1>1, <1>2, <1>3, <1>4, <1>5, <1>6, <1>7, <1>8, <1>9, FairWeatherSteps DEF Next

\* Two sweeps racing on a row, a sweep racing a doorbell, a cancel under a send and
\* a bounce before the answer: in fair weather the provider accepts each message
\* once at most, whatever the number of workers (claimOutbound).
THEOREM DeliveryOnce == ASSUME FairWeather PROVE Spec => []DeliveredOnce
<1>1. Init => OnceInv
  BY DEF Init, OnceInv, NothingStalls, OneHolder, AcceptedIsSettled, DeliveredOnce,
         NobodyRetries, InFlight, IdleCall
<1>2. TypeOK /\ OnceInv /\ [Next]_vars => OnceInv'
  BY OnceInvStep
<1>3. OnceInv => DeliveredOnce
  BY DEF OnceInv
<1> QED BY <1>1, <1>2, <1>3, TypeCorrect, PTL DEF Spec

-----------------------------------------------------------------------------
(* Dead letters.                                                           *)

\* A step that files no dead letter, takes no error back and leaves the calls that
\* are about to write one alone.
LEMMA ToldKept ==
  ASSUME DeadLettersAreTold,
         \A m \in Messages :
           status'[m] \in {"failed", "bounced"} => status'[m] = status[m],
         told \subseteq told',
         \A p \in Procs : call[p].pc = "announce" => call'[p] = call[p]
  PROVE  DeadLettersAreTold'
  BY DEF DeadLettersAreTold

\* Only a crash between the dead letter and its announcement keeps it silent: the
\* statement that files it and the one that tells the ticket belong to one call.
LEMMA DeadLettersStayTold ==
  ASSUME TypeOK, DeadLettersAreTold, [Next]_vars, \A p \in Procs : ~Crash(p)
  PROVE  DeadLettersAreTold'
<1> USE DEF TypeOK
<1>1. ASSUME NEW k \in Callers, ReplyStep(k) \/ ReplyCrash(k)
      PROVE  DeadLettersAreTold'
  BY <1>1, ToldKept DEF ReplyStep, ReplyChecksAddress, QueueOutbound, ReplyMarksTicket,
     ReplyCrash
<1>2. ASSUME NEW w \in Workers, NEW m \in Messages, Claim(w, m)
      PROVE  DeadLettersAreTold'
  BY <1>2, ToldKept DEF Claim
<1>3. ASSUME NEW w \in Workers, DeliverStep(w)
      PROVE  DeadLettersAreTold'
  <2>1. CASE Fail(w)
    <3>1. PICK m \in Messages : m = call[w].msg
      BY <2>1 DEF Fail
    <3>2. /\ told' = told
          /\ \A n \in Messages \ {m} : status'[n] = status[n]
          /\ \A p \in Procs : call[p].pc = "announce" => call'[p] = call[p]
          /\ call'[w].msg = m /\ call'[w].pc = "announce"
      BY <2>1, <3>1 DEF Fail, Goto, Calls
    <3> QED BY <3>2 DEF DeadLettersAreTold
  <2>2. CASE NoTransport(w) \/ KillSwitchStops(w)
    BY <2>2, ToldKept DEF NoTransport, KillSwitchStops, CancelRow, Goto, Return
  <2>3. CASE StartAttempt(w) \/ Accept(w) \/ Refuse(w) \/ RecordingFails(w)
             \/ SuppressDeadMailbox(w)
    BY <2>3, ToldKept DEF StartAttempt, Accept, Refuse, RecordingFails,
       SuppressDeadMailbox, Goto
  <2>4. CASE MarkSent(w) \/ RecordMessageId(w) \/ Defer(w)
    BY <2>4, ToldKept DEF MarkSent, RecordMessageId, Defer, Goto, Return
  <2> QED BY <1>3, <2>1, <2>2, <2>3, <2>4 DEF DeliverStep
<1>4. ASSUME NEW p \in Procs, Announce(p)
      PROVE  DeadLettersAreTold'
  <2>1. PICK m \in Messages : m = call[p].msg
    BY <1>4 DEF Announce
  <2>2. /\ status' = status
        /\ told \subseteq told'
        /\ TicketOf[m] # NoTicket => m \in told'
        /\ \A q \in Procs \ {p} : call'[q] = call[q]
    BY <1>4, <2>1 DEF Announce, Goto, Return
  <2> QED BY <2>1, <2>2 DEF DeadLettersAreTold
<1>5. ASSUME NEW p \in Procs, Reopen(p)
      PROVE  DeadLettersAreTold'
  BY <1>5, ToldKept DEF Reopen, Return
<1>6. ASSUME NEW h \in Hooks, BounceStep(h)
      PROVE  DeadLettersAreTold'
  <2>1. ASSUME NEW m \in Messages, BounceArrives(h, m) PROVE DeadLettersAreTold'
    BY <2>1, ToldKept DEF BounceArrives
  <2>2. ASSUME NEW a \in Addresses, BounceUnmatched(h, a) PROVE DeadLettersAreTold'
    BY <2>2, ToldKept DEF BounceUnmatched
  <2>3. CASE MarkBounced(h)
    <3>1. PICK m \in Messages : m = call[h].msg
      BY <2>3 DEF MarkBounced
    <3>2. /\ told' = told
          /\ \A n \in Messages \ {m} : status'[n] = status[n]
          /\ \A p \in Procs : call[p].pc = "announce" => call'[p] = call[p]
          /\ \/ status' = status
             \/ call'[h].msg = m /\ call'[h].pc = "announce"
      BY <2>3, <3>1 DEF MarkBounced, Goto, Return, Calls
    <3> QED BY <3>2 DEF DeadLettersAreTold
  <2> QED BY <1>6, <2>1, <2>2, <2>3 DEF BounceStep
<1>7. ASSUME NEW c \in Consoles, OperatorStep(c)
      PROVE  DeadLettersAreTold'
  <2>1. ASSUME NEW m \in Messages, RetryChecksAddress(c, m) PROVE DeadLettersAreTold'
    BY <2>1, ToldKept DEF RetryChecksAddress
  <2>2. CASE RetryQueues(c)
    <3>1. PICK m \in Messages : m = retrying[c]
      BY <2>2 DEF RetryQueues
    <3>2. /\ call' = call
          /\ \A n \in Messages \ {m} : status'[n] = status[n]
          /\ \/ status' = status /\ told' = told
             \/ told' = told \ {m} /\ status'[m] = "queued"
      BY <2>2, <3>1 DEF RetryQueues
    <3> QED BY <3>2 DEF DeadLettersAreTold
  <2> QED BY <1>7, <2>1, <2>2 DEF OperatorStep
<1>8. ASSUME NEW m \in Messages, RowStep(m)
      PROVE  DeadLettersAreTold'
  BY <1>8, ToldKept DEF RowStep, BecomeDue, Stall, Cancel, CancelRow
<1>9. ASSUME NEW a \in Addresses, LiftSuppression(a)
      PROVE  DeadLettersAreTold'
  BY <1>9, ToldKept DEF LiftSuppression
<1>10. CASE ReclaimStalled
  BY <1>10, ToldKept DEF ReclaimStalled, Stalled
<1>11. CASE SetMode
  BY <1>11, ToldKept DEF SetMode
<1>12. CASE UNCHANGED vars
  BY <1>12, ToldKept DEF vars
<1> QED
  BY <1>1, <1>2, <1>3, <1>4, <1>5, <1>6, <1>7, <1>8, <1>9, <1>10, <1>11, <1>12
  DEF Next, AnnounceStep

\* The count of crashes only grows, and by one when a call crashes.
LEMMA CrashesAreCounted ==
  ASSUME TypeOK, [Next]_vars, spent'.crashes = 0
  PROVE  spent.crashes = 0 /\ \A p \in Procs : ~Crash(p)
<1>1. spent \in [{"crashes", "slow", "retries"} -> Nat]
  BY DEF TypeOK
<1>2. ASSUME NEW p \in Procs, Crash(p) PROVE spent'.crashes = spent.crashes + 1
  BY <1>1, <1>2 DEF Crash, Spend
<1>3. spent'.crashes = spent.crashes \/ spent'.crashes = spent.crashes + 1
  BY <1>1 DEF Next, ReplyStep, ReplyChecksAddress, QueueOutbound, ReplyMarksTicket,
     ReplyCrash, Claim, DeliverStep, NoTransport, KillSwitchStops, StartAttempt,
     Accept, Refuse, MarkSent, RecordMessageId, RecordingFails, SuppressDeadMailbox,
     Defer, Fail, AnnounceStep, Announce, Reopen, Crash, BounceStep, BounceArrives,
     BounceUnmatched, MarkBounced, OperatorStep, RetryChecksAddress, RetryQueues,
     RowStep, BecomeDue, Stall, Cancel, LiftSuppression, ReclaimStalled, SetMode, vars,
     Spend
<1>4. spent.crashes \in Nat
  BY <1>1
<1> QED BY <1>2, <1>3, <1>4

\* Until a call dies, every dead letter about a ticket is on the ticket or about to
\* be: whatever the bounds, faults, retries and bounces (failOutbound, markBounced,
\* announceUndelivered).
THEOREM DeadLettersNeedACrash == Spec => [](spent.crashes = 0 => DeadLettersAreTold)
<1>1. Init => DeadLettersAreTold
  BY DEF Init, DeadLettersAreTold
<1>2. TypeOK /\ (spent.crashes = 0 => DeadLettersAreTold) /\ [Next]_vars
        => (spent.crashes = 0 => DeadLettersAreTold)'
  BY DeadLettersStayTold, CrashesAreCounted
<1> QED BY <1>1, <1>2, TypeCorrect, PTL DEF Spec

\* Where no process dies no dead letter is silent.
THEOREM DeadLettersTold == ASSUME MaxCrashes = 0 PROVE Spec => []DeadLettersAreTold
<1>1. Init => DeadLettersAreTold
  BY DEF Init, DeadLettersAreTold
<1>2. TypeOK => \A p \in Procs : ~Crash(p)
  BY DEF Crash, TypeOK
<1>3. TypeOK /\ DeadLettersAreTold /\ [Next]_vars => DeadLettersAreTold'
  BY <1>2, DeadLettersStayTold
<1> QED BY <1>1, <1>3, TypeCorrect, PTL DEF Spec

-----------------------------------------------------------------------------
(***************************************************************************)
(* The budget.  A row's lives are what may still be claimed beyond its     *)
(* max_attempts; a step creates a life only by spending from a bound, or   *)
(* by moving one from a call or a console to the row.                      *)
(***************************************************************************)

LEMMA FewerThings ==
  ASSUME NEW S, NEW T, IsFiniteSet(T), S \subseteq T
  PROVE  /\ IsFiniteSet(S) /\ Cardinality(S) \in Nat /\ Cardinality(T) \in Nat
         /\ Cardinality(S) <= Cardinality(T)
  BY FS_Subset, FS_CardinalityType

LEMMA OneThingLess ==
  ASSUME NEW S, NEW T, NEW x \in T, IsFiniteSet(T), S \subseteq T \ {x}
  PROVE  /\ IsFiniteSet(S) /\ Cardinality(S) \in Nat /\ Cardinality(T) \in Nat
         /\ Cardinality(S) + 1 <= Cardinality(T)
<1>1. IsFiniteSet(T \ {x}) /\ Cardinality(T \ {x}) = Cardinality(T) - 1
  BY FS_RemoveElement
<1>2. Cardinality(T) \in Nat
  BY FS_CardinalityType
<1> QED BY <1>1, <1>2, FewerThings

LEMMA OneThingMore ==
  ASSUME NEW S, NEW T, NEW x, IsFiniteSet(T), S \subseteq T \cup {x}
  PROVE  /\ IsFiniteSet(S) /\ Cardinality(S) \in Nat /\ Cardinality(T) \in Nat
         /\ Cardinality(S) <= Cardinality(T) + 1
<1>1. Cardinality(T) \in Nat
  BY FS_CardinalityType
<1>2. /\ IsFiniteSet(T \cup {x})
      /\ Cardinality(T \cup {x}) \in {Cardinality(T), Cardinality(T) + 1}
  BY FS_AddElement
<1>3. /\ IsFiniteSet(S) /\ Cardinality(S) \in Nat
      /\ Cardinality(S) <= Cardinality(T \cup {x})
  BY <1>2, FewerThings
<1> QED BY <1>1, <1>2, <1>3

\* A call lives on only with the claim it had, so a step that claims nothing of a
\* row leaves the row's attempts and starts no call on it.
LEMMA LiveCallsShrink ==
  ASSUME TypeOK, [Next]_vars, NEW m \in Messages, \A w \in Workers : ~Claim(w, m)
  PROVE  /\ attempts'[m] = attempts[m]
         /\ LiveCalls(m)' \subseteq LiveCalls(m)
         /\ \A w \in Workers : InFlight(w, m)' =>
              /\ InFlight(w, m)
              /\ call'[w].attempt = call[w].attempt /\ call'[w].max = call[w].max
<1>1. CASE \A w \in Workers : ~Accept(w) /\ \A n \in Messages : ~Claim(w, n)
  BY <1>1, QuietStep DEF CallKept, CallEnded, CallMoved, InFlight, LiveCalls
<1>2. ASSUME NEW w \in Workers, Accept(w)
      PROVE  /\ attempts' = attempts
             /\ \A v \in Workers :
                  InFlight(v, m)' => /\ InFlight(v, m)
                                     /\ call'[v].attempt = call[v].attempt
                                     /\ call'[v].max = call[v].max
  BY <1>2 DEF Accept, Goto, TypeOK, Calls, InFlight
<1>3. ASSUME NEW w \in Workers, NEW n \in Messages, Claim(w, n)
      PROVE  /\ attempts'[m] = attempts[m]
             /\ \A v \in Workers :
                  InFlight(v, m)' => /\ InFlight(v, m)
                                     /\ call'[v].attempt = call[v].attempt
                                     /\ call'[v].max = call[v].max
  <2>1. n # m
    BY <1>3
  <2> QED BY <1>3, <2>1 DEF Claim, TypeOK, InFlight
<1> QED BY <1>1, <1>2, <1>3 DEF LiveCalls

\* A step that puts no row in the queue, makes none stale and lets go of none that
\* is being sent gives the row no life.
LEMMA RowStaysDead ==
  ASSUME NEW m \in Messages, attempts'[m] = attempts[m],
         status'[m] \in {"none", "queued"} => RowLives(m),
         status'[m] = "sending" =>
           /\ status[m] = "sending"
           /\ stale'[m] => stale[m]
           /\ \A w \in Workers : InFlight(w, m) /\ call[w].pc # "thread" =>
                /\ InFlight(w, m)' /\ call'[w].pc # "thread"
                /\ call'[w].attempt = call[w].attempt
  PROVE  RowLives(m)' => RowLives(m)
<1> SUFFICES ASSUME status'[m] = "sending", stale'[m] \/ ~Held(m)'
             PROVE  stale[m] \/ ~Held(m)
  BY DEF RowLives
<1> QED BY DEF Held

\* A step that only touches other rows and the calls on them.
LEMMA OtherRow ==
  ASSUME NEW m \in Messages, attempts'[m] = attempts[m], status'[m] = status[m],
         stale'[m] => stale[m],
         \A w \in Workers : InFlight(w, m) => call'[w] = call[w]
  PROVE  RowLives(m)' => RowLives(m)
<1>1. \A w \in Workers : InFlight(w, m) => InFlight(w, m)'
  BY DEF InFlight
<1> QED BY <1>1, RowStaysDead DEF RowLives

\* Whatever a step adds to the lives of a row, it has paid for.
Paid(m) ==
  /\ IsFiniteSet(LiveCalls(m))' /\ IsFiniteSet(OpenRetries(m))'
  /\ Lives(m) \in Nat /\ Lives(m)' \in Nat
  /\ Excess \in Nat /\ Excess' \in Nat
  /\ Excess <= Excess'
  /\ Lives(m)' + Excess <= Lives(m) + Excess'

LEMMA ExcessType == ASSUME TypeOK PROVE Excess \in Nat
  BY DEF TypeOK, Excess

\* The bounds of one step: what it spends shows in the excess.
LEMMA SpendCounts ==
  ASSUME TypeOK, NEW b \in {"crashes", "slow", "retries"}, Spend(b)
  PROVE  Excess \in Nat /\ Excess' = Excess + 1
<1>1. /\ spent.crashes \in Nat /\ spent.slow \in Nat /\ spent.retries \in Nat
      /\ spent \in [{"crashes", "slow", "retries"} -> Nat]
  BY DEF TypeOK
<1>2. CASE b = "crashes"
  <2>1. /\ spent'.crashes = spent.crashes + 1
        /\ spent'.slow = spent.slow /\ spent'.retries = spent.retries
    BY <1>1, <1>2 DEF Spend
  <2> QED BY <1>1, <2>1 DEF Excess
<1>3. CASE b = "slow"
  <2>1. /\ spent'.slow = spent.slow + 1
        /\ spent'.crashes = spent.crashes /\ spent'.retries = spent.retries
    BY <1>1, <1>3 DEF Spend
  <2> QED BY <1>1, <2>1 DEF Excess
<1>4. CASE b = "retries"
  <2>1. /\ spent'.retries = spent.retries + 1
        /\ spent'.slow = spent.slow /\ spent'.crashes = spent.crashes
    BY <1>1, <1>4 DEF Spend
  <2> QED BY <1>1, <2>1 DEF Excess
<1> QED BY <1>2, <1>3, <1>4

\* The five kinds of step, by what they do to the lives of a row.
LEMMA NoLife ==
  ASSUME TypeOK, NEW m \in Messages,
         IsFiniteSet(LiveCalls(m)), IsFiniteSet(OpenRetries(m)),
         LiveCalls(m)' \subseteq LiveCalls(m), OpenRetries(m)' \subseteq OpenRetries(m),
         RowLives(m)' => RowLives(m), Excess' = Excess \/ Excess' = Excess + 1
  PROVE  Paid(m)
<1>1. /\ IsFiniteSet(LiveCalls(m)') /\ Cardinality(LiveCalls(m)') \in Nat
      /\ Cardinality(LiveCalls(m)) \in Nat
      /\ Cardinality(LiveCalls(m)') <= Cardinality(LiveCalls(m))
  BY FewerThings
<1>2. /\ IsFiniteSet(OpenRetries(m)') /\ Cardinality(OpenRetries(m)') \in Nat
      /\ Cardinality(OpenRetries(m)) \in Nat
      /\ Cardinality(OpenRetries(m)') <= Cardinality(OpenRetries(m))
  BY FewerThings
<1> QED BY <1>1, <1>2, ExcessType DEF Paid, Lives

LEMMA PaidLife ==
  ASSUME TypeOK, NEW m \in Messages,
         IsFiniteSet(LiveCalls(m)), IsFiniteSet(OpenRetries(m)),
         LiveCalls(m)' \subseteq LiveCalls(m), OpenRetries(m)' \subseteq OpenRetries(m),
         Excess' = Excess + 1
  PROVE  Paid(m)
<1>1. /\ IsFiniteSet(LiveCalls(m)') /\ Cardinality(LiveCalls(m)') \in Nat
      /\ Cardinality(LiveCalls(m)) \in Nat
      /\ Cardinality(LiveCalls(m)') <= Cardinality(LiveCalls(m))
  BY FewerThings
<1>2. /\ IsFiniteSet(OpenRetries(m)') /\ Cardinality(OpenRetries(m)') \in Nat
      /\ Cardinality(OpenRetries(m)) \in Nat
      /\ Cardinality(OpenRetries(m)') <= Cardinality(OpenRetries(m))
  BY FewerThings
<1> QED BY <1>1, <1>2, ExcessType DEF Paid, Lives

LEMMA CallGivesLife ==
  ASSUME TypeOK, NEW m \in Messages, NEW w \in LiveCalls(m),
         IsFiniteSet(LiveCalls(m)), IsFiniteSet(OpenRetries(m)),
         LiveCalls(m)' \subseteq LiveCalls(m) \ {w},
         OpenRetries(m)' \subseteq OpenRetries(m), Excess' = Excess
  PROVE  Paid(m)
<1>1. /\ IsFiniteSet(LiveCalls(m)') /\ Cardinality(LiveCalls(m)') \in Nat
      /\ Cardinality(LiveCalls(m)) \in Nat
      /\ Cardinality(LiveCalls(m)') + 1 <= Cardinality(LiveCalls(m))
  BY OneThingLess
<1>2. /\ IsFiniteSet(OpenRetries(m)') /\ Cardinality(OpenRetries(m)') \in Nat
      /\ Cardinality(OpenRetries(m)) \in Nat
      /\ Cardinality(OpenRetries(m)') <= Cardinality(OpenRetries(m))
  BY FewerThings
<1> QED BY <1>1, <1>2, ExcessType DEF Paid, Lives

LEMMA RetryGivesLife ==
  ASSUME TypeOK, NEW m \in Messages, NEW c \in OpenRetries(m),
         IsFiniteSet(LiveCalls(m)), IsFiniteSet(OpenRetries(m)),
         LiveCalls(m)' \subseteq LiveCalls(m),
         OpenRetries(m)' \subseteq OpenRetries(m) \ {c}, Excess' = Excess
  PROVE  Paid(m)
<1>1. /\ IsFiniteSet(LiveCalls(m)') /\ Cardinality(LiveCalls(m)') \in Nat
      /\ Cardinality(LiveCalls(m)) \in Nat
      /\ Cardinality(LiveCalls(m)') <= Cardinality(LiveCalls(m))
  BY FewerThings
<1>2. /\ IsFiniteSet(OpenRetries(m)') /\ Cardinality(OpenRetries(m)') \in Nat
      /\ Cardinality(OpenRetries(m)) \in Nat
      /\ Cardinality(OpenRetries(m)') + 1 <= Cardinality(OpenRetries(m))
  BY OneThingLess
<1> QED BY <1>1, <1>2, ExcessType DEF Paid, Lives

LEMMA RetryBegins ==
  ASSUME TypeOK, NEW m \in Messages, NEW c,
         IsFiniteSet(LiveCalls(m)), IsFiniteSet(OpenRetries(m)),
         LiveCalls(m)' \subseteq LiveCalls(m),
         OpenRetries(m)' \subseteq OpenRetries(m) \cup {c},
         RowLives(m)' => RowLives(m), Excess' = Excess + 1
  PROVE  Paid(m)
<1>1. /\ IsFiniteSet(LiveCalls(m)') /\ Cardinality(LiveCalls(m)') \in Nat
      /\ Cardinality(LiveCalls(m)) \in Nat
      /\ Cardinality(LiveCalls(m)') <= Cardinality(LiveCalls(m))
  BY FewerThings
<1>2. /\ IsFiniteSet(OpenRetries(m)') /\ Cardinality(OpenRetries(m)') \in Nat
      /\ Cardinality(OpenRetries(m)) \in Nat
      /\ Cardinality(OpenRetries(m)') <= Cardinality(OpenRetries(m)) + 1
  BY OneThingMore
<1> QED BY <1>1, <1>2, ExcessType DEF Paid, Lives

\* A step that claims nothing of a row pays for every life it gives the row.
LEMMA LivesArePaid ==
  ASSUME TypeOK, [Next]_vars, NEW m \in Messages, \A w \in Workers : ~Claim(w, m),
         IsFiniteSet(LiveCalls(m)), IsFiniteSet(OpenRetries(m))
  PROVE  Paid(m)
<1>a. /\ attempts'[m] = attempts[m]
      /\ LiveCalls(m)' \subseteq LiveCalls(m)
  BY LiveCallsShrink
<1>b. retrying' = retrying => OpenRetries(m)' \subseteq OpenRetries(m)
  BY DEF OpenRetries
<1>c. spent' = spent => Excess' = Excess
  BY DEF Excess
<1>d. ASSUME call' = call, status'[m] = status[m] \/ status'[m] \notin {"none", "queued", "sending"},
             stale'[m] => stale[m]
      PROVE  RowLives(m)' => RowLives(m)
  BY <1>a, <1>d, RowStaysDead DEF InFlight, RowLives
<1>1. ASSUME NEW k \in Callers, ReplyStep(k) \/ ReplyCrash(k)
      PROVE  Paid(m)
  <2>1. call' = call /\ retrying' = retrying /\ stale' = stale
    BY <1>1 DEF ReplyStep, ReplyChecksAddress, QueueOutbound, ReplyMarksTicket, ReplyCrash
  <2>2. status'[m] = status[m] \/ status[m] = "none"
    BY <1>1 DEF ReplyStep, ReplyChecksAddress, QueueOutbound, ReplyMarksTicket,
       ReplyCrash, TypeOK
  <2>3. RowLives(m)' => RowLives(m)
    BY <2>1, <2>2, <1>d DEF RowLives
  <2>4. Excess' = Excess \/ Excess' = Excess + 1
    BY <1>1, <1>c, SpendCounts DEF ReplyStep, ReplyChecksAddress, QueueOutbound,
       ReplyMarksTicket, ReplyCrash
  <2> QED BY <1>a, <1>b, <2>1, <2>3, <2>4, NoLife
<1>2. ASSUME NEW w \in Workers, NEW n \in Messages, Claim(w, n)
      PROVE  Paid(m)
  <2>1. n # m
    BY <1>2
  <2>2. /\ status'[m] = status[m] /\ stale'[m] = stale[m]
        /\ \A v \in Workers : InFlight(v, m) => call'[v] = call[v]
        /\ retrying' = retrying /\ spent' = spent
    BY <1>2, <2>1 DEF Claim, InFlight, TypeOK
  <2>3. RowLives(m)' => RowLives(m)
    BY <1>a, <2>2, OtherRow
  <2> QED BY <1>a, <1>b, <1>c, <2>2, <2>3, NoLife
<1>3. ASSUME NEW w \in Workers, DeliverStep(w)
      PROVE  Paid(m)
  <2>1. retrying' = retrying /\ spent' = spent
    BY <1>3 DEF DeliverStep, NoTransport, KillSwitchStops, StartAttempt, Accept, Refuse,
       MarkSent, RecordMessageId, RecordingFails, SuppressDeadMailbox, Defer, Fail
  <2>2. ASSUME RowLives(m)' => RowLives(m) PROVE Paid(m)
    BY <1>a, <1>b, <1>c, <2>1, <2>2, NoLife
  <2>3. \A v \in Workers \ {w} : call'[v] = call[v]
    BY <1>3 DEF DeliverStep, NoTransport, KillSwitchStops, StartAttempt, Accept, Refuse,
       MarkSent, RecordMessageId, RecordingFails, SuppressDeadMailbox, Defer, Fail,
       Goto, Return, TypeOK
  <2>4. ASSUME ~InFlight(w, m), status'[m] = status[m], stale'[m] = stale[m]
        PROVE  Paid(m)
    <3>1. \A v \in Workers : InFlight(v, m) => call'[v] = call[v]
      BY <2>3, <2>4
    <3> QED BY <1>a, <2>2, <2>4, <3>1, OtherRow
  <2>5. CASE InFlight(w, m)
    <3>0. call[w].msg = m
      BY <2>5 DEF InFlight
    <3>1. CASE NoTransport(w) \/ KillSwitchStops(w)
      <4>1. status'[m] \notin {"queued", "sending"} /\ (status'[m] = "none" => status[m] = "none")
        BY <3>0, <3>1 DEF NoTransport, KillSwitchStops, CancelRow, Cancellable, TypeOK
      <4> QED BY <1>a, <4>1, <2>2, RowStaysDead DEF RowLives
    <3>2. CASE StartAttempt(w) \/ Accept(w) \/ Refuse(w) \/ RecordingFails(w)
               \/ SuppressDeadMailbox(w)
      <4>1. /\ status' = status /\ stale' = stale
            /\ InFlight(w, m)' /\ call'[w].pc # "thread"
            /\ call'[w].attempt = call[w].attempt
        BY <3>0, <3>2 DEF StartAttempt, Accept, Refuse, RecordingFails,
           SuppressDeadMailbox, Goto, InFlight, TypeOK, Calls
      <4>2. \A v \in Workers : InFlight(v, m) /\ call[v].pc # "thread" =>
              /\ InFlight(v, m)' /\ call'[v].pc # "thread"
              /\ call'[v].attempt = call[v].attempt
        BY <4>1, <2>3 DEF InFlight
      <4> QED BY <1>a, <4>1, <4>2, <2>2, RowStaysDead DEF RowLives
    <3>3. CASE MarkSent(w) \/ Fail(w)
      <4>1. status'[m] \notin {"none", "queued", "sending"}
        BY <3>0, <3>3 DEF MarkSent, Fail, TypeOK
      <4> QED BY <1>a, <4>1, <2>2, RowStaysDead
    <3>4. CASE RecordMessageId(w)
      <4>1. status' = status /\ stale' = stale /\ call[w].pc = "thread"
        BY <3>4 DEF RecordMessageId
      <4>2. \A v \in Workers : InFlight(v, m) /\ call[v].pc # "thread" =>
              /\ InFlight(v, m)' /\ call'[v].pc # "thread"
              /\ call'[v].attempt = call[v].attempt
        BY <4>1, <2>3 DEF InFlight
      <4> QED BY <1>a, <4>1, <4>2, <2>2, RowStaysDead DEF RowLives
    <3>5. CASE Defer(w)
      <4>1. w \in LiveCalls(m)
        BY <2>5, <3>5 DEF Defer, Exhausted, LiveCalls, TypeOK, Calls
      <4>2. w \notin LiveCalls(m)'
        BY <3>5 DEF Defer, Return, IdleCall, LiveCalls, InFlight, TypeOK
      <4> QED BY <1>a, <1>b, <1>c, <2>1, <4>1, <4>2, CallGivesLife
    <3> QED BY <1>3, <3>1, <3>2, <3>3, <3>4, <3>5 DEF DeliverStep
  <2>6. CASE ~InFlight(w, m)
    <3>1. call[w].msg # m
      BY <1>3, <2>6 DEF DeliverStep, NoTransport, KillSwitchStops, StartAttempt, Accept,
         Refuse, MarkSent, RecordMessageId, RecordingFails, SuppressDeadMailbox, Defer,
         Fail, InFlight
    <3>2. status'[m] = status[m] /\ stale'[m] = stale[m]
      BY <1>3, <3>1 DEF DeliverStep, NoTransport, KillSwitchStops, StartAttempt, Accept,
         Refuse, MarkSent, RecordMessageId, RecordingFails, SuppressDeadMailbox, Defer,
         Fail, CancelRow, TypeOK
    <3> QED BY <2>4, <2>6, <3>2
  <2> QED BY <2>5, <2>6
<1>4. ASSUME NEW p \in Procs, AnnounceStep(p)
      PROVE  Paid(m)
  <2>1. /\ status' = status /\ stale' = stale /\ retrying' = retrying /\ spent' = spent
        /\ \A v \in Workers : InFlight(v, m) => call'[v] = call[v]
    BY <1>4 DEF AnnounceStep, Announce, Reopen, Goto, Return, InFlight, TypeOK
  <2> QED BY <1>a, <1>b, <1>c, <2>1, OtherRow, NoLife
<1>5. ASSUME NEW p \in Procs, Crash(p)
      PROVE  Paid(m)
  BY <1>5, <1>a, <1>b, SpendCounts, PaidLife DEF Crash
<1>6. ASSUME NEW h \in Hooks, BounceStep(h)
      PROVE  Paid(m)
  <2>1. /\ stale' = stale /\ retrying' = retrying /\ spent' = spent
        /\ \A v \in Workers : InFlight(v, m) => call'[v] = call[v]
        /\ status'[m] = status[m] \/ status'[m] = "bounced"
    BY <1>6, ConstantsAssumption DEF BounceStep, BounceArrives, BounceUnmatched,
       MarkBounced, Goto, Return, InFlight, TypeOK
  <2>2. RowLives(m)' => RowLives(m)
    BY <1>a, <2>1, OtherRow DEF RowLives
  <2> QED BY <1>a, <1>b, <1>c, <2>1, <2>2, NoLife
<1>7. ASSUME NEW c \in Consoles, NEW n \in Messages, RetryChecksAddress(c, n)
      PROVE  Paid(m)
  <2>1. /\ call' = call /\ status' = status /\ stale' = stale
        /\ Excess' = Excess + 1
        /\ \A d \in Consoles \ {c} : retrying'[d] = retrying[d]
    BY <1>7, SpendCounts DEF RetryChecksAddress, TypeOK
  <2>2. OpenRetries(m)' \subseteq OpenRetries(m) \cup {c}
    BY <2>1 DEF OpenRetries
  <2> QED BY <1>a, <1>d, <2>1, <2>2, RetryBegins
<1>8. ASSUME NEW c \in Consoles, RetryQueues(c)
      PROVE  Paid(m)
  <2>1. /\ call' = call /\ stale' = stale /\ spent' = spent
        /\ \A d \in Consoles \ {c} : retrying'[d] = retrying[d]
        /\ retrying'[c] = NoMessage
    BY <1>8 DEF RetryQueues, TypeOK
  <2>2. OpenRetries(m)' \subseteq OpenRetries(m) \ {c}
    BY <2>1, ConstantsAssumption DEF OpenRetries
  <2>3. CASE retrying[c] = m
    <3>1. c \in OpenRetries(m)
      BY <2>3 DEF OpenRetries
    <3> QED BY <1>a, <1>c, <2>1, <2>2, <3>1, RetryGivesLife
  <2>4. CASE retrying[c] # m
    <3>1. status'[m] = status[m]
      BY <1>8, <2>4 DEF RetryQueues, TypeOK
    <3>2. RowLives(m)' => RowLives(m)
      BY <1>d, <2>1, <3>1
    <3> QED BY <1>a, <1>c, <2>1, <2>2, <3>2, NoLife
  <2> QED BY <2>3, <2>4
<1>9. ASSUME NEW n \in Messages, BecomeDue(n) \/ Cancel(n)
      PROVE  Paid(m)
  <2>1. /\ call' = call /\ retrying' = retrying /\ spent' = spent
        /\ stale'[m] => stale[m]
        /\ status'[m] = status[m] \/ status'[m] = "cancelled"
    BY <1>9 DEF BecomeDue, Cancel, CancelRow, TypeOK
  <2> QED BY <1>a, <1>b, <1>c, <1>d, <2>1, NoLife
<1>10. ASSUME NEW n \in Messages, Stall(n)
       PROVE  Paid(m)
  <2>1. call' = call /\ retrying' = retrying /\ status' = status
    BY <1>10 DEF Stall
  <2>2. CASE Spend("slow")
    BY <1>a, <1>b, <2>1, <2>2, SpendCounts, PaidLife
  <2>3. CASE ~Spend("slow")
    <3>1. spent' = spent /\ \A w \in Workers : ~InFlight(w, n)
      BY <1>10, <2>3 DEF Stall
    <3>2. RowLives(m)' => RowLives(m)
      <4>1. CASE n = m
        BY <1>10, <2>1, <3>1, <4>1 DEF Stall, RowLives, Held
      <4>2. CASE n # m
        BY <1>10, <1>d, <2>1, <4>2 DEF Stall, TypeOK
      <4> QED BY <4>1, <4>2
    <3> QED BY <1>a, <1>b, <1>c, <2>1, <3>1, <3>2, NoLife
  <2> QED BY <2>2, <2>3
<1>11. CASE ReclaimStalled
  <2>1. /\ call' = call /\ retrying' = retrying /\ spent' = spent
        /\ stale'[m] => stale[m]
        /\ status'[m] = status[m] \/ (status[m] = "sending" /\ stale[m])
    BY <1>11 DEF ReclaimStalled, Stalled, TypeOK
  <2>2. RowLives(m)' => RowLives(m)
    BY <1>d, <2>1 DEF RowLives
  <2> QED BY <1>a, <1>b, <1>c, <2>1, <2>2, NoLife
<1>12. ASSUME SetMode \/ (\E a \in Addresses : LiftSuppression(a)) \/ UNCHANGED vars
       PROVE  Paid(m)
  <2>1. /\ call' = call /\ retrying' = retrying /\ spent' = spent
        /\ stale' = stale /\ status' = status
    BY <1>12 DEF SetMode, LiftSuppression, vars
  <2> QED BY <1>a, <1>b, <1>c, <1>d, <2>1, NoLife
<1> QED
  BY <1>1, <1>2, <1>3, <1>4, <1>5, <1>6, <1>7, <1>8, <1>9, <1>10, <1>11, <1>12
  DEF Next, OperatorStep, RowStep

\* No step narrows a row's budget, and a retry puts it where the attempts are.
LEMMA BudgetsGrow ==
  ASSUME TypeOK, BudgetInv, [Next]_vars, NEW m \in Messages
  PROVE  /\ maxAttempts[m] <= maxAttempts'[m]
         /\ \/ maxAttempts'[m] = maxAttempts[m]
            \/ maxAttempts'[m] = attempts[m] + MaxAttempts
<1>1. CASE \E c \in Consoles : RetryQueues(c)
  <2>1. maxAttempts'[m] \in {maxAttempts[m], attempts[m] + MaxAttempts}
    BY <1>1, ConstantsAssumption DEF RetryQueues, TypeOK
  <2>2. maxAttempts[m] \in Nat /\ maxAttempts[m] <= attempts[m] + MaxAttempts
    BY DEF TypeOK, BudgetInv
  <2> QED BY <2>1, <2>2
<1>2. CASE ~ \E c \in Consoles : RetryQueues(c)
  <2>1. maxAttempts' = maxAttempts
    BY <1>2 DEF Next, ReplyStep, ReplyChecksAddress, QueueOutbound, ReplyMarksTicket,
       ReplyCrash, Claim, DeliverStep, NoTransport, KillSwitchStops, StartAttempt,
       Accept, Refuse, MarkSent, RecordMessageId, RecordingFails, SuppressDeadMailbox,
       Defer, Fail, AnnounceStep, Announce, Reopen, Crash, BounceStep, BounceArrives,
       BounceUnmatched, MarkBounced, OperatorStep, RetryChecksAddress,
       RowStep, BecomeDue, Stall, Cancel, CancelRow, LiftSuppression, ReclaimStalled,
       SetMode, vars
  <2> QED BY <2>1 DEF TypeOK
<1> QED BY <1>1, <1>2

\* A claim is the life of the row going over to the call, and it goes out when the
\* attempt is the last the budget has.
LEMMA ClaimTakesALife ==
  ASSUME TypeOK, BudgetInv, NEW w \in Workers, NEW m \in Messages, Claim(w, m)
  PROVE  /\ IsFiniteSet(LiveCalls(m))' /\ IsFiniteSet(OpenRetries(m))'
         /\ Lives(m)' <= 1 + Excess'
         /\ attempts'[m] + Lives(m)' <= maxAttempts'[m] + Excess'
<1>1. /\ attempts[m] \in Nat /\ maxAttempts[m] \in Nat /\ Excess \in Nat
      /\ attempts'[m] = attempts[m] + 1 /\ maxAttempts'[m] = maxAttempts[m]
      /\ Excess' = Excess
      /\ status[m] = "queued" /\ status'[m] = "sending" /\ ~stale'[m]
      /\ OpenRetries(m)' = OpenRetries(m)
  BY ExcessType DEF Claim, TypeOK, Excess, OpenRetries
<1>2. /\ call[w].pc = "idle"
      /\ call'[w].pc = "claimed" /\ call'[w].msg = m
      /\ call'[w].attempt = attempts[m] + 1 /\ call'[w].max = maxAttempts[m]
      /\ \A v \in Workers \ {w} : call'[v] = call[v]
  BY DEF Claim, TypeOK
<1>3. RowLives(m) /\ ~RowLives(m)'
  <2>1. Held(m)'
    BY <1>1, <1>2 DEF Held, InFlight
  <2> QED BY <1>1, <2>1 DEF RowLives
<1>4. /\ IsFiniteSet(LiveCalls(m)) /\ Cardinality(LiveCalls(m)) \in Nat
      /\ IsFiniteSet(OpenRetries(m)) /\ Cardinality(OpenRetries(m)) \in Nat
      /\ Lives(m) <= 1 + Excess
      /\ attempts[m] + Lives(m) <= maxAttempts[m] + Excess
  BY FS_CardinalityType DEF BudgetInv
<1>5. Lives(m) = Cardinality(LiveCalls(m)) + Cardinality(OpenRetries(m)) + 1
  BY <1>3 DEF Lives
<1>6. Lives(m)' = Cardinality(LiveCalls(m)') + Cardinality(OpenRetries(m))
  <2>1. Lives(m)' = Cardinality(LiveCalls(m)') + Cardinality(OpenRetries(m)') + 0
    BY <1>3 DEF Lives
  <2>2. CASE attempts[m] + 1 < maxAttempts[m]
    <3>1. LiveCalls(m)' \subseteq LiveCalls(m) \cup {w}
      BY <1>2 DEF LiveCalls, InFlight
    <3>2. Cardinality(LiveCalls(m)') \in Nat
      BY <1>4, <3>1, OneThingMore
    <3> QED BY <1>1, <1>4, <2>1, <3>2
  <2>3. CASE ~(attempts[m] + 1 < maxAttempts[m])
    <3>1. LiveCalls(m)' \subseteq LiveCalls(m)
      BY <1>2, <2>3 DEF LiveCalls, InFlight
    <3>2. Cardinality(LiveCalls(m)') \in Nat
      BY <1>4, <3>1, FewerThings
    <3> QED BY <1>1, <1>4, <2>1, <3>2
  <2> QED BY <2>2, <2>3
<1>7. CASE attempts[m] + 1 < maxAttempts[m]
  <2>1. LiveCalls(m)' \subseteq LiveCalls(m) \cup {w}
    BY <1>2 DEF LiveCalls, InFlight
  <2>2. /\ IsFiniteSet(LiveCalls(m)') /\ Cardinality(LiveCalls(m)') \in Nat
        /\ Cardinality(LiveCalls(m)') <= Cardinality(LiveCalls(m)) + 1
    BY <1>4, <2>1, OneThingMore
  <2>3. IsFiniteSet(LiveCalls(m))' /\ IsFiniteSet(OpenRetries(m))'
    BY <1>1, <1>4, <2>2
  <2>4. Lives(m)' \in Nat /\ Lives(m)' <= Lives(m) /\ Lives(m) \in Nat
    BY <1>4, <1>5, <1>6, <2>2
  <2> HIDE DEF Lives, Excess
  <2> QED BY <1>1, <1>4, <1>7, <2>3, <2>4
<1>8. CASE ~(attempts[m] + 1 < maxAttempts[m])
  <2>1. LiveCalls(m)' \subseteq LiveCalls(m)
    BY <1>2, <1>8 DEF LiveCalls, InFlight
  <2>2. /\ IsFiniteSet(LiveCalls(m)') /\ Cardinality(LiveCalls(m)') \in Nat
        /\ Cardinality(LiveCalls(m)') <= Cardinality(LiveCalls(m))
    BY <1>4, <2>1, FewerThings
  <2>3. IsFiniteSet(LiveCalls(m))' /\ IsFiniteSet(OpenRetries(m))'
    BY <1>1, <1>4, <2>2
  <2>4. Lives(m)' \in Nat /\ Lives(m)' + 1 <= Lives(m) /\ Lives(m) \in Nat
    BY <1>4, <1>5, <1>6, <2>2
  <2> QED BY <1>1, <1>4, <2>3, <2>4
<1> QED BY <1>7, <1>8

\* Every step keeps the lives of every row within the bounds that were spent.
LEMMA BudgetInvStep ==
  ASSUME TypeOK, BudgetInv, [Next]_vars
  PROVE  BudgetInv'
<1>1. ASSUME NEW m \in Messages
      PROVE  /\ IsFiniteSet(LiveCalls(m))' /\ IsFiniteSet(OpenRetries(m))'
             /\ Lives(m)' <= 1 + Excess'
             /\ attempts'[m] + Lives(m)' <= maxAttempts'[m] + Excess'
             /\ maxAttempts'[m] <= attempts'[m] + MaxAttempts
  <2>1. /\ maxAttempts[m] <= maxAttempts'[m]
        /\ \/ maxAttempts'[m] = maxAttempts[m]
           \/ maxAttempts'[m] = attempts[m] + MaxAttempts
    BY BudgetsGrow
  <2>2. /\ attempts[m] \in Nat /\ maxAttempts[m] \in Nat /\ MaxAttempts \in Nat
        /\ maxAttempts[m] <= attempts[m] + MaxAttempts
        /\ Lives(m) <= 1 + Excess
        /\ attempts[m] + Lives(m) <= maxAttempts[m] + Excess
        /\ IsFiniteSet(LiveCalls(m)) /\ IsFiniteSet(OpenRetries(m))
    BY ConstantsAssumption DEF TypeOK, BudgetInv
  <2>3. CASE \A w \in Workers : ~Claim(w, m)
    <3>1. attempts'[m] = attempts[m]
      BY <2>3, LiveCallsShrink
    <3>2. /\ IsFiniteSet(LiveCalls(m))' /\ IsFiniteSet(OpenRetries(m))'
          /\ Lives(m) \in Nat /\ Lives(m)' \in Nat
          /\ Excess \in Nat /\ Excess' \in Nat
          /\ Lives(m)' + Excess <= Lives(m) + Excess'
      BY <2>2, <2>3, LivesArePaid DEF Paid
    <3>3. maxAttempts'[m] \in Nat
      BY <2>1, <2>2
    <3> QED BY <2>1, <2>2, <3>1, <3>2, <3>3
  <2>4. ASSUME NEW w \in Workers, Claim(w, m)
        PROVE  /\ IsFiniteSet(LiveCalls(m))' /\ IsFiniteSet(OpenRetries(m))'
               /\ Lives(m)' <= 1 + Excess'
               /\ attempts'[m] + Lives(m)' <= maxAttempts'[m] + Excess'
               /\ maxAttempts'[m] <= attempts'[m] + MaxAttempts
    <3>1. attempts'[m] = attempts[m] + 1 /\ maxAttempts'[m] = maxAttempts[m]
      BY <2>4 DEF Claim, TypeOK
    <3> QED BY <2>2, <2>4, <3>1, ClaimTakesALife
  <2> QED BY <2>3, <2>4
<1>2. ASSUME NEW w \in Workers, NEW m \in Messages, InFlight(w, m)'
      PROVE  call'[w].max <= maxAttempts'[m]
  <2>1. /\ maxAttempts[m] \in Nat /\ maxAttempts'[m] \in Int
        /\ maxAttempts[m] <= maxAttempts'[m] /\ call[w].max \in Nat
    <3>1. maxAttempts[m] \in Nat /\ attempts[m] \in Nat /\ MaxAttempts \in Nat
      BY ConstantsAssumption DEF TypeOK
    <3>2. call[w].max \in Nat
      BY DEF TypeOK, Calls
    <3> QED BY <3>1, <3>2, BudgetsGrow
  <2>2. CASE \A v \in Workers : ~Claim(v, m)
    <3>1. InFlight(w, m) /\ call'[w].max = call[w].max
      BY <1>2, <2>2, LiveCallsShrink
    <3>2. call[w].max <= maxAttempts[m]
      BY <3>1 DEF BudgetInv
    <3> QED BY <2>1, <3>1, <3>2
  <2>3. ASSUME NEW v \in Workers, Claim(v, m)
        PROVE  call'[w].max <= maxAttempts'[m]
    <3>1. maxAttempts' = maxAttempts
      BY <2>3 DEF Claim
    <3>2. CASE w = v
      BY <2>1, <2>3, <3>1, <3>2 DEF Claim, TypeOK
    <3>3. CASE w # v
      BY <1>2, <2>3, <3>1, <3>3 DEF Claim, TypeOK, InFlight, BudgetInv
    <3> QED BY <3>2, <3>3
  <2> QED BY <2>2, <2>3
<1> QED BY <1>1, <1>2 DEF BudgetInv

\* A row never tries more often than its max_attempts, save once for every crash,
\* slow send or retry: deferOutbound alone keeps the count, and reclaimStalledOutbound,
\* which does not look at it, and a retry under a live call each add one at most.
THEOREM BudgetHolds == Spec => []BudgetAccounted
<1>1. Init => BudgetInv
  <2> SUFFICES ASSUME Init PROVE BudgetInv
    OBVIOUS
  <2>1. /\ \A w \in Workers : \A m \in Messages : ~InFlight(w, m)
        /\ Excess = 0 /\ MaxAttempts \in Nat \ {0}
    BY ConstantsAssumption DEF Init, InFlight, IdleCall, Excess
  <2>2. ASSUME NEW m \in Messages
        PROVE  /\ LiveCalls(m) = {} /\ OpenRetries(m) = {} /\ RowLives(m)
               /\ attempts[m] = 0 /\ maxAttempts[m] = MaxAttempts
    BY <2>1, ConstantsAssumption DEF Init, LiveCalls, OpenRetries, RowLives
  <2>3. ASSUME NEW m \in Messages
        PROVE  Lives(m) = 1
    BY <2>2, FS_EmptySet DEF Lives
  <2> QED BY <2>1, <2>2, <2>3, FS_EmptySet DEF BudgetInv
<1>2. TypeOK /\ BudgetInv /\ [Next]_vars => BudgetInv'
  BY BudgetInvStep
<1>3. TypeOK /\ BudgetInv => BudgetAccounted
  <2> SUFFICES ASSUME TypeOK, BudgetInv, NEW m \in Messages
               PROVE  attempts[m] <= maxAttempts[m] + Excess
    BY DEF BudgetAccounted, Excess, TypeOK
  <2>1. /\ IsFiniteSet(LiveCalls(m)) /\ IsFiniteSet(OpenRetries(m))
        /\ attempts[m] + Lives(m) <= maxAttempts[m] + Excess
        /\ attempts[m] \in Nat /\ maxAttempts[m] \in Nat /\ Excess \in Nat
    BY ExcessType DEF BudgetInv, TypeOK
  <2>2. Lives(m) \in Nat
    BY <2>1, FS_CardinalityType DEF Lives
  <2> QED BY <2>1, <2>2
<1> QED BY <1>1, <1>2, <1>3, TypeCorrect, PTL DEF Spec
=============================================================================
