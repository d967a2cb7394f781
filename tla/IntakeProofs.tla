--------------------------- MODULE IntakeProofs ---------------------------
(***************************************************************************)
(* What TLAPS proves of Intake, for any messages, references, hooks,       *)
(* polls, sweeps and merges: no message is acknowledged that is not kept,  *)
(* and no new ticket is forgotten but by a call that died.                 *)
(***************************************************************************)
EXTENDS Intake, TLAPS

CallType ==
  call \in [Callers -> [pc : {"idle", "find", "file", "append", "move", "create",
                              "record", "ring"},
                        msg : Messages \cup {None}, to : Messages \cup {None},
                        was : TicketStatus \cup {"none"}]]

\* Where a call can go by Goto and Return keeps the calls well typed.
LEMMA GotoType ==
  ASSUME IntakeTypeOK, NEW c \in Callers, call[c].pc # "idle",
         NEW l \in {"find", "file", "append", "move", "create", "record", "ring"},
         Goto(c, l)
  PROVE  /\ CallType'
         /\ \A d \in Callers : call'[d].pc # "idle" => call'[d].msg \in Messages
<1>1. CallType /\ \A d \in Callers : call[d].pc # "idle" => call[d].msg \in Messages
  BY DEF IntakeTypeOK, CallType
<1>2. call' = [call EXCEPT ![c] = [call[c] EXCEPT !.pc = l]]
  BY <1>1 DEF Goto, CallType
<1>3. CallType'
  BY <1>1, <1>2 DEF CallType
<1>4. \A d \in Callers : call'[d].msg = call[d].msg /\ (d # c => call'[d].pc = call[d].pc)
  BY <1>1, <1>2 DEF CallType
<1> QED
  BY <1>1, <1>3, <1>4

LEMMA ReturnType ==
  ASSUME IntakeTypeOK, NEW c \in Callers, Return(c)
  PROVE  /\ CallType'
         /\ \A d \in Callers : call'[d].pc # "idle" => call'[d].msg \in Messages
  BY DEF IntakeTypeOK, CallType, Return, IdleCall, TicketStatus

LEMMA SpendType ==
  ASSUME IntakeTypeOK, NEW b \in {"faults", "changes"}, NEW n \in Nat, Spend(b, n)
  PROVE  spent' \in [{"faults", "changes"} -> Nat]
  BY DEF IntakeTypeOK, Spend

LEMMA HeardType ==
  ASSUME IntakeTypeOK
  PROVE  UNION {heard[u] : u \in Messages} \in SUBSET Utterances
  BY DEF IntakeTypeOK

\* setStatus keeps tickets well typed.
LEMMA SetStatusType ==
  ASSUME IntakeTypeOK, NEW t \in Messages, NEW s \in TicketStatus, SetStatus(t, s)
  PROVE  /\ status' \in [Messages -> TicketStatus \cup {"none"}]
         /\ base' \in [Messages -> {Unresolved} \cup SUBSET Utterances]
<1>1. status' \in [Messages -> TicketStatus \cup {"none"}]
  BY DEF IntakeTypeOK, SetStatus
<1>2. base' \in [Messages -> {Unresolved} \cup SUBSET Utterances]
  <2> DEFINE said_so_far == UNION {heard[u] : u \in Messages}
  <2>1. said_so_far \in SUBSET Utterances
    BY HeardType
  <2>2. base \in [Messages -> {Unresolved} \cup SUBSET Utterances]
    BY DEF IntakeTypeOK
  <2>3. base' = [base EXCEPT ![t] = IF s \notin Over THEN Unresolved
                                    ELSE IF @ = Unresolved THEN said_so_far ELSE @]
    BY DEF SetStatus, Stamp
  <2> HIDE DEF said_so_far
  <2> QED
    BY <2>1, <2>2, <2>3
<1> QED
  BY <1>1, <1>2

\* The thread a lookup finds is a ticket's.
LEMMA LocatedType ==
  ASSUME IntakeTypeOK, NEW m \in Messages, NEW t \in Located(m)
  PROVE  t \in Messages
<1>1. CASE t \in ByHeader(m)
  BY <1>1, IntakeAssumption DEF ByHeader, IntakeTypeOK
<1>2. CASE t \in BySubjectTag(m)
  <2>1. \A u \in Messages : Hop(u) \in Messages
    BY DEF Hop, IntakeTypeOK
  <2>2. Tag[m] \in Messages /\ t = Hop(Hop(Hop(Hop(Hop(Tag[m])))))
    BY <1>2, IntakeAssumption DEF BySubjectTag
  <2> QED
    BY <2>1, <2>2
<1> QED
  BY <1>1, <1>2 DEF Located

\* A reply appended to a conversation is an utterance of its ticket.
LEMMA AppendType ==
  ASSUME IntakeTypeOK, NEW m \in Messages, NEW t \in Messages \cup {None},
         said' = [said EXCEPT ![m] = t],
         heard' = [heard EXCEPT ![t] = @ \cup {<<m, t>>}]
  PROVE  /\ said' \in [Messages -> Messages \cup {None}]
         /\ heard' \in [Messages -> SUBSET Utterances]
<1>1. /\ said \in [Messages -> Messages \cup {None}]
      /\ heard \in [Messages -> SUBSET Utterances]
  BY DEF IntakeTypeOK
<1>2. CASE t \in Messages
  <2>1. <<m, t>> \in Utterances
    BY <1>2 DEF Utterances
  <2> QED
    BY <1>1, <1>2, <2>1
<1>3. CASE t \notin Messages
  BY <1>1, <1>3
<1> QED
  BY <1>2, <1>3

\* Every reachable state is well typed.
THEOREM IntakeTypeCorrect == IntakeSpec => []IntakeTypeOK
<1>1. IntakeInit => IntakeTypeOK
  BY IntakeAssumption DEF IntakeInit, IntakeTypeOK, IdleCall, IdleSweep, IdleMerge, TicketStatus
<1>2. IntakeTypeOK /\ [IntakeNext]_intakeVars => IntakeTypeOK'
  <2> SUFFICES ASSUME IntakeTypeOK, [IntakeNext]_intakeVars PROVE IntakeTypeOK'
    OBVIOUS
  <2> USE IntakeAssumption DEF ticketVars, postVars
  <2>1. ASSUME NEW c \in Callers, NEW m \in Messages, Deliver(c, m) PROVE IntakeTypeOK'
    <3>1. PICK dropped \in BOOLEAN : Dispatch(c, m, dropped)
      BY <2>1 DEF Deliver, HookReceives, PollReads, IsReport, IsAutoReply, Forms
    <3>2. spent' \in [{"faults", "changes"} -> Nat]
      BY <2>1, SpendType DEF Deliver, HookReceives, PollReads, IntakeTypeOK
    <3>3. /\ CallType'
          /\ \A d \in Callers : call'[d].pc # "idle" => call'[d].msg \in Messages
      <4>1. CallType /\ \A d \in Callers : call[d].pc # "idle" => call[d].msg \in Messages
        BY DEF IntakeTypeOK, CallType
      <4>2. CASE UNCHANGED call
        BY <4>1, <4>2 DEF CallType
      <4>3. CASE call' = [call EXCEPT ![c] = [IdleCall EXCEPT !.pc = "find", !.msg = m]]
        BY <4>1, <4>3 DEF CallType, IdleCall
      <4> QED
        BY <3>1, <4>2, <4>3 DEF Dispatch
    <3>4. acked' \subseteq Messages
      BY <3>1 DEF Dispatch, IntakeTypeOK
    <3> QED
      BY <3>1, <3>2, <3>3, <3>4 DEF Dispatch, IntakeTypeOK, CallType
  <2>2. ASSUME NEW c \in Callers, CallStep(c) PROVE IntakeTypeOK'
    <3> DEFINE m == call[c].msg
    <3>0. call[c].pc # "idle" /\ m \in Messages
      BY <2>2 DEF CallStep, Find, RecordReply, AppendReply, MoveTicket, Create,
                  RecordOpening, Ring, IntakeTypeOK
    <3>1. CASE Find(c)
      <4>1. CASE Located(m) = {}
        BY <3>0, <3>1, <4>1, GotoType DEF Find, IntakeTypeOK, CallType
      <4>2. CASE Located(m) # {}
        <5>1. PICK t \in Located(m) :
                call' = [call EXCEPT ![c] = [pc |-> "file", msg |-> m, to |-> t,
                                             was |-> status[t]]]
          BY <3>1, <4>2 DEF Find
        <5>2. t \in Messages
          BY <3>0, LocatedType
        <5>3. /\ CallType'
              /\ \A d \in Callers : call'[d].pc # "idle" => call'[d].msg \in Messages
          BY <3>0, <5>1, <5>2 DEF IntakeTypeOK, CallType
        <5> QED
          BY <3>1, <5>3 DEF Find, IntakeTypeOK, CallType
      <4> QED
        BY <4>1, <4>2
    <3>2. CASE RecordReply(c)
      <4>1. filed' \in [Messages -> Messages \cup {None}]
        BY <3>0, <3>2 DEF RecordReply, IntakeTypeOK
      <4> QED
        BY <3>0, <3>2, <4>1, GotoType DEF RecordReply, IntakeTypeOK, CallType
    <3>3. CASE AppendReply(c)
      <4>1. /\ said' \in [Messages -> Messages \cup {None}]
            /\ heard' \in [Messages -> SUBSET Utterances]
        <5> DEFINE t == call[c].to
        <5>1. t \in Messages \cup {None} /\ said \in [Messages -> Messages \cup {None}]
              /\ heard \in [Messages -> SUBSET Utterances]
          BY DEF IntakeTypeOK
        <5>2. CASE UNCHANGED <<said, heard>>
          BY <5>1, <5>2
        <5>3. CASE said' = [said EXCEPT ![m] = t] /\ heard' = [heard EXCEPT ![t] = @ \cup {<<m, t>>}]
          BY <3>0, <5>1, <5>3, AppendType
        <5> QED
          BY <3>3, <5>2, <5>3 DEF AppendReply
      <4>2. acked' \subseteq Messages /\ failed' \subseteq Messages
        BY <3>0, <3>3 DEF AppendReply, Acknowledge, Throw, IntakeTypeOK
      <4>3. /\ CallType'
            /\ \A d \in Callers : call'[d].pc # "idle" => call'[d].msg \in Messages
        BY <3>0, <3>3, GotoType, ReturnType DEF AppendReply, Acknowledge, Throw
      <4> QED
        BY <3>3, <4>1, <4>2, <4>3 DEF AppendReply, IntakeTypeOK, CallType
    <3>4. CASE MoveTicket(c)
      <4> DEFINE t == call[c].to
      <4>1. /\ CallType'
            /\ \A d \in Callers : call'[d].pc # "idle" => call'[d].msg \in Messages
        BY <3>4, ReturnType DEF MoveTicket, Acknowledge
      <4>2. acked' \subseteq Messages
        BY <3>0, <3>4 DEF MoveTicket, Acknowledge, IntakeTypeOK
      <4>3. /\ status' \in [Messages -> TicketStatus \cup {"none"}]
            /\ base' \in [Messages -> {Unresolved} \cup SUBSET Utterances]
        <5> DEFINE Typed == /\ status' \in [Messages -> TicketStatus \cup {"none"}]
                            /\ base' \in [Messages -> {Unresolved} \cup SUBSET Utterances]
        <5>1. UNCHANGED ticketVars \/ \E s \in TicketStatus : SetStatus(t, s)
          BY <3>4 DEF MoveTicket, TicketStatus
        <5>2. CASE UNCHANGED ticketVars
          BY <5>2 DEF IntakeTypeOK
        <5> HIDE DEF t
        <5>3. ASSUME NEW s \in TicketStatus, SetStatus(t, s), t \in Messages PROVE Typed
          BY <5>3, SetStatusType
        <5>4. ASSUME NEW s \in TicketStatus, SetStatus(t, s), t \notin Messages PROVE Typed
          BY <5>4 DEF SetStatus, Stamp, IntakeTypeOK
        <5> QED
          BY <5>1, <5>2, <5>3, <5>4
      <4> QED
        BY <3>4, <4>1, <4>2, <4>3 DEF MoveTicket, IntakeTypeOK, CallType
    <3>5. CASE Create(c)
      <4>1. status' \in [Messages -> TicketStatus \cup {"none"}] /\ acked' \subseteq Messages
        BY <3>0, <3>5 DEF Create, Acknowledge, IntakeTypeOK, TicketStatus
      <4>2. /\ CallType'
            /\ \A d \in Callers : call'[d].pc # "idle" => call'[d].msg \in Messages
        BY <3>0, <3>5, GotoType, ReturnType DEF Create, Acknowledge
      <4> QED
        BY <3>5, <4>1, <4>2 DEF Create, IntakeTypeOK, CallType
    <3>6. CASE RecordOpening(c)
      <4>1. /\ filed' \in [Messages -> Messages \cup {None}]
            /\ heard' \in [Messages -> SUBSET Utterances]
        BY <3>0, <3>6 DEF RecordOpening, IntakeTypeOK, Utterances
      <4> QED
        BY <3>0, <3>6, <4>1, GotoType DEF RecordOpening, IntakeTypeOK, CallType
    <3>7. CASE Ring(c)
      <4>1. /\ job' \in [Messages -> {"none", "waiting", "active", "done"}]
            /\ noted' \subseteq Messages /\ acked' \subseteq Messages
        BY <3>0, <3>7 DEF Ring, Acknowledge, IntakeTypeOK
      <4>2. spent' \in [{"faults", "changes"} -> Nat]
        BY <3>7, SpendType DEF Ring, IntakeTypeOK
      <4>3. /\ CallType'
            /\ \A d \in Callers : call'[d].pc # "idle" => call'[d].msg \in Messages
        BY <3>7, ReturnType DEF Ring, Acknowledge
      <4> QED
        BY <3>7, <4>1, <4>2, <4>3 DEF Ring, IntakeTypeOK, CallType
    <3> QED
      BY <2>2, <3>1, <3>2, <3>3, <3>4, <3>5, <3>6, <3>7 DEF CallStep
  <2>3. ASSUME NEW c \in Callers, Stop(c) PROVE IntakeTypeOK'
    <3>1. /\ CallType'
          /\ \A d \in Callers : call'[d].pc # "idle" => call'[d].msg \in Messages
      BY <2>3, ReturnType DEF Stop, Throw
    <3>2. spent' \in [{"faults", "changes"} -> Nat]
      BY <2>3, SpendType DEF Stop
    <3>3. call[c].msg \in Messages
      BY <2>3 DEF Stop, IntakeTypeOK
    <3>4. lost' \subseteq Messages /\ failed' \subseteq Messages
      BY <2>3, <3>3 DEF Stop, Throw, IntakeTypeOK
    <3> QED
      BY <2>3, <3>1, <3>2, <3>4 DEF Stop, IntakeTypeOK, CallType
  <2>4. ASSUME NEW p \in Mergers, NEW a \in Messages, NEW b \in Messages, MergeReads(p, a, b)
        PROVE IntakeTypeOK'
    <3>1. spent' \in [{"faults", "changes"} -> Nat]
      BY <2>4, SpendType DEF MergeReads
    <3>2. /\ merge' \in [Mergers -> [from : Messages \cup {None}, into : Messages \cup {None}]]
          /\ \A q \in Mergers : merge'[q] # IdleMerge => merge'[q].from \in Messages
                                                      /\ merge'[q].into \in Messages
      BY <2>4 DEF MergeReads, IntakeTypeOK
    <3> QED
      BY <2>4, <3>1, <3>2 DEF MergeReads, IntakeTypeOK
  <2>5. ASSUME NEW p \in Mergers, MergeCommits(p) PROVE IntakeTypeOK'
    <3>1. merge[p].from \in Messages /\ merge[p].into \in Messages
      BY <2>5 DEF MergeCommits, IntakeTypeOK
    <3>2. /\ filed' \in [Messages -> Messages \cup {None}]
          /\ mergedInto' \in [Messages -> Messages \cup {None}]
          /\ status' \in [Messages -> TicketStatus \cup {"none"}]
      BY <2>5, <3>1 DEF MergeCommits, IntakeTypeOK, TicketStatus
    <3>3. heard' \in [Messages -> SUBSET Utterances]
      BY <2>5, <3>1 DEF MergeCommits, IntakeTypeOK
    <3>4. /\ merge' \in [Mergers -> [from : Messages \cup {None}, into : Messages \cup {None}]]
          /\ \A q \in Mergers : merge'[q] # IdleMerge => merge'[q].from \in Messages
                                                      /\ merge'[q].into \in Messages
      BY <2>5 DEF MergeCommits, IntakeTypeOK, IdleMerge
    <3> QED
      BY <2>5, <3>2, <3>3, <3>4 DEF MergeCommits, IntakeTypeOK
  <2>6. ASSUME NEW t \in Messages,
               TriageStep(t) \/ StallTriage(t) \/ Retriage(t) \/ ChangeStatus(t)
        PROVE IntakeTypeOK'
    <3>1. /\ status' \in [Messages -> TicketStatus \cup {"none"}]
          /\ base' \in [Messages -> {Unresolved} \cup SUBSET Utterances]
      <4>1. CASE \E s \in TicketStatus : SetStatus(t, s)
        BY <4>1, SetStatusType
      <4>2. CASE UNCHANGED ticketVars
        BY <4>2 DEF IntakeTypeOK
      <4>3. CASE status' = [status EXCEPT ![t] = "triaged"] /\ UNCHANGED base
        BY <4>3 DEF IntakeTypeOK, TicketStatus
      <4> QED
        BY <2>6, <4>1, <4>2, <4>3
        DEF TriageStep, StartTriage, EndTriage, StallTriage, Retriage, ChangeStatus, TicketStatus
    <3>2. job' \in [Messages -> {"none", "waiting", "active", "done"}]
      BY <2>6 DEF TriageStep, StartTriage, EndTriage, StallTriage, Retriage, ChangeStatus, IntakeTypeOK
    <3>3. spent' \in [{"faults", "changes"} -> Nat]
      BY <2>6, SpendType
      DEF TriageStep, StartTriage, EndTriage, StallTriage, Retriage, ChangeStatus, IntakeTypeOK
    <3> QED
      BY <2>6, <3>1, <3>2, <3>3
      DEF TriageStep, StartTriage, EndTriage, StallTriage, Retriage, ChangeStatus, IntakeTypeOK
  <2>7. ASSUME NEW s \in Sweepers, NEW t \in Messages, SelectDue(s, t) PROVE IntakeTypeOK'
    <3>1. /\ sweep' \in [Sweepers -> [pc : {"idle", "check", "close", "reopen"},
                                      at : Messages \cup {None},
                                      base : {Unresolved} \cup SUBSET Utterances]]
          /\ \A r \in Sweepers : sweep'[r].pc # "idle" => sweep'[r].at \in Messages
      BY <2>7 DEF SelectDue, IntakeTypeOK
    <3> QED
      BY <2>7, <3>1 DEF SelectDue, IntakeTypeOK
  <2>8. ASSUME NEW s \in Sweepers, SweepStep(s) \/ SweepFails(s) PROVE IntakeTypeOK'
    <3>1. /\ sweep' \in [Sweepers -> [pc : {"idle", "check", "close", "reopen"},
                                      at : Messages \cup {None},
                                      base : {Unresolved} \cup SUBSET Utterances]]
          /\ \A r \in Sweepers : sweep'[r].pc # "idle" => sweep'[r].at \in Messages
      <4> DEFINE Points == [pc : {"idle", "check", "close", "reopen"},
                            at : Messages \cup {None},
                            base : {Unresolved} \cup SUBSET Utterances]
      <4>1. sweep \in [Sweepers -> Points]
            /\ \A r \in Sweepers : sweep[r].pc # "idle" => sweep[r].at \in Messages
        BY DEF IntakeTypeOK
      <4>2. CASE sweep' = [sweep EXCEPT ![s] = IdleSweep]
        <5>1. IdleSweep \in Points /\ IdleSweep.pc = "idle"
          BY DEF IdleSweep
        <5> HIDE DEF Points
        <5>2. sweep' \in [Sweepers -> Points]
              /\ \A r \in Sweepers : sweep'[r] = sweep[r] \/ sweep'[r] = IdleSweep
          BY <4>1, <4>2, <5>1
        <5> QED
          BY <4>1, <5>1, <5>2 DEF Points
      <4>3. ASSUME NEW pc \in {"close", "reopen"}, sweep[s].pc = "check",
                   sweep' = [sweep EXCEPT ![s].pc = pc]
            PROVE  /\ sweep' \in [Sweepers -> Points]
                   /\ \A r \in Sweepers : sweep'[r].pc # "idle" => sweep'[r].at \in Messages
        BY <4>1, <4>3
      <4>4. CheckReplies(s) => \E pc \in {"close", "reopen"} :
                                 sweep[s].pc = "check" /\ sweep' = [sweep EXCEPT ![s].pc = pc]
        BY DEF CheckReplies
      <4> QED
        BY <2>8, <4>2, <4>3, <4>4 DEF SweepStep, FollowUp, SweepFails
    <3>2. CASE CheckReplies(s)
      BY <3>1, <3>2 DEF CheckReplies, IntakeTypeOK
    <3>3. CASE FollowUp(s)
      <4>1. sweep[s].at \in Messages
        BY <3>3 DEF FollowUp, IntakeTypeOK
      <4>2. overrun' \subseteq Messages
        BY <3>3, <4>1 DEF FollowUp, IntakeTypeOK
      <4>3. \E x \in TicketStatus : SetStatus(sweep[s].at, x)
        BY <3>3 DEF FollowUp, TicketStatus
      <4> QED
        BY <3>1, <3>3, <4>1, <4>2, <4>3, SetStatusType DEF FollowUp, IntakeTypeOK
    <3>4. CASE SweepFails(s)
      BY <3>1, <3>4, SpendType DEF SweepFails, IntakeTypeOK
    <3> QED
      BY <2>8, <3>2, <3>3, <3>4 DEF SweepStep
  <2>9. CASE UNCHANGED intakeVars
    BY <2>9 DEF intakeVars, IntakeTypeOK
  <2> QED
    BY <2>1, <2>2, <2>3, <2>4, <2>5, <2>6, <2>7, <2>8, <2>9 DEF IntakeNext
<1> QED
  BY <1>1, <1>2, PTL DEF IntakeSpec

-----------------------------------------------------------------------------
(* What is acknowledged, and what is new.                                  *)

\* A call knows what it has done: the thread it was given, the reply it appended,
\* the ticket it opened.
CallsAreTrue ==
  \A c \in Callers :
    /\ call[c].pc \in {"file", "append", "move"} => call[c].to # None
    /\ call[c].pc = "move" => said[call[c].msg] # None
    /\ call[c].pc \in {"record", "ring"} => status[call[c].msg] # "none"

MergedIsNotNew ==
  \A t \in Messages : mergedInto[t] # None => status[t] \notin {"new", "none"}

IntakeInv == IntakeTypeOK /\ CallsAreTrue /\ MergedIsNotNew /\ AckedIsKept /\ NewIsAccountedFor

\* Nothing undoes a ticket or a reply, and only Create makes a ticket new.
Advances ==
  /\ \A m \in Messages : said[m] # None => said'[m] # None
  /\ \A t \in Messages : status[t] # "none" => status'[t] # "none"
  /\ \A t \in Messages : status'[t] = "new" => status[t] = "new"

LEMMA SetStatusAdvances ==
  ASSUME IntakeTypeOK, NEW t \in Messages \cup {None}, NEW s \in TicketStatus \ {"new"},
         SetStatus(t, s), UNCHANGED said
  PROVE  Advances
  BY DEF IntakeTypeOK, SetStatus, Advances, TicketStatus

\* A step of nobody's call keeps what the calls know and what is acknowledged.
LEMMA OthersAdvance ==
  ASSUME IntakeInv, Advances, UNCHANGED <<call, acked>>
  PROVE  CallsAreTrue' /\ AckedIsKept'
<1>1. CallsAreTrue'
  BY DEF IntakeInv, CallsAreTrue, Advances, IntakeTypeOK
<1>2. AckedIsKept'
  BY IntakeAssumption DEF IntakeInv, AckedIsKept, Kept, Advances
<1> QED
  BY <1>1, <1>2

\* And so does a call's own step, if it ends knowing what it claims.
LEMMA CallAdvances ==
  ASSUME IntakeInv, Advances, NEW c \in Callers,
         \A d \in Callers \ {c} : call'[d] = call[d],
         /\ call'[c].pc \in {"file", "append", "move"} => call'[c].to # None
         /\ call'[c].pc = "move" => said'[call'[c].msg] # None
         /\ call'[c].pc \in {"record", "ring"} => status'[call'[c].msg] # "none",
         \A m \in acked' \ acked : m \in Written => Kept(m)'
  PROVE  CallsAreTrue' /\ AckedIsKept'
<1>1. CallsAreTrue'
  BY DEF IntakeInv, CallsAreTrue, Advances, IntakeTypeOK
<1>2. AckedIsKept'
  BY IntakeAssumption DEF IntakeInv, AckedIsKept, Kept, Advances
<1> QED
  BY <1>1, <1>2

\* A ticket that was new keeps its reason to be noticed while its job, its call and
\* the notes do.
LEMMA NewKeeps ==
  ASSUME IntakeInv, Advances,
         \A t \in Messages : job[t] \in {"waiting", "active"} /\ status'[t] = "new"
                               => job'[t] \in {"waiting", "active"},
         noted \subseteq noted', lost \subseteq lost',
         \A c \in Callers :
           call[c].pc \in {"record", "ring"} =>
             \/ call'[c].msg = call[c].msg /\ call'[c].pc \in {"record", "ring"}
             \/ job'[call[c].msg] \in {"waiting", "active"}
             \/ call[c].msg \in noted' \cup lost'
  PROVE  NewIsAccountedFor'
  BY DEF IntakeInv, NewIsAccountedFor, Advances

LEMMA CallSafe ==
  ASSUME IntakeInv, IntakeTypeOK', NEW c \in Callers, CallStep(c)
  PROVE  CallsAreTrue' /\ MergedIsNotNew' /\ AckedIsKept' /\ NewIsAccountedFor'
<1> DEFINE m == call[c].msg
           t == call[c].to
<1> USE DEF ticketVars, postVars
<1>0. IntakeTypeOK /\ m \in Messages /\ t \in Messages \cup {None}
  BY DEF IntakeInv, CallStep, Find, RecordReply, AppendReply, MoveTicket, Create,
         RecordOpening, Ring, IntakeTypeOK
<1>1. CASE Find(c)
  <2>1. Advances /\ UNCHANGED <<acked, job, noted, lost, status, mergedInto>>
    BY <1>1 DEF Find, Advances
  <2>2. /\ \A d \in Callers \ {c} : call'[d] = call[d]
        /\ call[c].pc = "find"
        /\ call'[c].pc \in {"file", "create"} /\ (call'[c].pc = "file" => call'[c].to # None)
    <3>1. CASE Located(m) = {}
      BY <1>0, <1>1, <3>1 DEF Find, Goto, IntakeTypeOK
    <3>2. CASE Located(m) # {}
      <4>1. \A u \in Located(m) : u # None
        BY <1>0, LocatedType, IntakeAssumption
      <4> QED
        BY <1>0, <1>1, <3>2, <4>1 DEF Find, IntakeTypeOK
    <3> QED
      BY <3>1, <3>2
  <2>3. CallsAreTrue' /\ AckedIsKept'
    BY <2>1, <2>2, CallAdvances
  <2>4. NewIsAccountedFor'
    BY <2>1, <2>2, NewKeeps
  <2> QED
    BY <2>1, <2>3, <2>4 DEF IntakeInv, MergedIsNotNew
<1>2. CASE RecordReply(c)
  <2>1. Advances /\ UNCHANGED <<acked, job, noted, lost, status, mergedInto>>
    BY <1>2 DEF RecordReply, Advances
  <2>2. /\ \A d \in Callers \ {c} : call'[d] = call[d]
        /\ call[c].pc = "file" /\ call'[c].pc = "append" /\ call'[c].to = t
    BY <1>0, <1>2 DEF RecordReply, Goto, IntakeTypeOK
  <2>3. t # None
    BY <2>2 DEF IntakeInv, CallsAreTrue
  <2>4. CallsAreTrue' /\ AckedIsKept'
    BY <2>1, <2>2, <2>3, CallAdvances
  <2>5. NewIsAccountedFor'
    BY <2>1, <2>2, NewKeeps
  <2> QED
    BY <2>1, <2>4, <2>5 DEF IntakeInv, MergedIsNotNew
<1>3. CASE AppendReply(c)
  <2>1. call[c].pc = "append" /\ t # None
    BY <1>3 DEF AppendReply, IntakeInv, CallsAreTrue
  <2>2. Advances /\ UNCHANGED <<job, noted, lost, status, mergedInto>>
    <3>1. said' = said \/ said' = [said EXCEPT ![m] = t]
      BY <1>3 DEF AppendReply
    <3> QED
      BY <1>0, <1>3, <2>1, <3>1 DEF AppendReply, Advances, IntakeTypeOK
  <2>3. /\ \A d \in Callers \ {c} : call'[d] = call[d]
        /\ \/ call'[c].pc = "idle"
           \/ call'[c].pc = "move" /\ call'[c].msg = m /\ call'[c].to = t /\ said'[m] = t
    <3>1. CASE Return(c)
      BY <1>0, <3>1 DEF Return, IdleCall, IntakeTypeOK
    <3>2. CASE Goto(c, "move") /\ said' = [said EXCEPT ![m] = t]
      BY <1>0, <2>1, <3>2 DEF Goto, IntakeTypeOK
    <3> QED
      BY <1>3, <3>1, <3>2 DEF AppendReply, Acknowledge, Throw
  <2>4. \A x \in acked' \ acked : Kept(x)'
    <3>1. acked' # acked => said[m] = t /\ said' = said /\ acked' = acked \cup {m}
      BY <1>3 DEF AppendReply, Acknowledge
    <3> QED
      BY <2>1, <3>1 DEF Kept
  <2>5. CallsAreTrue' /\ AckedIsKept'
    BY <2>1, <2>2, <2>3, <2>4, CallAdvances
  <2>6. NewIsAccountedFor'
    BY <2>1, <2>2, <2>3, NewKeeps
  <2> QED
    BY <2>2, <2>5, <2>6 DEF IntakeInv, MergedIsNotNew
<1>4. CASE MoveTicket(c)
  <2>1. call[c].pc = "move" /\ t # None /\ said[m] # None
    BY <1>4 DEF MoveTicket, IntakeInv, CallsAreTrue
  <2>2. Advances /\ UNCHANGED <<job, noted, lost, mergedInto, said>>
    <3>1. UNCHANGED status \/ \E s \in TicketStatus \ {"new"} : SetStatus(t, s)
      BY <1>4 DEF MoveTicket, TicketStatus
    <3>2. UNCHANGED <<job, noted, lost, mergedInto, said>>
      BY <1>4 DEF MoveTicket
    <3>3. UNCHANGED status => Advances
      BY <3>2 DEF Advances
    <3> HIDE DEF m, t
    <3> QED
      BY <1>0, <3>1, <3>2, <3>3, SetStatusAdvances
  <2>3. /\ \A d \in Callers \ {c} : call'[d] = call[d]
        /\ call'[c].pc = "idle" /\ acked' = acked \cup {m}
    BY <1>0, <1>4 DEF MoveTicket, Acknowledge, Return, IdleCall, IntakeTypeOK
  <2>4. CallsAreTrue' /\ AckedIsKept'
    BY <2>1, <2>2, <2>3, CallAdvances DEF Kept
  <2>5. NewIsAccountedFor'
    BY <2>1, <2>2, <2>3, NewKeeps
  <2>6. MergedIsNotNew'
    BY <2>2 DEF IntakeInv, MergedIsNotNew, Advances
  <2> QED
    BY <2>4, <2>5, <2>6
<1>5. CASE Create(c)
  <2>1. call[c].pc = "create" /\ UNCHANGED <<job, noted, lost, mergedInto, said>>
    BY <1>5 DEF Create
  <2>2. CASE status[m] # "none"
    <3>1. Advances /\ UNCHANGED status
      BY <1>5, <2>2 DEF Create, Advances
    <3>2. /\ \A d \in Callers \ {c} : call'[d] = call[d]
          /\ call'[c].pc = "idle" /\ acked' = acked \cup {m}
      BY <1>0, <1>5, <2>2 DEF Create, Acknowledge, Return, IdleCall, IntakeTypeOK
    <3>3. CallsAreTrue' /\ AckedIsKept'
      BY <2>2, <3>1, <3>2, CallAdvances DEF Kept
    <3>4. NewIsAccountedFor'
      BY <2>1, <3>1, <3>2, NewKeeps
    <3> QED
      BY <2>1, <3>1, <3>3, <3>4 DEF IntakeInv, MergedIsNotNew
  <2>3. CASE status[m] = "none"
    <3>1. /\ status' = [status EXCEPT ![m] = "new"] /\ UNCHANGED acked
          /\ Goto(c, "record")
      BY <1>5, <2>3 DEF Create
    <3>2. /\ \A d \in Callers \ {c} : call'[d] = call[d]
          /\ call'[c].pc = "record" /\ call'[c].msg = m
      BY <1>0, <3>1 DEF Goto, IntakeTypeOK
    <3>3. \A x \in Messages : status'[x] = IF x = m THEN "new" ELSE status[x]
      BY <1>0, <3>1 DEF IntakeTypeOK
    <3>4. MergedIsNotNew'
      BY <2>1, <2>3, <3>3 DEF IntakeInv, MergedIsNotNew
    <3>5. CallsAreTrue'
      <4>1. \A x \in Messages : status[x] # "none" => status'[x] # "none"
        BY <3>3
      <4>2. \A d \in Callers : call[d].pc # "idle" => call[d].msg \in Messages
        BY DEF IntakeInv, IntakeTypeOK
      <4>3. status'[m] # "none"
        BY <1>0, <3>3
      <4> QED
        BY <2>1, <3>2, <4>1, <4>2, <4>3 DEF IntakeInv, CallsAreTrue
    <3>6. AckedIsKept'
      BY <2>1, <3>1, <3>3, IntakeAssumption DEF IntakeInv, AckedIsKept, Kept
    <3>7. NewIsAccountedFor'
      <4> SUFFICES ASSUME NEW x \in Messages, status'[x] = "new"
                   PROVE  \/ \E d \in Callers : call'[d].msg = x /\ call'[d].pc \in {"record", "ring"}
                          \/ job'[x] \in {"waiting", "active"}
                          \/ x \in noted' \cup lost'
        BY DEF NewIsAccountedFor
      <4>1. CASE x = m
        BY <3>2, <4>1
      <4>2. CASE x # m
        <5>1. status[x] = "new"
          BY <3>3, <4>2
        <5> QED
          BY <2>1, <3>2, <5>1 DEF IntakeInv, NewIsAccountedFor
      <4> QED
        BY <4>1, <4>2
    <3> QED
      BY <3>4, <3>5, <3>6, <3>7
  <2> QED
    BY <2>2, <2>3
<1>6. CASE RecordOpening(c)
  <2>1. Advances /\ UNCHANGED <<acked, job, noted, lost, status, mergedInto>>
    BY <1>6 DEF RecordOpening, Advances
  <2>2. /\ \A d \in Callers \ {c} : call'[d] = call[d]
        /\ call[c].pc = "record" /\ call'[c].pc = "ring" /\ call'[c].msg = m
    BY <1>0, <1>6 DEF RecordOpening, Goto, IntakeTypeOK
  <2>3. status[m] # "none"
    BY <2>2 DEF IntakeInv, CallsAreTrue
  <2>4. CallsAreTrue' /\ AckedIsKept'
    BY <2>1, <2>2, <2>3, CallAdvances
  <2>5. NewIsAccountedFor'
    BY <2>1, <2>2, NewKeeps
  <2> QED
    BY <2>1, <2>4, <2>5 DEF IntakeInv, MergedIsNotNew
<1>7. CASE Ring(c)
  <2>1. Advances /\ UNCHANGED <<lost, status, mergedInto>>
    BY <1>7 DEF Ring, Advances
  <2>2. /\ \A d \in Callers \ {c} : call'[d] = call[d]
        /\ call[c].pc = "ring" /\ call'[c].pc = "idle" /\ acked' = acked \cup {m}
    BY <1>0, <1>7 DEF Ring, Acknowledge, Return, IdleCall, IntakeTypeOK
  <2>3. status[m] # "none"
    BY <2>2 DEF IntakeInv, CallsAreTrue
  <2>4. CallsAreTrue' /\ AckedIsKept'
    BY <2>1, <2>2, <2>3, CallAdvances DEF Kept
  <2>5. /\ noted \subseteq noted'
        /\ job'[m] = "waiting" \/ m \in noted'
        /\ \A x \in Messages : job[x] \in {"waiting", "active"} => job'[x] \in {"waiting", "active"}
    BY <1>0, <1>7 DEF Ring, IntakeTypeOK
  <2>6. NewIsAccountedFor'
    BY <2>1, <2>2, <2>5, NewKeeps
  <2> QED
    BY <2>1, <2>4, <2>6 DEF IntakeInv, MergedIsNotNew
<1> QED
  BY <1>1, <1>2, <1>3, <1>4, <1>5, <1>6, <1>7 DEF CallStep

LEMMA StopSafe ==
  ASSUME IntakeInv, NEW c \in Callers, Stop(c)
  PROVE  CallsAreTrue' /\ MergedIsNotNew' /\ AckedIsKept' /\ NewIsAccountedFor'
<1> USE DEF ticketVars, postVars
<1>1. Advances /\ UNCHANGED <<acked, job, noted, status, mergedInto>>
  BY DEF Stop, Advances
<1>2. (\A d \in Callers \ {c} : call'[d] = call[d]) /\ call'[c].pc = "idle"
  BY DEF IntakeInv, Stop, Throw, Return, IdleCall, IntakeTypeOK
<1>3. /\ lost \subseteq lost'
      /\ call[c].pc \in {"record", "ring"} => call[c].msg \in lost'
  BY DEF Stop
<1>4. CallsAreTrue' /\ AckedIsKept'
  BY <1>1, <1>2, CallAdvances
<1>5. NewIsAccountedFor'
  BY <1>1, <1>2, <1>3, NewKeeps
<1> QED
  BY <1>1, <1>4, <1>5 DEF IntakeInv, MergedIsNotNew

LEMMA DeliverSafe ==
  ASSUME IntakeInv, NEW c \in Callers, NEW m \in Messages, Deliver(c, m)
  PROVE  CallsAreTrue' /\ MergedIsNotNew' /\ AckedIsKept' /\ NewIsAccountedFor'
<1> USE DEF ticketVars, postVars
<1>1. PICK dropped \in BOOLEAN :
        Dispatch(c, m, dropped) /\ call[c].pc = "idle" /\ (dropped => m \notin Written)
  <2>1. Form[m] \in Forms /\ (IsReport(Form[m]) \in BOOLEAN) /\ (IsAutoReply(Form[m]) \in BOOLEAN)
    BY IntakeAssumption DEF Forms, IsReport, IsAutoReply
  <2>2. m \in Written => ~IsReport(Form[m]) /\ ~IsAutoReply(Form[m])
    BY IntakeAssumption DEF IsReport, IsAutoReply
  <2> QED
    BY <2>1, <2>2 DEF Deliver, HookReceives, PollReads
<1>2. Advances /\ UNCHANGED <<job, noted, lost, status, mergedInto>>
  BY <1>1 DEF Dispatch, Advances
<1>3. /\ \A d \in Callers \ {c} : call'[d] = call[d]
      /\ call'[c].pc \in {"idle", "find"}
  <2>1. call \in [Callers -> [pc : {"idle", "find", "file", "append", "move", "create",
                                  "record", "ring"},
                            msg : Messages \cup {None}, to : Messages \cup {None},
                            was : TicketStatus \cup {"none"}]]
    BY DEF IntakeInv, IntakeTypeOK
  <2>2. CASE UNCHANGED call
    BY <1>1, <2>2
  <2>3. CASE call' = [call EXCEPT ![c] = [IdleCall EXCEPT !.pc = "find", !.msg = m]]
    BY <2>1, <2>3 DEF IdleCall
  <2> QED
    BY <1>1, <2>2, <2>3 DEF Dispatch
<1>4. \A x \in acked' \ acked : x \notin Written
  BY <1>1 DEF Dispatch
<1>5. CallsAreTrue' /\ AckedIsKept'
  BY <1>2, <1>3, <1>4, CallAdvances
<1>6. NewIsAccountedFor'
  BY <1>1, <1>2, <1>3, NewKeeps
<1> QED
  BY <1>2, <1>5, <1>6 DEF IntakeInv, MergedIsNotNew

LEMMA OtherSafe ==
  ASSUME IntakeInv,
         \/ \E p \in Mergers : (\E a, b \in Messages : MergeReads(p, a, b)) \/ MergeCommits(p)
         \/ \E t \in Messages : TriageStep(t) \/ StallTriage(t) \/ Retriage(t) \/ ChangeStatus(t)
         \/ \E s \in Sweepers : (\E t \in Messages : SelectDue(s, t)) \/ SweepStep(s) \/ SweepFails(s)
         \/ UNCHANGED intakeVars
  PROVE  CallsAreTrue' /\ MergedIsNotNew' /\ AckedIsKept' /\ NewIsAccountedFor'
<1> USE DEF ticketVars, postVars
<1> DEFINE JobsKeep == \A t \in Messages : job[t] \in {"waiting", "active"} /\ status'[t] = "new"
                                            => job'[t] \in {"waiting", "active"}
<1>1. SUFFICES /\ Advances /\ JobsKeep /\ UNCHANGED <<call, acked, noted, lost>>
               /\ MergedIsNotNew'
  BY OthersAdvance, NewKeeps
<1>2. ASSUME NEW p \in Mergers, MergeCommits(p) PROVE <1>1!1
  <2>1. merge[p].from \in Messages /\ merge[p].into \in Messages
    BY <1>2 DEF IntakeInv, IntakeTypeOK, MergeCommits
  <2>2. /\ status' = [status EXCEPT ![merge[p].from] = "closed"]
        /\ mergedInto' = [mergedInto EXCEPT ![merge[p].from] = merge[p].into]
        /\ UNCHANGED <<said, job, call, acked, noted, lost>>
    BY <1>2 DEF MergeCommits
  <2> QED
    BY <2>1, <2>2 DEF IntakeInv, IntakeTypeOK, Advances, MergedIsNotNew
<1>3. ASSUME NEW t \in Messages, EndTriage(t) PROVE <1>1!1
  <2>1. \A x \in Messages : job[x] \in {"waiting", "active"} => x = t \/ job'[x] \in {"waiting", "active"}
    BY <1>3 DEF EndTriage, IntakeInv, IntakeTypeOK
  <2>2. PICK s \in TicketStatus \ {"new"} : status' = [status EXCEPT ![t] = s]
    BY <1>3 DEF EndTriage, SetStatus, TicketStatus
  <2>3. UNCHANGED <<said, call, acked, noted, lost, mergedInto>>
    BY <1>3 DEF EndTriage
  <2> QED
    BY <2>1, <2>2, <2>3 DEF IntakeInv, IntakeTypeOK, Advances, MergedIsNotNew, TicketStatus
<1>4. ASSUME NEW t \in Messages, StartTriage(t) PROVE <1>1!1
  BY <1>4 DEF StartTriage, IntakeInv, IntakeTypeOK, Advances, MergedIsNotNew
<1>5. ASSUME NEW t \in Messages, StallTriage(t) \/ Retriage(t) PROVE <1>1!1
  BY <1>5 DEF StallTriage, Retriage, IntakeInv, IntakeTypeOK, Advances, MergedIsNotNew
<1>6. ASSUME NEW t \in Messages, ChangeStatus(t) PROVE <1>1!1
  <2>1. PICK s \in TicketStatus \ {"new"} : status' = [status EXCEPT ![t] = s]
    BY <1>6 DEF ChangeStatus, SetStatus, TicketStatus
  <2>2. UNCHANGED <<said, job, call, acked, noted, lost, mergedInto>>
    BY <1>6 DEF ChangeStatus
  <2> QED
    BY <2>1, <2>2 DEF IntakeInv, IntakeTypeOK, Advances, MergedIsNotNew, TicketStatus
<1>7. ASSUME NEW s \in Sweepers, FollowUp(s) PROVE <1>1!1
  <2>1. PICK x \in TicketStatus \ {"new"} : status' = [status EXCEPT ![sweep[s].at] = x]
    BY <1>7 DEF FollowUp, SetStatus, TicketStatus
  <2>2. sweep[s].at \in Messages /\ UNCHANGED <<said, job, call, acked, noted, lost, mergedInto>>
    BY <1>7 DEF FollowUp, IntakeInv, IntakeTypeOK
  <2> QED
    BY <2>1, <2>2 DEF IntakeInv, IntakeTypeOK, Advances, MergedIsNotNew, TicketStatus
<1>8. CASE \/ \E p \in Mergers : \E a, b \in Messages : MergeReads(p, a, b)
           \/ \E s \in Sweepers : \/ \E t \in Messages : SelectDue(s, t)
                                 \/ CheckReplies(s) \/ SweepFails(s)
           \/ UNCHANGED intakeVars
  <2>1. UNCHANGED <<status, said, job, call, acked, noted, lost, mergedInto>>
    BY <1>8 DEF MergeReads, SelectDue, CheckReplies, SweepFails, intakeVars
  <2> QED
    BY <2>1 DEF IntakeInv, Advances, MergedIsNotNew
<1> QED
  BY <1>2, <1>3, <1>4, <1>5, <1>6, <1>7, <1>8 DEF TriageStep, SweepStep

\* Every reachable state satisfies IntakeInv.
THEOREM IntakeSafety == IntakeSpec => []IntakeInv
<1>1. IntakeInit => IntakeInv
  <2> SUFFICES ASSUME IntakeInit PROVE CallsAreTrue /\ MergedIsNotNew /\ AckedIsKept /\ NewIsAccountedFor /\ IntakeTypeOK
    BY DEF IntakeInv
  <2>1. CallsAreTrue /\ MergedIsNotNew /\ AckedIsKept /\ NewIsAccountedFor
    BY DEF IntakeInit, CallsAreTrue, MergedIsNotNew, AckedIsKept, NewIsAccountedFor, IdleCall
  <2>2. IntakeTypeOK
    BY IntakeAssumption DEF IntakeInit, IntakeTypeOK, IdleCall, IdleSweep, IdleMerge, TicketStatus
  <2> QED
    BY <2>1, <2>2
<1>2. IntakeTypeOK' /\ IntakeInv /\ [IntakeNext]_intakeVars => IntakeInv'
  <2> SUFFICES ASSUME IntakeTypeOK', IntakeInv, [IntakeNext]_intakeVars
               PROVE  CallsAreTrue' /\ MergedIsNotNew' /\ AckedIsKept' /\ NewIsAccountedFor'
    BY DEF IntakeInv
  <2>1. ASSUME NEW c \in Callers, NEW m \in Messages, Deliver(c, m)
        PROVE  CallsAreTrue' /\ MergedIsNotNew' /\ AckedIsKept' /\ NewIsAccountedFor'
    BY <2>1, DeliverSafe
  <2>2. ASSUME NEW c \in Callers, CallStep(c)
        PROVE  CallsAreTrue' /\ MergedIsNotNew' /\ AckedIsKept' /\ NewIsAccountedFor'
    BY <2>2, CallSafe
  <2>3. ASSUME NEW c \in Callers, Stop(c)
        PROVE  CallsAreTrue' /\ MergedIsNotNew' /\ AckedIsKept' /\ NewIsAccountedFor'
    BY <2>3, StopSafe
  <2> QED
    BY <2>1, <2>2, <2>3, OtherSafe DEF IntakeNext
<1>3. IntakeSpec => []IntakeTypeOK
  BY IntakeTypeCorrect
<1> QED
  BY <1>1, <1>2, <1>3, PTL DEF IntakeSpec

\* No provider is told to stop, and no file put away, before a person's message is
\* in the system (intakeMessage, the webhook's 200, the folder's rename).
THEOREM AcknowledgedMailIsKept == IntakeSpec => []AckedIsKept
<1>1. IntakeInv => AckedIsKept
  BY DEF IntakeInv
<1> QED
  BY <1>1, IntakeSafety, PTL

\* A ticket still new has its call, its job or the error event, or its call died.
THEOREM NewTicketsAreNoticed == IntakeSpec => []NewIsAccountedFor
<1>1. IntakeInv => NewIsAccountedFor
  BY DEF IntakeInv
<1> QED
  BY <1>1, IntakeSafety, PTL

=============================================================================
