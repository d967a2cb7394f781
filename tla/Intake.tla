------------------------------- MODULE Intake -------------------------------
(***************************************************************************)
(* How a message becomes a ticket or joins one: intakeMessage and          *)
(* threadOntoTicket (packages/core/src/intake.ts) behind the webhook       *)
(* (apps/web/app/api/intake/email/route.ts) and the mail folder            *)
(* (apps/worker/src/intake/maildir.ts), the thread lookup and mergeTicket  *)
(* (packages/core/src/repos/threading.ts), the triage job                  *)
(* (packages/core/src/queue.ts) and the follow-up sweep                    *)
(* (packages/agent-helpdesk/src/followup.ts).                              *)
(*                                                                         *)
(* A ticket is named by the message that opened it: (tenant, source, id)   *)
(* is unique among tickets.  A message that carries no id is another       *)
(* message each time it is delivered.  One SQL statement or transaction is *)
(* one step; the transactions of a reply and of a merge are those of       *)
(* Conversation, seen from outside.                                        *)
(***************************************************************************)
EXTENDS Naturals, FiniteSets

CONSTANTS
  Messages,      \* inbound messages of one tenant, by their id
  None,          \* no message, no ticket
  Refs,          \* the ids in In-Reply-To and References of each message
  Tag,           \* the ticket named by the subject's tag, or None
  Date,          \* received_at, which becomes the ticket's created_at
  Form,          \* what parseDeliveryStatus and isAutoReply see, see Forms
  Written,       \* the messages a person wrote
  Hooks,         \* webhook requests in flight
  Polls,         \* runs of pollMaildir: the timer does not wait for the last
  Mailed,        \* the messages that arrive in the mail folder
  Sweepers,      \* follow-up sweeps
  Mergers,       \* people merging tickets
  MaxFaults,     \* bound: statements that fail, calls that die, needless redeliveries
  MaxChanges     \* bound: status changes, retriages and merges by people

\* declared: a report content type; complaint: the feedback-report one; fields:
\* DSN fields somewhere in the text; mailer: the envelope looks like a mailer's;
\* auto: the headers or the subject of an automatic reply.
Forms == [declared : BOOLEAN, complaint : BOOLEAN, fields : BOOLEAN,
          mailer : BOOLEAN, auto : BOOLEAN]

ASSUME IntakeAssumption ==
  /\ None \notin Messages
  /\ Refs \in [Messages -> SUBSET Messages]
  /\ Tag \in [Messages -> Messages \cup {None}]
  /\ Date \in [Messages -> Nat]
  /\ Form \in [Messages -> Forms]
  /\ Written \subseteq Messages
  /\ \A m \in Written : ~Form[m].declared /\ ~Form[m].complaint
                          /\ ~Form[m].mailer /\ ~Form[m].auto
  /\ Hooks \cap Polls = {}
  /\ Mailed \subseteq Messages
  /\ MaxFaults \in Nat /\ MaxChanges \in Nat

VARIABLES
  status,      \* tickets.status, "none" before the row exists
  mergedInto,  \* tickets.merged_into_id
  filed,       \* ticket_message_ids: the ticket each id is on
  said,        \* the ticket whose conversation has the message as a reply
  heard,       \* the requester's events on each ticket's log
  base,        \* what had been heard when resolved_at was stamped, or Unresolved
  job,         \* the ticket's triage job
  noted,       \* tickets with an "enqueue" error event
  acked,       \* messages answered 2xx or renamed .processed
  failed,      \* messages renamed .failed
  call,        \* the intakeMessage call of each hook and poll
  sweep,       \* the ticket each sweep is at
  merge,       \* the merge each person is in
  lost,        \* history: tickets whose opening call died before the job
  overrun,     \* history: tickets a sweep closed after an answer it did not see
  spent        \* how much of each bound has been used

intakeVars == <<status, mergedInto, filed, said, heard, base, job, noted,
                acked, failed, call, sweep, merge, lost, overrun, spent>>
ticketVars == <<status, base>>
postVars == <<acked, failed, spent>>

Callers == Hooks \cup Polls
TicketStatus == {"new", "triaged", "awaiting_user", "resolved", "closed", "reopened"}
Over == {"resolved", "closed"}
Unresolved == {None}
Tickets == {m \in Messages : status[m] # "none"}
\* Something the requester said: which message, on which ticket.
Utterances == Messages \X Messages

IdleCall == [pc |-> "idle", msg |-> None, to |-> None, was |-> "none"]
IdleSweep == [pc |-> "idle", at |-> None, base |-> {}]
IdleMerge == [from |-> None, into |-> None]

IntakeTypeOK ==
  /\ status \in [Messages -> TicketStatus \cup {"none"}]
  /\ mergedInto \in [Messages -> Messages \cup {None}]
  /\ filed \in [Messages -> Messages \cup {None}]
  /\ said \in [Messages -> Messages \cup {None}]
  /\ heard \in [Messages -> SUBSET Utterances]
  /\ base \in [Messages -> {Unresolved} \cup SUBSET Utterances]
  /\ job \in [Messages -> {"none", "waiting", "active", "done"}]
  /\ noted \subseteq Messages /\ lost \subseteq Messages /\ overrun \subseteq Messages
  /\ acked \subseteq Messages /\ failed \subseteq Messages
  /\ call \in [Callers -> [pc : {"idle", "find", "file", "append", "move", "create",
                                 "record", "ring"},
                           msg : Messages \cup {None}, to : Messages \cup {None},
                           was : TicketStatus \cup {"none"}]]
  /\ \A c \in Callers : call[c].pc # "idle" => call[c].msg \in Messages
  /\ sweep \in [Sweepers -> [pc : {"idle", "check", "close", "reopen"},
                             at : Messages \cup {None},
                             base : {Unresolved} \cup SUBSET Utterances]]
  /\ \A s \in Sweepers : sweep[s].pc # "idle" => sweep[s].at \in Messages
  /\ merge \in [Mergers -> [from : Messages \cup {None}, into : Messages \cup {None}]]
  /\ \A p \in Mergers : merge[p] # IdleMerge => merge[p].from \in Messages
                                              /\ merge[p].into \in Messages
  /\ spent \in [{"faults", "changes"} -> Nat]

IntakeInit ==
  /\ status = [m \in Messages |-> "none"]
  /\ mergedInto = [m \in Messages |-> None]
  /\ filed = [m \in Messages |-> None]
  /\ said = [m \in Messages |-> None]
  /\ heard = [m \in Messages |-> {}]
  /\ base = [m \in Messages |-> Unresolved]
  /\ job = [m \in Messages |-> "none"]
  /\ noted = {} /\ acked = {} /\ failed = {} /\ lost = {} /\ overrun = {}
  /\ call = [c \in Callers |-> IdleCall]
  /\ sweep = [s \in Sweepers |-> IdleSweep]
  /\ merge = [p \in Mergers |-> IdleMerge]
  /\ spent = [b \in {"faults", "changes"} |-> 0]

Spend(bound, max) == spent[bound] < max /\ spent' = [spent EXCEPT ![bound] = @ + 1]
Goto(c, label) == call' = [call EXCEPT ![c].pc = label]
Return(c) == call' = [call EXCEPT ![c] = IdleCall]

\* setStatus: resolved_at is stamped on the way into resolved or closed, kept
\* between the two and cleared on the way out.
Stamp(t, s) ==
  base' = [base EXCEPT ![t] = IF s \notin Over THEN Unresolved
                              ELSE IF @ = Unresolved THEN UNION {heard[u] : u \in Messages}
                              ELSE @]
SetStatus(t, s) == status' = [status EXCEPT ![t] = s] /\ Stamp(t, s)

-----------------------------------------------------------------------------
(* What arrives.                                                           *)

\* parseDeliveryStatus: a declared report, or DSN fields the envelope bears out.
IsReport(f) == f.complaint \/ f.declared \/ (f.fields /\ f.mailer)

\* isAutoReply, which drops a file and is not asked by the webhook.
IsAutoReply(f) == f.auto

\* A report goes to applyBounce and is done with; anything else is an intakeMessage
\* call.
Dispatch(c, m, dropped) ==
  /\ IF dropped
       THEN acked' = acked \cup {m} /\ UNCHANGED call
       ELSE /\ call' = [call EXCEPT ![c] = [IdleCall EXCEPT !.pc = "find", !.msg = m]]
            /\ UNCHANGED acked
  /\ UNCHANGED <<ticketVars, mergedInto, filed, said, heard, job, noted, failed,
                 sweep, merge, lost, overrun>>

\* A provider repeats what it was not told arrived, and now and then what it was.
HookReceives(c, m) ==
  /\ c \in Hooks /\ m \notin Mailed
  /\ call[c].pc = "idle"
  /\ IF m \in acked THEN Spend("faults", MaxFaults) ELSE UNCHANGED spent
  /\ Dispatch(c, m, IsReport(Form[m]))

\* A file is read until it is renamed, by every poll that listed it before.
PollReads(c, m) ==
  /\ c \in Polls /\ m \in Mailed
  /\ call[c].pc = "idle"
  /\ m \notin acked \cup failed
  /\ Dispatch(c, m, IsReport(Form[m]) \/ IsAutoReply(Form[m]))
  /\ UNCHANGED spent

Deliver(c, m) == HookReceives(c, m) \/ PollReads(c, m)

Acknowledge(c) == Return(c) /\ acked' = acked \cup {call[c].msg}

\* The call throws: the provider is told to try again, the file is set aside.
Throw(c) ==
  /\ Return(c)
  /\ failed' = IF c \in Polls THEN failed \cup {call[c].msg} ELSE failed

-----------------------------------------------------------------------------
(* Finding the thread.                                                     *)

\* findTicketByReferences: the latest ticket any of the ids is on.
ByHeader(m) ==
  LET found == {filed[r] : r \in Refs[m]} \ {None}
  IN {t \in found : \A u \in found : Date[u] <= Date[t]}

\* findTicketBySubjectTag follows a merged ticket to the survivor, five hops.
Hop(t) == IF mergedInto[t] = None THEN t ELSE mergedInto[t]
BySubjectTag(m) ==
  IF Tag[m] = None \/ status[Tag[m]] = "none" THEN {}
  ELSE {Hop(Hop(Hop(Hop(Hop(Tag[m])))))}

Located(m) == IF ByHeader(m) # {} THEN ByHeader(m) ELSE BySubjectTag(m)

\* findExistingThread returns a whole row: its status is used again after the
\* message was written.
Find(c) ==
  LET m == call[c].msg IN
  /\ call[c].pc = "find"
  /\ IF Located(m) = {} THEN Goto(c, "create")
     ELSE \E t \in Located(m) :
            call' = [call EXCEPT ![c] = [pc |-> "file", msg |-> m, to |-> t,
                                         was |-> status[t]]]
  /\ UNCHANGED <<ticketVars, postVars, mergedInto, filed, said, heard, job, noted,
                 sweep, merge, lost, overrun>>

-----------------------------------------------------------------------------
(* threadOntoTicket: a reply.                                              *)

\* Broken: an id that is on the thread already passes for a message that is.
RecordReplyDedupes(c) ==
  LET m == call[c].msg IN
  /\ call[c].pc = "file"
  /\ IF filed[m] # None THEN Acknowledge(c) /\ UNCHANGED filed
     ELSE /\ filed' = [filed EXCEPT ![m] = call[c].to]
          /\ Goto(c, "append") /\ UNCHANGED acked
  /\ UNCHANGED <<ticketVars, mergedInto, said, heard, job, noted, failed, sweep,
                 merge, lost, overrun, spent>>

\* Broken: an insert without the conflict clause.
RecordReplyInserts(c) ==
  LET m == call[c].msg IN
  /\ call[c].pc = "file"
  /\ IF filed[m] # None THEN Throw(c) /\ UNCHANGED filed
     ELSE /\ filed' = [filed EXCEPT ![m] = call[c].to]
          /\ Goto(c, "append") /\ UNCHANGED failed
  /\ UNCHANGED <<ticketVars, mergedInto, said, heard, job, noted, acked, sweep,
                 merge, lost, overrun, spent>>

\* recordMessageId: on conflict do nothing.
RecordReply(c) ==
  LET m == call[c].msg IN
  /\ call[c].pc = "file"
  /\ filed' = [filed EXCEPT ![m] = IF @ = None THEN call[c].to ELSE @]
  /\ Goto(c, "append")
  /\ UNCHANGED <<ticketVars, postVars, mergedInto, said, heard, job, noted, sweep,
                 merge, lost, overrun>>

\* appendMessage under the message's own key: a repeat is acknowledged and moves
\* nothing, a key of another thread is a conflict, a merged thread is locked.
AppendReply(c) ==
  LET m == call[c].msg
      t == call[c].to
  IN
  /\ call[c].pc = "append"
  /\ \/ /\ said[m] = t
        /\ Acknowledge(c)
        /\ UNCHANGED <<said, heard, failed>>
     \/ /\ said[m] # t
        /\ said[m] # None \/ mergedInto[t] # None
        /\ Throw(c)
        /\ UNCHANGED <<said, heard, acked>>
     \/ /\ said[m] = None /\ mergedInto[t] = None
        /\ said' = [said EXCEPT ![m] = t]
        /\ heard' = [heard EXCEPT ![t] = @ \cup {<<m, t>>}]
        /\ Goto(c, "move")
        /\ UNCHANGED <<acked, failed>>
  /\ UNCHANGED <<ticketVars, mergedInto, filed, job, noted, sweep, merge, lost,
                 overrun, spent>>

\* The status read by the lookup decides, whatever it is by now.
MoveTicket(c) ==
  LET t == call[c].to IN
  /\ call[c].pc = "move"
  /\ CASE call[c].was \in Over -> SetStatus(t, "reopened")
       [] call[c].was = "awaiting_user" -> SetStatus(t, "triaged")
       [] OTHER -> UNCHANGED ticketVars
  /\ Acknowledge(c)
  /\ UNCHANGED <<mergedInto, filed, said, heard, job, noted, failed, sweep, merge,
                 lost, overrun, spent>>

-----------------------------------------------------------------------------
(* A message that opens a ticket.                                          *)

\* createTicketFromMessage: the second delivery gets the ticket of the first, and
\* returns before anything below.
Create(c) ==
  LET m == call[c].msg IN
  /\ call[c].pc = "create"
  /\ IF status[m] = "none"
       THEN /\ status' = [status EXCEPT ![m] = "new"]
            /\ Goto(c, "record")
            /\ UNCHANGED acked
       ELSE Acknowledge(c) /\ UNCHANGED status
  /\ UNCHANGED <<base, mergedInto, filed, said, heard, job, noted, failed,
                 sweep, merge, lost, overrun, spent>>

\* Its id, the intake event and the opening of the conversation, whose failure is
\* caught since the ticket row has the words: nobody waits for one of these alone.
RecordOpening(c) ==
  LET m == call[c].msg IN
  /\ call[c].pc = "record"
  /\ filed' = [filed EXCEPT ![m] = IF @ = None THEN m ELSE @]
  /\ heard' = [heard EXCEPT ![m] = @ \cup {<<m, m>>}]
  /\ Goto(c, "ring")
  /\ UNCHANGED <<ticketVars, postVars, mergedInto, said, job, noted, sweep, merge,
                 lost, overrun>>

\* Broken: the failure is swallowed.
RingQuietly(c) ==
  LET m == call[c].msg IN
  /\ call[c].pc = "ring"
  /\ \/ job' = [job EXCEPT ![m] = "waiting"] /\ UNCHANGED spent
     \/ Spend("faults", MaxFaults) /\ UNCHANGED job
  /\ Acknowledge(c)
  /\ UNCHANGED <<ticketVars, mergedInto, filed, said, heard, noted, failed, sweep,
                 merge, lost, overrun>>

\* enqueueTriage, or the error event when the queue does not answer in time (which
\* does not mean that it did not take the job).
Ring(c) ==
  LET m == call[c].msg IN
  /\ call[c].pc = "ring"
  /\ \/ job' = [job EXCEPT ![m] = "waiting"] /\ UNCHANGED <<noted, spent>>
     \/ /\ Spend("faults", MaxFaults)
        /\ noted' = noted \cup {m}
        /\ job' = [job EXCEPT ![m] = "waiting"] \/ UNCHANGED job
  /\ Acknowledge(c)
  /\ UNCHANGED <<ticketVars, mergedInto, filed, said, heard, failed, sweep, merge,
                 lost, overrun>>

\* A statement fails, or the process dies with the call (then nothing renames the
\* file either).
Stop(c) ==
  /\ call[c].pc # "idle"
  /\ Spend("faults", MaxFaults)
  /\ lost' = IF call[c].pc \in {"record", "ring"}
               THEN lost \cup {call[c].msg} ELSE lost
  /\ Throw(c) \/ (Return(c) /\ UNCHANGED failed)
  /\ UNCHANGED <<ticketVars, mergedInto, filed, said, heard, job, noted, acked,
                 sweep, merge, overrun>>

-----------------------------------------------------------------------------
(* mergeTicket, seen from outside its transaction.                         *)

\* The rows are read without a lock, and only the target's pointer matters.
MergeReads(p, a, b) ==
  /\ merge[p] = IdleMerge
  /\ a \in Tickets /\ b \in Tickets /\ a # b
  /\ mergedInto[b] = None
  /\ Spend("changes", MaxChanges)
  /\ merge' = [merge EXCEPT ![p] = [from |-> a, into |-> b]]
  /\ UNCHANGED <<ticketVars, mergedInto, filed, said, heard, job, noted, acked,
                 failed, call, sweep, lost, overrun>>

\* Events copied, the ids recorded so far moved, the source closed by a statement
\* of its own (not by setStatus, so resolved_at is not touched).
MergeCommits(p) ==
  LET a == merge[p].from
      b == merge[p].into
  IN
  /\ merge[p] # IdleMerge
  /\ heard' = [heard EXCEPT ![b] = @ \cup heard[a]]
  /\ filed' = [m \in Messages |-> IF filed[m] = a THEN b ELSE filed[m]]
  /\ mergedInto' = [mergedInto EXCEPT ![a] = b]
  /\ status' = [status EXCEPT ![a] = "closed"]
  /\ merge' = [merge EXCEPT ![p] = IdleMerge]
  /\ UNCHANGED <<base, postVars, said, job, noted, call, sweep, lost, overrun>>

-----------------------------------------------------------------------------
(* The triage job and what people do.                                      *)

\* runPipeline leaves a merged ticket alone, if it was merged when it was read.
StartTriage(t) ==
  /\ job[t] = "waiting"
  /\ job' = [job EXCEPT ![t] = IF mergedInto[t] = None THEN "active" ELSE "done"]
  /\ UNCHANGED <<ticketVars, postVars, mergedInto, filed, said, heard, noted, call,
                 sweep, merge, lost, overrun>>

\* However the run ends it writes a status, by id: applyTriage leaves resolved_at
\* alone, a reply that closes or a question goes through setStatus.
EndTriage(t) ==
  /\ job[t] = "active"
  /\ job' = [job EXCEPT ![t] = "done"]
  /\ \/ status' = [status EXCEPT ![t] = "triaged"] /\ UNCHANGED base
     \/ \E s \in {"triaged", "awaiting_user", "resolved"} : SetStatus(t, s)
  /\ UNCHANGED <<postVars, mergedInto, filed, said, heard, noted, call, sweep, merge,
                 lost, overrun>>

\* Broken: a job that stalled is not started again.
StallTriageDrops(t) ==
  /\ job[t] = "active"
  /\ Spend("faults", MaxFaults)
  /\ job' = [job EXCEPT ![t] = "done"]
  /\ UNCHANGED <<ticketVars, mergedInto, filed, said, heard, noted, acked, failed,
                 call, sweep, merge, lost, overrun>>

\* A worker dies with the job: it is stalled, and another worker starts it again.
StallTriage(t) ==
  /\ job[t] = "active"
  /\ Spend("faults", MaxFaults)
  /\ job' = [job EXCEPT ![t] = "waiting"]
  /\ UNCHANGED <<ticketVars, mergedInto, filed, said, heard, noted, acked, failed,
                 call, sweep, merge, lost, overrun>>

\* retriage queues a job under an id of its own.
Retriage(t) ==
  /\ t \in Tickets /\ job[t] \in {"none", "done"}
  /\ Spend("changes", MaxChanges)
  /\ job' = [job EXCEPT ![t] = "waiting"]
  /\ UNCHANGED <<ticketVars, mergedInto, filed, said, heard, noted, acked, failed,
                 call, sweep, merge, lost, overrun>>

\* changeStatus and bulkStatus: any status, for any ticket of the tenant.
ChangeStatus(t) ==
  /\ t \in Tickets
  /\ Spend("changes", MaxChanges)
  /\ \E s \in {"triaged", "awaiting_user", "resolved", "closed"} : SetStatus(t, s)
  /\ UNCHANGED <<mergedInto, filed, said, heard, job, noted, acked, failed, call,
                 sweep, merge, lost, overrun>>

-----------------------------------------------------------------------------
(* runFollowups: the check after followup_hours.                           *)

\* ticketsAwaitingFollowup returns rows, resolved_at with them.  How long ago that
\* has to be is left open: it is now, or some time.
SelectDue(s, t) ==
  /\ sweep[s] = IdleSweep
  /\ status[t] = "resolved" /\ base[t] # Unresolved
  /\ sweep' = [sweep EXCEPT ![s] = [pc |-> "check", at |-> t, base |-> base[t]]]
  /\ UNCHANGED <<ticketVars, postVars, mergedInto, filed, said, heard, job, noted,
                 call, merge, lost, overrun>>

\* requesterRepliedSinceResolution, against the resolved_at that was selected.
CheckReplies(s) ==
  /\ sweep[s].pc = "check"
  /\ sweep' = [sweep EXCEPT ![s].pc =
                 IF heard[sweep[s].at] \subseteq sweep[s].base THEN "close" ELSE "reopen"]
  /\ UNCHANGED <<ticketVars, postVars, mergedInto, filed, said, heard, job, noted,
                 call, merge, lost, overrun>>

\* Broken: the reopen is asked for with the agent's authority, and is refused.
FollowUpAsAgent(s) ==
  LET t == sweep[s].at IN
  /\ sweep[s].pc \in {"close", "reopen"}
  /\ IF sweep[s].pc = "close" THEN SetStatus(t, "closed") ELSE UNCHANGED ticketVars
  /\ overrun' = IF sweep[s].pc = "close" /\ ~(heard[t] \subseteq base[t])
                  THEN overrun \cup {t} ELSE overrun
  /\ sweep' = [sweep EXCEPT ![s] = IdleSweep]
  /\ UNCHANGED <<postVars, mergedInto, filed, said, heard, job, noted, call, merge,
                 lost>>

\* followUp moves the ticket, whatever has become of it since.
FollowUp(s) ==
  LET t == sweep[s].at IN
  /\ sweep[s].pc \in {"close", "reopen"}
  /\ SetStatus(t, IF sweep[s].pc = "close" THEN "closed" ELSE "reopened")
  /\ overrun' = IF sweep[s].pc = "close" /\ ~(heard[t] \subseteq base[t])
                  THEN overrun \cup {t} ELSE overrun
  /\ sweep' = [sweep EXCEPT ![s] = IdleSweep]
  /\ UNCHANGED <<postVars, mergedInto, filed, said, heard, job, noted, call, merge,
                 lost>>

\* One ticket that cannot be processed, or a worker that dies: the next sweep
\* selects again.
SweepFails(s) ==
  /\ sweep[s] # IdleSweep
  /\ Spend("faults", MaxFaults)
  /\ sweep' = [sweep EXCEPT ![s] = IdleSweep]
  /\ UNCHANGED <<ticketVars, mergedInto, filed, said, heard, job, noted, acked,
                 failed, call, merge, lost, overrun>>

-----------------------------------------------------------------------------
CallStep(c) ==
  \/ Find(c)
  \/ RecordReply(c)
  \/ AppendReply(c)
  \/ MoveTicket(c)
  \/ Create(c)
  \/ RecordOpening(c)
  \/ Ring(c)

TriageStep(t) == StartTriage(t) \/ EndTriage(t)
SweepStep(s) == CheckReplies(s) \/ FollowUp(s)

IntakeNext ==
  \/ \E c \in Callers : (\E m \in Messages : Deliver(c, m)) \/ CallStep(c) \/ Stop(c)
  \/ \E p \in Mergers : (\E a, b \in Messages : MergeReads(p, a, b)) \/ MergeCommits(p)
  \/ \E t \in Messages : TriageStep(t) \/ StallTriage(t) \/ Retriage(t)
                           \/ ChangeStatus(t)
  \/ \E s \in Sweepers : (\E t \in Messages : SelectDue(s, t)) \/ SweepStep(s)
                           \/ SweepFails(s)

IntakeSpec == IntakeInit /\ [][IntakeNext]_intakeVars

\* Providers repeat what was refused and the folder is polled every five seconds;
\* awaits return, workers take jobs, the clock reaches the follow-up hours and a
\* sweep comes round to every ticket.  Nothing is assumed of people.
IntakeFairness ==
  /\ \A m \in Messages : SF_intakeVars(m \notin acked /\ \E c \in Callers : Deliver(c, m))
  /\ \A c \in Callers : WF_intakeVars(CallStep(c))
  /\ \A t \in Messages : WF_intakeVars(TriageStep(t))
  /\ \A t \in Messages : SF_intakeVars(\E s \in Sweepers : SelectDue(s, t))
  /\ \A s \in Sweepers : WF_intakeVars(SweepStep(s))

IntakeFairSpec == IntakeSpec /\ IntakeFairness

-----------------------------------------------------------------------------
(* Safety.                                                                 *)

\* The message is in the system: it opened a ticket, or a conversation has it.
Kept(m) == status[m] # "none" \/ said[m] # None

\* No provider is told to stop before a person's message is in the system, and no
\* file is put away, whichever delivery died, repeated another or ran beside it
\* (intakeMessage, the route's 200, the folder's .processed).
AckedIsKept == \A m \in Written \cap acked : Kept(m)

\* A ticket still new has somebody to notice it: the call that opens it, its job,
\* or the error event; or that call died, and then a redelivery that finds the
\* ticket returns before the job (createTicketFromMessage, enqueueTriage).
NewIsAccountedFor ==
  \A t \in Messages : status[t] = "new" =>
    \/ \E c \in Callers : call[c].msg = t /\ call[c].pc \in {"record", "ring"}
    \/ job[t] \in {"waiting", "active"}
    \/ t \in noted \cup lost

-----------------------------------------------------------------------------
(* Liveness.                                                               *)

Answered(t) == base[t] # Unresolved /\ ~(heard[t] \subseteq base[t])

\* The thread a message belongs to was merged away after the message was filed on
\* it: its conversation is locked, and no delivery gets through.
Stranded(m) == \E t \in Located(m) : mergedInto[t] # None

\* Redelivery gets a message in, however its deliveries failed, unless its file
\* was set aside or its id was left on a merged ticket.
MailGetsIn ==
  \A m \in Written : <>(Kept(m) \/ m \in failed \/ Stranded(m))

\* A queued ticket is triaged, though workers die over it.
QueuedIsTriaged == \A t \in Messages : job[t] = "waiting" ~> status[t] # "new"

\* An answer given after the resolution takes the ticket out of resolved, and not
\* by closing it: by the call that brought it or by the sweep, unless a person or
\* a merge closes the ticket or a sweep had checked already (runFollowups).
AnswersReopen ==
  \A t \in Messages :
    status[t] = "resolved" /\ Answered(t) ~>
      \/ status[t] \notin Over
      \/ status[t] = "closed" /\ (t \in overrun \/ spent.changes > 0)
=============================================================================
