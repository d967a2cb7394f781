------------------------------ MODULE Outbound ------------------------------
(***************************************************************************)
(* The outbound mail queue of the helpdesk: the rows of outbound_messages  *)
(* (packages/core/src/repos/outbound.ts), the delivery of one message      *)
(* (packages/core/src/mail/deliver.ts), the worker's sweep                 *)
(* (apps/worker/src/index.ts), the console's cancel, retry and lift        *)
(* (apps/web/app/(console)/mail/actions.ts) and the part of                *)
(* ticket.send_reply that queues a message (packages/tools/src/service.ts).*)
(*                                                                         *)
(* One SQL statement is one atomic step; whatever the code does in several *)
(* statements, with awaits between them, is several steps, so that other   *)
(* processes run in between.  Redis jobs are doorbells: ringing one only   *)
(* makes a claim happen sooner, and a claim may happen at any time anyway, *)
(* so no variable stands for them.                                         *)
(***************************************************************************)
EXTENDS Naturals, FiniteSets

CONSTANTS
  Messages,       \* idempotency keys of one tenant: each names at most one row
  Addresses,      \* recipients' e-mail addresses
  Tickets,
  NoMessage,      \* "no message": what an idle process is working on
  NoTicket,       \* ticket_id is null
  Recipient,      \* to_email of each message
  TicketOf,       \* ticket_id of each message
  AgentMessages,  \* the messages with created_by = 'agent'
  Workers,        \* delivery loops: an outbound consumer or a sweep of a process
  Hooks,          \* requests and intake runs that apply a bounce report
  Callers,        \* requests and triage jobs running ticket.send_reply
  Consoles,       \* operators pressing Retry on the mail page
  Senders,        \* the workers whose OUTBOUND_EMAIL_PROVIDER is not 'none'
  MaxAttempts,    \* OUTBOUND_MAX_ATTEMPTS
  Faults,         \* which failures the environment may produce, see FaultKinds
  MaxCrashes,     \* bound: calls that die between two statements
  MaxSlow,        \* bound: live attempts that outlast the stall window
  MaxRetries      \* bound: manual retries

\* "ambiguous": the provider accepts the message and the sender sees an error.
\* "database": a statement that follows the hand-over fails.
FaultKinds == {"ambiguous", "database"}

ASSUME ConstantsAssumption ==
  /\ NoMessage \notin Messages
  /\ NoTicket \notin Tickets
  /\ Recipient \in [Messages -> Addresses]
  /\ TicketOf \in [Messages -> Tickets \cup {NoTicket}]
  /\ AgentMessages \subseteq Messages
  /\ Workers \cap Hooks = {}
  /\ Senders \subseteq Workers
  /\ MaxAttempts \in Nat \ {0}
  /\ Faults \subseteq FaultKinds
  /\ MaxCrashes \in Nat
  /\ MaxSlow \in Nat
  /\ MaxRetries \in Nat

VARIABLES
  status,       \* outbound_messages.status, "none" before the row exists
  attempts,     \* outbound_messages.attempts
  maxAttempts,  \* outbound_messages.max_attempts
  due,          \* next_attempt_at <= now()
  stale,        \* a sending row whose updated_at is older than the stall window
  suppressed,   \* email_suppressions of the tenant
  threaded,     \* messages whose Message-ID is registered with the thread
  told,         \* messages whose ticket has the delivery error since the last retry
  ticket,       \* tickets.status, as far as delivery reads and writes it
  auto,         \* effectiveMode(env, settings) = 'auto'
  accepted,     \* the attempts of each message the provider accepted
  leaked,       \* per worker: agent mail handed over since the mode was narrowed
  call,         \* the deliverOutbound or applyBounce call each process is in
  reply,        \* the send_reply call each caller is in
  retrying,     \* the message whose suppression check an operator's retry passed
  spent         \* how much of each bound has been used

rowVars == <<status, attempts, maxAttempts, due, stale>>
envVars == <<auto, leaked, spent>>
vars == <<status, attempts, maxAttempts, due, stale, suppressed, threaded, told,
          ticket, auto, accepted, leaked, call, reply, retrying, spent>>

Procs == Workers \cup Hooks

Statuses == {"none", "queued", "sending", "sent", "failed", "bounced",
             "suppressed", "cancelled"}
Settled == {"sent", "failed", "bounced", "suppressed", "cancelled"}
TicketStatuses == {"in_progress", "resolved", "triaged"}

Calls == [pc : {"idle", "claimed", "send", "mark", "thread", "transient",
                "permanent", "deadbox", "bounce", "announce", "reopen"},
          msg : Messages \cup {NoMessage},
          attempt : Nat,   \* message.attempts as the claim returned it
          max : Nat]       \* message.max_attempts as the claim returned it
Replies == [pc : {"idle", "insert", "close"},
            msg : Messages \cup {NoMessage},
            supp : BOOLEAN]

IdleCall == [pc |-> "idle", msg |-> NoMessage, attempt |-> 0, max |-> 0]
IdleReply == [pc |-> "idle", msg |-> NoMessage, supp |-> FALSE]

TypeOK ==
  /\ status \in [Messages -> Statuses]
  /\ attempts \in [Messages -> Nat]
  /\ maxAttempts \in [Messages -> Nat]
  /\ due \in [Messages -> BOOLEAN]
  /\ stale \in [Messages -> BOOLEAN]
  /\ suppressed \subseteq Addresses
  /\ threaded \subseteq Messages
  /\ told \subseteq Messages
  /\ ticket \in [Tickets -> TicketStatuses]
  /\ auto \in BOOLEAN
  /\ accepted \in [Messages -> SUBSET Nat]
  /\ leaked \in [Workers -> Nat]
  /\ call \in [Procs -> Calls]
  /\ \A p \in Procs : call[p].pc # "idle" => call[p].msg \in Messages
  /\ reply \in [Callers -> Replies]
  /\ \A k \in Callers : reply[k].pc # "idle" => reply[k].msg \in Messages
  /\ retrying \in [Consoles -> Messages \cup {NoMessage}]
  /\ spent \in [{"crashes", "slow", "retries"} -> Nat]

Init ==
  /\ status = [m \in Messages |-> "none"]
  /\ attempts = [m \in Messages |-> 0]
  /\ maxAttempts = [m \in Messages |-> MaxAttempts]
  /\ due = [m \in Messages |-> FALSE]
  /\ stale = [m \in Messages |-> FALSE]
  /\ suppressed = {}
  /\ threaded = {}
  /\ told = {}
  /\ ticket = [t \in Tickets |-> "in_progress"]
  /\ auto = TRUE
  /\ accepted = [m \in Messages |-> {}]
  /\ leaked = [w \in Workers |-> 0]
  /\ call = [p \in Procs |-> IdleCall]
  /\ reply = [k \in Callers |-> IdleReply]
  /\ retrying = [c \in Consoles |-> NoMessage]
  /\ spent = [b \in {"crashes", "slow", "retries"} |-> 0]

Goto(p, label) == call' = [call EXCEPT ![p].pc = label]
Return(p) == call' = [call EXCEPT ![p] = IdleCall]
Spend(bound) == spent' = [spent EXCEPT ![bound] = @ + 1]

-----------------------------------------------------------------------------
(* ticket.send_reply: queue a message, then mark the ticket.               *)

IsSuppressed(m) == Recipient[m] \in suppressed

\* queueOutbound reads the suppression list in a query of its own.
ReplyChecksAddress(k, m) ==
  /\ reply[k].pc = "idle"
  /\ reply' = [reply EXCEPT ![k] = [pc |-> "insert", msg |-> m,
                                    supp |-> IsSuppressed(m)]]
  /\ UNCHANGED <<rowVars, envVars, suppressed, threaded, told, ticket, accepted,
                 call, retrying>>

\* Broken: the key conflict overwrites the row instead of returning it.
QueueOutboundOverwrites(k) ==
  LET m == reply[k].msg IN
  /\ reply[k].pc = "insert"
  /\ status' = [status EXCEPT ![m] = IF reply[k].supp THEN "suppressed" ELSE "queued"]
  /\ due' = [due EXCEPT ![m] = TRUE]
  /\ reply' = [reply EXCEPT ![k] = IF reply[k].supp THEN IdleReply
                                   ELSE [@ EXCEPT !.pc = "close"]]
  /\ UNCHANGED <<attempts, maxAttempts, stale, envVars, suppressed, threaded, told,
                 ticket, accepted, call, retrying>>

\* insert ... on conflict do nothing.  An existing row is returned as it is, and
\* only the result "suppressed" makes send_reply throw.
QueueOutbound(k) ==
  LET m == reply[k].msg
      new == status[m] = "none"
      refused == IF new THEN reply[k].supp ELSE status[m] = "suppressed"
  IN
  /\ reply[k].pc = "insert"
  /\ IF new
       THEN /\ status' = [status EXCEPT ![m] = IF reply[k].supp THEN "suppressed"
                                                                ELSE "queued"]
            /\ due' = [due EXCEPT ![m] = TRUE]
       ELSE UNCHANGED <<status, due>>
  /\ reply' = [reply EXCEPT ![k] = IF refused THEN IdleReply
                                   ELSE [@ EXCEPT !.pc = "close"]]
  /\ UNCHANGED <<attempts, maxAttempts, stale, envVars, suppressed, threaded, told,
                 ticket, accepted, call, retrying>>

\* After the conversation has the message: close_after resolves the ticket, then
\* the doorbell is rung.  Nothing here looks at the row again.
ReplyMarksTicket(k) ==
  LET t == TicketOf[reply[k].msg] IN
  /\ reply[k].pc = "close"
  /\ \/ t # NoTicket /\ ticket' = [ticket EXCEPT ![t] = "resolved"]
     \/ UNCHANGED ticket
  /\ reply' = [reply EXCEPT ![k] = IdleReply]
  /\ UNCHANGED <<rowVars, envVars, suppressed, threaded, told, accepted, call,
                 retrying>>

-----------------------------------------------------------------------------
(* deliverOutbound: one attempt.                                           *)

Claim(w, m) ==
  /\ call[w].pc = "idle"
  /\ status[m] = "queued"
  /\ due[m]
  /\ status' = [status EXCEPT ![m] = "sending"]
  /\ attempts' = [attempts EXCEPT ![m] = @ + 1]
  /\ stale' = [stale EXCEPT ![m] = FALSE]
  /\ call' = [call EXCEPT ![w] = [pc |-> "claimed", msg |-> m,
                                  attempt |-> attempts[m] + 1,
                                  max |-> maxAttempts[m]]]
  /\ UNCHANGED <<maxAttempts, due, envVars, suppressed, threaded, told, ticket,
                 accepted, reply, retrying>>

Cancellable == {"queued", "sending"}

\* cancelOutbound's one statement.
CancelRow(m) ==
  /\ status' = IF status[m] \in Cancellable THEN [status EXCEPT ![m] = "cancelled"]
                                            ELSE status
  /\ stale' = IF status[m] \in Cancellable THEN [stale EXCEPT ![m] = FALSE] ELSE stale
  /\ UNCHANGED <<attempts, maxAttempts, due>>

NoTransport(w) ==
  /\ call[w].pc = "claimed"
  /\ w \notin Senders
  /\ CancelRow(call[w].msg)
  /\ Return(w)
  /\ UNCHANGED <<envVars, suppressed, threaded, told, ticket, accepted, reply,
                 retrying>>

\* The mode is read again after the claim, for what the agent queued.
Stopped(m) == m \in AgentMessages /\ ~auto

KillSwitchStops(w) ==
  /\ call[w].pc = "claimed"
  /\ w \in Senders
  /\ Stopped(call[w].msg)
  /\ CancelRow(call[w].msg)
  /\ Goto(w, "announce")
  /\ UNCHANGED <<envVars, suppressed, threaded, told, ticket, accepted, reply,
                 retrying>>

\* Broken: the gate trusts the decision made when the reply was queued.
StartAttemptUngated(w) ==
  /\ call[w].pc = "claimed"
  /\ w \in Senders
  /\ Goto(w, "send")
  /\ UNCHANGED <<rowVars, envVars, suppressed, threaded, told, ticket, accepted,
                 reply, retrying>>

StartAttempt(w) ==
  /\ call[w].pc = "claimed"
  /\ w \in Senders
  /\ ~Stopped(call[w].msg)
  /\ Goto(w, "send")
  /\ UNCHANGED <<rowVars, envVars, suppressed, threaded, told, ticket, accepted,
                 reply, retrying>>

\* transport.send: the provider took the message.  What the sender sees is
\* success, or, when the answer is lost, a transient error.
Accept(w) ==
  LET m == call[w].msg IN
  /\ call[w].pc = "send"
  /\ accepted' = [accepted EXCEPT ![m] = @ \cup {call[w].attempt}]
  /\ leaked' = IF Stopped(m) THEN [leaked EXCEPT ![w] = @ + 1] ELSE leaked
  /\ \/ Goto(w, "mark")
     \/ "ambiguous" \in Faults /\ Goto(w, "transient")
  /\ UNCHANGED <<rowVars, auto, spent, suppressed, threaded, told, ticket, reply,
                 retrying>>

\* Broken: an accepted envelope whose recipient was rejected passes for success.
RefuseMissed(w) ==
  /\ call[w].pc = "send"
  /\ \E why \in {"transient", "permanent", "mark"} : Goto(w, why)
  /\ UNCHANGED <<rowVars, envVars, suppressed, threaded, told, ticket, accepted,
                 reply, retrying>>

\* transport.send threw: transient, permanent for this message, or permanent and
\* a statement about the mailbox.
Refuse(w) ==
  /\ call[w].pc = "send"
  /\ \E why \in {"transient", "permanent", "deadbox"} : Goto(w, why)
  /\ UNCHANGED <<rowVars, envVars, suppressed, threaded, told, ticket, accepted,
                 reply, retrying>>

\* markSent: by id, whatever the status is by now.
MarkSent(w) ==
  LET m == call[w].msg IN
  /\ call[w].pc = "mark"
  /\ status' = [status EXCEPT ![m] = "sent"]
  /\ stale' = [stale EXCEPT ![m] = FALSE]
  /\ Goto(w, "thread")
  /\ UNCHANGED <<attempts, maxAttempts, due, envVars, suppressed, threaded, told,
                 ticket, accepted, reply, retrying>>

\* The history event of markSent and, about a ticket, recordMessageId.
RecordMessageId(w) ==
  LET m == call[w].msg IN
  /\ call[w].pc = "thread"
  /\ threaded' = IF TicketOf[m] = NoTicket THEN threaded ELSE threaded \cup {m}
  /\ Return(w)
  /\ UNCHANGED <<rowVars, envVars, suppressed, told, ticket, accepted, reply,
                 retrying>>

\* The try block of deliverOutbound also covers the two writes above: their
\* errors are handled as if the send had failed, and they are not permanent.
RecordingFails(w) ==
  /\ call[w].pc \in {"mark", "thread"}
  /\ "database" \in Faults
  /\ Goto(w, "transient")
  /\ UNCHANGED <<rowVars, envVars, suppressed, threaded, told, ticket, accepted,
                 reply, retrying>>

-----------------------------------------------------------------------------
(* handleFailure.                                                          *)

SuppressDeadMailbox(w) ==
  /\ call[w].pc = "deadbox"
  /\ suppressed' = suppressed \cup {Recipient[call[w].msg]}
  /\ Goto(w, "permanent")
  /\ UNCHANGED <<rowVars, envVars, threaded, told, ticket, accepted, reply, retrying>>

\* Broken: the attempt after the last one is allowed.
ExhaustedLate(w) == call[w].attempt > call[w].max

Exhausted(w) == call[w].attempt >= call[w].max

\* deferOutbound: by id, whatever the status is by now.
Defer(w) ==
  LET m == call[w].msg IN
  /\ call[w].pc = "transient"
  /\ ~Exhausted(w)
  /\ status' = [status EXCEPT ![m] = "queued"]
  /\ due' = [due EXCEPT ![m] = FALSE]
  /\ stale' = [stale EXCEPT ![m] = FALSE]
  /\ Return(w)
  /\ UNCHANGED <<attempts, maxAttempts, envVars, suppressed, threaded, told, ticket,
                 accepted, reply, retrying>>

\* Broken: the dead letter is filed and nobody is told.
FailSilently(w) ==
  LET m == call[w].msg IN
  /\ \/ call[w].pc = "permanent"
     \/ call[w].pc = "transient" /\ Exhausted(w)
  /\ status' = [status EXCEPT ![m] = "failed"]
  /\ stale' = [stale EXCEPT ![m] = FALSE]
  /\ Return(w)
  /\ UNCHANGED <<attempts, maxAttempts, due, envVars, suppressed, threaded, told,
                 ticket, accepted, reply, retrying>>

\* failOutbound: by id, whatever the status is by now.
Fail(w) ==
  LET m == call[w].msg IN
  /\ \/ call[w].pc = "permanent"
     \/ call[w].pc = "transient" /\ Exhausted(w)
  /\ status' = [status EXCEPT ![m] = "failed"]
  /\ stale' = [stale EXCEPT ![m] = FALSE]
  /\ Goto(w, "announce")
  /\ UNCHANGED <<attempts, maxAttempts, due, envVars, suppressed, threaded, told,
                 ticket, accepted, reply, retrying>>

-----------------------------------------------------------------------------
(* announceUndelivered: the event, then a read of the ticket, then a write. *)

TicketOver(t) == t # NoTicket /\ ticket[t] = "resolved"

Announce(p) ==
  LET m == call[p].msg IN
  /\ call[p].pc = "announce"
  /\ told' = IF TicketOf[m] = NoTicket THEN told ELSE told \cup {m}
  /\ IF TicketOver(TicketOf[m])
       THEN Goto(p, "reopen")
       ELSE Return(p)
  /\ UNCHANGED <<rowVars, envVars, suppressed, threaded, ticket, accepted, reply,
                 retrying>>

Reopen(p) ==
  /\ call[p].pc = "reopen"
  /\ ticket' = [ticket EXCEPT ![TicketOf[call[p].msg]] = "triaged"]
  /\ Return(p)
  /\ UNCHANGED <<rowVars, envVars, suppressed, threaded, told, accepted, reply,
                 retrying>>

-----------------------------------------------------------------------------
(* applyBounce.  A soft bounce only writes history, so it is not a step.    *)

\* A hard bounce or complaint about a message the provider accepted: the address
\* is suppressed first, whatever happens to the row.
BounceArrives(h, m) ==
  /\ call[h].pc = "idle"
  /\ accepted[m] # {}
  /\ suppressed' = suppressed \cup {Recipient[m]}
  /\ call' = [call EXCEPT ![h] = [pc |-> "bounce", msg |-> m,
                                  attempt |-> 0, max |-> 0]]
  /\ UNCHANGED <<rowVars, envVars, threaded, told, ticket, accepted, reply, retrying>>

\* A hard bounce that names a recipient and matches none of our messages.
BounceUnmatched(h, a) ==
  /\ call[h].pc = "idle"
  /\ a \notin suppressed
  /\ suppressed' = suppressed \cup {a}
  /\ UNCHANGED <<rowVars, envVars, threaded, told, ticket, accepted, call, reply,
                 retrying>>

MarkBounced(h) ==
  LET m == call[h].msg IN
  /\ call[h].pc = "bounce"
  /\ IF status[m] \in {"sent", "bounced"}
       THEN /\ status' = [status EXCEPT ![m] = "bounced"]
            /\ Goto(h, "announce")
       ELSE /\ UNCHANGED status
            /\ Return(h)
  /\ UNCHANGED <<attempts, maxAttempts, due, stale, envVars, suppressed, threaded,
                 told, ticket, accepted, reply, retrying>>

-----------------------------------------------------------------------------
(* The sweep and the clock.                                                *)

Stalled(m) == status[m] = "sending" /\ stale[m]

\* Broken: only rows the sweep has seen queued are visited, so sending is final.
ReclaimNothing ==
  /\ \E m \in Messages : Stalled(m)
  /\ UNCHANGED vars

\* reclaimStalledOutbound: one statement over every stalled row.  The attempt
\* count stays.  The sweep then claims what is due, which is Claim.
ReclaimStalled ==
  /\ \E m \in Messages : Stalled(m)
  /\ status' = [m \in Messages |-> IF Stalled(m) THEN "queued" ELSE status[m]]
  /\ due' = [m \in Messages |-> Stalled(m) \/ due[m]]
  /\ stale' = [m \in Messages |-> ~Stalled(m) /\ stale[m]]
  /\ UNCHANGED <<attempts, maxAttempts, envVars, suppressed, threaded, told, ticket,
                 accepted, call, reply, retrying>>

\* next_attempt_at comes round.
BecomeDue(m) ==
  /\ status[m] = "queued"
  /\ ~due[m]
  /\ due' = [due EXCEPT ![m] = TRUE]
  /\ UNCHANGED <<status, attempts, maxAttempts, stale, envVars, suppressed, threaded,
                 told, ticket, accepted, call, reply, retrying>>

\* A call whose claim on m has not been answered for yet.
InFlight(w, m) ==
  /\ call[w].msg = m
  /\ call[w].pc \in {"claimed", "send", "mark", "thread", "transient", "permanent",
                     "deadbox"}

\* The stall window passes.  With an attempt still alive that takes a slow send:
\* the SMTP client's own socket timeout is longer than the window.
Stall(m) ==
  /\ status[m] = "sending"
  /\ ~stale[m]
  /\ IF \E w \in Workers : InFlight(w, m)
       THEN spent.slow < MaxSlow /\ Spend("slow")
       ELSE UNCHANGED spent
  /\ stale' = [stale EXCEPT ![m] = TRUE]
  /\ UNCHANGED <<status, attempts, maxAttempts, due, auto, leaked, suppressed,
                 threaded, told, ticket, accepted, call, reply, retrying>>

\* The process dies, or a statement outside the try block throws.
Crash(p) ==
  /\ call[p].pc # "idle"
  /\ spent.crashes < MaxCrashes
  /\ Spend("crashes")
  /\ Return(p)
  /\ UNCHANGED <<rowVars, auto, leaked, suppressed, threaded, told, ticket, accepted,
                 reply, retrying>>

ReplyCrash(k) ==
  /\ reply[k].pc # "idle"
  /\ spent.crashes < MaxCrashes
  /\ Spend("crashes")
  /\ reply' = [reply EXCEPT ![k] = IdleReply]
  /\ UNCHANGED <<rowVars, auto, leaked, suppressed, threaded, told, ticket, accepted,
                 call, retrying>>

-----------------------------------------------------------------------------
(* People: the mail page and the settings page.                            *)

\* cancelDelivery.
Cancel(m) ==
  /\ status[m] \in Cancellable
  /\ CancelRow(m)
  /\ UNCHANGED <<envVars, suppressed, threaded, told, ticket, accepted, call, reply,
                 retrying>>

\* retryOutbound reads the message and the suppression list, then updates.
RetryChecksAddress(c, m) ==
  /\ retrying[c] = NoMessage
  /\ spent.retries < MaxRetries
  /\ Spend("retries")
  /\ status[m] # "none"
  /\ ~IsSuppressed(m)
  /\ retrying' = [retrying EXCEPT ![c] = m]
  /\ UNCHANGED <<rowVars, auto, leaked, suppressed, threaded, told, ticket, accepted,
                 call, reply>>

Retryable == {"failed", "bounced", "cancelled"}

\* Broken: a fresh budget by starting the attempt counter again.
RetryQueuesResetting(c) ==
  LET m == retrying[c] IN
  /\ m # NoMessage
  /\ retrying' = [retrying EXCEPT ![c] = NoMessage]
  /\ IF status[m] \in Retryable
       THEN /\ status' = [status EXCEPT ![m] = "queued"]
            /\ due' = [due EXCEPT ![m] = TRUE]
            /\ attempts' = [attempts EXCEPT ![m] = 0]
            /\ maxAttempts' = [maxAttempts EXCEPT ![m] = MaxAttempts]
            /\ told' = told \ {m}
       ELSE UNCHANGED <<status, due, maxAttempts, attempts, told>>
  /\ UNCHANGED <<stale, envVars, suppressed, threaded, ticket, accepted, call, reply>>

\* Broken: the update accepts every status that is not in the queue.
RetryQueuesAnything(c) ==
  LET m == retrying[c] IN
  /\ m # NoMessage
  /\ retrying' = [retrying EXCEPT ![c] = NoMessage]
  /\ IF status[m] \in Settled
       THEN /\ status' = [status EXCEPT ![m] = "queued"]
            /\ due' = [due EXCEPT ![m] = TRUE]
            /\ maxAttempts' = [maxAttempts EXCEPT ![m] = attempts[m] + MaxAttempts]
            /\ told' = told \ {m}
       ELSE UNCHANGED <<status, due, maxAttempts, told>>
  /\ UNCHANGED <<attempts, stale, envVars, suppressed, threaded, ticket, accepted,
                 call, reply>>

\* The attempts so far are kept and the budget is set on top of them.
RetryQueues(c) ==
  LET m == retrying[c] IN
  /\ m # NoMessage
  /\ retrying' = [retrying EXCEPT ![c] = NoMessage]
  /\ IF status[m] \in Retryable
       THEN /\ status' = [status EXCEPT ![m] = "queued"]
            /\ due' = [due EXCEPT ![m] = TRUE]
            /\ maxAttempts' = [maxAttempts EXCEPT ![m] = attempts[m] + MaxAttempts]
            /\ told' = told \ {m}
       ELSE UNCHANGED <<status, due, maxAttempts, told>>
  /\ UNCHANGED <<attempts, stale, envVars, suppressed, threaded, ticket, accepted,
                 call, reply>>

LiftSuppression(a) ==
  /\ a \in suppressed
  /\ suppressed' = suppressed \ {a}
  /\ UNCHANGED <<rowVars, envVars, threaded, told, ticket, accepted, call, reply,
                 retrying>>

\* The effective mode is narrowed from auto, or widened to it again.  Only what
\* the agent queued can tell the difference.
SetMode ==
  /\ AgentMessages # {}
  /\ auto' = ~auto
  /\ leaked' = IF auto THEN [w \in Workers |-> 0] ELSE leaked
  /\ UNCHANGED <<rowVars, spent, suppressed, threaded, told, ticket, accepted, call,
                 reply, retrying>>

-----------------------------------------------------------------------------

ReplyStep(k) ==
  \/ \E m \in Messages : ReplyChecksAddress(k, m)
  \/ QueueOutbound(k)
  \/ ReplyMarksTicket(k)

\* A claimed message moves through deliverOutbound.
DeliverStep(w) ==
  \/ NoTransport(w)
  \/ KillSwitchStops(w)
  \/ StartAttempt(w)
  \/ Accept(w)
  \/ Refuse(w)
  \/ MarkSent(w)
  \/ RecordMessageId(w)
  \/ RecordingFails(w)
  \/ SuppressDeadMailbox(w)
  \/ Defer(w)
  \/ Fail(w)

AnnounceStep(p) == Announce(p) \/ Reopen(p)

BounceStep(h) ==
  \/ \E m \in Messages : BounceArrives(h, m)
  \/ \E a \in Addresses : BounceUnmatched(h, a)
  \/ MarkBounced(h)

OperatorStep(c) ==
  \/ \E m \in Messages : RetryChecksAddress(c, m)
  \/ RetryQueues(c)

RowStep(m) == BecomeDue(m) \/ Stall(m) \/ Cancel(m)

Next ==
  \/ \E k \in Callers : ReplyStep(k) \/ ReplyCrash(k)
  \/ \E w \in Workers : (\E m \in Messages : Claim(w, m)) \/ DeliverStep(w)
  \/ \E p \in Procs : AnnounceStep(p) \/ Crash(p)
  \/ \E h \in Hooks : BounceStep(h)
  \/ \E c \in Consoles : OperatorStep(c)
  \/ \E m \in Messages : RowStep(m)
  \/ \E a \in Addresses : LiftSuppression(a)
  \/ ReclaimStalled
  \/ SetMode

Spec == Init /\ [][Next]_vars

(***************************************************************************)
(* The worker's timers fire and its awaits return, so a call that has      *)
(* begun goes on, the clock reaches every deadline, and every sweep        *)
(* reclaims what has stalled.  A sweep walks all that is due, oldest       *)
(* first, so a row that keeps being due is claimed in the end although the *)
(* loop is often busy with other rows: strong fairness, per row.  Nothing  *)
(* is assumed of people, of callers or of bounces.                         *)
(***************************************************************************)
Fairness ==
  /\ \A w \in Workers : WF_vars(DeliverStep(w))
  /\ \A p \in Procs : WF_vars(AnnounceStep(p))
  /\ \A m \in Messages : /\ SF_vars(\E w \in Workers : Claim(w, m))
                         /\ WF_vars(BecomeDue(m))
                         /\ WF_vars(Stall(m))
  /\ WF_vars(ReclaimStalled)

FairSpec == Spec /\ Fairness

-----------------------------------------------------------------------------
(* Safety.                                                                 *)

\* A claim is the lock: two calls in flight on one message hold different
\* attempts of it, no attempt beyond the row's counter exists anywhere, and an
\* attempt that has not been handed over yet is not among the accepted ones.  So
\* whatever is reclaimed, cancelled, retried or slow, one claim gives the
\* provider the message at most once (claimOutbound, retryOutbound).
ClaimsAreDistinct ==
  /\ \A m \in Messages : \A n \in accepted[m] : 1 <= n /\ n <= attempts[m]
  /\ \A w \in Workers : \A m \in Messages : InFlight(w, m) =>
       /\ 1 <= call[w].attempt /\ call[w].attempt <= attempts[m]
       /\ call[w].pc \in {"claimed", "send"} => call[w].attempt \notin accepted[m]
       /\ \A v \in Workers \ {w} : InFlight(v, m) => call[v].attempt # call[w].attempt

\* 'sent' and 'bounced' say that the provider took the message, and a Message-ID
\* joins the thread only once it has gone out, whichever of the stale, duplicate
\* or retried calls wrote last (markSent, markBounced, recordMessageId).
SentWasAccepted ==
  \A m \in Messages :
    status[m] \in {"sent", "bounced"} \/ m \in threaded => accepted[m] # {}

\* "Recorded, never attempted": a row queued for a suppressed address has no
\* attempt, and neither lifting the suppression nor a retry revives it.
SuppressedNeverAttempted ==
  \A m \in Messages : status[m] = "suppressed" =>
    /\ attempts[m] = 0
    /\ accepted[m] = {}
    /\ \A w \in Workers : ~InFlight(w, m)

SuppressedForGood ==
  [][\A m \in Messages : status[m] = "suppressed" => status'[m] = "suppressed"]_vars

\* Narrowing the mode stops the agent's mail "within one ticket": after it, each
\* delivery loop hands over at most the one message that had passed the gate.
KillSwitchReachesQueue == \A w \in Workers : leaked[w] <= 1

\* A settled row leaves its status only through an operator's retry, a bounce of
\* a sent message, or the report of a call that is still in flight on it.
SettledMovesOnlyBy ==
  [][\A m \in Messages : status[m] \in Settled /\ status'[m] # status[m] =>
       \/ /\ status[m] \in Retryable /\ status'[m] = "queued"
          /\ \E c \in Consoles : retrying[c] = m /\ retrying'[c] # m
       \/ status[m] = "sent" /\ status'[m] = "bounced"
       \/ \E w \in Workers : InFlight(w, m) /\ ~InFlight(w, m)'
       \/ \E w \in Workers : InFlight(w, m) /\ call'[w].pc = "thread"]_vars

\* A row never tries more often than its budget, except once for every crash or
\* slow send that made the sweep claim it again without looking at the budget,
\* and for every retry that overtook a call still in flight.
BudgetAccounted ==
  \A m \in Messages :
    attempts[m] <= maxAttempts[m] + spent.crashes + spent.slow + spent.retries

\* While no process dies, no dead letter is silent: when a message about a ticket
\* has failed or bounced, the ticket has the error, or the call that filed the
\* dead letter is about to write it.
DeadLettersAreTold ==
  \A m \in Messages :
    status[m] \in {"failed", "bounced"} /\ TicketOf[m] # NoTicket =>
      \/ m \in told
      \/ \E p \in Procs : call[p].msg = m /\ call[p].pc = "announce"

\* "Two sweeps racing on the same row produce one delivery": without a fault of
\* the environment and without a manual retry, a message is accepted once at most.
DeliveredOnce == \A m \in Messages : \A i, j \in accepted[m] : i = j

\* The strengthening that makes the safety invariants inductive: a call about to
\* record success holds an accepted attempt; a row that is absent or suppressed
\* was never claimed; a call past the gate with agent mail, the mode narrowed
\* since, has not leaked yet.
MarkerWasAccepted ==
  \A w \in Workers :
    call[w].pc \in {"mark", "thread"} => accepted[call[w].msg] # {}

UntouchedRows ==
  \A m \in Messages : status[m] \in {"none", "suppressed"} => attempts[m] = 0

GatePassedOnce ==
  \A w \in Workers :
    call[w].pc = "send" /\ Stopped(call[w].msg) => leaked[w] = 0

\* The strengthening that makes BudgetAccounted inductive counts what may still turn
\* into a claim on a row although its budget is used up: the lives of the row.  A call
\* lives while it may defer, that is while its attempt is below its own max.
LiveCalls(m) == {w \in Workers : InFlight(w, m) /\ call[w].attempt < call[w].max}

OpenRetries(m) == {c \in Consoles : retrying[c] = m}

\* The call that made the latest attempt still answers for the row.
Held(m) ==
  \E w \in Workers :
    InFlight(w, m) /\ call[w].attempt = attempts[m] /\ call[w].pc # "thread"

\* The row itself can be claimed, or be queued or reclaimed without anybody's report.
RowLives(m) ==
  \/ status[m] \in {"none", "queued"}
  \/ status[m] = "sending" /\ (stale[m] \/ ~Held(m))

Lives(m) ==
  Cardinality(LiveCalls(m)) + Cardinality(OpenRetries(m))
    + (IF RowLives(m) THEN 1 ELSE 0)

Excess == spent.crashes + spent.slow + spent.retries

\* A row has one life and one more for every crash, slow send and retry; with the
\* attempts made already they fit the budget and its excess; a retry only ever
\* widens the budget, and no call remembers a wider one.
BudgetInv ==
  /\ \A m \in Messages :
       /\ IsFiniteSet(LiveCalls(m)) /\ IsFiniteSet(OpenRetries(m))
       /\ Lives(m) <= 1 + Excess
       /\ attempts[m] + Lives(m) <= maxAttempts[m] + Excess
       /\ maxAttempts[m] <= attempts[m] + MaxAttempts
  /\ \A w \in Workers : \A m \in Messages :
       InFlight(w, m) => call[w].max <= maxAttempts[m]

\* No fault of the environment and no manual retry.
FairWeather == Faults = {} /\ MaxCrashes = 0 /\ MaxSlow = 0 /\ MaxRetries = 0

\* What makes DeliveredOnce inductive in fair weather.  A row is being sent exactly
\* while one call holds it, so nothing stalls and nothing is reclaimed.
NothingStalls ==
  /\ \A m \in Messages : ~stale[m]
  /\ \A m \in Messages : status[m] = "sending" =>
       \E w \in Workers : InFlight(w, m) /\ call[w].pc # "thread"

\* A call in flight is alone on its message, and the message is unaccepted until
\* the call itself hands it over.
OneHolder ==
  \A w \in Workers : \A m \in Messages : InFlight(w, m) =>
    /\ IF call[w].pc = "thread" THEN status[m] \in {"sent", "bounced"}
                               ELSE status[m] \in {"sending", "cancelled"}
    /\ call[w].pc \notin {"mark", "thread"} => accepted[m] = {}
    /\ \A v \in Workers : InFlight(v, m) => v = w

\* An accepted message is out of the queue's reach.
AcceptedIsSettled ==
  \A m \in Messages : accepted[m] # {} =>
    \/ status[m] \in {"sent", "bounced"}
    \/ \E w \in Workers : InFlight(w, m) /\ call[w].pc = "mark"

NobodyRetries == \A c \in Consoles : retrying[c] = NoMessage

OnceInv == NothingStalls /\ OneHolder /\ AcceptedIsSettled /\ DeliveredOnce
             /\ NobodyRetries

SafetyInv ==
  /\ TypeOK
  /\ ClaimsAreDistinct
  /\ SentWasAccepted
  /\ MarkerWasAccepted
  /\ UntouchedRows
  /\ KillSwitchReachesQueue
  /\ GatePassedOnce

-----------------------------------------------------------------------------
(* Liveness.                                                               *)

\* Whatever is queued is settled in the end, through deferrals, narrowed modes,
\* and workers that die holding the claim: 'sending' is never final.
QueueDrains ==
  \A m \in Messages : status[m] \in {"queued", "sending"} ~> status[m] \in Settled

-----------------------------------------------------------------------------
(* What the documentation says and the code does not do.                   *)

\* "A ticket whose resolving reply never arrived is not resolved", once every
\* call that could still put it back has returned.
UndeliveredIsNotResolved ==
  \A m \in Messages :
    /\ status[m] = "failed"
    /\ \A p \in Procs : call[p].msg # m
    /\ \A k \in Callers : reply[k].msg # m
    => ~TicketOver(TicketOf[m])

=============================================================================
