# Verification of the helpdesk agent

TLA+ models of the IT helpdesk agent in this repository, checked with TLC and
proved about with TLAPS. Paths are relative to the repository's root; a file named
without a path is the one the inventory names.

## 1. The system

One PostgreSQL database holds everything of record. A web application
(`apps/web`) and any number of workers (`apps/worker`) share it; they talk to
each other only through its rows and through BullMQ jobs in Redis, which are
doorbells: losing one delays work, it does not lose it, except where the
inventory says otherwise. There is no lock outside the database. A handler is a
sequence of awaited SQL statements, and between any two of them every other
process may run, so the models take one statement (or one transaction holding a
row lock) as one atomic step and nothing larger.

### 1.1 Inventory

| Component | State it keeps | Operations | What is hard | Modules |
|---|---|---|---|---|
| Outbound mail (`repos/outbound.ts`, `mail/deliver.ts`, `mail/transport.ts`) | `outbound_messages`, `email_suppressions` | queue, claim, send, mark, defer, fail, cancel, retry, bounce, suppress, lift, reclaim | racing sweeps, dead workers, lost answers, late reports over newer states | `Outbound` |
| Approvals and the risk gate (`repos/approvals.ts`, `tools/registry.ts`, `approvals/actions.ts`) | `action_requests` | request, decide, check, execute, record, expire | a decision racing expiry, a crash between decision and outcome | `Approvals` |
| Tickets and SLA clocks (`repos/tickets.ts`, `sla.ts`, `notify/sla.ts`) | `tickets`: status, priority, clocks, pauses, breaches, first response | setStatus, triage, first response, pause, resume, reopen, re-stamp, merge, record breaches | every writer must keep the clock, in whatever order they come | `TicketSla` |
| Conversations (`repos/conversations.ts`, `conversation-legacy.ts`) | a conversation per ticket, its messages | append, copy the history, lock | idempotency under a lock, first writes racing merges and backfills | `Conversation`, `ThreadLog` |
| Intake and threading (`intake.ts`, `repos/threading.ts`, `mail/bounce.ts`, `intake/maildir.ts`) | message ids, the ticket row, the mail folder | create or thread a message, ring triage, merge | redelivery and crashes at every point, a status read too early | `Intake` |
| Queues (`queue.ts`) | jobs in Redis | enqueue, retry, stall | a job's id is its ticket's, so a repeat may be swallowed | `Intake`, `Outbound`, `Desk` |
| Pipeline (`agent-helpdesk/src/pipeline.ts`, `decide.ts`, `enrich.ts`, `actions.ts`) | none of its own | triage, retrieve, decide, execute | stale settings and ticket, two runs at once, a failure at any stage | `Decide`, `Pipeline` |
| Limits and usage (`repos/limits.ts`, `repos/usage.ts`, `llm/gateway.ts`) | runs per hour, spending per day | check then record | check-then-act over a cap | `Pipeline` |
| Notifications (`notify/*`, `repos/notifications.ts`) | preferences, the queued notices | notify, warn, escalate, unsubscribe | one notice per fact and person, consent in between | `Notify` |
| Follow-up and write-back (`followup.ts`, `writeback.ts`) | none of its own | close what stayed resolved, write a resolution back | check-then-act against intake; write-backs side by side | `Intake`, `Desk` |
| Documents and retrieval (`packages/rag`) | documents and chunks | ingest, supersede, retrieve | what competes in a search | `Desk` |
| Configuration (`repos/config.ts`, `config-policy.ts`, `settings.ts`) | settings, `config_versions`, `config_change_requests` | change, propose, decide, roll back, expire | stale bases, double decisions, what counts as widening | `ConfigVersions` |
| Identity and access (`auth/*`, `repos/users.ts`, `repos/api-keys.ts`) | memberships, sessions, keys | sign in, switch tenant, invite, demote, remove, issue and revoke keys | a removal against a request in flight, the last administrator | `Access` |
| Shadow record and thresholds (`repos/shadow.ts`, `eval/src/thresholds.ts`, `metrics.ts`, `report.ts`) | `triage_shadow` | record, label, sweep thresholds | labels and runs coming between each other's writes; small samples | `Shadow` |
| Evaluation scripts, golden set, replay (`packages/eval`, `scripts`) | none | score, print | none: one process, nothing kept | not modelled |
| Console and portal pages (`apps/web/app`) | none | render, call the actions above | none: every change is a repository call of another row | not modelled |
| Health and heartbeats (`health.ts`, `repos/heartbeats.ts`) | a row per worker | beat, report | none | not modelled |
| Prompts (`packages/llm`) | none | wording, calls out | none that is state | not modelled |

### 1.2 How the parts interact

A message reaches the intake endpoint or the mail folder. Intake threads it onto a
ticket or opens one, writes the conversation and rings the triage queue. A worker
runs the pipeline: triage writes a priority and a status, retrieval and the
decision choose an action, the risk gate lets the action's tool run or raises an
approval request, and `ticket.send_reply` queues an outbound row and marks the
ticket. Delivery, the expiries, the breach and warning sweeps and the follow-up
each walk the rows that are due, in every worker. What is resolved is written back
into the knowledge base. People act through the console at any moment of all this.

The modules compose where their components share state:

    ThreadLog  <==refines==  Conversation
    Decide <- Pipeline -> Notify        Desk EXTENDS Pipeline
    ConfigVersions EXTENDS Access       (both under MCAdministration, beside Shadow)

`Pipeline` runs the decision of `Decide` against the settings of a version, tells
people through `Notify` and mails them through one set of queued rows; `Desk` adds
the console, the follow-up's close and the write-back on the same tickets and rows.
`ConfigVersions` asks `Access` for the role of whoever submits a form. `Outbound`
takes over where a row is queued, `Conversation` says what one transaction of
`Intake` is made of.

The behaviours a test hardly reaches are the ones the models enumerate: two sweeps
on one row; rows read before an await and written after it, often by id alone; a
process that stops between two statements, or a statement that fails; a provider or
webhook that answers late, twice or never; working hours; settings and queues that
outlive the decisions taken on them; counts read before what they count is written.

### 1.3 What makes each part correct

- **Outbound.** One claim is one attempt; a report never claims a delivery that did
  not happen; suppressed mail is not attempted; the kill switch stops queued mail;
  budgets bound the attempts; dead letters are told; the queue drains.
- **Approvals.** A gated tool runs only under an approval, once, and the row says
  what happened; settled rows stay; every request settles and lets its ticket go.
- **Clocks.** No writer takes back a breach; pauses and reopens cost nobody a
  minute; every breach is recorded.
- **Conversations.** Sequence numbers without gaps; history first and whole; a
  merged ticket takes nothing new; no call waits for ever.
- **Intake and follow-up.** Nothing acknowledged is missing; a new ticket is
  accounted for; mail gets in; queued tickets are triaged; late answers reopen.
- **Pipeline and limits.** What the agent mails or does is covered by the settings on
  record; a limit is passed by at most the runs in flight; a ticket the agent leaves
  has the reply or question it promises.
- **Notifications.** Nobody on a list is dropped without a reason, nobody told twice.
- **Write-back.** A fix once written back always has a version in force.
- **Configuration.** Widening has somebody who may and two people while two are
  demanded; the history explains what is in force; decisions are recorded as taken.
- **Identity.** A tenant keeps an administrator; no permission appears from nowhere.
- **Shadow.** A label is the category the ticket has; labels move thresholds the
  right way.

## 2. Plan and order

Written, in this order: `Outbound`, `Approvals`, `TicketSla`, `ThreadLog` and
`Conversation`, `Intake`, `Access` and `ConfigVersions`, `Decide`, `Notify` and
`Pipeline`, `Desk`, `Shadow`. Every invariant and action property a passing run checks
is also a theorem; `Decide`, `Notify` and `Pipeline` are proved about through `Desk`,
which holds all of their actions.

The passing runs are few: the safety and the liveness of a component share one, and
components that share nothing share one instance (`administration`). Where a property
of a passing run has to except a race, its section says which, the hazard's note in
`PROJECT.json` says what stays uncovered, and section 10 lists it. Properties
that a theorem shows and a run once did are left to the theorem where a deeper one
took their place: `DeliveredOnce`, `SuppressedForGood`, `OnlyLapsedExpire`,
`GateHolds`, `MetTargetsStand`, `UnsettledClocksAreStamped`,
`PausedResponsesAreJudgedWherePaused`, `CopiedWhole`, `AckedIsWritten`.

Left for later: a mail
contract (unsent, sent or given up, moving only forward) that `Outbound` in fair
weather implements, and an approval contract (asked, answered, carried out at most
once) that `Approvals` implements, as refinements like that of the conversation.

| Run | Module | Expects | Asks |
|---|---|---|---|
| `outbound_races` | MCOutbound | pass | what two loops, an operator, bounces and failing writes do to one row |
| `outbound_drains` | MCOutbound | pass | that everything settles and budgets are kept as accounted |
| `outbound_ticket` | MCOutbound | violation | that a ticket whose reply died is not resolved |
| `approvals_settle` | MCApprovals | pass | the gate, the record, and that requests settle |
| `approvals_silence` | MCApprovals | violation | that every lapse is told |
| `sla_clocks` | MCTicketSla | pass | breaches, margins and the sweep |
| `sla_resolved` | MCTicketSla | violation | that `resolved_at` means still resolved |
| `conversation` | MCConversation | pass | threads, merges, and the abstract log |
| `intake` | MCIntake | pass | what is acknowledged, and what must happen next |
| `administration` | MCAdministration | pass | who may act, what is in force, what labels say |
| `pipeline` | MCPipeline | pass | the agent, the people it tells, and what is learnt |
| `notify_queue` | MCPipeline | violation | that everybody on the default queue is warned |

## 3. Outbound

`Outbound.tla` models `packages/core/src/repos/outbound.ts`, `mail/deliver.ts`, the
outbound half of the worker and the console's mail page, and the statements of
`ticket.send_reply` that touch the row and the ticket.

| State | Code |
|---|---|
| `status`, `attempts`, `maxAttempts`, `due`, `stale` | columns of `outbound_messages`; the two clocks as booleans: `next_attempt_at <= now()`, `updated_at` older than the stall window |
| `suppressed` | `email_suppressions` of the tenant |
| `threaded`, `told`, `ticket` | `email_message_ids`, the `delivery` event on the ticket, `tickets.status` |
| `auto`, `leaked` | `effectiveMode = 'auto'`; per loop, agent mail handed over since it was narrowed |
| `accepted` | what the provider took, by attempt: the environment |
| `call`, `reply`, `retrying` | where each `deliverOutbound`/`applyBounce`, `send_reply` and `retryOutbound` call is, with the values it has read |

Each SQL statement is an action: `Claim`, `StartAttempt`/`KillSwitchStops`/
`NoTransport` (the gates), `Accept`/`Refuse` (the provider), `MarkSent`,
`RecordMessageId`, `Defer`, `Fail`, `SuppressDeadMailbox`, `Announce`, `Reopen`,
`ReclaimStalled`, `Cancel`, the two steps of a retry, the three of `send_reply`, the
bounce steps, `LiftSuppression`, `SetMode`; and `BecomeDue`, `Stall`, `Crash`,
`ReplyCrash` for time and failure. Updates the code makes by id alone have no guard
on the status here either.

`outbound_races` is one message, two delivery loops, a bounce hook, an operator, one
slow send, one manual retry, an ambiguous provider and failing statements, with a
budget of one attempt: claims differ, success is recorded of accepted mail only,
suppressed rows are inert, dead letters reach the ticket, a narrowed mode lets each
loop hand over at most one more, and a settled row moves only by a retry, a bounce or
the late report of a call in flight. `outbound_drains` adds a crash and a second
attempt under fairness. `SuppressedNeverAttempted` is of rows recorded as suppressed;
a row queued before its address is suppressed is tried, and no property denies it.
`DeadLettersAreTold` is of calls that live; one that dies between the dead letter and
the ticket is silent for good, since no timer revisits a failed row.

Bounds. Two loops are what any race here needs: every guarded update excludes a
third as it excludes the second. One crash, one slow send and one retry each start
the late reports they are about. A budget of two has a first, a last and, with those
faults, one attempt too many.

Fairness (`outbound_drains`). The worker's timers fire and its awaits return: weak
fairness of a delivery call's next step, of the announcements, of the clocks and of
the sweep's reclaim. `dueOutbound` is ordered oldest first and the loop walks all of
it, so a row that keeps being due is claimed: strong fairness of the claim, per row.
Callers, operators and bounces owe nothing.

Proved in `OutboundProofs`, for any number of messages, workers, hooks and
operators: typing, `ClaimsAreDistinct`, `SentWasAccepted`, `KillSwitchReachesQueue`,
`SuppressedNeverAttempted`, `SettledMovesOnlyBy`, `SuppressedForGood`, and
`DeliveredOnce` under the assumption `FairWeather`. The inductive invariant
`SafetyInv` adds to the properties what a call knows: one that is about to record
success holds an accepted attempt (`MarkerWasAccepted`), absent and suppressed rows
have no attempt (`UntouchedRows`), and a call past the gate has not leaked
(`GatePassedOnce`). Delivery once needs `OnceInv`: in fair weather a row is sending
exactly while one call holds it, so nothing stalls, nothing is reclaimed, and an
accepted message is out of every claim's reach.

`BudgetAccounted` (`BudgetHolds`) needs `BudgetInv`, because a late deferral queues a
row whatever its count is by then. It counts the lives of a row: the calls that may
still defer (their attempt is below their own `max`), the retries an operator has
begun, and the row itself when it can be claimed or reclaimed without anybody's report.
A row is born with one life; a crash, a slow send and a retry add one each; a deferral
and a retry move one to the row, a claim moves it to the call, and the last attempt of
the budget uses it up. Lives never exceed what was spent by more than one, nor, with
the attempts made, the budget by more than what was spent. TLC checked `BudgetInv` on
the instances of both runs and on larger ones before it was proved.
`DeadLettersAreTold` holds until a call dies (`DeadLettersNeedACrash`), and so always
where `MaxCrashes` is 0 (`DeadLettersTold`, the case of `outbound_races`).
`QueueDrains` is liveness.

## 4. Approvals

`Approvals.tla` models `repos/approvals.ts`, the gate of `tools/registry.ts`, the
`run_action` branch of the pipeline, the console's approve and reject, and the
worker's expiry sweep. `status`, `decided`, `lapsed` are the row; `run` is where a
pipeline run is, `visit` where a reviewer's submission is, `toTell` the rows a sweep
has expired and not yet noted; `done`, `alone` and `unlogged` say what the tools did. The
actions are the statements: `Decide` (the guarded update), `ReadStale` and
`MarkExpired` (its fallback), `CheckApproval`, `MarkExpiredAfterApproval`, `RunTool`,
`RecordOutcome`, `MoveTicket`, `Expire`, `Tell`, and the run's `DecideRun`,
`ActUnattended`, `RequestApproval`, `Park`, `Reply`, `GiveUp`; crashes of each.

The candidate tools of today are all `safe_write`, and the decision acts only with
tools on the whitelist, so with today's catalogue no request is raised from the
pipeline. The whitelist is free text and the tiers are the registry's, so the model
takes both as constants and gives the gate a tool it has to hold back. With autonomy
`reply` the decision parks the ticket in `awaiting_approval` and no request exists
(`decide.ts:294`); the model does the same, and no property claims otherwise.

`approvals_settle` is one run, two reviewers, a sweep and two tools under every
autonomy level, every edit of the whitelist and every fault: a tool runs only under
its approval and once, the row says what happened, settled rows stay but for the
outcome of the visit that was handed the approval, every request settles, and a
decision takes the ticket out of `awaiting_approval` unless the visit that decided
has died. `approvals_silence` is a violation: a lapsed request a reviewer's click
retires is never noted by the sweep.

`RecordIsTrue` lets a request whose tool ran be recorded as failed only when the row of
its call could not be written (`unlogged`, a history variable): `tool.execute` and
`logToolCall` share one `try`. Two races are outside of the properties: a tool may run
after its ticket was told that it will not, and a decision that comes before the park
leaves the ticket parked (`DecisionsMoveTheTicket` is of tickets parked before).

Bounds: two reviewers and one sweep are the three parties that meet on a row.
Fairness: a process that is not stopped goes on, the sweep's timer fires, deadlines
pass; nobody has to decide.

Proved in `ApprovalsProofs`, for any number of runs, visits and sweeps: typing,
`Custody`, `RunsWereGranted`, `OncePerApproval`, `RecordIsTrue`, `OnlyLapsedExpire`,
`SettledIsFinal`, `GateHolds`. `Custody` is the inductive invariant: an approval is
never consumed in the code, so "once" rests on one visit only being handed the row
(`OneHolder`), on what that visit may rely on until it records (`HolderKnows`), on
what a row tells of its past (`RowKnows`) and on what a visit that came too late has
seen (`LateKnows`). The two leads-to properties are liveness and stay with TLC.

## 5. Tickets and SLA clocks

`TicketSla.tla` models one ticket's two clocks: every writer in `repos/tickets.ts`
(`setStatus`, `applyTriage` in its two transactions, `markFirstResponse`,
`overrideClassification`), `mergeTicket`, the breach sweep of `notify/sla.ts`, and the
arithmetic of `sla.ts`: working minutes before an instant, the first instant with so
many, pauses and reopens as credits, stamps, and how a clock reads. A writer locks
the row it reads, so it is one step; a retriage that ends a pause and a sweep that
selects before it locks are two. Tickets do not touch each other, so one is enough.

Abstracted: time is in whole minutes from a midnight; the settings do not change;
every day is a working day (a weekend is a longer night, and the proofs hold for
every length of night); no change of the clocks' offset. The fallbacks for a closing
time before the opening and for more days than `MAX_WALK` are excluded by the
assumption on the constants. Statuses no clock can tell apart are one status.

`sla_clocks` has two priorities, one on the calendar and one on working hours, and
days of four minutes with two working ones, over two working days and the nights
between: every pause, response, reopen and correction happens before, in, at the
edges of and across working hours. Of the rules of `docs/sla.md` it checks that
breaches stand, that pauses and reopens keep the margin in the clock's own units and
that every breach is recorded; that met targets stand, that a running deadline is the
stamp of its credits and that responses in a pause are judged where the clock stopped
is proved. The sweep runs every minute (weak fairness of its selection) and one that
keeps coming succeeds in the end (strong fairness of the recording). `sla_resolved`
is a violation: a triage that lands after a person resolved the ticket opens it and
leaves `resolved_at` set.

`PausedResponsesAreJudgedWherePaused` has one exception the code forces: a clock on
working hours that is due at closing and paused in that very minute gets no credit
for the night, so an answer before the next opening reads late. `docs/sla.md` (I8)
has no such case.

Proved in `TicketSlaProofs`, for every calendar, window and set of priorities: typing
and the seven safety properties just named. `ClockInv` carries the row's
invariant (timestamps not ahead of the clock, credits not negative, a pause without a
resolution, a deadline only with a priority, an unsettled deadline equal to its
stamp). The arithmetic rests on `WorkedInstant` (the first instant with w working
minutes has w of them), `WorkedMonotone` and `LaterAdds` (credits may be added one at
a time or together), which is what makes a shift and a fresh stamp agree.
`BreachesAreRecorded` is liveness and stays with TLC.

## 6. Conversations

`Conversation.tla` models `repos/conversations.ts` and the lock `mergeTicket` puts on a
conversation, statement by statement, because what races here are transactions of
several statements.

| State | Code |
|---|---|
| `conv`, `last` | `conversations.status` ("none" without a row) and `last_seq`, per ticket |
| `message` | `conversation_messages` by idempotency key: the thread, `seq`, whether `legacy` is set |
| `holder` | the transaction that keeps the conversation row until it ends |
| `merged`, `problem` | `tickets.merged_into_id is not null`; tickets whose record `planLegacyThread` refuses |
| `call` | where each transaction is, what it has read, and the row a rollback restores |
| `acked` | the messages calls have returned: what callers rely on |

| Action | Code |
|---|---|
| `OpenPrimary`, `LockPrimary`, `Write` | `appendMessage`: the insert and the `for update` of `lockPrimary`, the key's lookup under the lock, then history and message |
| `BackfillReads`, `BackfillOpens`, `BackfillCopies` | `backfillConversation` |
| `MergeReads`, `LockConversation`, `MergeMarks` | `mergeTicket` |
| `Abort` | a failing statement, a failed check, a dead process: `Rollback` |
| `Repair` | outside: a person completes a record |

An insert waits only for another uncommitted insert of the row (`Inserting`), a
locking statement for any holder (`Available`), a plain select for nobody. Once a
transaction holds the row, the rest of it is one step: nobody else writes what it
reads, except a key of another thread, and that one meets the unique index
(`Write`'s first branch). What `planLegacyThread` reads in a record is a constant: the
keys of the history and their order. It is fixed because `appendEvent` takes no more
`reply` or `draft` events with words in them, and a merge's copies are skipped. The
words are not modelled. So whether a second call under a key is the same message is
left open (it may be acknowledged or refused), and only its thread is told apart.

The run `conversation` has a ticket with an opening and a reply on record, which may
have been merged before there were conversations and whose record may be unreadable,
and one that intake has just opened; two appends, a backfill and a merge, each of
which may abort anywhere and start again without bound. A third append adds nothing to
two on one row, and every pair and every triple of kinds meets. It checks rules of
`docs/conversation.md` (`SeqsAreDense`, `MergedTakesNothing`, `HistoryFirst`; the
proofs add `AckedIsWritten` and `CopiedWhole`), that the whole is the log
`ThreadLog` (`ImplementsThreadLog`); and that no call waits for ever (`CallsReturn`).
`CopiedWhole` has the exception the code makes: the first words on a ticket whose record
cannot be read are written without the history.

Fairness: a statement returns once the row it waits for is free. PostgreSQL queues
lock waiters, so strong fairness for the statements that wait, weak for the one that
does not. Nobody has to start a call, and none has to succeed.

Proved in `ConversationProofs`, for any number of tickets, messages and
transactions: typing, `ThreadInv`, all five of the rules above, and
`Spec => ImplementsThreadLog`. `ThreadInv` is what the transactions rely on
(`RowsAreKept`: who keeps a row, that a write's `last_seq` is current, that no rollback
or late backfill opens a merged ticket's row) and where history may be
(`HistoryStaysHome`). Every step that writes messages is brought to one form
(`Growth`: the history that was missing, then at most one message, on the next numbers
of one thread), and density, order, acknowledgement, the closing of merged tickets and
the refinement follow from that form. Order and completeness are inductive only
together: that a fresh ticket's opening is never written behind other words rests on
the first write having copied it. `CallsReturn` is liveness and stays with TLC.

## 7. Intake

`Intake.tla` models `intakeMessage` and `threadOntoTicket` behind the webhook and the
mail folder, the thread lookup and `mergeTicket`, the triage job and the follow-up
sweep. A ticket is named by the message that opened it. `call` is where each request
stands and what it has read; `filed`, `said` and `heard` are the message ids, the
conversation and the ticket's log; `job` is the triage job with its deadline and its
id; `acked` what a provider was told; `base` what had been heard when `resolved_at`
was stamped. The classification of a message is the code's, on what it looks at
(`Form`): a reply that quotes a delivery report is a reply. The words, the requester's
row and the scrubbing are left out, as are the API's and the portal's own door to
`intakeMessage`, which adds no statement of its own.

`intake` has a message from the folder and a reply to it at the webhook, one call that
dies or one needless redelivery, and one merge, retriage or change of status by a
person. `AckedIsKept` and `NewIsAccountedFor` are safety. `MailGetsIn`,
`QueuedIsTriaged` and `AnswersReopen` hold under `IntakeFairness`: providers repeat what
was refused, the folder is polled, awaits return, workers take jobs, sweeps come round.
`MaxFaults` is below the three attempts of a job, without which a job is given up as the
code means it to be. The age of a resolution is abstracted: a sweep may find it due at
any time. Status changes stop at `MaxChanges`, so that "reopens" is not undone for ever.

Proved in `IntakeProofs`, for any messages, references, requests and sweeps: typing,
`AckedIsKept`, `NewIsAccountedFor`. The invariant says what a call may rely on at each
statement (`CallsAreTrue`) and that a merged ticket is not new.

## 8. Identity, configuration and the shadow record

`Access.tla`: memberships, sessions, keys, and the requests that change them. A request
resolves its context, with the role of that moment, in its first step and carries it to
the last. `AdminRemains`: a tenant is never without an administrator unless a membership
changed under a request that had counted (`users.ts:241` counts in one statement and
writes in another). `AuthorityIsNotMade`: whatever the order of invitations, demotions
and keys, a permission nobody in the tenant has is not brought into it.

`ConfigVersions.tla`: the forms, a rollback, a proposal with its decision and expiry. A
field is its dotted path; the direction of a change is the code's (`config-policy.ts`),
with the default a category falls back on. `WideningIsGated` is stated on what each
version lets the agent do, not on what the diff says. Both it and `HistoryExplains` have
one exception: a request that compared with settings that were no longer the last when
it committed. `DecisionsAreTrue` has none. What the exceptions of `AdminRemains` and `HistoryExplains`
let through is in section 10: no property speaks of two overlapped requests.

`Shadow.tla`: the record of a run, the review of a person, and the thresholds swept from
them. Confidence is in thousandths in the answer and in hundredths in the record, as
the column rounds it. The Wilson bound is stated without roots: the rate exceeds the
target by z standard deviations of the target. `GroundTruth` excepts tickets whose last
label was overtaken or cut off: a person's label may land on the record of a later run. The gate on configured thresholds looks only at categories with a labelled
prediction (`thresholds.ts:221`), so `LabelsMoveThresholds` has one exception: the first
label of a category, though right, may bring its threshold before the gate as unjustified.

`administration` holds them side by side: two administrators and a stranger with two
requests on the members, three on the settings, or one of each with a key and a
sign-out; then one ticket with everything that can come between its runs and reviews,
and three tickets labelled one by one. The two halves share nothing, so each is explored
while the other rests. The target is 30 percent of two samples there, so that three
labels open a threshold and close it again; the theorem has any target. Three versions
and one proposal let a proposal go stale, be overtaken and be decided twice.

Proved in `AdministrationProofs`, of `Access`: typing with what a request may rely on (`Asked`: the role it would
grant is within the reach of whoever asked), `AuthorityIsNotMade`, and `AdminRemains` by
what a request at its write was let through on (`Relied`); of `ConfigVersions`: the three
properties, from `Knows`: what is about to be committed was compared with its base and
let through the gates, and a decision is another person's. That a freer version has a
widened field in its diff (`FreerIsWidening`) needs that a category's field and its
default are ordered alike (`SameDirection`). `AdminImpliesAccess` carries what is proved
of `Access` over. `ShadowProofs`: typing, `GroundTruth`, and `LabelsMoveThresholds` for any
number of tickets and any target that `MinSamples` tickets, one of them wrong, do not
meet; its arithmetic is that the bound only grows with one more right of one more.

## 9. The agent, the people it tells, and the desk

`Decide.tla` has no state: the decision table of `decide.ts` with the category's policy,
the mode, the bounds of the schema, the tool a classification stands for and the queue.
`Pipeline.tla` is a run, statement by statement: limits, settings and then their number
(`pipeline.ts:72`), the model's answer with one repair, triage, retrieval, decision,
execution, with crashes, stalls, redelivery and forced runs. `Notify.tla` is whom a fact
concerns, and per person policy, consent, suppression and the key. `Desk.tla` is the
ticket page, the follow-up's close, the write-back job and what a search may return.
One document is one chunk; two texts about one fix are near each other. Recipients of a
list are taken in any order; staff are active.

`pipeline` is many small scenarios under one specification, each exhausted: every kind of
answer of the model under five settings that change meanwhile; two runs of one ticket
with crashes and a merge; loops of forced runs against limits of two and three; the
console, sweeps and escalations telling people who opt out or bounce; and tickets
resolved in every way with two write-backs side by side. A scenario bounds faults, hours,
versions and words; two of anything is what a race here takes, and three runs are what
pass a limit of two. Symmetry is over requests, runs and writers, and no liveness is
checked there.

- `ContactsAreExplained` states what settings allow without decide's order (`MayMail`,
  `MayCall`), and holds of every row queued and tool called, except where the number was
  read after a change.
- `LimitsHold`: each limit is passed by at most the runs in flight beyond the first.
- `PromisesAreKept`: a ticket the agent leaves resolved or waiting has its reply or
  question, or a run or job that will put it right, unless its job was given up.
- `NoticesReach`: nobody on a list is dropped but for a reason of his own, or for one of
  two the keys have. One key per clock means that of the people on a queue only the first
  is warned (`notify_queue`). The key of a digest is the size of the batch and its lowest
  id prefixes, five of eight characters, with no hour, so a digest may be dropped for an
  older one of another batch; `AnotherBatchTold` says when. The prefix of
  a ticket (`PrefixOf`), how many a key keeps (`PrefixesKept`) and the size above which a
  batch is a digest (`DigestAbove`) are constants, of any values in the proof. The instance
  keeps one and digests two or more, where the code keeps five and digests four or more;
  three tickets then make batches that collide and batches that do not.
- `FixesAreCurrent`: a fix once written back has a live version, and never more than
  there are write-backs at once.

Proved in `DeskProofs`, of every scenario, number of people, tickets, runs and writers:
all five, and typing (`DeskTypeCorrect`). None is inductive alone.

- `EveryNoticeReaches`, by `NoticeInv`: a row's key tells what it is about, a sender has
  one notice in hand at a time, only a warning is about a clock, and a run holds notices
  only while it tells people. So the key that stops an insert stands for the same notice,
  or, of a digest, for a batch of the same size with the same lowest prefixes.
- `EveryContactIsExplained`, by `PlanInv`: from its decision on, a run carries what
  `decide` makes of the settings and the answer it has read, and reaches the steps that
  mail or call only with a plan that does. What `decide` executes, `MayMail` and `MayCall`
  allow, table by table.
- `PromisesStand`, by `PromiseInv`: the ticket's reply is in the queue, or a run will still
  look at the ticket or carries the very status it has, or a job is left. A run that settles
  has its reply in the queue, and a merge it has seen stands.
- `FixesStayCurrent`, by `FixInv`: of a fix with a version one is live; a write-back about to
  retire holds live versions of its own fix; and for any set of write-backs about to retire,
  the live versions none of them will retire and the set itself are no more than there are
  writers. It is the quantifier over sets that survives their retiring in any order.
- `LimitsAreBounds`, by `LimitInv`: what is counted and the runs between a look at a count
  and the row that adds to it, together, fit the limit of some version in force and the
  runs beyond the first (`RequestersKeepTo`, `TenantKeepsTo`, `CallsKeepTo`,
  `RoundsKeepTo`). `QuestionsAreCounted` bounds a ticket's questions by its rounds, the
  runs that have yet to count theirs, and the counts a crash let slip. The recorded runs
  are a sequence of requesters (`agentRuns`), oldest first; an hour drops a prefix.

TLC checked the five invariants over all the scenarios (590,772 states) first.

## 10. Divergences

Runs that expect a violation show a disagreement between the code and what its
comments say; `findings` in `PROJECT.json` quotes both sides. Others were met while
modelling and have no run of their own. The models do what the code does in each
case, and the properties are stated so that they hold of it.

Mail, approvals and conversations:

- `outbound.ts:246`: the suppression list is read when a row is queued, not when it
  is claimed; `deliver.ts:207`: a dead letter is told in a second write; `outbound.ts:289`:
  a reclaimed row is claimed again whatever its budget; `:487`: a bounce that arrives before its row reads sent moves no row; `:346`: a late deferral
  puts a cancelled row back in the queue.
- `approvals.ts:333`: an approval that expires while the tool runs is recorded
  expired, its ticket told that it will not run, and the record then overwritten with the
  outcome (`:352`). `registry.ts:214`: a tool that ran and could not be logged is recorded
  as failed. `pipeline.ts:444`: the ticket is parked after the request exists, so a
  decision that comes first is overwritten.
- With autonomy `reply` and a whitelisted tool the ticket is left `awaiting_approval`
  without a request (`decide.ts:294`). With the present tools no decision raises one.
- `docs/conversation.md` (D4) says a history is refused for its order only after an
  old writer ran; it also is when a record is completed after the first words were
  written without it. `conversations.ts:288`: a reply redelivered after its ticket was
  merged is refused as a conflict, not taken as a repeat.

Intake, merges and follow-up:

- `threading.ts:283`: a merged source may be merged again, and both tickets are read
  without a lock; ids recorded after a merge point at the merged ticket (`:310`).
- A process that stops between the ticket row and the triage job leaves a new ticket no
  job looks for; one that stops between append and setStatus leaves the ticket unmoved,
  as the redelivery is a repeat. A status read before the append decides (`intake.ts:211`).
- The sweep reads, then closes (`followup.ts:29`). A reply delivered before what it
  answers opens its own ticket. The webhook does not drop automatic replies.
- A run whose ticket is merged during the model's call writes its status on it. A
  clarification round ends only by a forced retriage: an answer rings no triage.

Agent, notices and write-back:

- `never_auto_categories` (`settings.ts:178`) is not read by `decide`, though
  `config-policy.ts:294` speaks of what removing one opens; `config-policy.ts:289` says a
  tool taken off the whitelist "will now queue for human approval", and a written reply is
  decided instead. Autonomy `reply` sends nothing unless `ticket.send_reply` is whitelisted.
- The number stamped on a ticket may be of a later version than its settings
  (`pipeline.ts:75` says it is not).
- A refused text call throws before its usage is recorded, and a failing record is let go.
- The status is written before the reply exists (`pipeline.ts:246`).
- One key per clock (`notify_queue`); the key of a digest is its size and five prefixes,
  though `events.ts:89` says it "dedupes on the set it covers"; `ops_address` is not used
  when everybody has opted out, as `settings.ts:125` says; a deactivated assignee is still warned (`notifications.ts:338`).
- Two write-backs side by side leave two versions competing until a later one, against
  `writeback.ts:28`; one asked for within ten minutes of the last is swallowed; a bulk
  change of status asks for none.

Settings, people and labels:

- A save compared with a stale base silently reverts the other's change, which the lock
  (`config.ts:449`) orders but does not see, and so does an approval whose base is checked
  before it (`:737`). Two decisions of one proposal may both be carried
  out. A proposed rollback is recorded as an update.
- Two removals side by side leave no administrator (`users.ts:241`).
- A run clears the labels of its ticket; two runs may leave the ticket one's category and
  the record the other's; a person's label may land on a later run's record; a label on a ticket without a record is lost. The record
  keeps confidence in hundredths and the decision compares the raw one.
- With the default gates (30 tickets, 95 percent) 30 to 72 tickets, all of them right, are
  called `target_unreachable` (`thresholds.ts:160`), though no mistake was made.
- The gate "Configured thresholds justified" says nothing of a category that is configured
  to act and has no labelled prediction (`report.ts:589` looks through
  `thresholds.by_category`), so its first right label may turn the gate from passing, or
  unmeasured, to failing.

## 11. What stays outside

TLAPS has no liveness under fairness, no ENABLED and no induction over recursive
definitions here: the leads-to properties are model-checked only, and the modules with
theorems have no recursive operator. These are the properties with no theorem:
`QueueDrains`, `RequestsSettle`, `DecisionsMoveTheTicket`, `BreachesAreRecorded`,
`CallsReturn`, `MailGetsIn`, `QueuedIsTriaged` and `AnswersReopen`. The properties of the
runs that expect a violation are false, so their counterexamples are TLC's alone.

Not modelled: text (prompts, rendering, the parsing of mail), page rendering, the
evaluation scripts, the golden set and replay (one process, nothing kept), heartbeats and
health, the directory behind the tools, encryption and hashes, the API's rate limit (a
count of logged requests, logged after the response, so requests side by side pass it
together), runbooks, chunking and embeddings, warnings' instants, and the tenant predicate
every query carries: each model is one tenant.

## 12. Running it

`tlc -config <Cfg>.cfg MC<Module>` for the runs, `tlapm <Module>Proofs.tla` for the
proofs; `PROJECT.json` lists every run with its properties, a mutant of the code for
each of them, the lines every definition stands for, the hazards and the theorems.
