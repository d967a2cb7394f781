------------------------------ MODULE Pipeline ------------------------------
(***************************************************************************)
(* A run of the agent on a ticket: runPipeline                             *)
(* (packages/agent-helpdesk/src/pipeline.ts) from the job off the queue to *)
(* the reply, the question, the tool call or the person it ends with, with *)
(* the rate limits (repos/limits.ts), the model gateway and its spending   *)
(* cap (packages/llm/src/gateway.ts), what applyTriage and setStatus do to *)
(* the status (TicketSla has the clocks), the send_reply and escalate      *)
(* tools, and the job that brings a crashed run back.                      *)
(*                                                                         *)
(* Decide says what is decided, Notify who is told.  Several runs, also of *)
(* one ticket, interleave with each other, with the console, with changes  *)
(* of the settings and with crashes at every step.  The branch that asks   *)
(* for an approval is left out: no decision of the present code reaches it *)
(* (Decide; Approvals models what it would start).  So are the shadow      *)
(* record and the timeline, which no step of a run reads back.             *)
(***************************************************************************)
EXTENDS Decide, Notify

CONSTANTS
  Directory,    \* person -> [vip, department, email]
  CostCap,      \* LLM_DAILY_COST_CAP_USD, counted in calls
  Writers,      \* slots for write-backs, which spend from the same cap (Desk)
  NoTicket

QueuesOf(routing) ==
  {routing.default_queue, routing.escalation_queue}
  \cup {routing.category_queues[c] : c \in DOMAIN routing.category_queues}

ASSUME PipelineAssumption ==
  /\ Directory \in [People -> [vip : BOOLEAN, department : STRING, email : BOOLEAN]]
  /\ CostCap \in Nat
  /\ IsFiniteSet(Runs) /\ Runs # {} /\ IsFiniteSet(Writers)
  /\ NoTicket \notin Tickets
  /\ \A s \in Scenarios :
       /\ s.deployment \in Modes         \* AGENT_MODE of the deployment
       /\ s.injected \subseteq Tickets   \* whose text the injection scan flags
       /\ s.outputs \subseteq Outputs
       /\ s.attempts \in 1 .. 2            \* the gateway asks once more, no further
       /\ s.jobs \in [Tickets -> Nat] /\ s.supports \subseteq Nat
       /\ \A settings \in {s.settings} \cup s.commits :
            /\ IsBusinessSettings(settings) /\ IsNotificationPolicy(settings.notifications)
            /\ QueuesOf(settings.routing) \subseteq DOMAIN Watching   \* {} when nobody is on one

VARIABLES
  job,        \* ticket -> [fresh, stalled]: jobs waiting
  lost,       \* tickets a job of which stalled too often and was given up
  run,        \* run -> where it stands and what it has read
  clarify,    \* ticket -> clarify_count
  agentRuns,  \* the requesters of the rows of agent_runs within the hour, oldest first
  spent,      \* llm_usage of the day, in calls
  called,     \* <<ticket, tool>>: what the agent had a tool do
  slips       \* ticket -> questions queued by runs that ended before counting them

runVars == <<job, lost, run, clarify, agentRuns, spent, called, slips>>
vars == <<notifyVars, runVars>>

\* A worker slot: the ticket and the settings as first read, the version read
\* after them, the model's answer and what was decided on it.
Ask == "ask_question"
NoOutput == [category |-> "software", priority |-> "P4", confidence |-> 0, security |-> FALSE,
             destructive |-> FALSE, missing |-> 0, hint |-> NoIncident, about |-> "other",
             system |-> FALSE]
NoPlan == [intended |-> "escalate", rule |-> "", action |-> "escalate", status |-> "triaged",
           execute |-> FALSE]
Idle == [pc |-> "idle", ticket |-> NoTicket, stalled |-> FALSE, merged |-> FALSE, rounds |-> 0,
         seen |-> 1, version |-> 1, output |-> NoOutput, support |-> 0, plan |-> NoPlan,
         words |-> 0]

PipelineStart(s) ==
  /\ job = [t \in Tickets |-> [fresh |-> s.jobs[t], stalled |-> 0]]
  /\ lost = {} /\ called = {} /\ spent = 0
  /\ run = [r \in Runs |-> Idle]
  /\ clarify = [t \in Tickets |-> 0]
  /\ slips = [t \in Tickets |-> 0]
  /\ agentRuns = <<>>

Init == scene \in Scenarios /\ NotifyStart(scene) /\ PipelineStart(scene)

At(r, pc) == run[r].pc = pc
Goes(r, pc) == run' = [run EXCEPT ![r].pc = pc]
Ends(r) == run' = [run EXCEPT ![r] = Idle]
TicketOf(r) == run[r].ticket
SettingsOf(r) == versions[run[r].seen]   \* what getSettings returned
Requester(r) == RequesterOf[TicketOf(r)]

\* setStatus, as far as the status.
SetStatus(t, status) == ticket' = [ticket EXCEPT ![t].status = status, ![t].by = "agent"]

(***************************************************************************)
(* Into the run                                                            *)
(***************************************************************************)

\* The job, the ticket and the settings.
Start(r) ==
  /\ At(r, "idle")
  /\ \E t \in Tickets, stalled \in BOOLEAN :
       /\ IF stalled THEN job[t].stalled > 0 ELSE job[t].fresh > 0
       /\ job' = IF stalled THEN [job EXCEPT ![t].stalled = @ - 1]
                 ELSE [job EXCEPT ![t].fresh = @ - 1]
       /\ run' = [run EXCEPT ![r] = [Idle EXCEPT !.pc = "admit", !.ticket = t, !.stalled = stalled,
                                       !.merged = ticket[t].merged, !.rounds = clarify[t],
                                       !.seen = Len(versions)]]
  /\ UNCHANGED <<notifyVars, lost, clarify, agentRuns, spent, called, slips>>

\* checkRateLimit: two counts.
TenantRuns == Len(agentRuns)
RequesterRuns(p) == Cardinality({i \in DOMAIN agentRuns : agentRuns[i] = p})

RateAllowed(r) ==
  /\ TenantRuns < SettingsOf(r).max_agent_runs_per_tenant_hour
  /\ RequesterRuns(Requester(r)) < SettingsOf(r).max_agent_runs_per_requester_hour

\* The number of the version now in force; a merged ticket is not work any
\* more; the limits.
Admit(r) ==
  /\ At(r, "admit")
  /\ run' = [run EXCEPT ![r] =
       CASE run[r].merged -> Idle
         [] ~run[r].merged /\ RateAllowed(r) -> [@ EXCEPT !.version = Len(versions), !.pc = "record"]
         [] OTHER -> [@ EXCEPT !.version = Len(versions), !.pc = "park"]]
  /\ UNCHANGED <<notifyVars, job, lost, clarify, agentRuns, spent, called, slips>>

RecordAgentRun(r) ==
  /\ At(r, "record")
  /\ agentRuns' = Append(agentRuns, Requester(r))
  /\ Goes(r, "ask")
  /\ UNCHANGED <<notifyVars, job, lost, clarify, spent, called, slips>>

\* The end of every failure: the ticket is a person's.
Park(r) ==
  /\ At(r, "park")
  /\ SetStatus(TicketOf(r), "triaged")
  /\ Ends(r)
  /\ UNCHANGED <<scene, versions, near, mail, optedOut, suppressed, hour, errand, faults,
                 job, lost, clarify, agentRuns, spent, called, slips>>

(***************************************************************************)
(* The model                                                               *)
(***************************************************************************)

\* The gateway looks at the day's spending before either kind of call.
SpendAllows == spent < CostCap

AskModel(r) ==
  /\ At(r, "ask")
  /\ Goes(r, IF SpendAllows THEN "answer" ELSE "park")
  /\ UNCHANGED <<notifyVars, job, lost, clarify, agentRuns, spent, called, slips>>

\* recordUsage: a row of llm_usage for a call.
Billed(calls) == spent' = spent + calls

\* The run goes on with what triageTicket returned.
Understood(r, o) == run' = [run EXCEPT ![r].output = o, ![r].pc = "decide"]

\* callStructured: up to two attempts, each billed, the second only after an
\* answer out of bounds; an error or a refusal ends it with what was billed.
Answer(r) ==
  /\ At(r, "answer")
  /\ \/ \E o \in scene.outputs, attempts \in 1 .. scene.attempts :
          ValidateTriage(o) /\ Understood(r, o) /\ Billed(attempts)
     \/ \E o \in scene.outputs : ~ValidateTriage(o) /\ Goes(r, "park") /\ Billed(2)
     \/ \E attempts \in 0 .. scene.attempts :
          scene.errors /\ Goes(r, "park") /\ Billed(attempts)
  /\ UNCHANGED <<notifyVars, job, lost, clarify, agentRuns, called, slips>>

(***************************************************************************)
(* The decision, stamped on the ticket before it is carried out            *)
(***************************************************************************)

\* The best score of the chunks.  Retrieval may find nothing or fail; then
\* there is no support, and the run goes on.
KbTopScores == scene.supports

\* What is decided on what the run has read and heard.
PlanOf(r, support) ==
  Decision(Input(scene.deployment, SettingsOf(r), run[r].output, support, run[r].rounds,
                 Directory[Requester(r)], TicketOf(r) \in scene.injected))

\* A ticket waiting for its requester keeps its status here and resumes in the
\* next step (applyTriage).
DecideAndStamp(r) ==
  /\ At(r, "decide")
  /\ \E support \in KbTopScores :
       LET t == TicketOf(r)
           plan == PlanOf(r, support)
           resume == ticket[t].status = "awaiting_user" /\ plan.status # "awaiting_user"
       IN /\ run' = [run EXCEPT ![r].support = support, ![r].plan = plan,
                       ![r].pc = IF resume THEN "resume" ELSE "draft"]
          /\ IF resume THEN ticket' = ticket ELSE SetStatus(t, plan.status)
  /\ UNCHANGED <<scene, versions, near, mail, optedOut, suppressed, hour, errand, faults,
                 job, lost, clarify, agentRuns, spent, called, slips>>

Resume(r) ==
  /\ At(r, "resume")
  /\ SetStatus(TicketOf(r), run[r].plan.status)
  /\ Goes(r, "draft")
  /\ UNCHANGED <<scene, versions, near, mail, optedOut, suppressed, hour, errand, faults,
                 job, lost, clarify, agentRuns, spent, called, slips>>

\* produceDraft: an escalation has none, an acknowledgement is a template, the
\* rest is a call of the model under the same cap.
ProduceDraft(r) ==
  /\ At(r, "draft")
  /\ Goes(r, CASE run[r].plan.intended \in {"escalate", "link_incident"} -> "carry"
               [] run[r].plan.intended \notin {"escalate", "link_incident"} /\ SpendAllows -> "write"
               [] OTHER -> "park")
  /\ UNCHANGED <<notifyVars, job, lost, clarify, agentRuns, spent, called, slips>>

\* callText: billed once it has answered, so an error and a refusal are not.
WriteDraft(r) ==
  /\ At(r, "write")
  /\ \/ \E words \in 1 .. scene.words :
          /\ run' = [run EXCEPT ![r].words = words, ![r].pc = "carry"]
          /\ Billed(1)
     \/ scene.errors /\ Goes(r, "park") /\ UNCHANGED spent
  /\ UNCHANGED <<notifyVars, job, lost, clarify, agentRuns, called, slips>>

(***************************************************************************)
(* Carrying it out                                                         *)
(***************************************************************************)

\* ticket.escalate: the status, then everybody on the queue.
Escalate(r) ==
  /\ At(r, "carry")
  /\ run[r].plan.action = "escalate"
  /\ SetStatus(TicketOf(r), "triaged")
  /\ errand' = [errand EXCEPT ![r].todo =
       EscalationNotices(TicketOf(r), RouteQueue(run[r].output.category, run[r].output.priority,
                                                 SettingsOf(r)))]
  /\ Goes(r, "tell")
  /\ UNCHANGED <<scene, versions, near, mail, optedOut, suppressed, hour, faults,
                 job, lost, clarify, agentRuns, spent, called, slips>>

Told(r) ==
  /\ At(r, "tell")
  /\ errand[r] = NoErrand
  /\ Ends(r)
  /\ UNCHANGED <<notifyVars, job, lost, clarify, agentRuns, spent, called, slips>>

\* A draft nobody outside sees.  The conversation of a merged ticket refuses it.
ParkDraft(r) ==
  /\ At(r, "carry")
  /\ ~run[r].plan.execute
  /\ IF ticket[TicketOf(r)].merged THEN Goes(r, "park") ELSE Ends(r)
  /\ UNCHANGED <<notifyVars, job, lost, clarify, agentRuns, spent, called, slips>>

\* The tool the classification stands for, or straight to the reply.
Act(r) ==
  /\ At(r, "carry")
  /\ run[r].plan.execute /\ run[r].plan.action # "escalate"
  /\ \/ /\ run[r].plan.action = "run_action"
        /\ called' = called \cup
             {<<TicketOf(r), CandidateActionFor(run[r].output, Directory[Requester(r)].email)>>}
        /\ Goes(r, "send")
     \/ /\ run[r].plan.action = "run_action" /\ scene.errors
        /\ Goes(r, "park") /\ UNCHANGED called
     \/ /\ run[r].plan.action # "run_action"
        /\ Goes(r, "send") /\ UNCHANGED called
  /\ UNCHANGED <<notifyVars, job, lost, clarify, agentRuns, spent, slips>>

DraftKind(plan) ==
  CASE plan.intended = Ask -> "question" [] plan.intended = "link_incident" -> "ack" [] OTHER -> "reply"

\* ticket.send_reply: the gate, an address to answer, a conversation that takes
\* a message, and the row.
MayReply(r) ==
  /\ "ticket.send_reply" \in SettingsOf(r).auto_action_whitelist
  /\ Directory[Requester(r)].email
  /\ ~ticket[TicketOf(r)].merged

\* A suppressed address taken for a reply sent.
SendReplySwallowed(r) ==
  /\ At(r, "send")
  /\ LET kind == DraftKind(run[r].plan)
         reply == Notice(kind, {TicketOf(r)}, Requester(r), run[r].words)
         key == [kind |-> kind, tickets |-> {TicketOf(r)}, prefixes |-> {},
                 to |-> Nobody, number |-> run[r].words]
     IN \/ ~MayReply(r) /\ Goes(r, "park") /\ UNCHANGED mail
        \/ MayReply(r) /\ QueueOutbound(reply, key) /\ Goes(r, "settle")
  /\ UNCHANGED <<scene, versions, ticket, near, optedOut, suppressed, hour, errand, faults,
                 job, lost, clarify, agentRuns, spent, called, slips>>

SendReply(r) ==
  /\ At(r, "send")
  /\ LET kind == DraftKind(run[r].plan)
         reply == Notice(kind, {TicketOf(r)}, Requester(r), run[r].words)
         key == [kind |-> kind, tickets |-> {TicketOf(r)}, prefixes |-> {},
                 to |-> Nobody, number |-> run[r].words]
         dead == IF RowsWith(key) # {} THEN \E row \in RowsWith(key) : row.suppressed
                 ELSE Requester(r) \in suppressed
     IN \/ ~MayReply(r) /\ Goes(r, "park") /\ UNCHANGED mail
        \/ MayReply(r) /\ QueueOutbound(reply, key) /\ Goes(r, IF dead THEN "park" ELSE "settle")
  /\ UNCHANGED <<scene, versions, ticket, near, optedOut, suppressed, hour, errand, faults,
                 job, lost, clarify, agentRuns, spent, called, slips>>

\* The message joins the conversation, unless a merge has closed it; then the
\* tool resolves the ticket, or the pipeline counts the question.
SettleReply(r) ==
  /\ At(r, "settle")
  /\ ~ticket[TicketOf(r)].merged
  /\ run[r].plan.action # Ask
  /\ SetStatus(TicketOf(r), "resolved")
  /\ Ends(r)
  /\ UNCHANGED <<scene, versions, near, mail, optedOut, suppressed, hour, errand, faults,
                 job, lost, clarify, agentRuns, spent, called, slips>>

\* The round is not counted.
CountQuestionNot(r) ==
  /\ At(r, "settle")
  /\ ~ticket[TicketOf(r)].merged
  /\ run[r].plan.action = Ask
  /\ Goes(r, "wait")
  /\ UNCHANGED <<notifyVars, job, lost, clarify, agentRuns, spent, called, slips>>

CountQuestion(r) ==
  /\ At(r, "settle")
  /\ ~ticket[TicketOf(r)].merged
  /\ run[r].plan.action = Ask
  /\ clarify' = [clarify EXCEPT ![TicketOf(r)] = @ + 1]
  /\ Goes(r, "wait")
  /\ UNCHANGED <<notifyVars, job, lost, agentRuns, spent, called, slips>>

\* A question in the queue whose run ends before it is counted.
Uncounted(r) == At(r, "settle") /\ run[r].plan.action = Ask
Slips(r) == slips' = IF Uncounted(r) THEN [slips EXCEPT ![TicketOf(r)] = @ + 1] ELSE slips

RefusedByConversation(r) ==
  /\ At(r, "settle")
  /\ ticket[TicketOf(r)].merged
  /\ Goes(r, "park")
  /\ Slips(r)
  /\ UNCHANGED <<notifyVars, job, lost, clarify, agentRuns, spent, called>>

WaitForUser(r) ==
  /\ At(r, "wait")
  /\ SetStatus(TicketOf(r), "awaiting_user")
  /\ Ends(r)
  /\ UNCHANGED <<scene, versions, near, mail, optedOut, suppressed, hour, errand, faults,
                 job, lost, clarify, agentRuns, spent, called, slips>>

RunStep(r) ==
  \/ Start(r) \/ Admit(r) \/ RecordAgentRun(r) \/ Park(r)
  \/ AskModel(r) \/ Answer(r)
  \/ DecideAndStamp(r) \/ Resume(r) \/ ProduceDraft(r) \/ WriteDraft(r)
  \/ Escalate(r) \/ Told(r) \/ ParkDraft(r) \/ Act(r) \/ SendReply(r)
  \/ SettleReply(r) \/ CountQuestion(r) \/ RefusedByConversation(r) \/ WaitForUser(r)
  \/ (CheckNotice(r) \/ QueueNotice(r)) /\ UNCHANGED runVars

(***************************************************************************)
(* What happens around the runs                                            *)
(***************************************************************************)

\* The worker stops: the job stalls and is delivered once more, the second time
\* it is given up.
CrashRun(r) ==
  /\ faults < scene.faults
  /\ ~At(r, "idle")
  /\ faults' = faults + 1
  /\ Ends(r)
  /\ errand' = [errand EXCEPT ![r] = NoErrand]
  /\ IF run[r].stalled THEN lost' = lost \cup {TicketOf(r)} /\ UNCHANGED job
     ELSE job' = [job EXCEPT ![TicketOf(r)].stalled = @ + 1] /\ UNCHANGED lost
  /\ Slips(r)
  /\ UNCHANGED <<scene, versions, ticket, near, mail, optedOut, suppressed, hour,
                 clarify, agentRuns, spent, called>>

\* A job of its own from the console, beside any other.
Retriage(t) ==
  /\ t \in scene.retriages /\ job[t].fresh = 0
  /\ job' = [job EXCEPT ![t].fresh = @ + 1]
  /\ UNCHANGED <<notifyVars, lost, run, clarify, agentRuns, spent, called, slips>>

\* The requester answers a question: the ticket is a person's.
Answered(t) ==
  /\ scene.answers
  /\ ticket[t].status = "awaiting_user"
  /\ ticket' = [ticket EXCEPT ![t].status = "triaged", ![t].by = "system"]
  /\ UNCHANGED <<scene, versions, near, mail, optedOut, suppressed, hour, errand, faults, runVars>>

MergeTicket(t) ==
  /\ t \in scene.merges
  /\ \E target \in Tickets \ {t} : ~ticket[target].merged
  /\ ticket' = [ticket EXCEPT ![t].merged = TRUE, ![t].status = "closed", ![t].by = "person"]
  /\ UNCHANGED <<scene, versions, near, mail, optedOut, suppressed, hour, errand, faults, runVars>>

\* Another version of the settings (ConfigVersions says how it comes about).
CommitSettings ==
  /\ Len(versions) < scene.versions
  /\ \E s \in scene.commits : versions' = Append(versions, s)
  /\ UNCHANGED <<scene, ticket, near, mail, optedOut, suppressed, hour, errand, faults, runVars>>

\* Time passes: runs leave the hour's window, and the day may end with it.
PassHour ==
  /\ hour < scene.hours
  /\ hour' = hour + 1
  /\ \E gone \in 0 .. TenantRuns : agentRuns' = SubSeq(agentRuns, gone + 1, TenantRuns)
  /\ spent' \in {0, spent}
  /\ UNCHANGED <<scene, versions, ticket, near, mail, optedOut, suppressed, errand, faults,
                 job, lost, run, clarify, called, slips>>

Next ==
  \/ \E r \in scene.runs : RunStep(r) \/ CrashRun(r)
  \/ \E t \in Tickets : Retriage(t) \/ Answered(t) \/ MergeTicket(t)
  \/ CommitSettings
  \/ PassHour
  \/ NotifyNext /\ UNCHANGED runVars

PipelineSpec == Init /\ [][Next]_vars

(***************************************************************************)
(* Properties                                                              *)
(***************************************************************************)

\* What a version of the settings lets the agent say or do to a requester on
\* its own, stated without the order of decide's rules and without its gates.
MayContact(s, x, p) ==
  LET o == x.output
  IN /\ scene.deployment = "auto" /\ s.agent_mode_override \notin {"shadow", "assist"}
     /\ PolicyFor(s, o.category).autonomy \in {"reply", "act"}
     /\ ~o.security /\ ~o.destructive /\ x.ticket \notin scene.injected
     /\ o.category # "security_incident" /\ o.priority # "P1"
     /\ ~(Directory[p].vip /\ s.vip_always_human)
     /\ Directory[p].department \notin s.human_only_departments

Grounded(s, x) ==
  /\ x.output.missing = 0
  /\ x.output.confidence >= PolicyFor(s, x.output.category).confidence_threshold
  /\ x.support >= s.kb_support_floor

MayMail(s, x, kind, p) ==
  /\ MayContact(s, x, p)
  /\ "ticket.send_reply" \in s.auto_action_whitelist
  /\ CASE kind = "question" -> x.output.missing > 0 /\ x.rounds < s.max_clarify_rounds
       [] kind = "ack" -> x.output.hint \in Incidents
       [] OTHER -> Grounded(s, x)

MayCall(s, x, tool, p) ==
  /\ MayContact(s, x, p) /\ Grounded(s, x)
  /\ tool \in s.auto_action_whitelist
  /\ PolicyFor(s, x.output.category).autonomy = "act"

\* Between reading the settings and reading their number, a change was saved:
\* the number is not that of the settings (pipeline.ts:74).
Torn(x) == x.seen # x.version

\* Whatever the agent mails or has a tool do is allowed by the settings of the
\* version the run has on record, however the settings change under it and
\* whoever else is running; unless the number was read after a change
\* (pipeline.ts:59, decide.ts, tools/service.ts send_reply).
ContactsAreExplained ==
  [][\A r \in Runs :
       LET x == run[r]
       IN run'[r] # x /\ ~Torn(x) =>
            /\ \A row \in mail' \ mail : row.kind \notin NotificationKind =>
                 MayMail(versions[x.version], x, row.kind, row.to)
            /\ \A c \in called' \ called :
                 MayCall(versions[x.version], x, c[2], RequesterOf[x.ticket])]_vars

Questions(t) == {row \in mail : row.kind = "question" /\ row.tickets = {t} /\ ~row.suppressed}

\* Every limit is a count read before the thing it limits is recorded, so runs
\* side by side pass it together.  What some version in force allowed is passed
\* by at most the runs that can be in flight: no loop of jobs, retries and
\* redeliveries gets further (limits.ts:33, gateway.ts:72 and :204, pipeline.ts:477).
LimitsHold ==
  LET together == Cardinality(Runs) - 1
      Settings == {versions[i] : i \in DOMAIN versions}
  IN /\ \A p \in People : \E s \in Settings :
          RequesterRuns(p) <= s.max_agent_runs_per_requester_hour + together
     /\ \E s \in Settings : TenantRuns <= s.max_agent_runs_per_tenant_hour + together
     /\ spent <= CostCap + 1 + 2 * together + Cardinality(Writers)
     /\ \A t \in Tickets : \E s \in Settings :
          Cardinality(Questions(t)) <= s.max_clarify_rounds + together + slips[t]

Fits(row, t) ==
  /\ row.tickets = {t} /\ ~row.suppressed
  /\ IF ticket[t].status = "awaiting_user" THEN row.kind = "question" ELSE row.kind \in {"reply", "ack"}

\* The status is written before the reply exists (pipeline.ts:246).  A ticket
\* the agent has left resolved or waiting for its requester has the reply or
\* the question in the queue, or a run on it or a job that will put it right;
\* unless its job was given up.
PromisesAreKept ==
  \A t \in Tickets :
    /\ ticket[t].by = "agent" /\ ticket[t].status \in {"resolved", "awaiting_user"}
    /\ ~ticket[t].merged /\ t \notin lost
    => \/ \E row \in mail : Fits(row, t)
       \/ \E r \in Runs : run[r].ticket = t
       \/ job[t].fresh + job[t].stalled > 0
=============================================================================
