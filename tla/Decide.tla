------------------------------- MODULE Decide -------------------------------
(***************************************************************************)
(* What the agent does with a classified ticket: decide                    *)
(* (packages/agent-helpdesk/src/decide.ts) with what it reads: the mode    *)
(* and the policy of the category (packages/core/src/settings.ts), the     *)
(* bounds on the model's output (schema.ts), the tool a classification     *)
(* stands for (actions.ts), the incident a hint names (enrich.ts) and the  *)
(* queue a ticket goes to (packages/core/src/routing.ts).                  *)
(*                                                                         *)
(* No state: the code's functions as operators over records.  Confidence,  *)
(* thresholds and knowledge scores are numbers of some scale; a free text  *)
(* is what the code looks for in it.                                       *)
(***************************************************************************)
EXTENDS Naturals, Sequences

CONSTANTS
  Incidents,   \* what activeIncidents lists: the open outages a ticket may join
  NoIncident   \* no hint, or one that names no incident

ASSUME DecideAssumption == NoIncident \notin Incidents

Certain == 4     \* a confidence of 1; higher is out of the schema's bounds

Categories == {"access_identity", "hardware", "software", "network_connectivity", "email_collab",
               "security_incident", "provisioning", "other"}
Priorities == {"P1", "P2", "P3", "P4"}
Modes == {"shadow", "assist", "auto"}

\* One answer of the model.  missing: how many facts it asks for; about: what
\* the subcategory and the reasoning speak of; system: it names one.
Outputs ==
  [category : Categories, priority : Priorities, confidence : Nat,
   security : BOOLEAN, destructive : BOOLEAN, missing : Nat,
   hint : Incidents \cup {NoIncident},
   about : {"lockout", "password", "licence", "other"}, system : BOOLEAN]

\* The bounds whose violation makes the gateway ask once more.
ValidateTriage(t) ==
  /\ t.confidence <= Certain
  /\ t.missing <= 3
  /\ t.security => t.priority \in {"P1", "P2"}

(***************************************************************************)
(* The settings a decision reads                                           *)
(***************************************************************************)

CategoryPolicy ==
  [autonomy : {"off", "suggest", "reply", "act"}, confidence_threshold : 0 .. Certain]

\* A table keyed by category; whatever else is in it is never looked up.
IsTable(table, values) == table \in [DOMAIN table -> values]

IsRoutingPolicy(routing) ==
  /\ {routing.default_queue, routing.escalation_queue} \subseteq STRING
  /\ routing.escalate_priorities \subseteq Priorities
  /\ IsTable(routing.category_queues, STRING)

\* The bounds the settings are parsed with, of the settings the agent reads.
IsBusinessSettings(s) ==
  /\ s.default_policy \in CategoryPolicy
  /\ IsTable(s.category_policies, CategoryPolicy)
  /\ s.agent_mode_override \in Modes \cup {"none"}
  /\ s.kb_support_floor \in 0 .. Certain
  /\ s.auto_action_whitelist \subseteq STRING
  /\ s.max_clarify_rounds \in 0 .. 3
  /\ s.vip_always_human \in BOOLEAN
  /\ s.human_only_departments \subseteq STRING
  /\ IsRoutingPolicy(s.routing)
  /\ s.max_agent_runs_per_requester_hour \in Nat \ {0}
  /\ s.max_agent_runs_per_tenant_hour \in Nat \ {0}

MODE_RANK == [m \in Modes |->
                CASE m = "shadow" -> 0 [] m = "assist" -> 1 [] m = "auto" -> 2]

\* The narrower of the deployment's mode and the tenant's override.
EffectiveMode(deployment, s) ==
  IF s.agent_mode_override \in DOMAIN MODE_RANK
     /\ MODE_RANK[s.agent_mode_override] < MODE_RANK[deployment]
  THEN s.agent_mode_override ELSE deployment

PolicyFor(s, category) ==
  IF category \in DOMAIN s.category_policies
  THEN s.category_policies[category] ELSE s.default_policy

\* Priority wins over category.
RouteQueue(category, priority, s) ==
  CASE priority \in s.routing.escalate_priorities -> s.routing.escalation_queue
    [] priority \notin s.routing.escalate_priorities
         /\ category \in DOMAIN s.routing.category_queues -> s.routing.category_queues[category]
    [] OTHER -> s.routing.default_queue

(***************************************************************************)
(* The decision                                                            *)
(***************************************************************************)

NoTool == "none"

\* The closed table from a classification to at most one tool.
CandidateActionFor(t, email) ==
  LET tool == CASE t.category = "access_identity" /\ t.about = "lockout" ->
                     "identity.unlock_account"
                [] t.category = "access_identity" /\ t.about = "password" ->
                     "identity.reset_password"
                [] t.category = "software" /\ t.about = "licence" /\ t.system ->
                     "identity.grant_licence"
                [] OTHER -> NoTool
  IN IF email THEN tool ELSE NoTool

\* Only an incident the model was shown counts.
ResolveIncidentHint(hint) == IF hint \in Incidents THEN hint ELSE NoIncident

\* Everything the decision is made from: the settings and the mode they give,
\* the classification, the best knowledge score (0 when nothing was found),
\* the rounds of questions so far, who asks, and the candidate tool.
Input(deployment, s, t, support, rounds, who, injected) ==
  [mode |-> EffectiveMode(deployment, s), settings |-> s, triage |-> t,
   support |-> support, rounds |-> rounds, who |-> who, injected |-> injected,
   incident |-> ResolveIncidentHint(t.hint), tool |-> CandidateActionFor(t, who.email)]

Rule(when, rule, action) == [when |-> when, rule |-> rule, action |-> action]

\* First match wins; whatever can stop the agent stands before whatever lets
\* it act.
Rules(in) ==
  LET t == in.triage
      s == in.settings
      policy == PolicyFor(s, t.category)
  IN << Rule(t.destructive, "destructive_request", "escalate"),
        Rule(t.security \/ t.category = "security_incident", "security_sensitive", "escalate"),
        Rule(in.injected, "injection_suspected", "escalate"),
        Rule(in.who.vip /\ s.vip_always_human, "vip_requester", "escalate"),
        Rule(in.who.department \in s.human_only_departments, "department_policy", "escalate"),
        Rule(t.priority = "P1", "priority_p1", "escalate"),
        Rule(in.incident # NoIncident, "known_incident", "link_incident"),
        Rule(t.missing > 0 /\ in.rounds < s.max_clarify_rounds, "missing_info", "ask_question"),
        Rule(t.missing > 0, "clarify_exhausted", "escalate"),
        Rule(t.confidence < policy.confidence_threshold, "low_confidence", "escalate"),
        Rule(in.support < s.kb_support_floor, "no_kb_support", "escalate"),
        Rule(in.tool # NoTool /\ in.tool \in s.auto_action_whitelist, "whitelisted_action",
             "run_action"),
        Rule(TRUE, "confident_with_runbook", "send_reply") >>

IntendedOutcome(in) ==
  LET rules == Rules(in)
  IN rules[CHOOSE i \in 1 .. Len(rules) :
             rules[i].when /\ \A j \in 1 .. i - 1 : ~rules[j].when]

StatusFor(action) ==
  CASE action = "ask_question" -> "awaiting_user"
    [] action = "run_action" -> "in_progress"
    [] action \in {"send_reply", "link_incident"} -> "resolved"
    [] OTHER -> "triaged"

Applied(action, status, execute) == [action |-> action, status |-> status, execute |-> execute]

\* The second gate forgotten.
ApplyModeAlone(action, mode, autonomy) ==
  IF action # "escalate" /\ mode # "auto" THEN Applied("draft_only", "triaged", FALSE)
  ELSE Applied(action, StatusFor(action), TRUE)

\* Two gates: the mode, then the autonomy the category has.  An escalation
\* contacts nobody and passes both.
ApplyMode(action, mode, autonomy) ==
  CASE action = "escalate" -> Applied("escalate", "triaged", TRUE)
    [] action # "escalate" /\ (mode # "auto" \/ autonomy \in {"off", "suggest"}) ->
         Applied("draft_only", "triaged", FALSE)
    [] action = "run_action" /\ mode = "auto" /\ autonomy = "reply" ->
         Applied("draft_only", "awaiting_approval", FALSE)
    [] OTHER -> Applied(action, StatusFor(action), TRUE)

Decision(in) ==
  LET outcome == IntendedOutcome(in)
      applied == ApplyMode(outcome.action, in.mode,
                           PolicyFor(in.settings, in.triage.category).autonomy)
  IN [intended |-> outcome.action, rule |-> outcome.rule, action |-> applied.action,
      status |-> applied.status, execute |-> applied.execute]
=============================================================================
