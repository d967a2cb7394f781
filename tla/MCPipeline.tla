----------------------------- MODULE MCPipeline -----------------------------
(* A small helpdesk for Pipeline and Notify: two tickets of two requesters    *)
(* and one that is only ever handed out, two people on the default queue, one *)
(* of them also the ops address.                                              *)
EXTENDS Desk, TLC

CONSTANTS ann, vip, bob, cyd, t1, t2, t3, q1, q2, r1, r2, w1, w2, i1

MCWatching == [queue \in {"tier1", "oncall", "neteng"} |->
                 CASE queue = "tier1" -> {bob, cyd} [] queue = "oncall" -> {} [] OTHER -> {bob}]
MCRequesterOf == [t \in Tickets |-> IF t = t1 THEN ann ELSE vip]
MCPrefixOf == (t1 :> 1) @@ (t2 :> 2) @@ (t3 :> 3)
MCDirectory == [p \in People |->
                  [vip |-> p = vip, department |-> IF p = vip THEN "legal" ELSE "sales",
                   email |-> p # vip]]

Autonomy(level) == [autonomy |-> level, confidence_threshold |-> 2]
Policies(level) == ("software" :> Autonomy(level) @@ "access_identity" :> Autonomy(level))
Notifying == [enabled |-> TRUE, kinds |-> NotificationKind, ops_address |-> cyd]

Open ==
  [agent_mode_override |-> "none", default_policy |-> Autonomy("suggest"),
   category_policies |-> Policies("act"), vip_always_human |-> TRUE,
   human_only_departments |-> {"legal"}, max_clarify_rounds |-> 1, kb_support_floor |-> 1,
   auto_action_whitelist |-> {"ticket.send_reply", "identity.unlock_account"},
   routing |-> [default_queue |-> "tier1", escalation_queue |-> "oncall",
                escalate_priorities |-> {"P1"}, category_queues |-> ("network_connectivity" :> "neteng")],
   notifications |-> Notifying,
   max_agent_runs_per_requester_hour |-> 2, max_agent_runs_per_tenant_hour |-> 3]
Narrow == [Open EXCEPT !.category_policies = Policies("off")]
Replying == [Open EXCEPT !.category_policies = Policies("reply")]
Killed == [Open EXCEPT !.agent_mode_override = "assist"]
Unlisted == [Open EXCEPT !.auto_action_whitelist = {"identity.unlock_account"}]
Quiet == [Open EXCEPT !.notifications.kinds = NotificationKind \ {"escalation"}]

Lenient == [Open EXCEPT !.vip_always_human = FALSE, !.human_only_departments = {}]

Plain == [NoOutput EXCEPT !.confidence = 3]
Asking == [Plain EXCEPT !.missing = 1]
Locked == [Plain EXCEPT !.category = "access_identity", !.about = "lockout"]
Outage == [Plain EXCEPT !.category = "network_connectivity", !.priority = "P1"]
Doomed == [Plain EXCEPT !.destructive = TRUE]
Every == {Plain, Asking, Locked, Outage, [Plain EXCEPT !.confidence = 1],
          [Plain EXCEPT !.confidence = 5], [Plain EXCEPT !.security = TRUE],
          [Plain EXCEPT !.security = TRUE, !.priority = "P2"], Doomed,
          [Plain EXCEPT !.hint = i1], [Plain EXCEPT !.category = "network_connectivity"],
          [Plain EXCEPT !.category = "security_incident"], [Plain EXCEPT !.missing = 4]}

Jobs(a, b) == (t1 :> a) @@ (t2 :> b) @@ (t3 :> 0)

\* Nothing happens in it.
Still ==
  [settings |-> Open, status |-> "new", jobs |-> Jobs(0, 0), runs |-> {}, requests |-> {},
   assigns |-> {}, resolves |-> {}, sweeps |-> FALSE, consents |-> {}, bounces |-> {},
   clocks |-> {}, faults |-> 0, outputs |-> {Plain}, attempts |-> 1, supports |-> {1},
   errors |-> FALSE, words |-> 1, retriages |-> {}, answers |-> FALSE, merges |-> {},
   versions |-> 1, commits |-> {}, hours |-> 1, deployment |-> "auto", injected |-> {},
   replies |-> {}, closes |-> {}, followups |-> {}]

\* Whatever the model answers, one run at a time, and the settings change.
Deciding ==
  {[Still EXCEPT !.settings = s, !.jobs = Jobs(1, 0), !.runs = {r1}, !.outputs = Every,
      !.attempts = 2, !.supports = {0, 1}, !.errors = TRUE, !.versions = 2, !.commits = {Narrow, Open}] :
     s \in {Open, Narrow, Replying, Killed, Unlisted}}
  \cup {[Still EXCEPT !.settings = s, !.jobs = Jobs(0, 1), !.runs = {r1}, !.outputs = Every] :
           s \in {Open, Lenient}}
  \cup {[Still EXCEPT !.jobs = Jobs(1, 0), !.runs = {r1}, !.outputs = Every, !.deployment = d,
           !.injected = i] : d \in {"assist", "auto"}, i \in {{}, {t1}}}
  \cup {[Still EXCEPT !.jobs = Jobs(1, 0), !.runs = {r1}, !.outputs = {Plain, Asking},
           !.bounces = {ann}]}

\* Two runs of one ticket, crashes, the console and the requester.
Racing ==
  {[Still EXCEPT !.jobs = Jobs(2, 0), !.runs = {r1, r2}, !.outputs = {Plain, Asking},
      !.errors = TRUE, !.faults = f, !.merges = m] :
     f \in 0 .. 2, m \in {{}, {t1}}}

\* A loop of forced runs against the limits.
Forced == [Still EXCEPT !.jobs = Jobs(1, 0), !.runs = {r1, r2}, !.outputs = {Asking}, !.words = 3,
             !.retriages = {t1}]
Looping ==
  {[Forced EXCEPT !.answers = TRUE],
   [Forced EXCEPT !.words = 2, !.faults = 1],
   [Forced EXCEPT !.runs = {r1}, !.faults = 1, !.answers = TRUE, !.hours = 2]}

\* Overlapping sweeps; assignments, batches with one lowest ticket and one
\* without, resolutions, escalations, and consent.
Console == [Still EXCEPT !.status = "triaged", !.requests = {q1, q2}]
Telling ==
  {[Console EXCEPT !.sweeps = TRUE, !.clocks = {<<t1, 1>>, <<t2, 1>>}],
   [Console EXCEPT !.resolves = {{t1}, {t1, t2}}, !.assigns = {{t1, t2}}],
   [Console EXCEPT !.requests = {q1}, !.sweeps = TRUE, !.clocks = {<<t1, 1>>, <<t1, 2>>}],
   [Console EXCEPT !.requests = {q1}, !.sweeps = TRUE, !.clocks = {<<t1, 1>>}, !.assigns = {{t1}}],
   [Console EXCEPT !.requests = {q1}, !.resolves = {{t1}}, !.assigns = {{t1}, {t1, t2}}, !.hours = 2,
      !.faults = 1],
   [Console EXCEPT !.assigns = {{t1, t2}, {t1, t3}, {t2, t3}}, !.hours = 2],
   [Console EXCEPT !.requests = {q1}, !.resolves = {{t1}}, !.jobs = Jobs(1, 0), !.runs = {r1},
      !.outputs = {Plain}]}
  \cup {[Still EXCEPT !.jobs = Jobs(1, 0), !.runs = {r1, r2}, !.retriages = {t1},
           !.outputs = {Outage, Doomed}]}
  \cup {[Still EXCEPT !.jobs = Jobs(1, 0), !.runs = {r1}, !.outputs = {Doomed}, !.retriages = {t1},
           !.faults = 1, !.bounces = {cyd}, !.consents = {<<bob, "all">>, <<bob, "escalation">>},
           !.commits = {Quiet}, !.versions = 2]}

\* Tickets resolved in every way, and what is learnt from them.
Silent == [Open EXCEPT !.notifications.enabled = FALSE]
Learning ==
  {[Console EXCEPT !.settings = Silent, !.requests = {q1}, !.closes = {t1, t2}, !.words = 3],
   [Console EXCEPT !.settings = Silent, !.requests = {q1}, !.closes = {t1}, !.words = 2, !.faults = 1],
   [Still EXCEPT !.requests = {q1}, !.replies = {t1}, !.merges = {t1},
      !.followups = {t1}, !.jobs = Jobs(1, 0), !.runs = {r1}, !.bounces = {ann}]}

MCFixOf == [t \in Tickets |-> "vpn"]

MCScenarios == Deciding \cup Racing \cup Looping \cup Telling \cup Learning

MCSymmetry == Permutations({q1, q2}) \cup Permutations({r1, r2}) \cup Permutations({w1, w2})
=============================================================================
