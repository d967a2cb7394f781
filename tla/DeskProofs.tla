----------------------------- MODULE DeskProofs -----------------------------
(***************************************************************************)
(* Proofs about the agent, the people it tells and the desk beside it, of  *)
(* the whole composition DeskSpec: Decide, Notify, Pipeline and Desk.      *)
(* For any tickets, people, runs, requests, write-backs and settings.      *)
(***************************************************************************)
EXTENDS Desk, FiniteSetTheorems, SequenceTheorems, TLAPS

(***************************************************************************)
(* The decision: what stands before an action in the table of rules.       *)
(***************************************************************************)

Actions == {"escalate", "link_incident", Ask, "send_reply", "run_action"}
RuleNames == {"", "destructive_request", "security_sensitive", "injection_suspected", "vip_requester",
              "department_policy", "priority_p1", "known_incident", "missing_info",
              "clarify_exhausted", "low_confidence", "no_kb_support", "whitelisted_action",
              "confident_with_runbook"}

PlanType == [intended : Actions, rule : RuleNames, action : Actions \cup {"draft_only"},
             status : Statuses, execute : BOOLEAN]

\* None of the rules that hand a ticket to a person matches.
NothingForbids(in) ==
  /\ ~in.triage.destructive /\ ~in.triage.security
  /\ in.triage.category # "security_incident"
  /\ ~in.injected
  /\ ~(in.who.vip /\ in.settings.vip_always_human)
  /\ in.who.department \notin in.settings.human_only_departments
  /\ in.triage.priority # "P1"

\* What an answer from the knowledge base rests on.
IsGrounded(in) ==
  /\ ~(in.triage.missing > 0)
  /\ ~(in.triage.confidence < PolicyFor(in.settings, in.triage.category).confidence_threshold)
  /\ ~(in.support < in.settings.kb_support_floor)

\* The rule that decides is the first that matches, and the last always does.
LEMMA FirstRuleDecides ==
  ASSUME NEW in
  PROVE  \E i \in 1 .. 13 :
           /\ IntendedOutcome(in) = Rules(in)[i]
           /\ Rules(in)[i].when
           /\ \A j \in 1 .. i - 1 : ~Rules(in)[j].when
<1> DEFINE rules == Rules(in)
<1>1. Len(rules) = 13 /\ rules[13].when
  BY DEF Rules, Rule
<1>2. \E i \in 1 .. 13 : rules[i].when /\ \A j \in 1 .. i - 1 : ~rules[j].when
  <2> HIDE DEF rules
  <2> QED
    BY <1>1
<1> QED
  BY <1>1, <1>2 DEF IntendedOutcome

LEMMA FormalRules ==
  ASSUME NEW in
  PROVE  \A i \in 1 .. 13 : Rules(in)[i].action \in Actions /\ Rules(in)[i].rule \in RuleNames
<1>1. \A i \in 1 .. 13 : Rules(in)[i].action \in Actions
  BY DEF Rules, Rule, Actions, Ask
<1>2. /\ Rules(in)[1].rule \in RuleNames /\ Rules(in)[2].rule \in RuleNames
      /\ Rules(in)[3].rule \in RuleNames /\ Rules(in)[4].rule \in RuleNames
      /\ Rules(in)[5].rule \in RuleNames /\ Rules(in)[6].rule \in RuleNames
      /\ Rules(in)[7].rule \in RuleNames
  BY DEF Rules, Rule, RuleNames
<1>3. /\ Rules(in)[8].rule \in RuleNames /\ Rules(in)[9].rule \in RuleNames
      /\ Rules(in)[10].rule \in RuleNames /\ Rules(in)[11].rule \in RuleNames
      /\ Rules(in)[12].rule \in RuleNames /\ Rules(in)[13].rule \in RuleNames
  BY DEF Rules, Rule, RuleNames
<1> QED
  BY <1>1, <1>2, <1>3

\* What a rule before the one that decides has let pass.
LEMMA NothingForbade ==
  ASSUME NEW in, \A j \in 1 .. 6 : ~Rules(in)[j].when
  PROVE  NothingForbids(in)
<1>1. ~Rules(in)[1].when /\ ~Rules(in)[2].when /\ ~Rules(in)[3].when
  OBVIOUS
<1>2. ~Rules(in)[4].when /\ ~Rules(in)[5].when /\ ~Rules(in)[6].when
  OBVIOUS
<1>3. ~in.triage.destructive /\ ~in.triage.security
      /\ in.triage.category # "security_incident" /\ ~in.injected
  BY <1>1 DEF Rules, Rule
<1>4. /\ ~(in.who.vip /\ in.settings.vip_always_human)
      /\ in.who.department \notin in.settings.human_only_departments
      /\ in.triage.priority # "P1"
  BY <1>2 DEF Rules, Rule
<1> QED
  BY <1>3, <1>4 DEF NothingForbids

LEMMA NothingLacked ==
  ASSUME NEW in, \A j \in 9 .. 11 : ~Rules(in)[j].when
  PROVE  IsGrounded(in)
<1>1. ~Rules(in)[9].when /\ ~Rules(in)[10].when /\ ~Rules(in)[11].when
  OBVIOUS
<1> QED
  BY <1>1 DEF Rules, Rule, IsGrounded

LEMMA IntentionIsEarned ==
  ASSUME NEW in
  PROVE  /\ IntendedOutcome(in).action \in Actions
         /\ IntendedOutcome(in).rule \in RuleNames
         /\ IntendedOutcome(in).action # "escalate" => NothingForbids(in)
         /\ IntendedOutcome(in).action = "link_incident" => in.incident # NoIncident
         /\ IntendedOutcome(in).action = Ask =>
              in.triage.missing > 0 /\ in.rounds < in.settings.max_clarify_rounds
         /\ IntendedOutcome(in).action \in {"send_reply", "run_action"} => IsGrounded(in)
         /\ IntendedOutcome(in).action = "run_action" =>
              in.tool # NoTool /\ in.tool \in in.settings.auto_action_whitelist
<1>1. PICK i \in 1 .. 13 :
        /\ IntendedOutcome(in) = Rules(in)[i]
        /\ Rules(in)[i].when
        /\ \A j \in 1 .. i - 1 : ~Rules(in)[j].when
  BY FirstRuleDecides
<1> DEFINE o == IntendedOutcome(in)
<1>2. i > 6 => NothingForbids(in)
  BY <1>1, NothingForbade
<1>3. i > 11 => IsGrounded(in)
  BY <1>1, NothingLacked
<1>4. i \in 1 .. 6 \cup 9 .. 11 => o.action = "escalate"
  <2>1. \A k \in 1 .. 6 \cup 9 .. 11 : Rules(in)[k].action = "escalate"
    BY DEF Rules, Rule
  <2> QED
    BY <1>1, <2>1
<1>5. i = 7 => o.action = "link_incident" /\ in.incident # NoIncident
  <2>1. /\ Rules(in)[7].action = "link_incident"
        /\ Rules(in)[7].when => in.incident # NoIncident
    BY DEF Rules, Rule
  <2> QED
    BY <1>1, <2>1
<1>6. i = 8 => /\ o.action = Ask
               /\ in.triage.missing > 0 /\ in.rounds < in.settings.max_clarify_rounds
  <2>1. /\ Rules(in)[8].action = Ask
        /\ Rules(in)[8].when =>
             in.triage.missing > 0 /\ in.rounds < in.settings.max_clarify_rounds
    BY DEF Rules, Rule, Ask
  <2> QED
    BY <1>1, <2>1
<1>7. i = 12 => /\ o.action = "run_action"
                /\ in.tool # NoTool /\ in.tool \in in.settings.auto_action_whitelist
  <2>1. /\ Rules(in)[12].action = "run_action"
        /\ Rules(in)[12].when =>
             in.tool # NoTool /\ in.tool \in in.settings.auto_action_whitelist
    BY DEF Rules, Rule
  <2> QED
    BY <1>1, <2>1
<1>8. i = 13 => o.action = "send_reply"
  <2>1. Rules(in)[13].action = "send_reply"
    BY DEF Rules, Rule
  <2> QED
    BY <1>1, <2>1
<1>9. o.action \in Actions /\ o.rule \in RuleNames
  BY <1>1, FormalRules
<1> QED
  BY <1>2, <1>3, <1>4, <1>5, <1>6, <1>7, <1>8, <1>9 DEF Ask

LEMMA ModeIsAuto ==
  ASSUME NEW deployment \in Modes, NEW s, s.agent_mode_override \in Modes \cup {"none"},
         EffectiveMode(deployment, s) = "auto"
  PROVE  deployment = "auto" /\ s.agent_mode_override \notin {"shadow", "assist"}
  BY DEF EffectiveMode, MODE_RANK, Modes

\* What is carried out is what was intended, under the mode and the autonomy
\* that let the agent do it.
LEMMA DecisionIsEarned ==
  ASSUME NEW in,
         PolicyFor(in.settings, in.triage.category).autonomy \in {"off", "suggest", "reply", "act"}
  PROVE  LET d == Decision(in)
             autonomy == PolicyFor(in.settings, in.triage.category).autonomy
         IN /\ d \in PlanType
            /\ d.intended = IntendedOutcome(in).action
            /\ d.execute => d.action = d.intended
            /\ d.intended = "escalate" <=> d.action = "escalate"
            /\ d.action = "escalate" => d.execute
            /\ d.execute /\ d.action # "escalate" =>
                 in.mode = "auto" /\ autonomy \in {"reply", "act"}
            /\ d.execute /\ d.action = "run_action" => autonomy = "act"
            /\ d.status = "awaiting_user" => d.execute /\ d.action = Ask
            /\ d.status = "resolved" => d.execute /\ d.action \in {"send_reply", "link_incident"}
            /\ d.execute /\ d.action = Ask => d.status = "awaiting_user"
  BY IntentionIsEarned
     DEF Decision, ApplyMode, Applied, StatusFor, Statuses, PlanType, Actions, Ask

(***************************************************************************)
(* Types, and what every run and write-back holds on to.                   *)
(***************************************************************************)

MailKind == NotificationKind \cup {"question", "ack", "reply", "person"}
NoticeType == [kind : NotificationKind, tickets : SUBSET Tickets, to : People, fact : Nat]
KeyType == [kind : MailKind \cup {"digest"}, tickets : SUBSET Tickets,
            prefixes : SUBSET (Nat \X Nat), to : People \cup {Nobody}, number : Nat]
RowType == [key : KeyType, to : People, suppressed : BOOLEAN, kind : MailKind,
            tickets : SUBSET Tickets, hour : Nat, fact : Nat]
TicketType == [status : Statuses, assigned : People \cup {Nobody}, merged : BOOLEAN,
               by : {"system", "agent", "person"}]
ErrandType == [moving : SUBSET Tickets, moved : SUBSET Tickets, todo : SUBSET NoticeType,
               now : SUBSET NoticeType]
AllSettings == UNION {{s.settings} \cup s.commits : s \in Scenarios}
RunType == [pc : {"idle", "admit", "record", "park", "ask", "answer", "decide", "resume", "draft",
                  "write", "carry", "tell", "send", "settle", "wait"},
            ticket : Tickets \cup {NoTicket}, stalled : BOOLEAN, merged : BOOLEAN, rounds : Nat,
            seen : Nat, version : Nat, output : Outputs, support : Nat, plan : PlanType, words : Nat]
DocType == [fix : {FixOf[t] : t \in Tickets}, words : Nat, live : BOOLEAN]
WriterType == [pc : {"idle", "tell", "look", "ingest"}, ticket : Tickets \cup {NoTicket},
               words : Nat, near : SUBSET DocType]

NotifyTypes ==
  /\ scene \in Scenarios
  /\ versions \in Seq(AllSettings) /\ versions # <<>>
  /\ ticket \in [Tickets -> TicketType]
  /\ near \in [Tickets -> SUBSET Clocks]
  /\ mail \in SUBSET RowType
  /\ hour \in Nat /\ faults \in Nat
  /\ errand \in [Senders -> ErrandType]

RunTypes ==
  /\ job \in [Tickets -> [fresh : Nat, stalled : Nat]]
  /\ run \in [Runs -> RunType]
  /\ clarify \in [Tickets -> Nat] /\ slips \in [Tickets -> Nat]
  /\ agentRuns \in Seq(People)
  /\ spent \in Nat

DeskTypes ==
  /\ reply \in [Requests -> [ticket : Tickets \cup {NoTicket}, close : BOOLEAN]]
  /\ \A q \in Requests : reply[q] # NoReply => reply[q].ticket \in Tickets
  /\ due \in SUBSET Tickets
  /\ writer \in [Writers -> WriterType]
  /\ \A w \in Writers : writer[w] # Resting => writer[w].ticket \in Tickets
  /\ \A w \in Writers : writer[w].pc = "idle" => writer[w] = Resting
  /\ kb \in SUBSET DocType

\* A run that is under way has its ticket and the versions it has read.
RunsAreOn ==
  \A r \in Runs :
    IF run[r].pc = "idle" THEN run[r] = Idle
    ELSE /\ run[r].ticket \in Tickets
         /\ run[r].seen \in 1 .. Len(versions) /\ run[r].version \in 1 .. Len(versions)

TypeInv == NotifyTypes /\ RunTypes /\ DeskTypes /\ RunsAreOn

LEMMA SettingsAreTyped ==
  ASSUME NEW s \in AllSettings
  PROVE  /\ IsBusinessSettings(s) /\ IsNotificationPolicy(s.notifications)
         /\ QueuesOf(s.routing) \subseteq DOMAIN Watching
  BY PipelineAssumption DEF AllSettings

LEMMA PolicyIsTyped ==
  ASSUME NEW s \in AllSettings, NEW category
  PROVE  PolicyFor(s, category) \in CategoryPolicy
  BY SettingsAreTyped DEF IsBusinessSettings, IsTable, PolicyFor

LEMMA VersionsAreTyped ==
  ASSUME NotifyTypes
  PROVE  /\ \A i \in 1 .. Len(versions) : versions[i] \in AllSettings
         /\ Len(versions) \in Nat \ {0}
         /\ Current \in AllSettings
<1>1. Len(versions) \in Nat \ {0}
  BY EmptySeq DEF NotifyTypes
<1> QED
  BY <1>1 DEF NotifyTypes, Current

LEMMA StatusGiven ==
  ASSUME NotifyTypes, NEW t \in Tickets, NEW status \in Statuses,
         NEW by \in {"system", "agent", "person"},
         ticket' = [ticket EXCEPT ![t].status = status, ![t].by = by]
  PROVE  /\ ticket' \in [Tickets -> TicketType]
         /\ ticket'[t].status = status /\ ticket'[t].by = by
         /\ \A u \in Tickets : ticket'[u].merged = ticket[u].merged
         /\ \A u \in Tickets \ {t} : ticket'[u] = ticket[u]
  BY DEF NotifyTypes, TicketType

LEMMA SetStatusDoes ==
  ASSUME NotifyTypes, NEW t \in Tickets, NEW status \in Statuses, SetStatus(t, status)
  PROVE  /\ ticket' \in [Tickets -> TicketType]
         /\ ticket'[t].status = status /\ ticket'[t].by = "agent"
         /\ \A u \in Tickets : ticket'[u].merged = ticket[u].merged
         /\ \A u \in Tickets \ {t} : ticket'[u] = ticket[u]
  BY DEF NotifyTypes, SetStatus, TicketType

LEMMA NoticesAreTyped ==
  ASSUME NotifyTypes
  PROVE  /\ \A t \in Tickets, queue \in DOMAIN Watching :
              EscalationNotices(t, queue) \in SUBSET NoticeType
         /\ \A ts \in SUBSET Tickets, p \in People \cup {Nobody} :
              AssignmentNotices(ts, p) \in SUBSET NoticeType
         /\ \A t \in Tickets : WarningTargets(t) \subseteq People
<1>1. IsNotificationPolicy(Current.notifications)
  BY VersionsAreTyped, SettingsAreTyped
<1>2. \A queue \in DOMAIN Watching : QueueOrOps(queue, Current) \subseteq People
  BY <1>1, NotifyAssumption DEF QueueOrOps, IsNotificationPolicy
<1>3. Current.routing.default_queue \in DOMAIN Watching
  BY VersionsAreTyped, SettingsAreTyped DEF QueuesOf
<1>4. \A t \in Tickets, queue \in DOMAIN Watching :
        EscalationNotices(t, queue) \in SUBSET NoticeType
  BY <1>2 DEF EscalationNotices, Notice, NoticeType, NotificationKind
<1>5. \A ts \in SUBSET Tickets, p \in People \cup {Nobody} :
        AssignmentNotices(ts, p) \in SUBSET NoticeType
  BY DEF AssignmentNotices, Notice, NoticeType, NotificationKind
<1>6. \A t \in Tickets : WarningTargets(t) \subseteq People
  BY <1>2, <1>3 DEF WarningTargets, NotifyTypes, TicketType
<1> QED
  BY <1>4, <1>5, <1>6

LEMMA QueueOutboundTypes ==
  ASSUME NotifyTypes, NEW kind \in MailKind, NEW ts \in SUBSET Tickets, NEW p \in People,
         NEW fact \in Nat, NEW key \in KeyType, QueueOutbound(Notice(kind, ts, p, fact), key)
  PROVE  mail' \in SUBSET RowType
<1> DEFINE row == [key |-> key, to |-> p, suppressed |-> p \in suppressed, kind |-> kind,
                   tickets |-> ts, hour |-> hour, fact |-> fact]
<1>1. row \in RowType
  BY DEF NotifyTypes, RowType
<1>2. mail' = mail \/ mail' = mail \cup {row}
  BY DEF QueueOutbound, Notice
<1> QED
  BY <1>1, <1>2 DEF NotifyTypes

\* The key of a digest has positions and prefixes, and the size of the batch.
LEMMA DigestKeyTyped ==
  ASSUME NEW n \in NoticeType
  PROVE  DigestKey(n) \in KeyType
<1>1. LowestPrefixes(n.tickets) \in SUBSET (Nat \X Nat)
  <2>1. {PrefixOf[t] : t \in n.tickets} \subseteq Nat
    BY NotifyAssumption DEF NoticeType
  <2>2. 1 .. PrefixesKept \subseteq Nat
    BY NotifyAssumption
  <2> QED
    BY <2>1, <2>2 DEF LowestPrefixes
<1>2. Cardinality(n.tickets) \in Nat
  BY NotifyAssumption, FS_Subset, FS_CardinalityType DEF NoticeType
<1> QED
  BY <1>1, <1>2 DEF DigestKey, KeyType, NoticeType

LEMMA QueueNoticeTypes ==
  ASSUME NotifyTypes, NEW s \in Senders, QueueNotice(s)
  PROVE  NotifyTypes'
<1>1. PICK n \in errand[s].now : QueueOutbound(n, KeyOf(n))
  BY DEF QueueNotice
<1>2. n \in NoticeType
  BY DEF NotifyTypes, ErrandType
<1>3. n = Notice(n.kind, n.tickets, n.to, n.fact)
  BY <1>2 DEF NoticeType, Notice
<1>4. KeyOf(n) \in KeyType
  BY <1>2, DigestKeyTyped DEF NoticeType, KeyOf, KeyType, NotifyTypes, MailKind
<1>5. mail' \in SUBSET RowType
  <2>1. n.kind \in MailKind /\ n.tickets \in SUBSET Tickets /\ n.to \in People /\ n.fact \in Nat
    BY <1>2 DEF NoticeType, MailKind
  <2> QED
    BY <1>1, <1>3, <1>4, <2>1, QueueOutboundTypes
<1> QED
  BY <1>5 DEF NotifyTypes, QueueNotice, ErrandType

LEMMA CheckNoticeTypes ==
  ASSUME NotifyTypes, NEW s \in Senders, CheckNotice(s)
  PROVE  NotifyTypes'
<1>1. PICK n \in errand[s].todo :
        errand' = [errand EXCEPT ![s].todo = @ \ {n},
                     ![s].now = IF Sends(n.kind) /\ ~IsOptedOut(n.to, n.kind) THEN {n} ELSE {}]
  BY DEF CheckNotice
<1>2. errand' \in [Senders -> ErrandType]
  <2>1. (IF Sends(n.kind) /\ ~IsOptedOut(n.to, n.kind) THEN {n} ELSE {}) \in SUBSET NoticeType
    BY DEF NotifyTypes, ErrandType
  <2> QED
    BY <1>1, <2>1 DEF NotifyTypes, ErrandType
<1> QED
  BY <1>2 DEF NotifyTypes, CheckNotice

LEMMA NotifyNextTypes ==
  ASSUME NotifyTypes, NotifyNext
  PROVE  NotifyTypes' /\ UNCHANGED <<scene, versions>>
<1> USE DEF NotifyTypes
<1>1. ASSUME NEW q \in scene.requests PROVE q \in Senders
  BY <1>1, NotifyAssumption DEF Senders
<1>2. ASSUME NEW q \in scene.requests, NEW ts \in scene.assigns, NEW p \in Staff \cup {Nobody},
             AssignTickets(q, ts, p)
      PROVE  NotifyTypes' /\ UNCHANGED <<scene, versions>>
  <2>1. ts \in SUBSET Tickets /\ p \in People \cup {Nobody}
    BY <1>2, NotifyAssumption DEF Staff
  <2>2. AssignmentNotices(ts, p) \in SUBSET NoticeType
    BY <2>1, NoticesAreTyped
  <2>3. ticket' \in [Tickets -> TicketType]
    BY <1>2, <2>1 DEF AssignTickets, Assigned, TicketType
  <2> QED
    BY <1>1, <1>2, <2>2, <2>3 DEF AssignTickets, ErrandType
<1>3. ASSUME NEW q \in scene.requests, NEW ts \in scene.resolves, AskResolve(q, ts)
      PROVE  NotifyTypes' /\ UNCHANGED <<scene, versions>>
  <2>1. ts \in SUBSET Tickets
    BY <1>3, NotifyAssumption
  <2> QED
    BY <1>1, <1>3, <2>1 DEF AskResolve, ErrandType
<1>4. ASSUME NEW q \in scene.requests, NEW t \in Tickets, MoveTicket(q, t)
      PROVE  NotifyTypes' /\ UNCHANGED <<scene, versions>>
  <2>1. ticket' \in [Tickets -> TicketType]
    BY <1>4 DEF MoveTicket, TicketType, Statuses
  <2>2. errand' \in [Senders -> ErrandType]
    BY <1>1, <1>4 DEF MoveTicket, ErrandType
  <2> QED
    BY <1>4, <2>1, <2>2 DEF MoveTicket
<1>5. ASSUME NEW q \in scene.requests, NEW t \in Tickets, ResolutionNotice(q, t)
      PROVE  NotifyTypes' /\ UNCHANGED <<scene, versions>>
  <2>1. {Notice("resolution", {t}, RequesterOf[t], 0)} \in SUBSET NoticeType
    BY NotifyAssumption DEF Notice, NoticeType, NotificationKind
  <2>2. errand' \in [Senders -> ErrandType]
    <3>1. CASE errand' = [errand EXCEPT ![q].moved = @ \ {t},
                            ![q].todo = {Notice("resolution", {t}, RequesterOf[t], 0)}]
      BY <1>1, <3>1, <2>1 DEF ErrandType
    <3>2. CASE errand' = [errand EXCEPT ![q].moved = @ \ {t}]
      BY <1>1, <3>2 DEF ErrandType
    <3> QED
      BY <1>5, <3>1, <3>2 DEF ResolutionNotice
  <2> QED
    BY <1>5, <2>2 DEF ResolutionNotice
<1>6. ASSUME NEW q \in scene.requests, Sweep(q)
      PROVE  NotifyTypes' /\ UNCHANGED <<scene, versions>>
  <2> DEFINE notices == UNION {WarningsOf(t) : t \in TicketsNearingSla}
  <2>1. notices \in SUBSET NoticeType
    <3> SUFFICES ASSUME NEW t \in TicketsNearingSla PROVE WarningsOf(t) \subseteq NoticeType
      OBVIOUS
    <3>1. t \in Tickets /\ WarningTargets(t) \subseteq People /\ near[t] \subseteq Nat
      BY NoticesAreTyped DEF TicketsNearingSla, Clocks
    <3> QED
      BY <3>1 DEF WarningsOf, Notice, NoticeType, NotificationKind
  <2>2. errand' = [errand EXCEPT ![q].todo = notices]
    BY <1>6 DEF Sweep
  <2>3. errand' \in [Senders -> ErrandType]
    <3> HIDE DEF notices
    <3> QED
      BY <1>1, <2>1, <2>2 DEF ErrandType
  <2> QED
    BY <1>6, <2>3 DEF Sweep
<1>7. ASSUME NEW q \in scene.requests, CheckNotice(q)
      PROVE  NotifyTypes' /\ UNCHANGED <<scene, versions>>
  BY <1>1, <1>7, CheckNoticeTypes DEF CheckNotice
<1>8. ASSUME NEW q \in scene.requests, QueueNotice(q)
      PROVE  NotifyTypes' /\ UNCHANGED <<scene, versions>>
  BY <1>1, <1>8, QueueNoticeTypes DEF QueueNotice
<1>9. ASSUME NEW q \in scene.requests, CrashRequest(q)
      PROVE  NotifyTypes' /\ UNCHANGED <<scene, versions>>
  BY <1>1, <1>9 DEF CrashRequest, NoErrand, ErrandType
<1>10. ASSUME NEW p, NEW kind, OptOut(p, kind) \/ OptIn(p, kind) \/ Bounces(p)
       PROVE  NotifyTypes' /\ UNCHANGED <<scene, versions>>
  BY <1>10 DEF OptOut, OptIn, Bounces
<1>11. ASSUME NEW clock \in scene.clocks, ClockMoves(clock[1], clock[2])
       PROVE  NotifyTypes' /\ UNCHANGED <<scene, versions>>
  <2>1. clock[1] \in Tickets /\ clock[2] \in Clocks
    BY <1>11, NotifyAssumption
  <2> QED
    BY <1>11, <2>1 DEF ClockMoves
<1> QED
  BY <1>2, <1>3, <1>4, <1>5, <1>6, <1>7, <1>8, <1>9, <1>10, <1>11 DEF NotifyNext

LEMMA IdleIsTyped == Idle \in RunType
<1>1. NoOutput \in Outputs
  BY DEF NoOutput, Outputs, Categories, Priorities
<1>2. NoPlan \in PlanType
  BY DEF NoPlan, PlanType, Actions, Statuses, RuleNames
<1> QED
  BY <1>1, <1>2 DEF Idle, RunType

\* One run moves, whatever it moves to.
LEMMA RunMoves ==
  ASSUME RunTypes, RunsAreOn, NEW r \in Runs, NEW x \in RunType, run' = [run EXCEPT ![r] = x],
         UNCHANGED versions,
         x.pc = "idle" => x = Idle,
         x.pc # "idle" => /\ x.ticket \in Tickets
                          /\ x.seen \in 1 .. Len(versions) /\ x.version \in 1 .. Len(versions)
  PROVE  run' \in [Runs -> RunType] /\ RunsAreOn'
  BY DEF RunTypes, RunsAreOn

LEMMA RunGoes ==
  ASSUME RunTypes, RunsAreOn, UNCHANGED versions, NEW r \in Runs, run[r].pc # "idle",
         NEW pc \in {"record", "park", "ask", "answer", "decide", "resume", "draft",
                     "write", "carry", "tell", "send", "settle", "wait"},
         Goes(r, pc)
  PROVE  run' \in [Runs -> RunType] /\ RunsAreOn'
<1> DEFINE x == [run[r] EXCEPT !.pc = pc]
<1>1. run' = [run EXCEPT ![r] = x] /\ x \in RunType
  BY DEF Goes, RunTypes, RunType
<1>2. /\ x.pc # "idle" /\ x.ticket = run[r].ticket
      /\ x.seen = run[r].seen /\ x.version = run[r].version
  BY DEF RunTypes, RunType
<1> HIDE DEF x
<1> QED
  BY <1>1, <1>2, RunMoves DEF RunsAreOn

LEMMA RunEnds ==
  ASSUME RunTypes, RunsAreOn, UNCHANGED versions, NEW r \in Runs, Ends(r)
  PROVE  run' \in [Runs -> RunType] /\ RunsAreOn'
  BY IdleIsTyped, RunMoves DEF Ends, Idle

\* What a run decides has the shape of a decision.
LEMMA PlanIsTyped ==
  ASSUME NotifyTypes, RunTypes, RunsAreOn, NEW r \in Runs, run[r].pc # "idle", NEW support
  PROVE  PlanOf(r, support) \in PlanType
<1> DEFINE in == Input(scene.deployment, SettingsOf(r), run[r].output, support, run[r].rounds,
                       Directory[Requester(r)], TicketOf(r) \in scene.injected)
<1>1. SettingsOf(r) \in AllSettings
  BY VersionsAreTyped DEF RunsAreOn, SettingsOf
<1>2. in.settings = SettingsOf(r)
  BY DEF Input
<1>3. PolicyFor(in.settings, in.triage.category).autonomy \in {"off", "suggest", "reply", "act"}
  BY <1>1, <1>2, PolicyIsTyped DEF CategoryPolicy
<1> HIDE DEF in
<1>4. Decision(in) \in PlanType
  BY <1>3, DecisionIsEarned
<1> QED
  BY <1>4 DEF in, PlanOf

LEMMA ScenesAreTyped ==
  ASSUME NotifyTypes
  PROVE  /\ scene.runs \subseteq Runs /\ scene.requests \subseteq Requests
         /\ scene.outputs \subseteq Outputs /\ scene.attempts \in 1 .. 2
         /\ scene.supports \subseteq Nat /\ scene.words \in Nat /\ scene.faults \in Nat
         /\ scene.deployment \in Modes
         /\ scene.commits \subseteq AllSettings
         /\ scene.replies \subseteq Tickets /\ scene.closes \subseteq Tickets
         /\ scene.followups \subseteq Tickets
  BY NotifyAssumption, PipelineAssumption, DeskAssumption DEF NotifyTypes, AllSettings

LEMMA RunStepTypes ==
  ASSUME NotifyTypes, RunTypes, RunsAreOn, NEW r \in Runs, RunStep(r), UNCHANGED deskVars
  PROVE  NotifyTypes' /\ RunTypes' /\ RunsAreOn' /\ UNCHANGED <<scene, versions>>
<1> DEFINE Goal == NotifyTypes' /\ RunTypes' /\ RunsAreOn' /\ UNCHANGED <<scene, versions>>
<1>r. r \in Senders
  BY DEF Senders
<1>t. run[r].pc # "idle" =>
        /\ TicketOf(r) \in Tickets /\ Requester(r) \in People
        /\ run[r].seen \in 1 .. Len(versions) /\ run[r].version \in 1 .. Len(versions)
        /\ SettingsOf(r) \in AllSettings
  BY VersionsAreTyped, NotifyAssumption DEF RunsAreOn, TicketOf, Requester, SettingsOf
<1>1. ASSUME Start(r) PROVE Goal
  <2>1. PICK t \in Tickets, stalled \in BOOLEAN :
          /\ IF stalled THEN job[t].stalled > 0 ELSE job[t].fresh > 0
          /\ job' = IF stalled THEN [job EXCEPT ![t].stalled = @ - 1]
                    ELSE [job EXCEPT ![t].fresh = @ - 1]
          /\ run' = [run EXCEPT ![r] = [Idle EXCEPT !.pc = "admit", !.ticket = t, !.stalled = stalled,
                                          !.merged = ticket[t].merged, !.rounds = clarify[t],
                                          !.seen = Len(versions)]]
    BY <1>1 DEF Start
  <2> DEFINE x == [Idle EXCEPT !.pc = "admit", !.ticket = t, !.stalled = stalled,
                     !.merged = ticket[t].merged, !.rounds = clarify[t], !.seen = Len(versions)]
  <2>2. x \in RunType
    BY IdleIsTyped, VersionsAreTyped DEF RunType, RunTypes, NotifyTypes, TicketType
  <2>3. x.pc = "admit" /\ x.ticket = t /\ x.seen = Len(versions) /\ x.version = 1
    BY DEF Idle
  <2>4. UNCHANGED <<notifyVars, lost, clarify, agentRuns, spent, called, slips>>
    BY <1>1 DEF Start
  <2>5. job' \in [Tickets -> [fresh : Nat, stalled : Nat]]
    <3>1. job[t] \in [fresh : Nat, stalled : Nat]
      BY DEF RunTypes
    <3>2. \E j \in [fresh : Nat, stalled : Nat] : job' = [job EXCEPT ![t] = j]
      <4>1. CASE stalled
        <5>1. job' = [job EXCEPT ![t] = [job[t] EXCEPT !.stalled = @ - 1]] /\ job[t].stalled > 0
          BY <2>1, <4>1 DEF RunTypes
        <5>2. [job[t] EXCEPT !.stalled = @ - 1] \in [fresh : Nat, stalled : Nat]
          BY <3>1, <5>1
        <5> QED
          BY <5>1, <5>2
      <4>2. CASE ~stalled
        <5>1. job' = [job EXCEPT ![t] = [job[t] EXCEPT !.fresh = @ - 1]] /\ job[t].fresh > 0
          BY <2>1, <4>2 DEF RunTypes
        <5>2. [job[t] EXCEPT !.fresh = @ - 1] \in [fresh : Nat, stalled : Nat]
          BY <3>1, <5>1
        <5> QED
          BY <5>1, <5>2
      <4> QED
        BY <4>1, <4>2
    <3> QED
      BY <3>2 DEF RunTypes
  <2>6. run' = [run EXCEPT ![r] = x]
    BY <2>1
  <2>7. UNCHANGED versions /\ 1 \in 1 .. Len(versions) /\ Len(versions) \in 1 .. Len(versions)
    BY <2>4, VersionsAreTyped DEF notifyVars
  <2> HIDE DEF x
  <2>8. run' \in [Runs -> RunType] /\ RunsAreOn'
    BY <2>2, <2>3, <2>6, <2>7, RunMoves
  <2> QED
    BY <2>4, <2>5, <2>8 DEF RunTypes, NotifyTypes, notifyVars
<1>2. ASSUME Admit(r) PROVE Goal
  <2>1. UNCHANGED <<notifyVars, job, lost, clarify, agentRuns, spent, called, slips>>
    BY <1>2 DEF Admit
  <2>2. \/ Ends(r)
        \/ \E pc \in {"record", "park"} :
             run' = [run EXCEPT ![r] = [@ EXCEPT !.version = Len(versions), !.pc = pc]]
    BY <1>2 DEF Admit, Ends
  <2>3. run' \in [Runs -> RunType] /\ RunsAreOn'
    <3>1. CASE Ends(r)
      BY <2>1, <3>1, RunEnds DEF notifyVars
    <3>2. ASSUME NEW pc \in {"record", "park"},
                 run' = [run EXCEPT ![r] = [@ EXCEPT !.version = Len(versions), !.pc = pc]]
          PROVE  run' \in [Runs -> RunType] /\ RunsAreOn'
      <4> DEFINE x == [run[r] EXCEPT !.version = Len(versions), !.pc = pc]
      <4>1. x \in RunType /\ x.pc = pc /\ x.ticket = run[r].ticket /\ x.seen = run[r].seen
            /\ x.version = Len(versions)
        BY VersionsAreTyped DEF RunTypes, RunType
      <4>2. Len(versions) \in 1 .. Len(versions)
        BY VersionsAreTyped
      <4>3. run[r].pc # "idle"
        BY <1>2 DEF Admit, At
      <4>4. run' = [run EXCEPT ![r] = x]
        BY <3>2
      <4> HIDE DEF x
      <4> QED
        BY <2>1, <4>1, <4>2, <4>3, <4>4, <1>t, RunMoves DEF notifyVars, TicketOf
    <3> QED
      BY <2>2, <3>1, <3>2
  <2> QED
    BY <2>1, <2>3 DEF RunTypes, NotifyTypes, notifyVars
<1>3. ASSUME RecordAgentRun(r) PROVE Goal
  BY <1>3, <1>t, RunGoes DEF RecordAgentRun, At, RunTypes, NotifyTypes, notifyVars
<1>4. ASSUME Park(r) PROVE Goal
  <2>1. ticket' \in [Tickets -> TicketType]
    BY <1>4, <1>t, SetStatusDoes DEF Park, At, Statuses
  <2> QED
    BY <1>4, <2>1, RunEnds DEF Park, RunTypes, NotifyTypes
<1>5. ASSUME AskModel(r) PROVE Goal
  BY <1>5, RunGoes DEF AskModel, At, RunTypes, NotifyTypes, notifyVars
<1>6. ASSUME Answer(r) PROVE Goal
  <2>1. run[r].pc # "idle"
    BY <1>6 DEF Answer, At
  <2>2. \/ Goes(r, "park")
        \/ \E o \in scene.outputs : Understood(r, o)
    BY <1>6 DEF Answer
  <2>3. \E n \in 0 .. 2 : spent' = spent + n
    BY <1>6, ScenesAreTyped DEF Answer, Billed
  <2>4. UNCHANGED <<notifyVars, job, lost, clarify, agentRuns, called, slips>>
    BY <1>6 DEF Answer
  <2>5. run' \in [Runs -> RunType] /\ RunsAreOn'
    <3>1. ASSUME NEW o \in scene.outputs, Understood(r, o)
          PROVE  run' \in [Runs -> RunType] /\ RunsAreOn'
      <4> DEFINE x == [run[r] EXCEPT !.output = o, !.pc = "decide"]
      <4>1. o \in Outputs
        BY ScenesAreTyped
      <4>2. x \in RunType /\ x.pc = "decide" /\ x.ticket = run[r].ticket /\ x.seen = run[r].seen
            /\ x.version = run[r].version
        BY <4>1 DEF RunTypes, RunType
      <4>3. run' = [run EXCEPT ![r] = x]
        BY <3>1 DEF Understood, RunTypes
      <4> HIDE DEF x
      <4> QED
        BY <2>1, <2>4, <4>2, <4>3, <1>t, RunMoves DEF notifyVars, TicketOf
    <3> QED
      BY <2>1, <2>2, <2>4, <3>1, RunGoes DEF notifyVars
  <2> QED
    BY <2>3, <2>4, <2>5 DEF RunTypes, NotifyTypes, notifyVars
<1>7. ASSUME DecideAndStamp(r) PROVE Goal
  <2>1. PICK support \in KbTopScores :
          /\ \E pc \in {"resume", "draft"} :
               run' = [run EXCEPT ![r].support = support, ![r].plan = PlanOf(r, support), ![r].pc = pc]
          /\ \/ ticket' = ticket
             \/ SetStatus(TicketOf(r), PlanOf(r, support).status)
    BY <1>7 DEF DecideAndStamp
  <2>2. run[r].pc # "idle" /\ support \in Nat
    BY <1>7, ScenesAreTyped DEF DecideAndStamp, At, KbTopScores
  <2>3. PlanOf(r, support) \in PlanType
    BY <2>2, PlanIsTyped
  <2>4. ticket' \in [Tickets -> TicketType]
    BY <2>1, <2>2, <2>3, <1>t, SetStatusDoes DEF PlanType, NotifyTypes
  <2>5. UNCHANGED <<scene, versions, near, mail, optedOut, suppressed, hour, errand, faults,
                    job, lost, clarify, agentRuns, spent, called, slips>>
    BY <1>7 DEF DecideAndStamp
  <2>6. run' \in [Runs -> RunType] /\ RunsAreOn'
    <3>1. PICK pc \in {"resume", "draft"} :
            run' = [run EXCEPT ![r].support = support, ![r].plan = PlanOf(r, support), ![r].pc = pc]
      BY <2>1
    <3> DEFINE x == [run[r] EXCEPT !.support = support, !.plan = PlanOf(r, support), !.pc = pc]
    <3>2. x \in RunType /\ x.pc = pc /\ x.ticket = run[r].ticket /\ x.seen = run[r].seen
          /\ x.version = run[r].version
      BY <2>2, <2>3 DEF RunTypes, RunType
    <3>3. run' = [run EXCEPT ![r] = x]
      BY <3>1 DEF RunTypes
    <3> HIDE DEF x
    <3> QED
      BY <2>2, <2>5, <3>2, <3>3, <1>t, RunMoves DEF TicketOf
  <2> QED
    BY <2>4, <2>5, <2>6 DEF RunTypes, NotifyTypes
<1>8. ASSUME Resume(r) PROVE Goal
  <2>1. run[r].pc # "idle" /\ run[r].plan.status \in Statuses
    BY <1>8 DEF Resume, At, RunTypes, RunType, PlanType
  <2>2. ticket' \in [Tickets -> TicketType]
    BY <1>8, <2>1, <1>t, SetStatusDoes DEF Resume
  <2> QED
    BY <1>8, <2>1, <2>2, RunGoes DEF Resume, RunTypes, NotifyTypes
<1>9. ASSUME ProduceDraft(r) PROVE Goal
  <2>1. \E pc \in {"carry", "write", "park"} : Goes(r, pc)
    BY <1>9 DEF ProduceDraft
  <2> QED
    BY <1>9, <2>1, RunGoes DEF ProduceDraft, At, RunTypes, NotifyTypes, notifyVars
<1>10. ASSUME WriteDraft(r) PROVE Goal
  <2>1. run[r].pc # "idle"
    BY <1>10 DEF WriteDraft, At
  <2>2. UNCHANGED <<notifyVars, job, lost, clarify, agentRuns, called, slips>>
    BY <1>10 DEF WriteDraft
  <2>3. CASE Goes(r, "park") /\ UNCHANGED spent
    BY <2>1, <2>2, <2>3, RunGoes DEF RunTypes, NotifyTypes, notifyVars
  <2>4. ASSUME NEW words \in 1 .. scene.words,
               run' = [run EXCEPT ![r].words = words, ![r].pc = "carry"], Billed(1)
        PROVE  Goal
    <3> DEFINE x == [run[r] EXCEPT !.words = words, !.pc = "carry"]
    <3>1. words \in Nat
      BY ScenesAreTyped
    <3>2. x \in RunType /\ x.pc = "carry" /\ x.ticket = run[r].ticket /\ x.seen = run[r].seen
          /\ x.version = run[r].version
      BY <3>1 DEF RunTypes, RunType
    <3>3. run' = [run EXCEPT ![r] = x]
      BY <2>4 DEF RunTypes
    <3> HIDE DEF x
    <3>4. run' \in [Runs -> RunType] /\ RunsAreOn'
      BY <2>1, <2>2, <3>2, <3>3, <1>t, RunMoves DEF TicketOf, notifyVars
    <3> QED
      BY <2>2, <2>4, <3>4 DEF RunTypes, NotifyTypes, notifyVars, Billed
  <2> QED
    BY <1>10, <2>3, <2>4 DEF WriteDraft
<1>11. ASSUME Escalate(r) PROVE Goal
  <2>1. run[r].pc # "idle"
    BY <1>11 DEF Escalate, At
  <2>2. ticket' \in [Tickets -> TicketType]
    BY <1>11, <2>1, <1>t, SetStatusDoes DEF Escalate, Statuses
  <2> DEFINE queue == RouteQueue(run[r].output.category, run[r].output.priority, SettingsOf(r))
  <2>3. queue \in DOMAIN Watching
    <3>1. QueuesOf(SettingsOf(r).routing) \subseteq DOMAIN Watching
      BY <2>1, <1>t, SettingsAreTyped
    <3>2. queue \in QueuesOf(SettingsOf(r).routing)
      BY DEF RouteQueue, QueuesOf
    <3> QED
      BY <3>1, <3>2
  <2>4. EscalationNotices(TicketOf(r), queue) \in SUBSET NoticeType
    BY <2>1, <2>3, <1>t, NoticesAreTyped
  <2>5. errand' \in [Senders -> ErrandType]
    <3> DEFINE notices == EscalationNotices(TicketOf(r), queue)
    <3>1. errand' = [errand EXCEPT ![r].todo = notices]
      BY <1>11 DEF Escalate
    <3> HIDE DEF notices
    <3> QED
      BY <1>r, <2>4, <3>1 DEF notices, NotifyTypes, ErrandType
  <2> QED
    BY <1>11, <2>1, <2>2, <2>5, RunGoes DEF Escalate, RunTypes, NotifyTypes
<1>12. ASSUME Told(r) PROVE Goal
  BY <1>12, RunEnds DEF Told, RunTypes, NotifyTypes, notifyVars
<1>13. ASSUME ParkDraft(r) PROVE Goal
  BY <1>13, RunEnds, RunGoes DEF ParkDraft, At, RunTypes, NotifyTypes, notifyVars
<1>14. ASSUME Act(r) PROVE Goal
  BY <1>14, RunGoes DEF Act, At, RunTypes, NotifyTypes, notifyVars
<1>15. ASSUME SendReply(r) PROVE Goal
  <2> DEFINE kind == DraftKind(run[r].plan)
             key == [kind |-> kind, tickets |-> {TicketOf(r)}, prefixes |-> {},
                     to |-> Nobody, number |-> run[r].words]
  <2>1. run[r].pc # "idle"
    BY <1>15 DEF SendReply, At
  <2>2. kind \in MailKind /\ run[r].words \in Nat /\ {TicketOf(r)} \in SUBSET Tickets
        /\ Requester(r) \in People
    BY <2>1, <1>t DEF DraftKind, MailKind, RunTypes, RunType
  <2>3. key \in KeyType
    BY <2>2 DEF KeyType
  <2>4. UNCHANGED mail \/ QueueOutbound(Notice(kind, {TicketOf(r)}, Requester(r), run[r].words), key)
    BY <1>15 DEF SendReply
  <2>5. Goes(r, "park") \/ Goes(r, "settle")
    BY <1>15 DEF SendReply
  <2>6. UNCHANGED <<scene, versions, ticket, near, optedOut, suppressed, hour, errand, faults,
                    job, lost, clarify, agentRuns, spent, called, slips>>
    BY <1>15 DEF SendReply
  <2> HIDE DEF kind, key
  <2>7. mail' \in SUBSET RowType
    BY <2>2, <2>3, <2>4, QueueOutboundTypes DEF NotifyTypes
  <2> QED
    BY <2>1, <2>5, <2>6, <2>7, RunGoes DEF RunTypes, NotifyTypes
<1>16. ASSUME SettleReply(r) PROVE Goal
  <2>1. ticket' \in [Tickets -> TicketType]
    BY <1>16, <1>t, SetStatusDoes DEF SettleReply, At, Statuses
  <2> QED
    BY <1>16, <2>1, RunEnds DEF SettleReply, RunTypes, NotifyTypes
<1>17. ASSUME CountQuestion(r) PROVE Goal
  <2>1. clarify' \in [Tickets -> Nat]
    <3>1. clarify' = [clarify EXCEPT ![TicketOf(r)] = clarify[TicketOf(r)] + 1]
      BY <1>17 DEF CountQuestion
    <3>2. TicketOf(r) \in Tickets
      BY <1>17, <1>t DEF CountQuestion, At
    <3> QED
      BY <3>1, <3>2 DEF RunTypes
  <2> QED
    BY <1>17, <2>1, RunGoes DEF CountQuestion, At, RunTypes, NotifyTypes, notifyVars
<1>18. ASSUME RefusedByConversation(r) PROVE Goal
  <2>1. slips' \in [Tickets -> Nat]
    <3>1. TicketOf(r) \in Tickets
      BY <1>18, <1>t DEF RefusedByConversation, At
    <3> QED
      BY <1>18, <3>1 DEF RefusedByConversation, Slips, RunTypes
  <2> QED
    BY <1>18, <2>1, RunGoes DEF RefusedByConversation, At, RunTypes, NotifyTypes, notifyVars
<1>19. ASSUME WaitForUser(r) PROVE Goal
  <2>1. ticket' \in [Tickets -> TicketType]
    BY <1>19, <1>t, SetStatusDoes DEF WaitForUser, At, Statuses
  <2> QED
    BY <1>19, <2>1, RunEnds DEF WaitForUser, RunTypes, NotifyTypes
<1>20. ASSUME CheckNotice(r) \/ QueueNotice(r), UNCHANGED runVars PROVE Goal
  <2>1. NotifyTypes' /\ UNCHANGED <<scene, versions>>
    BY <1>20, <1>r, CheckNoticeTypes, QueueNoticeTypes DEF CheckNotice, QueueNotice
  <2> QED
    BY <1>20, <2>1 DEF RunTypes, RunsAreOn, runVars
<1> HIDE DEF Goal
<1>21. Goal
  BY <1>1, <1>2, <1>3, <1>4, <1>5, <1>6, <1>7, <1>8, <1>9, <1>10, <1>11, <1>12, <1>13, <1>14,
     <1>15, <1>16, <1>17, <1>18, <1>19, <1>20 DEF RunStep
<1> QED
  BY <1>21 DEF Goal

\* Versions are only ever added.
LEMMA CommitSettingsDoes ==
  ASSUME NotifyTypes, CommitSettings
  PROVE  /\ versions' \in Seq(AllSettings) /\ versions' # <<>>
         /\ Len(versions') = Len(versions) + 1 /\ Len(versions) \in Nat
         /\ \A i \in 1 .. Len(versions) : versions'[i] = versions[i]
<1>1. PICK s \in scene.commits : versions' = Append(versions, s)
  BY DEF CommitSettings
<1>2. s \in AllSettings
  BY ScenesAreTyped
<1>3. versions \in Seq(AllSettings)
  BY DEF NotifyTypes
<1> QED
  BY <1>1, <1>2, <1>3, AppendProperties, EmptySeq

LEMMA CrashRunTypes ==
  ASSUME NotifyTypes, RunTypes, RunsAreOn, NEW r \in Runs, CrashRun(r)
  PROVE  NotifyTypes' /\ RunTypes' /\ RunsAreOn'
<1>1. TicketOf(r) \in Tickets
  BY DEF CrashRun, At, RunsAreOn, TicketOf
<1>2. run' \in [Runs -> RunType] /\ RunsAreOn'
  BY RunEnds DEF CrashRun
<1>3. errand' \in [Senders -> ErrandType] /\ faults' \in Nat
  <2>1. NoErrand \in ErrandType
    BY DEF NoErrand, ErrandType
  <2>2. errand' = [errand EXCEPT ![r] = NoErrand]
    BY DEF CrashRun
  <2>3. errand' \in [Senders -> ErrandType]
    BY <2>1, <2>2 DEF NotifyTypes
  <2>4. faults' \in Nat
    BY DEF CrashRun, NotifyTypes
  <2> QED
    BY <2>3, <2>4
<1>4. job' \in [Tickets -> [fresh : Nat, stalled : Nat]]
  <2>1. CASE run[r].stalled
    BY <2>1 DEF CrashRun, RunTypes
  <2>2. CASE ~run[r].stalled
    <3>1. job' = [job EXCEPT ![TicketOf(r)] = [job[TicketOf(r)] EXCEPT !.stalled = @ + 1]]
      BY <1>1, <2>2 DEF CrashRun, RunTypes
    <3>2. job[TicketOf(r)] \in [fresh : Nat, stalled : Nat]
      BY <1>1 DEF RunTypes
    <3>3. [job[TicketOf(r)] EXCEPT !.stalled = @ + 1] \in [fresh : Nat, stalled : Nat]
      BY <3>2
    <3> QED
      BY <3>1, <3>3 DEF RunTypes
  <2> QED
    BY <2>1, <2>2
<1>5. slips' \in [Tickets -> Nat]
  BY <1>1 DEF CrashRun, Slips, RunTypes
<1> QED
  BY <1>2, <1>3, <1>4, <1>5 DEF CrashRun, NotifyTypes, RunTypes

LEMMA PassHourTypes ==
  ASSUME NotifyTypes, RunTypes, RunsAreOn, PassHour
  PROVE  NotifyTypes' /\ RunTypes' /\ RunsAreOn'
<1>1. agentRuns' \in Seq(People)
  <2>1. PICK gone \in 0 .. TenantRuns : agentRuns' = SubSeq(agentRuns, gone + 1, TenantRuns)
    BY DEF PassHour
  <2>2. agentRuns \in Seq(People) /\ TenantRuns = Len(agentRuns)
    BY DEF RunTypes, TenantRuns
  <2> QED
    BY <2>1, <2>2, SubSeqProperties
<1>2. spent' \in Nat /\ hour' \in Nat
  BY DEF PassHour, RunTypes, NotifyTypes
<1> QED
  BY <1>1, <1>2 DEF PassHour, NotifyTypes, RunTypes, RunsAreOn

LEMMA NextTypes ==
  ASSUME NotifyTypes, RunTypes, RunsAreOn, Next, UNCHANGED deskVars
  PROVE  NotifyTypes' /\ RunTypes' /\ RunsAreOn'
<1>1. ASSUME NEW r \in scene.runs, RunStep(r) PROVE NotifyTypes' /\ RunTypes' /\ RunsAreOn'
  BY <1>1, ScenesAreTyped, RunStepTypes
<1>2. ASSUME NEW r \in scene.runs, CrashRun(r) PROVE NotifyTypes' /\ RunTypes' /\ RunsAreOn'
  BY <1>2, ScenesAreTyped, CrashRunTypes
<1>3. ASSUME NEW t \in Tickets, Retriage(t) PROVE NotifyTypes' /\ RunTypes' /\ RunsAreOn'
  <2>1. job' = [job EXCEPT ![t] = [job[t] EXCEPT !.fresh = @ + 1]]
    BY <1>3 DEF Retriage, RunTypes
  <2>2. job[t] \in [fresh : Nat, stalled : Nat]
    BY DEF RunTypes
  <2>3. [job[t] EXCEPT !.fresh = @ + 1] \in [fresh : Nat, stalled : Nat]
    BY <2>2
  <2>4. job' \in [Tickets -> [fresh : Nat, stalled : Nat]]
    BY <2>1, <2>3 DEF RunTypes
  <2> QED
    BY <1>3, <2>4 DEF Retriage, notifyVars, NotifyTypes, RunTypes, RunsAreOn
<1>4. ASSUME NEW t \in Tickets, Answered(t) \/ MergeTicket(t)
      PROVE  NotifyTypes' /\ RunTypes' /\ RunsAreOn'
  <2>1. ticket' \in [Tickets -> TicketType]
    <3>1. CASE Answered(t)
      BY <3>1, StatusGiven DEF Answered, Statuses
    <3>2. CASE MergeTicket(t)
      <4>1. ticket[t] \in TicketType
        BY DEF NotifyTypes
      <4>2. [ticket[t] EXCEPT !.merged = TRUE, !.status = "closed", !.by = "person"] \in TicketType
        BY <4>1 DEF TicketType, Statuses
      <4>3. ticket' = [ticket EXCEPT ![t] =
                         [ticket[t] EXCEPT !.merged = TRUE, !.status = "closed", !.by = "person"]]
        BY <3>2 DEF MergeTicket, NotifyTypes
      <4> QED
        BY <4>2, <4>3 DEF NotifyTypes
    <3> QED
      BY <1>4, <3>1, <3>2
  <2> QED
    BY <1>4, <2>1 DEF Answered, MergeTicket, runVars, NotifyTypes, RunTypes, RunsAreOn
<1>5. ASSUME CommitSettings PROVE NotifyTypes' /\ RunTypes' /\ RunsAreOn'
  BY <1>5, CommitSettingsDoes DEF CommitSettings, runVars, NotifyTypes, RunTypes, RunsAreOn
<1>6. ASSUME PassHour PROVE NotifyTypes' /\ RunTypes' /\ RunsAreOn'
  BY <1>6, PassHourTypes
<1>7. ASSUME NotifyNext, UNCHANGED runVars PROVE NotifyTypes' /\ RunTypes' /\ RunsAreOn'
  BY <1>7, NotifyNextTypes DEF runVars, RunTypes, RunsAreOn
<1> QED
  BY <1>1, <1>2, <1>3, <1>4, <1>5, <1>6, <1>7 DEF Next

(***************************************************************************)
(* The desk's own steps.                                                   *)
(***************************************************************************)

Desks ==
  \/ \E q \in scene.requests :
       \/ \E t \in scene.replies, close \in BOOLEAN : SendAsPerson(q, t, close)
       \/ SettlePersonReply(q)
       \/ \E t \in scene.closes : ChangeStatus(q, t)
  \/ \E t \in scene.followups : FollowUp(t)

Writes(w) ==
  \/ StartWriteback(w) \/ TellFix(w) \/ FindNeighbours(w) \/ IngestDocument(w)
  \/ WritebackFails(w)

LEMMA DeskStepTypes ==
  ASSUME TypeInv, Desks
  PROVE  TypeInv' /\ UNCHANGED <<scene, versions, runVars, writer, kb>>
<1> DEFINE Goal == TypeInv' /\ UNCHANGED <<scene, versions, runVars, writer, kb>>
<1> USE DEF TypeInv, NotifyTypes, DeskTypes
<1>s. /\ scene.requests \subseteq Requests /\ scene.replies \subseteq Tickets
      /\ scene.closes \subseteq Tickets /\ scene.followups \subseteq Tickets
  BY ScenesAreTyped
<1>a. \A t \in Tickets : AskWriteback(t) => due' \in SUBSET Tickets
  BY DEF AskWriteback
<1>1. ASSUME NEW q \in scene.requests, NEW t \in scene.replies, NEW close \in BOOLEAN,
             SendAsPerson(q, t, close)
      PROVE  Goal
  <2> DEFINE key == [kind |-> "person", tickets |-> {t}, prefixes |-> {},
                     to |-> Nobody, number |-> 0]
  <2>1. /\ q \in Requests /\ t \in Tickets /\ RequesterOf[t] \in People
        /\ "person" \in MailKind /\ key \in KeyType
    BY <1>s, NotifyAssumption DEF MailKind, KeyType
  <2>2. QueueOutbound(Notice("person", {t}, RequesterOf[t], 0), key)
    BY <1>1 DEF SendAsPerson
  <2> HIDE DEF key
  <2>3. mail' \in SUBSET RowType
    BY <2>1, <2>2, QueueOutboundTypes
  <2>4. /\ reply' \in [Requests -> [ticket : Tickets \cup {NoTicket}, close : BOOLEAN]]
        /\ \A p \in Requests : reply'[p] # NoReply => reply'[p].ticket \in Tickets
    BY <1>1, <2>1 DEF SendAsPerson
  <2> QED
    BY <1>1, <2>3, <2>4 DEF SendAsPerson, RunTypes, RunsAreOn, runVars
<1>2. ASSUME NEW q \in scene.requests, SettlePersonReply(q) PROVE Goal
  <2>1. q \in Requests /\ reply[q].ticket \in Tickets
    BY <1>2, <1>s DEF SettlePersonReply
  <2>2. due' \in SUBSET Tickets /\ ticket' \in [Tickets -> TicketType]
    <3>1. due' \in SUBSET Tickets
      BY <1>2, <1>a, <2>1 DEF SettlePersonReply
    <3>2. \/ ticket' = ticket
          \/ ticket' = [ticket EXCEPT ![reply[q].ticket].status = "resolved",
                                      ![reply[q].ticket].by = "person"]
      BY <1>2 DEF SettlePersonReply
    <3> QED
      BY <2>1, <3>1, <3>2, StatusGiven DEF Statuses
  <2>3. /\ reply' \in [Requests -> [ticket : Tickets \cup {NoTicket}, close : BOOLEAN]]
        /\ \A p \in Requests : reply'[p] # NoReply => reply'[p].ticket \in Tickets
    BY <1>2, <2>1 DEF SettlePersonReply, NoReply
  <2> QED
    BY <1>2, <2>2, <2>3 DEF SettlePersonReply, RunTypes, RunsAreOn, runVars
<1>3. ASSUME NEW q \in scene.requests, NEW t \in scene.closes, ChangeStatus(q, t) PROVE Goal
  <2>1. q \in Senders /\ t \in Tickets
    BY <1>s DEF Senders
  <2>2. due' \in SUBSET Tickets /\ ticket' \in [Tickets -> TicketType]
    BY <1>3, <1>a, <2>1, StatusGiven DEF ChangeStatus, Statuses
  <2>3. errand' \in [Senders -> ErrandType]
    BY <1>3, <2>1 DEF ChangeStatus, ErrandType
  <2> QED
    BY <1>3, <2>2, <2>3 DEF ChangeStatus, RunTypes, RunsAreOn, runVars
<1>4. ASSUME NEW t \in scene.followups, FollowUp(t) PROVE Goal
  <2>1. due' \in SUBSET Tickets /\ ticket' \in [Tickets -> TicketType]
    <3>1. due' \in SUBSET Tickets
      BY <1>4, <1>s DEF FollowUp
    <3>2. t \in Tickets /\ ticket' = [ticket EXCEPT ![t].status = "closed", ![t].by = "system"]
      BY <1>4, <1>s DEF FollowUp
    <3>3. ticket' \in [Tickets -> TicketType]
      BY <3>2, StatusGiven DEF Statuses
    <3> QED
      BY <3>1, <3>3
  <2> QED
    BY <1>4, <2>1 DEF FollowUp, RunTypes, RunsAreOn, runVars
<1> QED
  BY <1>1, <1>2, <1>3, <1>4 DEF Desks

LEMMA IngestTypes ==
  ASSUME DeskTypes, NEW w \in Writers, IngestDocument(w)
  PROVE  kb' \in SUBSET DocType
<1> DEFINE retired == {doc \in kb : \E old \in writer[w].near : old.fix = doc.fix /\ old.words = doc.words}
           new == [fix |-> FixFor(w), words |-> writer[w].words, live |-> TRUE]
<1>1. writer[w].ticket \in Tickets
  BY DEF DeskTypes, IngestDocument, Resting
<1>2. new \in DocType
  BY <1>1 DEF DeskTypes, WriterType, DocType, FixFor
<1>3. \A doc \in kb : [doc EXCEPT !.live = FALSE] \in DocType
  BY DEF DeskTypes, DocType
<1>4. kb' = kb \/ kb' = (kb \ retired) \cup {[doc EXCEPT !.live = FALSE] : doc \in retired} \cup {new}
  BY DEF IngestDocument
<1> HIDE DEF new
<1> QED
  BY <1>2, <1>3, <1>4 DEF DeskTypes

LEMMA WriterMoves ==
  ASSUME DeskTypes, NEW w \in Writers, NEW x \in WriterType, writer' = [writer EXCEPT ![w] = x],
         x # Resting => x.ticket \in Tickets, x.pc = "idle" => x = Resting
  PROVE  /\ writer' \in [Writers -> WriterType]
         /\ \A v \in Writers : writer'[v] # Resting => writer'[v].ticket \in Tickets
         /\ \A v \in Writers : writer'[v].pc = "idle" => writer'[v] = Resting
  BY DEF DeskTypes

LEMMA WriteTypes ==
  ASSUME TypeInv, NEW w \in Writers, Writes(w)
  PROVE  /\ TypeInv'
         /\ UNCHANGED <<scene, versions, run, ticket, mail, errand, agentRuns, clarify,
                        job, lost, slips>>
<1> DEFINE Goal == /\ TypeInv'
                   /\ UNCHANGED <<scene, versions, run, ticket, mail, errand, agentRuns, clarify,
                                  job, lost, slips>>
<1>r. Resting \in WriterType /\ Resting.pc = "idle"
  BY DEF Resting, WriterType
<1>w. writer[w] \in WriterType /\ (writer[w] # Resting => writer[w].ticket \in Tickets)
  BY DEF TypeInv, DeskTypes
<1>1. ASSUME StartWriteback(w) PROVE Goal
  <2>1. PICK t \in due :
          /\ due' = due \ {t}
          /\ writer' = IF SpendAllows
                       THEN [writer EXCEPT ![w] = [Resting EXCEPT !.pc = "tell", !.ticket = t]]
                       ELSE writer
    BY <1>1 DEF StartWriteback
  <2> DEFINE x == [Resting EXCEPT !.pc = "tell", !.ticket = t]
  <2>2. t \in Tickets
    BY DEF TypeInv, DeskTypes
  <2>3. x \in WriterType /\ x.pc = "tell" /\ x.ticket = t
    BY <1>r, <2>2 DEF WriterType
  <2>4. writer' = [writer EXCEPT ![w] = x] \/ writer' = writer
    BY <2>1
  <2> HIDE DEF x
  <2>5. UNCHANGED <<vars, reply, kb>>
    BY <1>1 DEF StartWriteback
  <2>6. DeskTypes'
    BY <2>1, <2>2, <2>3, <2>4, <2>5, WriterMoves DEF TypeInv, DeskTypes
  <2> QED
    BY <2>5, <2>6 DEF TypeInv, NotifyTypes, RunTypes, RunsAreOn, vars, notifyVars, runVars
<1>2. ASSUME TellFix(w) PROVE Goal
  <2>1. UNCHANGED <<notifyVars, job, lost, run, clarify, agentRuns, called, slips, reply, due, kb>>
        /\ spent' = spent + 1
    BY <1>2 DEF TellFix
  <2>2. \E x \in WriterType :
          /\ writer' = [writer EXCEPT ![w] = x]
          /\ x # Resting => x.ticket \in Tickets
          /\ x.pc = "idle" => x = Resting
    <3>1. CASE Rests(w)
      BY <1>r, <3>1 DEF Rests
    <3>2. ASSUME NEW words \in 1 .. scene.words,
                 writer' = [writer EXCEPT ![w].words = words, ![w].pc = "look"]
          PROVE  \E x \in WriterType :
                   /\ writer' = [writer EXCEPT ![w] = x]
                   /\ x # Resting => x.ticket \in Tickets
                   /\ x.pc = "idle" => x = Resting
      <4> DEFINE x == [writer[w] EXCEPT !.words = words, !.pc = "look"]
      <4>1. words \in Nat
        BY ScenesAreTyped DEF TypeInv
      <4>2. x \in WriterType /\ x.pc = "look" /\ x.ticket = writer[w].ticket
        BY <1>w, <4>1 DEF WriterType
      <4>3. writer' = [writer EXCEPT ![w] = x]
        BY <3>2 DEF TypeInv, DeskTypes
      <4>4. writer[w] # Resting
        BY <1>2 DEF TellFix, Resting
      <4> HIDE DEF x
      <4> QED
        BY <1>w, <4>2, <4>3, <4>4
    <3> QED
      BY <1>2, <3>1, <3>2 DEF TellFix
  <2>3. DeskTypes'
    BY <2>1, <2>2, WriterMoves DEF TypeInv, DeskTypes
  <2> QED
    BY <2>1, <2>3 DEF TypeInv, NotifyTypes, RunTypes, RunsAreOn, notifyVars
<1>3. ASSUME FindNeighbours(w) PROVE Goal
  <2> DEFINE x == [writer[w] EXCEPT !.near = Live(FixFor(w)), !.pc = "ingest"]
  <2>1. UNCHANGED <<vars, reply, due, kb>>
    BY <1>3 DEF FindNeighbours
  <2>2. Live(FixFor(w)) \in SUBSET DocType
    BY DEF Live, TypeInv, DeskTypes
  <2>3. x \in WriterType /\ x.pc = "ingest" /\ x.ticket = writer[w].ticket
    BY <1>w, <2>2 DEF WriterType
  <2>4. writer' = [writer EXCEPT ![w] = x]
    <3>1. writer' = [writer EXCEPT ![w].near = Live(FixFor(w)), ![w].pc = "ingest"]
      BY <1>3 DEF FindNeighbours
    <3> HIDE DEF Live, FixFor
    <3> QED
      BY <3>1 DEF TypeInv, DeskTypes
  <2>5. writer[w] # Resting
    BY <1>3 DEF FindNeighbours, Resting
  <2> HIDE DEF x
  <2>6. DeskTypes'
    BY <1>w, <2>1, <2>3, <2>4, <2>5, WriterMoves DEF TypeInv, DeskTypes
  <2> QED
    BY <2>1, <2>6 DEF TypeInv, NotifyTypes, RunTypes, RunsAreOn, vars, notifyVars, runVars
<1>4. ASSUME IngestDocument(w) PROVE Goal
  <2>1. UNCHANGED <<vars, reply, due>> /\ Rests(w)
    BY <1>4 DEF IngestDocument
  <2>2. DeskTypes'
    BY <1>4, <1>r, <2>1, IngestTypes, WriterMoves DEF Rests, TypeInv, DeskTypes
  <2> QED
    BY <2>1, <2>2 DEF TypeInv, NotifyTypes, RunTypes, RunsAreOn, vars, notifyVars, runVars
<1>5. ASSUME WritebackFails(w) PROVE Goal
  <2>1. /\ UNCHANGED <<scene, versions, ticket, near, mail, optedOut, suppressed, hour, errand,
                       runVars, reply, kb>>
        /\ Rests(w) /\ writer[w] # Resting
        /\ faults' = faults + 1 /\ due' = due \cup {writer[w].ticket}
    BY <1>5 DEF WritebackFails
  <2>2. DeskTypes'
    BY <1>w, <1>r, <2>1, WriterMoves DEF Rests, TypeInv, DeskTypes
  <2> QED
    BY <2>1, <2>2 DEF TypeInv, NotifyTypes, RunTypes, RunsAreOn, runVars
<1> HIDE DEF Goal
<1>6. Goal
  BY <1>1, <1>2, <1>3, <1>4, <1>5 DEF Writes
<1> QED
  BY <1>6 DEF Goal

LEMMA InitTypes == DeskInit => TypeInv
<1> SUFFICES ASSUME DeskInit PROVE TypeInv
  OBVIOUS
<1> USE DEF DeskInit, Init
<1>1. PICK s \in Scenarios : scene = s
  OBVIOUS
<1>2. s.settings \in AllSettings /\ s.status \in Statuses /\ s.jobs \in [Tickets -> Nat]
  BY NotifyAssumption, PipelineAssumption DEF AllSettings
<1>3. NoErrand \in ErrandType
  BY DEF NoErrand, ErrandType
<1>4. ticket \in [Tickets -> TicketType]
  BY <1>1, <1>2 DEF NotifyStart, TicketType
<1>5. NotifyTypes
  <2>1. NotifyStart(s)
    BY <1>1
  <2>2. versions \in Seq(AllSettings) /\ versions # <<>>
    BY <2>1, <1>2 DEF NotifyStart
  <2>3. near \in [Tickets -> SUBSET Clocks]
    BY <2>1 DEF NotifyStart
  <2>4. mail = {} /\ hour \in Nat /\ faults \in Nat
    BY <2>1 DEF NotifyStart
  <2>5. errand \in [Senders -> ErrandType]
    BY <2>1, <1>3 DEF NotifyStart
  <2> QED
    BY <1>1, <1>4, <2>2, <2>3, <2>4, <2>5 DEF NotifyTypes
<1>6. RunTypes /\ RunsAreOn
  BY <1>1, <1>2, IdleIsTyped DEF PipelineStart, RunTypes, RunsAreOn, Idle
<1>7. DeskTypes
  BY DEF DeskTypes, NoReply, Resting, WriterType
<1> QED
  BY <1>5, <1>6, <1>7 DEF TypeInv

LEMMA DeskNextSplits ==
  DeskNext => \/ Next /\ UNCHANGED deskVars
              \/ Desks
              \/ \E w \in Writers : Writes(w)
  BY DEF DeskNext, Desks, Writes

LEMMA StepTypes == TypeInv /\ [DeskNext]_allVars => TypeInv'
<1> SUFFICES ASSUME TypeInv, [DeskNext]_allVars PROVE TypeInv'
  OBVIOUS
<1>1. CASE Next /\ UNCHANGED deskVars
  BY <1>1, NextTypes DEF TypeInv, DeskTypes, deskVars
<1>2. CASE Desks
  BY <1>2, DeskStepTypes
<1>3. ASSUME NEW w \in Writers, Writes(w) PROVE TypeInv'
  BY <1>3, WriteTypes
<1>4. CASE UNCHANGED allVars
  BY <1>4 DEF allVars, vars, notifyVars, runVars, deskVars, TypeInv, NotifyTypes, RunTypes,
              DeskTypes, RunsAreOn
<1> QED
  BY <1>1, <1>2, <1>3, <1>4, DeskNextSplits

\* Every variable of the pipeline, the notices and the desk keeps its shape, a
\* run under way has its ticket and the versions it has read, and a write-back
\* its ticket.
THEOREM DeskTypeCorrect == DeskSpec => []TypeInv
<1> QED
  BY InitTypes, StepTypes, PTL DEF DeskSpec

(***************************************************************************)
(* The invariants the properties rest on.                                  *)
(***************************************************************************)

\* The key a notice had in the hour its row was made.
KeyAt(n, h) ==
  LET Key(to, number) ==
        [kind |-> n.kind, tickets |-> n.tickets, prefixes |-> {}, to |-> to, number |-> number]
  IN CASE n.kind = "sla_warning" -> Key(Nobody, n.fact)
       [] IsDigest(n) -> DigestKey(n)
       [] OTHER -> Key(n.to, h)

IsNotice(x) == x.kind \in NotificationKind

\* A row's key tells what it is about, but for a digest's.
RowsAreKeyed ==
  \A row \in mail :
    /\ \/ row.key.kind = row.kind /\ row.key.tickets = row.tickets
       \/ row.key.kind = "digest" /\ IsNotice(row)
    /\ IsNotice(row) => row.key = KeyAt(row, row.hour)
    /\ IsNotice(row) /\ row.kind # "sla_warning" => row.fact = 0

\* Only a warning is about a clock; one notice is sent at a time; a run holds
\* notices only while it tells people of an escalation.
ErrandsAreOrderly ==
  /\ \A s \in Senders : \A n \in Held(s) : n.kind # "sla_warning" => n.fact = 0
  /\ \A s \in Senders : \A n, m \in errand[s].now : n = m
  /\ \A r \in Runs : errand[r] # NoErrand => run[r].pc = "tell"

NoticeInv == RowsAreKeyed /\ ErrandsAreOrderly

\* A run acts on the decision its settings gave on what it has read.
Decided == {"resume", "draft", "write", "carry", "tell", "send", "settle", "wait"}
Contacting == {"send", "settle", "wait"}

PlanHolds(r) ==
  /\ run[r].pc \in Decided => run[r].plan = PlanOf(r, run[r].support)
  /\ run[r].pc \in Contacting => run[r].plan.execute /\ run[r].plan.action # "escalate"
  /\ run[r].pc = "wait" => run[r].plan.action = Ask

PlanInv == \A r \in Runs : PlanHolds(r)

\* A run that will still look at the ticket, or carries out the status it has.
Keeps(r, t) ==
  /\ run[r].ticket = t
  /\ \/ run[r].pc \in {"admit", "record", "ask", "answer", "decide", "resume", "park"}
     \/ /\ run[r].pc \in {"draft", "write", "carry", "send", "settle", "wait"}
        /\ run[r].plan.status = ticket[t].status

Promised(t) ==
  /\ ticket[t].by = "agent" /\ ticket[t].status \in {"resolved", "awaiting_user"}
  /\ ~ticket[t].merged /\ t \notin lost

Covered(t) ==
  \/ \E row \in mail : Fits(row, t)
  \/ \E r \in Runs : Keeps(r, t)
  \/ job[t].fresh + job[t].stalled > 0

\* Before it settles its reply, a run has it in the queue.
ReplyIsThere(r) ==
  run[r].pc \in {"settle", "wait"} =>
    \E row \in mail : /\ row.kind = DraftKind(run[r].plan) /\ row.tickets = {run[r].ticket}
                      /\ ~row.suppressed

\* A merge the run has seen stands.
MergeStands(r) == run[r].pc # "idle" /\ run[r].merged => ticket[run[r].ticket].merged

PromiseInv ==
  /\ \A t \in Tickets : Promised(t) => Covered(t)
  /\ \A r \in Runs : ReplyIsThere(r) /\ MergeStands(r)

\* Runs between a look at a count and the row that adds to it.
Recording == {r \in Runs : run[r].pc = "record"}
RecordingFor(p) == {r \in Recording : Requester(r) = p}
Calling == {r \in Runs : run[r].pc \in {"answer", "write"}}
Composing == {w \in Writers : writer[w].pc = "tell"}
Counting(t) == {r \in Runs : run[r].ticket = t /\ Uncounted(r)}

\* Runs that may still ask a question, by the count they have read.
Askers(t) ==
  {r \in Runs : /\ run[r].ticket = t /\ run[r].pc \notin {"idle", "park", "tell", "wait"}
                /\ run[r].rounds < SettingsOf(r).max_clarify_rounds}

Together == Cardinality(Runs) - 1
InForce == {versions[i] : i \in DOMAIN versions}

\* What is counted and what is about to be, under the limit of some version
\* that is or was in force.
RequestersKeepTo ==
  \A p \in People : \E s \in InForce :
    RequesterRuns(p) + Cardinality(RecordingFor(p)) <= s.max_agent_runs_per_requester_hour + Together

TenantKeepsTo ==
  \E s \in InForce :
    TenantRuns + Cardinality(Recording) <= s.max_agent_runs_per_tenant_hour + Together

CallsKeepTo ==
  spent + 2 * Cardinality(Calling) + Cardinality(Composing)
    <= CostCap + 1 + 2 * Together + Cardinality(Writers)

QuestionsAreCounted ==
  /\ IsFiniteSet(mail)
  /\ \A t \in Tickets :
       Cardinality(Questions(t)) <= clarify[t] + Cardinality(Counting(t)) + slips[t]

RoundsKeepTo ==
  \A t \in Tickets : \E s \in InForce :
    clarify[t] + Cardinality(Askers(t)) <= s.max_clarify_rounds + Together

LimitInv == RequestersKeepTo /\ TenantKeepsTo /\ CallsKeepTo /\ QuestionsAreCounted /\ RoundsKeepTo

\* Write-backs about to replace what they found near their fix.
Replacing(fix) == {w \in Writers : writer[w].pc = "ingest" /\ FixFor(w) = fix}
NearTo(ws) == UNION {writer[w].near : w \in ws}

FixInv ==
  /\ IsFiniteSet(kb)
  /\ \A w \in Writers : writer[w].pc = "ingest" =>
       \A doc \in writer[w].near : doc.fix = FixFor(w) /\ doc.live
  /\ \A doc \in kb : Live(doc.fix) # {}
  /\ \A fix \in {FixOf[t] : t \in Tickets} : \A ws \in SUBSET Replacing(fix) :
       Cardinality(Live(fix) \ NearTo(ws)) + Cardinality(ws) <= Cardinality(Writers)

(***************************************************************************)
(* What a step of a run leaves alone.                                      *)
(***************************************************************************)

\* What a run has read when it starts stays with it to its end.
SameReading(r) ==
  /\ run'[r].ticket = run[r].ticket /\ run'[r].rounds = run[r].rounds
  /\ run'[r].seen = run[r].seen /\ run'[r].stalled = run[r].stalled
  /\ run'[r].merged = run[r].merged

LEMMA OtherRunsStay ==
  ASSUME RunTypes, NEW r \in Runs, RunStep(r)
  PROVE  \A o \in Runs \ {r} : run'[o] = run[o]
BY DEF RunTypes, RunStep, Start, Admit, RecordAgentRun, Park, AskModel, Answer, Understood,
       DecideAndStamp, Resume, ProduceDraft, WriteDraft, Escalate, Told, ParkDraft, Act, SendReply,
       SettleReply, CountQuestion, RefusedByConversation, WaitForUser, runVars, Goes, Ends

LEMMA ReadingStays ==
  ASSUME RunTypes, NEW r \in Runs, RunStep(r), run[r].pc # "idle"
  PROVE  run'[r] = Idle \/ SameReading(r)
<1> USE DEF RunTypes, RunType
<1>a. ASSUME NEW x, run' = [run EXCEPT ![r] = x],
             x.ticket = run[r].ticket, x.rounds = run[r].rounds, x.seen = run[r].seen,
             x.stalled = run[r].stalled, x.merged = run[r].merged
      PROVE  SameReading(r)
  BY <1>a DEF SameReading
<1>b. ASSUME NEW pc, Goes(r, pc) PROVE SameReading(r)
  BY <1>b DEF Goes, SameReading
<1>c. Ends(r) => run'[r] = Idle
  BY DEF Ends
<1>d. UNCHANGED run => SameReading(r)
  BY DEF SameReading
<1>1. CASE Start(r) \/ RecordAgentRun(r) \/ Park(r) \/ AskModel(r)
  BY <1>1, <1>b, <1>c DEF Start, RecordAgentRun, Park, AskModel, At
<1>11. CASE Admit(r)
  <2>1. \/ Ends(r)
        \/ \E pc \in {"record", "park"} :
             run' = [run EXCEPT ![r] = [@ EXCEPT !.version = Len(versions), !.pc = pc]]
    BY <1>11 DEF Admit, Ends
  <2>2. ASSUME NEW pc, run' = [run EXCEPT ![r] = [@ EXCEPT !.version = Len(versions), !.pc = pc]]
        PROVE  SameReading(r)
    <3> DEFINE x == [run[r] EXCEPT !.version = Len(versions), !.pc = pc]
    <3>1. run' = [run EXCEPT ![r] = x]
      BY <2>2
    <3> QED
      BY <3>1, <1>a
  <2> QED
    BY <1>c, <2>1, <2>2
<1>2. CASE Answer(r)
  <2>1. (\E o : Understood(r, o)) \/ Goes(r, "park")
    BY <1>2 DEF Answer
  <2>2. ASSUME NEW o, Understood(r, o) PROVE SameReading(r)
    <3> DEFINE x == [run[r] EXCEPT !.output = o, !.pc = "decide"]
    <3>1. run' = [run EXCEPT ![r] = x]
      BY <2>2 DEF Understood
    <3> QED
      BY <3>1, <1>a
  <2> QED
    BY <1>b, <2>1, <2>2
<1>3. CASE DecideAndStamp(r)
  <2>1. PICK support \in KbTopScores : \E pc \in {"resume", "draft"} :
          run' = [run EXCEPT ![r].support = support, ![r].plan = PlanOf(r, support), ![r].pc = pc]
    BY <1>3 DEF DecideAndStamp
  <2>2. PICK pc \in {"resume", "draft"} :
          run' = [run EXCEPT ![r].support = support, ![r].plan = PlanOf(r, support), ![r].pc = pc]
    BY <2>1
  <2> DEFINE x == [run[r] EXCEPT !.support = support, !.plan = PlanOf(r, support), !.pc = pc]
  <2>3. run' = [run EXCEPT ![r] = x]
    BY <2>2
  <2> QED
    BY <2>3, <1>a
<1>4. CASE Resume(r) \/ ProduceDraft(r)
  BY <1>b, <1>4 DEF Resume, ProduceDraft
<1>5. CASE WriteDraft(r)
  <2>1. (\E words : run' = [run EXCEPT ![r].words = words, ![r].pc = "carry"]) \/ Goes(r, "park")
    BY <1>5 DEF WriteDraft
  <2>2. ASSUME NEW words, run' = [run EXCEPT ![r].words = words, ![r].pc = "carry"]
        PROVE  SameReading(r)
    <3> DEFINE x == [run[r] EXCEPT !.words = words, !.pc = "carry"]
    <3>1. run' = [run EXCEPT ![r] = x]
      BY <2>2
    <3> QED
      BY <3>1, <1>a
  <2> QED
    BY <1>b, <2>1, <2>2
<1>6. CASE Escalate(r) \/ Told(r) \/ ParkDraft(r)
  BY <1>b, <1>c, <1>6 DEF Escalate, Told, ParkDraft
<1>7. CASE Act(r)
  BY <1>b, <1>7 DEF Act
<1>8. CASE SendReply(r)
  <2>1. Goes(r, "park") \/ Goes(r, "settle")
    BY <1>8 DEF SendReply
  <2> QED
    BY <1>b, <2>1
<1>9. CASE SettleReply(r) \/ CountQuestion(r) \/ RefusedByConversation(r) \/ WaitForUser(r)
  BY <1>b, <1>c, <1>9 DEF SettleReply, CountQuestion, RefusedByConversation, WaitForUser
<1>10. CASE (CheckNotice(r) \/ QueueNotice(r)) /\ UNCHANGED runVars
  BY <1>d, <1>10 DEF runVars
<1> QED
  BY <1>1, <1>2, <1>3, <1>4, <1>5, <1>6, <1>7, <1>8, <1>9, <1>10, <1>11 DEF RunStep

(***************************************************************************)
(* The notices.                                                            *)
(***************************************************************************)

\* What a step may do to what the senders hold.
ErrandMoves ==
  \/ UNCHANGED errand
  \/ \E s \in Senders : CheckNotice(s) \/ QueueNotice(s)
  \/ faults' # faults /\ \E s \in Senders : errand' = [errand EXCEPT ![s] = NoErrand]
  \/ \E s \in Senders, e \in ErrandType :
       /\ errand' = [errand EXCEPT ![s] = e]
       /\ errand[s].todo \subseteq e.todo /\ errand[s].now = e.now
       /\ \A n \in e.todo : n \in errand[s].todo \/ (n.kind # "sla_warning" => n.fact = 0)

\* Mail that is no notice.
Letter(kind, ts, p, fact, key) ==
  /\ kind \in MailKind \ NotificationKind
  /\ key.kind = kind /\ key.tickets = ts
  /\ QueueOutbound(Notice(kind, ts, p, fact), key)

\* What a step may do to the queue.
MailMoves ==
  \/ UNCHANGED mail
  \/ \E s \in Senders : QueueNotice(s)
  \/ \E kind, ts, p, fact, key : Letter(kind, ts, p, fact, key)

LEMMA QueueOutboundAdds ==
  ASSUME NEW n, NEW key, QueueOutbound(n, key)
  PROVE  /\ mail \subseteq mail'
         /\ \A row \in mail' \ mail :
              /\ RowsWith(key) = {}
              /\ row = [key |-> key, to |-> n.to, suppressed |-> n.to \in suppressed, kind |-> n.kind,
                        tickets |-> n.tickets, hour |-> hour, fact |-> n.fact]
         /\ \E row \in mail' : row.key = key
<1> DEFINE new == [key |-> key, to |-> n.to, suppressed |-> n.to \in suppressed, kind |-> n.kind,
                   tickets |-> n.tickets, hour |-> hour, fact |-> n.fact]
<1>1. new.key = key
  OBVIOUS
<1>2. mail' = IF RowsWith(key) # {} THEN mail ELSE mail \cup {new}
  BY DEF QueueOutbound
<1> HIDE DEF new
<1>3. \A row \in RowsWith(key) : row \in mail /\ row.key = key
  BY DEF RowsWith
<1>4. mail \subseteq mail' /\ \A row \in mail' \ mail : RowsWith(key) = {} /\ row = new
  BY <1>2
<1>5. \E row \in mail' : row.key = key
  BY <1>1, <1>2, <1>3
<1> QED
  BY <1>4, <1>5 DEF new

\* The step of NoticesReach.
NoticeStep ==
  /\ faults' = faults =>
       \A s \in Senders : \A n \in Held(s) \ (Held(s))' :
         WasTold(n) \/ DeclinedOrOff(n) \/ SomeoneElseWarned(n) \/ AnotherBatchTold(n)
  /\ \A row \in mail' \ mail : row.kind \in NotificationKind =>
       ~\E other \in mail : other.to = row.to /\ IsAbout(other, row) /\ other.hour = row.hour

LEMMA LettersKeepRowsKeyed ==
  ASSUME RowsAreKeyed, NEW kind, NEW ts, NEW p, NEW fact, NEW key, Letter(kind, ts, p, fact, key)
  PROVE  RowsAreKeyed' /\ \A row \in mail' \ mail : row.kind \notin NotificationKind
<1>1. QueueOutbound(Notice(kind, ts, p, fact), key)
  BY DEF Letter
<1>2. \A row \in mail' \ mail : /\ row.key = key /\ row.kind = kind /\ row.tickets = ts
                                /\ row.kind \notin NotificationKind
  BY <1>1, QueueOutboundAdds DEF Notice, Letter
<1> QED
  BY <1>2 DEF RowsAreKeyed, Letter, IsNotice, KeyAt

LEMMA NoticesKeepRowsKeyed ==
  ASSUME TypeInv, NoticeInv, NEW s \in Senders, QueueNotice(s)
  PROVE  /\ RowsAreKeyed'
         /\ \A row \in mail' \ mail : row.hour = hour /\ RowsWith(KeyAt(row, hour)) = {}
<1>1. PICK n \in errand[s].now : QueueOutbound(n, KeyOf(n))
  BY DEF QueueNotice
<1>2. n \in NoticeType /\ (n.kind # "sla_warning" => n.fact = 0)
  BY DEF TypeInv, NotifyTypes, ErrandType, NoticeInv, ErrandsAreOrderly, Held
<1>3. \A row \in mail' \ mail :
        /\ row.key = KeyOf(n) /\ row.kind = n.kind /\ row.tickets = n.tickets /\ row.to = n.to
        /\ row.fact = n.fact /\ row.hour = hour
        /\ RowsWith(KeyOf(n)) = {}
  BY <1>1, QueueOutboundAdds
<1>4. \A row \in mail' \ mail : KeyAt(row, hour) = KeyOf(n)
  BY <1>3 DEF KeyAt, KeyOf, IsDigest, DigestKey
<1>5. \/ KeyOf(n).kind = n.kind /\ KeyOf(n).tickets = n.tickets
      \/ KeyOf(n).kind = "digest"
  BY DEF KeyOf, DigestKey
<1>6. ASSUME NEW row \in mail' \ mail
      PROVE  /\ \/ row.key.kind = row.kind /\ row.key.tickets = row.tickets
                \/ row.key.kind = "digest" /\ IsNotice(row)
             /\ row.key = KeyAt(row, row.hour)
             /\ row.kind # "sla_warning" => row.fact = 0
  BY <1>2, <1>3, <1>4, <1>5 DEF IsNotice, NoticeType
<1> QED
  BY <1>3, <1>4, <1>6 DEF NoticeInv, RowsAreKeyed, IsNotice, KeyAt, IsDigest, DigestKey

\* A row the queue already has under the key of a notice: what the two share.
LEMMA RowSharesKey ==
  ASSUME TypeInv, NoticeInv, NEW s \in Senders, NEW n \in errand[s].now, NEW row \in mail,
         row.key = KeyOf(n)
  PROVE  /\ n \in NoticeType /\ (n.kind # "sla_warning" => n.fact = 0)
         /\ IsNotice(row) /\ (row.kind # "sla_warning" => row.fact = 0)
         /\ row.tickets \in SUBSET Tickets
         /\ KeyAt(row, row.hour) = KeyOf(n)
<1>1. n \in NoticeType /\ (n.kind # "sla_warning" => n.fact = 0)
  BY DEF TypeInv, NotifyTypes, ErrandType, NoticeInv, ErrandsAreOrderly, Held
<1>2. KeyOf(n).kind \in {n.kind, "digest"}
  BY DEF KeyOf, DigestKey
<1>3. IsNotice(row)
  <2>1. row.key.kind \in {n.kind, "digest"} /\ n.kind \in NotificationKind
    BY <1>1, <1>2 DEF NoticeType
  <2>2. row.kind # "digest"
    BY DEF TypeInv, NotifyTypes, RowType, MailKind, NotificationKind
  <2> QED
    BY <2>1, <2>2 DEF NoticeInv, RowsAreKeyed, IsNotice
<1>4. row.tickets \in SUBSET Tickets
  BY DEF TypeInv, NotifyTypes, RowType
<1> QED
  BY <1>1, <1>3, <1>4 DEF NoticeInv, RowsAreKeyed

\* The three shapes a notice's key has.
LEMMA KeyShape ==
  ASSUME NEW n, NEW h, n.kind \in NotificationKind
  PROVE  /\ n.kind = "sla_warning" => KeyAt(n, h) =
              [kind |-> n.kind, tickets |-> n.tickets, prefixes |-> {}, to |-> Nobody,
               number |-> n.fact]
         /\ IsDigest(n) => KeyAt(n, h) = DigestKey(n)
         /\ n.kind # "sla_warning" /\ ~IsDigest(n) => KeyAt(n, h) =
              [kind |-> n.kind, tickets |-> n.tickets, prefixes |-> {}, to |-> n.to, number |-> h]
         /\ IsDigest(n) => n.kind = "assignment" /\ KeyAt(n, h).kind = "digest"
         /\ ~IsDigest(n) => KeyAt(n, h).kind = n.kind
         /\ n.kind # "digest"
BY DEF KeyAt, DigestKey, IsDigest, NotificationKind

LEMMA KeyIsOfNow == ASSUME NEW n PROVE KeyOf(n) = KeyAt(n, hour)
BY DEF KeyOf, KeyAt

LEMMA RowStandsForWarning ==
  ASSUME TypeInv, NoticeInv, NEW s \in Senders, NEW n \in errand[s].now, NEW row \in mail,
         row.key = KeyOf(n), n.kind = "sla_warning"
  PROVE  IsAbout(row, n)
<1>1. /\ row.kind \in NotificationKind /\ n.kind \in NotificationKind
      /\ KeyAt(row, row.hour) = KeyAt(n, hour)
  BY RowSharesKey, KeyIsOfNow DEF IsNotice, NoticeType
<1>2. ~IsDigest(n)
  BY DEF IsDigest
<1>3. ~IsDigest(row) /\ row.kind = n.kind
  BY <1>1, <1>2, KeyShape
<1>4. /\ KeyAt(n, hour).tickets = n.tickets /\ KeyAt(n, hour).number = n.fact
      /\ KeyAt(row, row.hour).tickets = row.tickets /\ KeyAt(row, row.hour).number = row.fact
  BY <1>1, <1>3, KeyShape
<1> QED
  BY <1>1, <1>3, <1>4 DEF IsAbout

LEMMA RowStandsForNotice ==
  ASSUME TypeInv, NoticeInv, NEW s \in Senders, NEW n \in errand[s].now, NEW row \in mail,
         row.key = KeyOf(n), n.kind # "sla_warning", ~IsDigest(n)
  PROVE  row.to = n.to /\ IsAbout(row, n) /\ StillCounts(row)
<1>1. /\ row.kind \in NotificationKind /\ n.kind \in NotificationKind
      /\ KeyAt(row, row.hour) = KeyAt(n, hour)
      /\ n.fact = 0 /\ (row.kind # "sla_warning" => row.fact = 0)
  BY RowSharesKey, KeyIsOfNow DEF IsNotice, NoticeType
<1>2. ~IsDigest(row) /\ row.kind = n.kind
  BY <1>1, KeyShape
<1>3. /\ KeyAt(n, hour).tickets = n.tickets /\ KeyAt(n, hour).to = n.to
      /\ KeyAt(n, hour).number = hour
      /\ KeyAt(row, row.hour).tickets = row.tickets /\ KeyAt(row, row.hour).to = row.to
      /\ KeyAt(row, row.hour).number = row.hour
  BY <1>1, <1>2, KeyShape
<1> QED
  BY <1>1, <1>2, <1>3 DEF IsAbout, StillCounts

\* Within what the key keeps, every prefix of a batch is in it.
LEMMA SmallBatchIsListed ==
  ASSUME NEW ts \in SUBSET Tickets, Cardinality(ts) <= PrefixesKept, NEW t \in ts
  PROVE  \E i : <<i, PrefixOf[t]>> \in LowestPrefixes(ts)
<1> DEFINE below == {u \in ts : PrefixOf[u] < PrefixOf[t]}
           upTo == {u \in ts : PrefixOf[u] <= PrefixOf[t]}
<1>1. IsFiniteSet(ts) /\ Cardinality(ts) \in Nat /\ PrefixesKept \in Nat \ {0}
  BY NotifyAssumption, FS_Subset, FS_CardinalityType
<1>2. \A u \in ts : PrefixOf[u] \in Nat
  BY NotifyAssumption
<1>3. below \subseteq ts /\ upTo \subseteq ts /\ t \notin below /\ below \cup {t} \subseteq upTo
  BY <1>2
<1> HIDE DEF below, upTo
<1>4. /\ IsFiniteSet(below) /\ IsFiniteSet(upTo)
      /\ Cardinality(below) \in Nat /\ Cardinality(upTo) \in Nat
      /\ Cardinality(upTo) <= Cardinality(ts)
  BY <1>1, <1>3, FS_Subset, FS_CardinalityType
<1>5. Cardinality(below \cup {t}) = Cardinality(below) + 1
  BY <1>3, <1>4, FS_AddElement
<1>6. Cardinality(below) + 1 <= Cardinality(upTo)
  <2>1. Cardinality(below \cup {t}) <= Cardinality(upTo)
    BY <1>3, <1>4, FS_Subset
  <2> QED
    BY <2>1, <1>5
<1>7. Cardinality(below) + 1 \in 1 .. PrefixesKept
  BY <1>1, <1>4, <1>6
<1>8. <<Cardinality(below) + 1, PrefixOf[t]>> \in LowestPrefixes(ts)
  <2> DEFINE n == Cardinality(below) + 1
             Ranked(i, p) == /\ Cardinality({u \in ts : PrefixOf[u] < p}) < i
                             /\ i <= Cardinality({u \in ts : PrefixOf[u] <= p})
  <2>1. n \in 1 .. PrefixesKept /\ PrefixOf[t] \in {PrefixOf[u] : u \in ts}
    BY <1>7
  <2>2. Ranked(n, PrefixOf[t])
    BY <1>4, <1>6 DEF below, upTo
  <2> HIDE DEF n
  <2>3. <<n, PrefixOf[t]>> \in (1 .. PrefixesKept) \X {PrefixOf[u] : u \in ts}
    BY <2>1
  <2>4. <<n, PrefixOf[t]>>[1] = n /\ <<n, PrefixOf[t]>>[2] = PrefixOf[t]
    OBVIOUS
  <2>5. LowestPrefixes(ts) = {ip \in (1 .. PrefixesKept) \X {PrefixOf[u] : u \in ts} :
                                Ranked(ip[1], ip[2])}
    BY DEF LowestPrefixes
  <2> HIDE DEF Ranked
  <2>6. <<n, PrefixOf[t]>> \in LowestPrefixes(ts)
    BY <2>2, <2>3, <2>4, <2>5
  <2> QED
    BY <2>6 DEF n
<1> QED
  BY <1>8

\* So batches of different tickets that are taken for one another are larger, or
\* have two tickets of one prefix.
LEMMA SmallBatchesDiffer ==
  ASSUME NEW a \in SUBSET Tickets, NEW b \in SUBSET Tickets,
         Cardinality(a) <= PrefixesKept,
         LowestPrefixes(a) = LowestPrefixes(b), ~OnePrefixTwice(a \cup b)
  PROVE  a \subseteq b
<1> SUFFICES ASSUME NEW t \in a PROVE t \in b
  OBVIOUS
<1>1. PICK i : <<i, PrefixOf[t]>> \in LowestPrefixes(b)
  BY SmallBatchIsListed
<1>2. PICK u \in b : PrefixOf[u] = PrefixOf[t]
  BY <1>1 DEF LowestPrefixes
<1> QED
  BY <1>2 DEF OnePrefixTwice

LEMMA RowStandsForDigest ==
  ASSUME TypeInv, NoticeInv, NEW s \in Senders, NEW n \in errand[s].now, NEW row \in mail,
         row.key = KeyOf(n), IsDigest(n)
  PROVE  \/ row.to = n.to /\ IsAbout(row, n) /\ StillCounts(row)
         \/ AnotherBatchTold(n)
<1>1. /\ row.kind \in NotificationKind /\ n.kind \in NotificationKind
      /\ KeyAt(row, row.hour) = KeyAt(n, hour)
      /\ n.kind # "sla_warning" => n.fact = 0
      /\ row.kind # "sla_warning" => row.fact = 0
      /\ row.tickets \in SUBSET Tickets /\ n.tickets \in SUBSET Tickets
  BY RowSharesKey, KeyIsOfNow DEF IsNotice, NoticeType
<1>2. IsDigest(row) /\ row.kind = n.kind /\ row.fact = n.fact
  <2>1. IsDigest(row)
    BY <1>1, KeyShape
  <2>2. row.kind = "assignment" /\ n.kind = "assignment"
    BY <2>1 DEF IsDigest
  <2> QED
    BY <1>1, <2>1, <2>2
<1>3. DigestKey(row) = DigestKey(n)
  BY <1>1, <1>2, KeyShape
<1>4. /\ row.to = n.to /\ Cardinality(row.tickets) = Cardinality(n.tickets)
      /\ LowestPrefixes(row.tickets) = LowestPrefixes(n.tickets)
  BY <1>3 DEF DigestKey
<1>5. CASE Cardinality(n.tickets) > PrefixesKept \/ OnePrefixTwice(row.tickets \cup n.tickets)
  BY <1>2, <1>4, <1>5 DEF AnotherBatchTold
<1>6. CASE ~(Cardinality(n.tickets) > PrefixesKept)
           /\ ~OnePrefixTwice(row.tickets \cup n.tickets)
  <2>1. Cardinality(n.tickets) <= PrefixesKept /\ Cardinality(row.tickets) <= PrefixesKept
    BY <1>1, <1>4, <1>6, NotifyAssumption, FS_Subset, FS_CardinalityType
  <2>2. OnePrefixTwice(row.tickets \cup n.tickets) <=> OnePrefixTwice(n.tickets \cup row.tickets)
    BY DEF OnePrefixTwice
  <2>3. row.tickets = n.tickets
    BY <1>1, <1>4, <1>6, <2>1, <2>2, SmallBatchesDiffer
  <2> QED
    BY <1>2, <1>4, <2>3 DEF IsAbout, StillCounts
<1> QED
  BY <1>5, <1>6

LEMMA MailMovesKeep ==
  ASSUME TypeInv, NoticeInv, MailMoves
  PROVE  /\ RowsAreKeyed'
         /\ mail \subseteq mail'
         /\ \A row \in mail' \ mail : row.kind \in NotificationKind =>
              ~\E other \in mail : other.to = row.to /\ IsAbout(other, row) /\ other.hour = row.hour
<1>1. CASE UNCHANGED mail
  BY <1>1 DEF NoticeInv, RowsAreKeyed, IsNotice, KeyAt
<1>2. ASSUME NEW s \in Senders, QueueNotice(s)
      PROVE  /\ RowsAreKeyed'
             /\ mail \subseteq mail'
             /\ \A row \in mail' \ mail : row.kind \in NotificationKind =>
                  ~\E other \in mail : other.to = row.to /\ IsAbout(other, row) /\ other.hour = row.hour
  <2>1. /\ RowsAreKeyed'
        /\ \A row \in mail' \ mail : row.hour = hour /\ RowsWith(KeyAt(row, hour)) = {}
    BY <1>2, NoticesKeepRowsKeyed
  <2>2. mail \subseteq mail'
    BY <1>2, QueueOutboundAdds DEF QueueNotice
  <2>3. ASSUME NEW row \in mail' \ mail, row.kind \in NotificationKind,
               NEW other \in mail, other.to = row.to, IsAbout(other, row), other.hour = row.hour
        PROVE  FALSE
    <3>1. row.hour = hour /\ RowsWith(KeyAt(row, hour)) = {}
      BY <2>1
    <3>2. KeyAt(other, other.hour) = KeyAt(row, hour)
      BY <2>3, <3>1 DEF KeyAt, IsAbout, IsDigest, DigestKey
    <3>3. other.key = KeyAt(other, other.hour)
      BY <2>3 DEF IsAbout, NoticeInv, RowsAreKeyed, IsNotice
    <3> QED
      BY <3>1, <3>2, <3>3 DEF RowsWith
  <2> QED
    BY <2>1, <2>2, <2>3
<1>3. ASSUME NEW kind, NEW ts, NEW p, NEW fact, NEW key, Letter(kind, ts, p, fact, key)
      PROVE  /\ RowsAreKeyed'
             /\ mail \subseteq mail'
             /\ \A row \in mail' \ mail : row.kind \notin NotificationKind
  BY <1>3, LettersKeepRowsKeyed, QueueOutboundAdds DEF Letter, NoticeInv
<1> QED
  BY <1>1, <1>2, <1>3 DEF MailMoves

LEMMA ErrandMovesKeep ==
  ASSUME TypeInv, NoticeInv, ErrandMoves
  PROVE  /\ \A s \in Senders : \A n \in (Held(s))' : n.kind # "sla_warning" => n.fact = 0
         /\ \A s \in Senders : \A n, m \in errand'[s].now : n = m
<1> USE DEF TypeInv, NotifyTypes, ErrandType, NoticeInv, ErrandsAreOrderly, Held
<1>1. CASE UNCHANGED errand
  BY <1>1
<1>2. ASSUME NEW s \in Senders, CheckNotice(s)
      PROVE  /\ \A q \in Senders : \A n \in (Held(q))' : n.kind # "sla_warning" => n.fact = 0
             /\ \A q \in Senders : \A n, m \in errand'[q].now : n = m
  <2>1. PICK n \in errand[s].todo :
          errand' = [errand EXCEPT ![s].todo = @ \ {n},
                       ![s].now = IF Sends(n.kind) /\ ~IsOptedOut(n.to, n.kind) THEN {n} ELSE {}]
    BY <1>2 DEF CheckNotice
  <2>2. /\ errand'[s].todo \subseteq errand[s].todo /\ errand'[s].now \subseteq {n}
        /\ \A q \in Senders \ {s} : errand'[q] = errand[q]
    BY <2>1
  <2> QED
    BY <2>2
<1>3. ASSUME NEW s \in Senders, QueueNotice(s)
      PROVE  /\ \A q \in Senders : \A n \in (Held(q))' : n.kind # "sla_warning" => n.fact = 0
             /\ \A q \in Senders : \A n, m \in errand'[q].now : n = m
  <2>1. /\ errand'[s].todo = errand[s].todo /\ errand'[s].now = {}
        /\ \A q \in Senders \ {s} : errand'[q] = errand[q]
    BY <1>3 DEF QueueNotice
  <2> QED
    BY <2>1
<1>4. ASSUME NEW s \in Senders, errand' = [errand EXCEPT ![s] = NoErrand]
      PROVE  /\ \A q \in Senders : \A n \in (Held(q))' : n.kind # "sla_warning" => n.fact = 0
             /\ \A q \in Senders : \A n, m \in errand'[q].now : n = m
  BY <1>4 DEF NoErrand
<1>5. ASSUME NEW s \in Senders, NEW e \in ErrandType, errand' = [errand EXCEPT ![s] = e],
             errand[s].todo \subseteq e.todo, errand[s].now = e.now,
             \A n \in e.todo : n \in errand[s].todo \/ (n.kind # "sla_warning" => n.fact = 0)
      PROVE  /\ \A q \in Senders : \A n \in (Held(q))' : n.kind # "sla_warning" => n.fact = 0
             /\ \A q \in Senders : \A n, m \in errand'[q].now : n = m
  <2>1. errand'[s] = e /\ \A q \in Senders \ {s} : errand'[q] = errand[q]
    BY <1>5
  <2> QED
    BY <1>5, <2>1
<1> QED
  BY <1>1, <1>2, <1>3, <1>4, <1>5 DEF ErrandMoves

\* Nobody is dropped from a list without a reason.
LEMMA NobodyIsDropped ==
  ASSUME TypeInv, NoticeInv, ErrandMoves, faults' = faults,
         NEW s \in Senders, NEW n \in Held(s) \ (Held(s))'
  PROVE  WasTold(n) \/ DeclinedOrOff(n) \/ SomeoneElseWarned(n) \/ AnotherBatchTold(n)
<1> USE DEF TypeInv, NotifyTypes, ErrandType, Held
<1>1. CASE UNCHANGED errand
  BY <1>1
<1>2. ASSUME NEW q \in Senders, CheckNotice(q)
      PROVE  DeclinedOrOff(n)
  <2>1. PICK m \in errand[q].todo :
          errand' = [errand EXCEPT ![q].todo = @ \ {m},
                       ![q].now = IF Sends(m.kind) /\ ~IsOptedOut(m.to, m.kind) THEN {m} ELSE {}]
    BY <1>2 DEF CheckNotice
  <2>2. errand[q].now = {}
    BY <1>2 DEF CheckNotice
  <2>3. s = q /\ n = m
    BY <2>1, <2>2
  <2>4. ~(Sends(m.kind) /\ ~IsOptedOut(m.to, m.kind))
    BY <2>1, <2>3
  <2> QED
    BY <2>3, <2>4 DEF DeclinedOrOff
<1>3. ASSUME NEW q \in Senders, QueueNotice(q)
      PROVE  WasTold(n) \/ SomeoneElseWarned(n) \/ AnotherBatchTold(n)
  <2>1. s = q /\ n \in errand[s].now
    BY <1>3 DEF QueueNotice
  <2>2. QueueOutbound(n, KeyOf(n))
    BY <1>3, <2>1 DEF QueueNotice, NoticeInv, ErrandsAreOrderly
  <2>3. PICK row \in mail' : row.key = KeyOf(n)
    BY <2>2, QueueOutboundAdds
  <2>4. hour' = hour
    BY <1>3 DEF QueueNotice
  <2>5. CASE row \in mail
    <3>1. CASE n.kind = "sla_warning"
      BY <2>1, <2>3, <2>5, <3>1, RowStandsForWarning DEF SomeoneElseWarned
    <3>2. CASE IsDigest(n)
      <4>1. \/ row.to = n.to /\ IsAbout(row, n) /\ StillCounts(row)
            \/ AnotherBatchTold(n)
        BY <2>1, <2>3, <2>5, <3>2, RowStandsForDigest
      <4> QED
        BY <4>1 DEF WasTold
    <3>3. CASE n.kind # "sla_warning" /\ ~IsDigest(n)
      <4>1. row.to = n.to /\ IsAbout(row, n) /\ StillCounts(row)
        BY <2>1, <2>3, <2>5, <3>3, RowStandsForNotice
      <4> QED
        BY <4>1 DEF WasTold
    <3> QED
      BY <3>1, <3>2, <3>3
  <2>6. CASE row \notin mail
    <3>1. row.to = n.to /\ row.kind = n.kind /\ row.tickets = n.tickets /\ row.fact = n.fact
          /\ row.hour = hour
      BY <2>2, <2>6, QueueOutboundAdds
    <3> QED
      BY <3>1 DEF WasTold, IsAbout, StillCounts
  <2> QED
    BY <2>5, <2>6
<1>4. ASSUME NEW q \in Senders, NEW e \in ErrandType, errand' = [errand EXCEPT ![q] = e],
             errand[q].todo \subseteq e.todo, errand[q].now = e.now
      PROVE  FALSE
  <2>1. errand'[q] = e /\ \A p \in Senders \ {q} : errand'[p] = errand[p]
    BY <1>4
  <2> QED
    BY <1>4, <2>1
<1> QED
  BY <1>1, <1>2, <1>3, <1>4 DEF ErrandMoves

LEMMA NotifyNextMoves ==
  ASSUME TypeInv, NoticeInv, NotifyNext
  PROVE  ErrandMoves /\ MailMoves /\ \A r \in Runs : errand'[r] = errand[r]
<1> DEFINE Goal == ErrandMoves /\ MailMoves /\ \A r \in Runs : errand'[r] = errand[r]
<1>g. ASSUME NEW q \in scene.requests, NEW e \in ErrandType, errand' = [errand EXCEPT ![q] = e],
             errand[q].todo \subseteq e.todo, errand[q].now = e.now,
             \A n \in e.todo : n \in errand[q].todo \/ (n.kind # "sla_warning" => n.fact = 0),
             UNCHANGED mail
      PROVE  Goal
  <2>1. q \in Senders /\ q \notin Runs
    BY NotifyAssumption DEF TypeInv, NotifyTypes, Senders
  <2> QED
    BY <1>g, <2>1 DEF ErrandMoves, MailMoves, TypeInv, NotifyTypes, Senders
<1>h. ASSUME NEW q \in scene.requests
      PROVE  /\ q \in Senders /\ q \notin Runs /\ errand[q] \in ErrandType
             /\ errand[q] = NoErrand => errand[q].todo = {} /\ errand[q].now = {}
  BY NotifyAssumption DEF TypeInv, NotifyTypes, Senders, NoErrand
<1>1. ASSUME NEW q \in scene.requests, NEW ts \in scene.assigns, NEW p \in Staff \cup {Nobody},
             AssignTickets(q, ts, p)
      PROVE  Goal
  <2> DEFINE e == [errand[q] EXCEPT !.todo = AssignmentNotices(ts, p)]
  <2>1. AssignmentNotices(ts, p) \in SUBSET NoticeType
    BY NotifyAssumption, NoticesAreTyped DEF TypeInv, NotifyTypes, Staff
  <2>2. e \in ErrandType /\ e.todo = AssignmentNotices(ts, p) /\ e.now = errand[q].now
    BY <1>h, <2>1 DEF ErrandType
  <2>3. errand' = [errand EXCEPT ![q].todo = AssignmentNotices(ts, p)]
    BY <1>1 DEF AssignTickets
  <2>4. errand' = [errand EXCEPT ![q] = e]
    BY <2>3
  <2>5. \A n \in AssignmentNotices(ts, p) : n.fact = 0
    BY DEF AssignmentNotices, Notice
  <2>6. errand[q].todo = {} /\ UNCHANGED mail
    BY <1>1, <1>h DEF AssignTickets
  <2> HIDE DEF e
  <2> QED
    BY <1>g, <2>2, <2>4, <2>5, <2>6
<1>2. ASSUME NEW q \in scene.requests, NEW ts \in scene.resolves, AskResolve(q, ts) PROVE Goal
  <2> DEFINE e == [errand[q] EXCEPT !.moving = ts]
  <2>1. ts \in SUBSET Tickets
    BY NotifyAssumption DEF TypeInv, NotifyTypes
  <2>2. e \in ErrandType /\ e.todo = errand[q].todo /\ e.now = errand[q].now
    BY <1>h, <2>1 DEF ErrandType
  <2>3. errand' = [errand EXCEPT ![q] = e] /\ UNCHANGED mail
    BY <1>2 DEF AskResolve
  <2> HIDE DEF e
  <2> QED
    BY <1>g, <2>2, <2>3
<1>3. ASSUME NEW q \in scene.requests, NEW t \in Tickets, MoveTicket(q, t) PROVE Goal
  <2> DEFINE e == [errand[q] EXCEPT !.moving = @ \ {t}, !.moved = @ \cup {t}]
  <2>1. e \in ErrandType /\ e.todo = errand[q].todo /\ e.now = errand[q].now
    BY <1>h DEF ErrandType
  <2>2. errand' = [errand EXCEPT ![q].moving = @ \ {t}, ![q].moved = @ \cup {t}]
    BY <1>3 DEF MoveTicket
  <2>3. errand' = [errand EXCEPT ![q] = e] /\ UNCHANGED mail
    BY <1>3, <1>h, <2>2 DEF MoveTicket, ErrandType, TypeInv, NotifyTypes
  <2> HIDE DEF e
  <2> QED
    BY <1>g, <2>1, <2>3
<1>4. ASSUME NEW q \in scene.requests, NEW t \in Tickets, ResolutionNotice(q, t) PROVE Goal
  <2> DEFINE told == {Notice("resolution", {t}, RequesterOf[t], 0)}
             e == [errand[q] EXCEPT !.moved = @ \ {t}, !.todo = told]
             f == [errand[q] EXCEPT !.moved = @ \ {t}]
  <2>1. told \in SUBSET NoticeType /\ \A n \in told : n.fact = 0
    BY NotifyAssumption DEF Notice, NoticeType, NotificationKind
  <2>2. e \in ErrandType /\ e.todo = told /\ e.now = errand[q].now
    BY <1>h, <2>1 DEF ErrandType
  <2>3. f \in ErrandType /\ f.todo = errand[q].todo /\ f.now = errand[q].now
    BY <1>h DEF ErrandType
  <2>4. \/ errand' = [errand EXCEPT ![q].moved = @ \ {t}, ![q].todo = told]
        \/ errand' = [errand EXCEPT ![q].moved = @ \ {t}]
    BY <1>4 DEF ResolutionNotice
  <2>5. errand' = [errand EXCEPT ![q] = e] \/ errand' = [errand EXCEPT ![q] = f]
    BY <1>h, <2>4 DEF ErrandType, TypeInv, NotifyTypes
  <2>6. errand[q].todo = {} /\ UNCHANGED mail
    BY <1>4 DEF ResolutionNotice
  <2> HIDE DEF told, e, f
  <2> QED
    BY <1>g, <2>1, <2>2, <2>3, <2>5, <2>6
<1>5. ASSUME NEW q \in scene.requests, Sweep(q) PROVE Goal
  <2> DEFINE notices == UNION {WarningsOf(t) : t \in TicketsNearingSla}
             e == [errand[q] EXCEPT !.todo = notices]
  <2>1. notices \in SUBSET NoticeType /\ \A n \in notices : n.kind = "sla_warning"
    <3> SUFFICES ASSUME NEW t \in TicketsNearingSla
                 PROVE  WarningsOf(t) \subseteq NoticeType /\ \A n \in WarningsOf(t) : n.kind = "sla_warning"
      OBVIOUS
    <3>1. t \in Tickets /\ WarningTargets(t) \subseteq People /\ near[t] \subseteq Nat
      BY NoticesAreTyped DEF TicketsNearingSla, Clocks, TypeInv, NotifyTypes
    <3> QED
      BY <3>1 DEF WarningsOf, Notice, NoticeType, NotificationKind
  <2>2. errand' = [errand EXCEPT ![q].todo = notices] /\ UNCHANGED mail /\ errand[q].todo = {}
    BY <1>5, <1>h DEF Sweep
  <2> HIDE DEF notices
  <2>3. e \in ErrandType /\ e.todo = notices /\ e.now = errand[q].now
    BY <1>h, <2>1 DEF ErrandType
  <2>4. errand' = [errand EXCEPT ![q] = e] /\ UNCHANGED mail
    BY <2>2
  <2>5. errand[q].todo \subseteq e.todo /\ \A n \in e.todo : n.kind = "sla_warning"
    BY <2>1, <2>2, <2>3
  <2> HIDE DEF e, Goal
  <2> QED
    BY <1>g, <2>3, <2>4, <2>5
<1>6. ASSUME NEW q \in scene.requests, CheckNotice(q) PROVE Goal
  <2>1. \A r \in Runs : errand'[r] = errand[r]
    BY <1>6, <1>h DEF CheckNotice, TypeInv, NotifyTypes, Senders
  <2>2. UNCHANGED mail
    BY <1>6 DEF CheckNotice
  <2> QED
    BY <1>6, <1>h, <2>1, <2>2 DEF ErrandMoves, MailMoves
<1>7. ASSUME NEW q \in scene.requests, QueueNotice(q) PROVE Goal
  <2>1. \A r \in Runs : errand'[r] = errand[r]
    BY <1>7, <1>h DEF QueueNotice, TypeInv, NotifyTypes, Senders
  <2> QED
    BY <1>7, <1>h, <2>1 DEF ErrandMoves, MailMoves
<1>8. ASSUME NEW q \in scene.requests, CrashRequest(q) PROVE Goal
  <2>1. faults' # faults
    BY <1>8 DEF CrashRequest, TypeInv, NotifyTypes
  <2> QED
    BY <1>8, <1>h, <2>1 DEF CrashRequest, ErrandMoves, MailMoves, TypeInv, NotifyTypes, Senders
<1>9. ASSUME NEW p, NEW kind, OptOut(p, kind) \/ OptIn(p, kind) \/ Bounces(p) \/ ClockMoves(p, kind)
      PROVE  Goal
  BY <1>9 DEF OptOut, OptIn, Bounces, ClockMoves, ErrandMoves, MailMoves
<1> QED
  BY <1>1, <1>2, <1>3, <1>4, <1>5, <1>6, <1>7, <1>8, <1>9 DEF NotifyNext

LEMMA RunStepMoves ==
  ASSUME TypeInv, NoticeInv, NEW r \in Runs, RunStep(r)
  PROVE  /\ ErrandMoves /\ MailMoves
         /\ \A o \in Runs : errand'[o] # NoErrand => run'[o].pc = "tell"
<1> DEFINE Tellers == \A o \in Runs : errand'[o] # NoErrand => run'[o].pc = "tell"
<1>r. r \in Senders /\ \A o \in Runs \ {r} : run'[o] = run[o]
  BY OtherRunsStay DEF Senders, TypeInv
<1>e. run[r].pc # "tell" => errand[r] = NoErrand
  BY DEF NoticeInv, ErrandsAreOrderly
<1>1. ASSUME UNCHANGED errand, run[r].pc # "tell" \/ errand[r] = NoErrand
      PROVE  ErrandMoves /\ Tellers
  BY <1>1, <1>e, <1>r DEF NoticeInv, ErrandsAreOrderly, ErrandMoves
<1>2. CASE Escalate(r)
  <2> DEFINE queue == RouteQueue(run[r].output.category, run[r].output.priority, SettingsOf(r))
             notices == EscalationNotices(TicketOf(r), queue)
             e == [errand[r] EXCEPT !.todo = notices]
  <2>1. errand' = [errand EXCEPT ![r].todo = notices] /\ UNCHANGED mail /\ Goes(r, "tell")
    BY <1>2 DEF Escalate
  <2>2. run[r].pc = "carry"
    BY <1>2 DEF Escalate, At
  <2>3. TicketOf(r) \in Tickets /\ SettingsOf(r) \in AllSettings
    BY <2>2, VersionsAreTyped DEF TypeInv, RunsAreOn, TicketOf, SettingsOf
  <2>4. notices \in SUBSET NoticeType
    <3>1. queue \in QueuesOf(SettingsOf(r).routing)
      BY DEF RouteQueue, QueuesOf
    <3>2. queue \in DOMAIN Watching
      BY <2>3, <3>1, SettingsAreTyped
    <3> QED
      BY <2>3, <3>2, NoticesAreTyped DEF TypeInv
  <2>5. \A n \in notices : n.fact = 0
    BY DEF EscalationNotices, Notice
  <2>6. errand[r].todo = {} /\ errand[r].now = {}
    BY <1>e, <2>2 DEF NoErrand
  <2> HIDE DEF notices
  <2>7. e \in ErrandType /\ e.todo = notices /\ e.now = errand[r].now
    BY <1>r, <2>4 DEF ErrandType, TypeInv, NotifyTypes
  <2>8. errand' = [errand EXCEPT ![r] = e]
    BY <2>1
  <2> HIDE DEF e
  <2>9. ErrandMoves
    BY <1>r, <2>5, <2>6, <2>7, <2>8 DEF ErrandMoves
  <2>10. Tellers
    <3>1. run'[r].pc = "tell"
      BY <2>1 DEF Goes, TypeInv, RunTypes, RunType
    <3>2. \A o \in Runs \ {r} : errand'[o] = errand[o]
      BY <2>8 DEF TypeInv, NotifyTypes, Senders
    <3> QED
      BY <1>r, <3>1, <3>2 DEF NoticeInv, ErrandsAreOrderly
  <2> QED
    BY <2>1, <2>9, <2>10 DEF MailMoves
<1>3. CASE (CheckNotice(r) \/ QueueNotice(r)) /\ UNCHANGED runVars
  <2>1. errand[r] # NoErrand
    <3>1. NoErrand.todo = {} /\ NoErrand.now = {}
      BY DEF NoErrand
    <3>2. errand[r].todo # {} \/ errand[r].now # {}
      BY <1>3 DEF CheckNotice, QueueNotice
    <3> QED
      BY <3>1, <3>2
  <2>2. \A o \in Runs \ {r} : errand'[o] = errand[o]
    BY <1>3 DEF CheckNotice, QueueNotice, TypeInv, NotifyTypes, Senders
  <2>3. Tellers
    BY <1>3, <2>1, <2>2 DEF NoticeInv, ErrandsAreOrderly, runVars
  <2>4. CASE CheckNotice(r)
    BY <1>r, <2>3, <2>4 DEF ErrandMoves, MailMoves, CheckNotice
  <2>5. CASE QueueNotice(r)
    BY <1>r, <2>3, <2>5 DEF ErrandMoves, MailMoves
  <2> QED
    BY <1>3, <2>4, <2>5
<1>4. CASE SendReply(r)
  <2> DEFINE kind == DraftKind(run[r].plan)
             key == [kind |-> kind, tickets |-> {TicketOf(r)}, prefixes |-> {},
                     to |-> Nobody, number |-> run[r].words]
  <2>1. /\ UNCHANGED errand
        /\ run[r].pc = "send"
        /\ UNCHANGED mail \/ QueueOutbound(Notice(kind, {TicketOf(r)}, Requester(r), run[r].words), key)
    BY <1>4 DEF SendReply, At
  <2>2. kind \in MailKind \ NotificationKind
    BY DEF DraftKind, MailKind, NotificationKind
  <2>3. key.kind = kind /\ key.tickets = {TicketOf(r)}
    OBVIOUS
  <2> HIDE DEF kind, key
  <2>4. MailMoves
    BY <2>1, <2>2, <2>3 DEF MailMoves, Letter
  <2> QED
    BY <1>1, <2>1, <2>4
<1>5. CASE Told(r)
  BY <1>1, <1>5 DEF Told, MailMoves, notifyVars
<1>6. CASE \/ Start(r) \/ Admit(r) \/ RecordAgentRun(r) \/ Park(r) \/ AskModel(r) \/ Answer(r)
  BY <1>1, <1>6 DEF Start, Admit, RecordAgentRun, Park, AskModel, Answer, At, MailMoves, notifyVars
<1>7. CASE \/ DecideAndStamp(r) \/ Resume(r) \/ ProduceDraft(r) \/ WriteDraft(r)
  BY <1>1, <1>7 DEF DecideAndStamp, Resume, ProduceDraft, WriteDraft, At, MailMoves, notifyVars
<1>8. CASE \/ ParkDraft(r) \/ Act(r) \/ SettleReply(r) \/ CountQuestion(r)
           \/ RefusedByConversation(r) \/ WaitForUser(r)
  BY <1>1, <1>8 DEF ParkDraft, Act, SettleReply, CountQuestion, RefusedByConversation, WaitForUser,
                    At, MailMoves, notifyVars
<1> QED
  BY <1>2, <1>3, <1>4, <1>5, <1>6, <1>7, <1>8 DEF RunStep

\* Every step moves the notices in one of these ways.
LEMMA StepMoves ==
  ASSUME TypeInv, NoticeInv, [DeskNext]_allVars
  PROVE  /\ ErrandMoves /\ MailMoves
         /\ \A o \in Runs : errand'[o] # NoErrand => run'[o].pc = "tell"
<1> DEFINE Tellers == \A o \in Runs : errand'[o] # NoErrand => run'[o].pc = "tell"
           Goal == ErrandMoves /\ MailMoves /\ Tellers
<1> SUFFICES Goal
  OBVIOUS
<1>a. (\A r \in Runs : errand'[r] = errand[r]) /\ UNCHANGED run => Tellers
  BY DEF NoticeInv, ErrandsAreOrderly
<1>1. ASSUME NEW r \in scene.runs, RunStep(r) PROVE Goal
  BY <1>1, RunStepMoves, ScenesAreTyped DEF TypeInv
<1>2. ASSUME NEW r \in scene.runs, CrashRun(r) PROVE Goal
  <2>1. r \in Runs /\ r \in Senders /\ faults' # faults
    BY <1>2, ScenesAreTyped DEF CrashRun, Senders, TypeInv, NotifyTypes
  <2>2. /\ errand' = [errand EXCEPT ![r] = NoErrand] /\ run' = [run EXCEPT ![r] = Idle]
        /\ UNCHANGED mail
    BY <1>2 DEF CrashRun, Ends
  <2>3. errand'[r] = NoErrand /\ \A o \in Runs \ {r} : errand'[o] = errand[o] /\ run'[o] = run[o]
    BY <2>1, <2>2 DEF TypeInv, NotifyTypes, RunTypes, Senders
  <2> QED
    BY <2>1, <2>2, <2>3 DEF ErrandMoves, MailMoves, NoticeInv, ErrandsAreOrderly
<1>3. ASSUME NEW t \in Tickets, Retriage(t) \/ Answered(t) \/ MergeTicket(t) PROVE Goal
  BY <1>3, <1>a DEF Retriage, Answered, MergeTicket, notifyVars, runVars, ErrandMoves, MailMoves
<1>4. CASE CommitSettings \/ PassHour
  BY <1>4, <1>a DEF CommitSettings, PassHour, runVars, ErrandMoves, MailMoves
<1>5. CASE NotifyNext /\ UNCHANGED runVars
  BY <1>5, <1>a, NotifyNextMoves DEF runVars
<1>6. CASE Desks
  <2>1. UNCHANGED run
    BY <1>6, DeskStepTypes DEF runVars
  <2>2. ASSUME NEW q \in scene.requests, NEW t \in scene.replies, NEW close \in BOOLEAN,
               SendAsPerson(q, t, close)
        PROVE  Goal
    <3> DEFINE key == [kind |-> "person", tickets |-> {t}, prefixes |-> {},
                       to |-> Nobody, number |-> 0]
    <3>1. QueueOutbound(Notice("person", {t}, RequesterOf[t], 0), key) /\ UNCHANGED errand
      BY <2>2 DEF SendAsPerson
    <3>2. Letter("person", {t}, RequesterOf[t], 0, key)
      BY <3>1 DEF Letter, MailKind, NotificationKind
    <3>3. MailMoves
      BY <3>2 DEF MailMoves
    <3> QED
      BY <2>1, <3>1, <3>3, <1>a DEF ErrandMoves
  <2>3. ASSUME NEW q \in scene.requests, SettlePersonReply(q) PROVE Goal
    BY <2>1, <2>3, <1>a DEF SettlePersonReply, ErrandMoves, MailMoves
  <2>4. ASSUME NEW q \in scene.requests, NEW t \in scene.closes, ChangeStatus(q, t) PROVE Goal
    <3>1. q \in Senders /\ q \notin Runs /\ t \in Tickets /\ errand[q] \in ErrandType
      BY ScenesAreTyped, NotifyAssumption DEF TypeInv, NotifyTypes, Senders
    <3> DEFINE e == [errand[q] EXCEPT !.moved = {t}]
    <3>2. e \in ErrandType /\ e.todo = errand[q].todo /\ e.now = errand[q].now
      BY <3>1 DEF ErrandType
    <3>3. errand' = [errand EXCEPT ![q] = e] /\ UNCHANGED mail
      BY <2>4 DEF ChangeStatus
    <3> HIDE DEF e
    <3>4. \A r \in Runs : errand'[r] = errand[r]
      BY <3>1, <3>3 DEF TypeInv, NotifyTypes, Senders
    <3> QED
      BY <2>1, <3>1, <3>2, <3>3, <3>4, <1>a DEF ErrandMoves, MailMoves
  <2>5. ASSUME NEW t \in scene.followups, FollowUp(t) PROVE Goal
    BY <2>1, <2>5, <1>a DEF FollowUp, ErrandMoves, MailMoves
  <2> QED
    BY <1>6, <2>2, <2>3, <2>4, <2>5 DEF Desks
<1>7. ASSUME NEW w \in Writers, Writes(w) PROVE Goal
  BY <1>7, <1>a, WriteTypes DEF ErrandMoves, MailMoves
<1>8. CASE UNCHANGED allVars
  BY <1>8, <1>a DEF allVars, vars, notifyVars, runVars, ErrandMoves, MailMoves
<1> HIDE DEF Goal
<1>9. CASE Next
  BY <1>1, <1>2, <1>3, <1>4, <1>5, <1>9 DEF Next
<1> QED
  BY <1>6, <1>7, <1>8, <1>9, DeskNextSplits

LEMMA NoticeStart == DeskInit => NoticeInv
<1> SUFFICES ASSUME DeskInit PROVE NoticeInv
  OBVIOUS
<1>1. mail = {} /\ \A s \in Senders : errand[s] = NoErrand
  BY DEF DeskInit, Init, NotifyStart
<1>2. \A s \in Senders : Held(s) = {} /\ errand[s].now = {}
  BY <1>1 DEF Held, NoErrand
<1>3. Runs \subseteq Senders
  BY DEF Senders
<1> QED
  BY <1>1, <1>2, <1>3 DEF NoticeInv, RowsAreKeyed, ErrandsAreOrderly

LEMMA NoticesMove ==
  ASSUME TypeInv, NoticeInv, [DeskNext]_allVars
  PROVE  NoticeInv' /\ [NoticeStep]_notifyVars
<1>1. /\ ErrandMoves /\ MailMoves
      /\ \A o \in Runs : errand'[o] # NoErrand => run'[o].pc = "tell"
  BY StepMoves
<1>2. NoticeInv'
  BY <1>1, MailMovesKeep, ErrandMovesKeep DEF NoticeInv, ErrandsAreOrderly
<1>3. NoticeStep
  BY <1>1, MailMovesKeep, NobodyIsDropped DEF NoticeStep
<1> QED
  BY <1>2, <1>3

LEMMA NoticesHold == DeskSpec => [](TypeInv /\ NoticeInv)
<1>1. DeskInit => TypeInv /\ NoticeInv
  BY InitTypes, NoticeStart
<1>2. TypeInv /\ NoticeInv /\ [DeskNext]_allVars => (TypeInv /\ NoticeInv)'
  BY StepTypes, NoticesMove
<1> QED
  BY <1>1, <1>2, PTL DEF DeskSpec

\* However many runs, requests and sweeps overlap, and whatever the tickets' ids:
\* unless its process stops, a sender drops nobody from its list who is not told,
\* has not declined and is not covered by the one key of a warning or by another
\* batch its digest cannot be told from, which no batch within what the key keeps
\* is when the prefixes differ; and nobody is told the same thing twice within
\* the hour (notify.ts notifyAll and defaultKey, notify/events.ts).
THEOREM EveryNoticeReaches == DeskSpec => NoticesReach
<1>1. TypeInv /\ NoticeInv /\ [DeskNext]_allVars => [NoticeStep]_notifyVars
  BY NoticesMove
<1> QED
  BY <1>1, NoticesHold, PTL DEF DeskSpec, NoticesReach, NoticeStep

(***************************************************************************)
(* The decision a run carries out.                                         *)
(***************************************************************************)

\* Versions are only ever added, and the scene stays.
LEMMA VersionsGrow ==
  ASSUME TypeInv, [DeskNext]_allVars
  PROVE  /\ UNCHANGED scene
         /\ Len(versions) \in Nat /\ Len(versions') \in Nat /\ Len(versions) <= Len(versions')
         /\ \A i \in 1 .. Len(versions) : versions'[i] = versions[i]
<1> DEFINE Goal == /\ UNCHANGED scene
                   /\ Len(versions) \in Nat /\ Len(versions') \in Nat /\ Len(versions) <= Len(versions')
                   /\ \A i \in 1 .. Len(versions) : versions'[i] = versions[i]
<1> SUFFICES Goal
  OBVIOUS
<1>a. UNCHANGED <<scene, versions>> => Goal
  BY VersionsAreTyped DEF TypeInv
<1> HIDE DEF Goal
<1>1. CASE Next /\ UNCHANGED deskVars
  <2>1. ASSUME NEW r \in scene.runs, RunStep(r) PROVE Goal
    BY <1>1, <2>1, <1>a, RunStepTypes, ScenesAreTyped DEF TypeInv
  <2>2. ASSUME NEW r \in scene.runs, CrashRun(r) PROVE Goal
    BY <2>2, <1>a DEF CrashRun
  <2>3. ASSUME NEW t \in Tickets, Retriage(t) \/ Answered(t) \/ MergeTicket(t) PROVE Goal
    BY <2>3, <1>a DEF Retriage, Answered, MergeTicket, notifyVars
  <2>4. CASE CommitSettings
    BY <2>4, CommitSettingsDoes DEF CommitSettings, Goal, TypeInv
  <2>5. CASE PassHour
    BY <2>5, <1>a DEF PassHour
  <2>6. CASE NotifyNext
    BY <2>6, <1>a, NotifyNextTypes DEF TypeInv
  <2> QED
    BY <1>1, <2>1, <2>2, <2>3, <2>4, <2>5, <2>6 DEF Next
<1>2. CASE Desks
  BY <1>2, <1>a, DeskStepTypes
<1>3. ASSUME NEW w \in Writers, Writes(w) PROVE Goal
  BY <1>3, <1>a, WriteTypes
<1>4. CASE UNCHANGED allVars
  BY <1>4, <1>a DEF allVars, vars, notifyVars
<1> QED
  BY <1>1, <1>2, <1>3, <1>4, DeskNextSplits

\* The decision depends on what the run has read and heard, and on nothing that
\* changes under it.
LEMMA PlanStays ==
  ASSUME TypeInv, NEW r \in Runs, run[r].pc # "idle", SameReading(r),
         run'[r].output = run[r].output, UNCHANGED scene,
         \A i \in 1 .. Len(versions) : versions'[i] = versions[i],
         NEW support
  PROVE  PlanOf(r, support)' = PlanOf(r, support) /\ SettingsOf(r)' = SettingsOf(r)
<1>1. SettingsOf(r)' = SettingsOf(r) /\ TicketOf(r)' = TicketOf(r)
  BY DEF SettingsOf, TicketOf, SameReading, TypeInv, RunsAreOn
<1>2. Input(scene.deployment, SettingsOf(r), run[r].output, support, run[r].rounds,
            Directory[Requester(r)], TicketOf(r) \in scene.injected)'
      = Input(scene.deployment, SettingsOf(r), run[r].output, support, run[r].rounds,
              Directory[Requester(r)], TicketOf(r) \in scene.injected)
  BY <1>1 DEF Input, SameReading, Requester
<1> QED
  BY <1>1, <1>2 DEF PlanOf

LEMMA GoesKeeps ==
  ASSUME RunTypes, NEW r \in Runs, NEW pc, Goes(r, pc)
  PROVE  /\ run'[r].pc = pc /\ run'[r].plan = run[r].plan /\ run'[r].support = run[r].support
         /\ run'[r].output = run[r].output /\ run'[r].words = run[r].words
         /\ SameReading(r)
         /\ \A o \in Runs \ {r} : run'[o] = run[o]
  BY DEF RunTypes, RunType, Goes, SameReading

LEMMA PlanHoldsOn ==
  ASSUME TypeInv, NEW r \in Runs, PlanHolds(r), run[r].pc \in Decided, SameReading(r),
         run'[r].output = run[r].output, run'[r].plan = run[r].plan, run'[r].support = run[r].support,
         UNCHANGED scene, \A i \in 1 .. Len(versions) : versions'[i] = versions[i],
         run'[r].pc \in Contacting => run[r].plan.execute /\ run[r].plan.action # "escalate",
         run'[r].pc = "wait" => run[r].plan.action = Ask
  PROVE  PlanHolds(r)'
<1>1. PlanOf(r, run[r].support)' = PlanOf(r, run[r].support)
  <2>1. \A support : PlanOf(r, support)' = PlanOf(r, support)
    BY PlanStays DEF Decided
  <2> QED
    BY <2>1 DEF PlanOf, Input, SettingsOf, Requester, TicketOf
<1> QED
  BY <1>1 DEF PlanHolds

LEMMA PlanNotYet ==
  ASSUME NEW r \in Runs, run'[r].pc \notin Decided
  PROVE  PlanHolds(r)'
  BY DEF PlanHolds, Decided, Contacting

LEMMA PlanStep ==
  ASSUME TypeInv, PlanInv, NEW r \in Runs, RunStep(r), UNCHANGED <<scene, versions>>
  PROVE  PlanHolds(r)'
<1> USE DEF At
<1>v. UNCHANGED scene /\ \A i \in 1 .. Len(versions) : versions'[i] = versions[i]
  OBVIOUS
<1>p. PlanHolds(r) /\ RunTypes /\ run[r] \in RunType
  BY DEF PlanInv, TypeInv, RunTypes
<1>i. Ends(r) => PlanHolds(r)'
  BY <1>p, PlanNotYet DEF Ends, RunTypes, Idle, Decided
<1>g. ASSUME NEW pc, Goes(r, pc), pc \notin Decided PROVE PlanHolds(r)'
  BY <1>p, <1>g, GoesKeeps, PlanNotYet
<1>d. ASSUME NEW pc, Goes(r, pc), run[r].pc \in Decided,
             pc \in Contacting => run[r].plan.execute /\ run[r].plan.action # "escalate",
             pc = "wait" => run[r].plan.action = Ask
      PROVE  PlanHolds(r)'
  BY <1>p, <1>d, <1>v, GoesKeeps, PlanHoldsOn
<1>1. CASE Start(r)
  <2>1. run'[r].pc = "admit"
    BY <1>1, <1>p DEF Start, RunTypes, Idle
  <2> QED
    BY <2>1, PlanNotYet DEF Decided
<1>2. CASE Admit(r)
  <2>1. \/ Ends(r)
        \/ \E pc \in {"record", "park"} :
             run' = [run EXCEPT ![r] = [@ EXCEPT !.version = Len(versions), !.pc = pc]]
    BY <1>2 DEF Admit, Ends
  <2>2. Ends(r) \/ run'[r].pc \in {"record", "park"}
    BY <1>p, <2>1 DEF RunTypes, RunType
  <2> QED
    BY <1>i, <2>2, PlanNotYet DEF Decided
<1>3. CASE RecordAgentRun(r) \/ Park(r) \/ AskModel(r)
  <2>1. Ends(r) \/ \E pc \in {"ask", "answer", "park"} : Goes(r, pc)
    BY <1>3 DEF RecordAgentRun, Park, AskModel
  <2> QED
    BY <1>g, <1>i, <2>1 DEF Decided
<1>4. CASE Answer(r)
  <2>1. run'[r].pc \in {"decide", "park"}
    <3>1. (\E o \in scene.outputs : Understood(r, o)) \/ Goes(r, "park")
      BY <1>4 DEF Answer
    <3>2. ASSUME NEW o \in scene.outputs, Understood(r, o) PROVE run'[r].pc = "decide"
      <4> DEFINE x == [run[r] EXCEPT !.output = o, !.pc = "decide"]
      <4>1. run' = [run EXCEPT ![r] = x] /\ x.pc = "decide"
        BY <1>p, <3>2 DEF Understood, RunTypes, RunType
      <4> HIDE DEF x
      <4> QED
        BY <1>p, <4>1 DEF RunTypes
    <3> QED
      BY <1>p, <3>1, <3>2, GoesKeeps
  <2> QED
    BY <2>1, PlanNotYet DEF Decided
<1>5. CASE DecideAndStamp(r)
  <2>1. PICK support \in KbTopScores : \E pc \in {"resume", "draft"} :
          run' = [run EXCEPT ![r].support = support, ![r].plan = PlanOf(r, support), ![r].pc = pc]
    BY <1>5 DEF DecideAndStamp
  <2>2. PICK pc \in {"resume", "draft"} :
          run' = [run EXCEPT ![r].support = support, ![r].plan = PlanOf(r, support), ![r].pc = pc]
    BY <2>1
  <2> DEFINE plan == PlanOf(r, support)
             x == [run[r] EXCEPT !.support = support, !.plan = plan, !.pc = pc]
  <2>3. run' = [run EXCEPT ![r] = x]
    BY <2>2
  <2>4. /\ x.pc = pc /\ x.support = support /\ x.plan = plan /\ x.output = run[r].output
        /\ x.ticket = run[r].ticket /\ x.rounds = run[r].rounds /\ x.seen = run[r].seen
        /\ x.stalled = run[r].stalled /\ x.merged = run[r].merged
    BY <1>p DEF RunType
  <2> HIDE DEF x, plan
  <2>5. run'[r] = x /\ SameReading(r) /\ run[r].pc # "idle"
    BY <1>5, <1>p, <2>3, <2>4 DEF RunTypes, SameReading, DecideAndStamp
  <2>6. PlanOf(r, support)' = PlanOf(r, support)
    BY <1>v, <2>4, <2>5, PlanStays
  <2>7. run'[r].plan = PlanOf(r, run[r].support)'
    <3>1. run'[r].plan = plan /\ run'[r].support = support
      BY <2>4, <2>5
    <3> QED
      BY <2>6, <3>1 DEF plan, PlanOf, Input, SettingsOf, Requester, TicketOf
  <2> QED
    BY <2>4, <2>5, <2>7 DEF PlanHolds, Decided, Contacting
<1>6. CASE Resume(r)
  BY <1>6, <1>d DEF Resume, Decided, Contacting
<1>7. CASE ProduceDraft(r)
  <2>1. run[r].pc \in Decided /\ \E pc \in {"carry", "write", "park"} : Goes(r, pc)
    BY <1>7 DEF ProduceDraft, Decided
  <2> QED
    BY <1>d, <2>1 DEF Contacting
<1>8. CASE WriteDraft(r)
  <2>1. run[r].pc \in Decided
    BY <1>8 DEF WriteDraft, Decided
  <2>2. ASSUME NEW words, run' = [run EXCEPT ![r].words = words, ![r].pc = "carry"]
        PROVE  PlanHolds(r)'
    <3> DEFINE x == [run[r] EXCEPT !.words = words, !.pc = "carry"]
    <3>1. run' = [run EXCEPT ![r] = x]
      BY <2>2
    <3>2. /\ x.pc = "carry" /\ x.support = run[r].support /\ x.plan = run[r].plan
          /\ x.output = run[r].output
          /\ x.ticket = run[r].ticket /\ x.rounds = run[r].rounds /\ x.seen = run[r].seen
          /\ x.stalled = run[r].stalled /\ x.merged = run[r].merged
      BY <1>p DEF RunType
    <3> HIDE DEF x
    <3>3. run'[r] = x /\ SameReading(r)
      BY <1>p, <3>1, <3>2 DEF RunTypes, SameReading
    <3> QED
      BY <1>p, <1>v, <2>1, <3>2, <3>3, PlanHoldsOn DEF Contacting
  <2>3. (\E words : run' = [run EXCEPT ![r].words = words, ![r].pc = "carry"]) \/ Goes(r, "park")
    BY <1>8 DEF WriteDraft
  <2> QED
    BY <1>d, <2>1, <2>2, <2>3 DEF Contacting
<1>9. CASE Escalate(r)
  BY <1>9, <1>d DEF Escalate, Decided, Contacting
<1>10. CASE Told(r) \/ SettleReply(r) \/ WaitForUser(r)
  BY <1>10, <1>i DEF Told, SettleReply, WaitForUser
<1>11. CASE ParkDraft(r)
  BY <1>11, <1>i, <1>g DEF ParkDraft, Decided
<1>12. CASE Act(r)
  <2>1. run[r].pc \in Decided /\ run[r].plan.execute /\ run[r].plan.action # "escalate"
    BY <1>12 DEF Act, Decided
  <2>2. Goes(r, "send") \/ Goes(r, "park")
    BY <1>12 DEF Act
  <2> QED
    BY <1>d, <2>1, <2>2
<1>13. CASE SendReply(r)
  <2>1. run[r].pc = "send" /\ (Goes(r, "settle") \/ Goes(r, "park"))
    BY <1>13 DEF SendReply
  <2> QED
    BY <1>d, <1>p, <2>1 DEF PlanHolds, Decided, Contacting
<1>14. CASE CountQuestion(r)
  BY <1>14, <1>d, <1>p DEF CountQuestion, PlanHolds, Decided, Contacting
<1>15. CASE RefusedByConversation(r)
  BY <1>15, <1>g DEF RefusedByConversation, Decided
<1>16. CASE UNCHANGED runVars
  <2>1. run' = run
    BY <1>16 DEF runVars
  <2>2. CASE run[r].pc \in Decided
    BY <1>p, <1>v, <2>1, <2>2, PlanHoldsOn DEF SameReading, PlanHolds
  <2> QED
    BY <2>1, <2>2, PlanNotYet
<1> QED
  BY <1>1, <1>2, <1>3, <1>4, <1>5, <1>6, <1>7, <1>8, <1>9, <1>10, <1>11, <1>12, <1>13, <1>14,
     <1>15, <1>16 DEF RunStep

LEMMA PlanInvStep ==
  ASSUME TypeInv, PlanInv, [DeskNext]_allVars
  PROVE  PlanInv'
<1>v. UNCHANGED scene /\ \A i \in 1 .. Len(versions) : versions'[i] = versions[i]
  BY VersionsGrow
<1>s. ASSUME NEW r \in Runs, run'[r] = run[r] PROVE PlanHolds(r)'
  <2>1. CASE run[r].pc \in Decided
    BY <1>s, <1>v, <2>1, PlanHoldsOn DEF SameReading, PlanHolds, PlanInv
  <2> QED
    BY <1>s, <2>1, PlanNotYet
<1>1. ASSUME NEW r \in scene.runs, RunStep(r), UNCHANGED deskVars PROVE PlanInv'
  <2>1. r \in Runs /\ UNCHANGED <<scene, versions>>
    BY <1>1, ScenesAreTyped, RunStepTypes DEF TypeInv
  <2>2. PlanHolds(r)'
    BY <1>1, <2>1, PlanStep
  <2>3. \A o \in Runs \ {r} : run'[o] = run[o]
    BY <1>1, <2>1, OtherRunsStay DEF TypeInv
  <2> QED
    BY <1>s, <2>2, <2>3 DEF PlanInv
<1>2. ASSUME NEW r \in scene.runs, CrashRun(r) PROVE PlanInv'
  <2>1. run'[r] = Idle /\ \A o \in Runs \ {r} : run'[o] = run[o]
    BY <1>2, ScenesAreTyped DEF CrashRun, Ends, TypeInv, RunTypes
  <2> QED
    BY <1>s, <2>1, PlanNotYet DEF PlanInv, Idle, Decided
<1>3. CASE UNCHANGED run
  BY <1>3, <1>s DEF PlanInv
<1>4. CASE Next /\ UNCHANGED deskVars
  <2>1. (\E r \in scene.runs : RunStep(r) \/ CrashRun(r)) \/ UNCHANGED run
    BY <1>4 DEF Next, Retriage, Answered, MergeTicket, CommitSettings, PassHour, runVars
  <2> QED
    BY <1>1, <1>2, <1>3, <1>4, <2>1
<1>5. CASE Desks
  BY <1>5, <1>3, DeskStepTypes DEF runVars
<1>6. ASSUME NEW w \in Writers, Writes(w) PROVE PlanInv'
  BY <1>6, <1>3, WriteTypes
<1>7. CASE UNCHANGED allVars
  BY <1>7, <1>3 DEF allVars, vars, runVars
<1> QED
  BY <1>4, <1>5, <1>6, <1>7, DeskNextSplits

\* What the agent is about to do it may do, under the settings it has read.
LEMMA PlanIsEarned ==
  ASSUME TypeInv, PlanInv, NEW r \in Runs, run[r].pc \in Decided
  PROVE  LET s == SettingsOf(r)
             x == run[r]
             o == run[r].output
             plan == run[r].plan
             does == plan.execute /\ plan.action # "escalate"
         IN /\ plan \in PlanType
            /\ does => plan.action = plan.intended /\ MayContact(s, x, Requester(r))
            /\ does /\ plan.action = Ask => /\ o.missing > 0 /\ x.rounds < s.max_clarify_rounds
                                            /\ plan.status = "awaiting_user"
            /\ does /\ plan.action = "link_incident" => o.hint \in Incidents
            /\ does /\ plan.action \in {"send_reply", "run_action"} => Grounded(s, x)
            /\ does /\ plan.action = "run_action" =>
                 /\ CandidateActionFor(o, Directory[Requester(r)].email) \in s.auto_action_whitelist
                 /\ PolicyFor(s, o.category).autonomy = "act"
            /\ plan.intended = "escalate" <=> plan.action = "escalate"
            /\ plan.action = "escalate" => plan.execute
            /\ plan.status \in {"resolved", "awaiting_user"} => does
            /\ plan.status = "awaiting_user" => plan.action = Ask
            /\ plan.status = "resolved" => plan.action # Ask
<1> DEFINE s == SettingsOf(r)
           o == run[r].output
           in == Input(scene.deployment, s, o, run[r].support, run[r].rounds,
                       Directory[Requester(r)], TicketOf(r) \in scene.injected)
           plan == run[r].plan
           does == plan.execute /\ plan.action # "escalate"
           autonomy == PolicyFor(s, o.category).autonomy
<1>1. plan = Decision(in)
  BY DEF PlanInv, PlanHolds, PlanOf
<1>2. run[r].pc # "idle"
  BY DEF Decided
<1>3. s \in AllSettings
  BY <1>2, VersionsAreTyped DEF TypeInv, RunsAreOn, SettingsOf
<1>4. /\ in.settings = s /\ in.triage = o /\ in.support = run[r].support
      /\ in.rounds = run[r].rounds /\ in.who = Directory[Requester(r)]
      /\ in.injected = (TicketOf(r) \in scene.injected)
      /\ in.incident = ResolveIncidentHint(o.hint)
      /\ in.tool = CandidateActionFor(o, Directory[Requester(r)].email)
      /\ in.mode = EffectiveMode(scene.deployment, s)
  BY DEF Input
<1>5. PolicyFor(s, o.category) \in CategoryPolicy
  BY <1>3, PolicyIsTyped
<1>o. /\ o.missing \in Nat /\ o.confidence \in Nat /\ run[r].support \in Nat
      /\ run[r].rounds \in Nat
  BY DEF TypeInv, RunTypes, RunType, Outputs
<1>f. PolicyFor(s, o.category).confidence_threshold \in Nat /\ s.kb_support_floor \in Nat
  BY <1>3, <1>5, SettingsAreTyped DEF CategoryPolicy, IsBusinessSettings, Certain
<1> HIDE DEF in, s, o
<1>6. LET d == Decision(in)
      IN /\ d \in PlanType
         /\ d.intended = IntendedOutcome(in).action
         /\ d.execute => d.action = d.intended
         /\ d.intended = "escalate" <=> d.action = "escalate"
         /\ d.action = "escalate" => d.execute
         /\ d.execute /\ d.action # "escalate" =>
              in.mode = "auto" /\ autonomy \in {"reply", "act"}
         /\ d.execute /\ d.action = "run_action" => autonomy = "act"
         /\ d.status = "awaiting_user" => d.execute /\ d.action = Ask
         /\ d.status = "resolved" => d.execute /\ d.action \in {"send_reply", "link_incident"}
         /\ d.execute /\ d.action = Ask => d.status = "awaiting_user"
  BY <1>4, <1>5, DecisionIsEarned DEF CategoryPolicy
<1>7. /\ does => plan.action = IntendedOutcome(in).action /\ plan.action = plan.intended
      /\ does => in.mode = "auto" /\ autonomy \in {"reply", "act"}
      /\ does /\ plan.action = "run_action" => autonomy = "act"
      /\ does /\ plan.action = Ask => plan.status = "awaiting_user"
      /\ plan.intended = "escalate" <=> plan.action = "escalate"
      /\ plan.action = "escalate" => plan.execute
      /\ plan.status \in {"resolved", "awaiting_user"} => does
      /\ plan.status = "awaiting_user" => plan.action = Ask
      /\ plan.status = "resolved" => plan.action # Ask
      /\ plan \in PlanType
  BY <1>1, <1>6 DEF Ask
<1>8. does => MayContact(s, run[r], Requester(r))
  <2> SUFFICES ASSUME does PROVE MayContact(s, run[r], Requester(r))
    OBVIOUS
  <2>1. NothingForbids(in)
    BY <1>7, IntentionIsEarned
  <2>2. scene.deployment = "auto" /\ s.agent_mode_override \notin {"shadow", "assist"}
    BY <1>3, <1>4, <1>7, ModeIsAuto, SettingsAreTyped, ScenesAreTyped DEF IsBusinessSettings, TypeInv
  <2> QED
    BY <1>4, <1>7, <2>1, <2>2 DEF NothingForbids, MayContact, o, TicketOf
<1>9. does /\ plan.action = Ask => o.missing > 0 /\ run[r].rounds < s.max_clarify_rounds
  BY <1>4, <1>7, IntentionIsEarned
<1>10. does /\ plan.action = "link_incident" => o.hint \in Incidents
  BY <1>4, <1>7, IntentionIsEarned DEF ResolveIncidentHint
<1>11. does /\ plan.action \in {"send_reply", "run_action"} => Grounded(s, run[r])
  <2> SUFFICES ASSUME does, plan.action \in {"send_reply", "run_action"} PROVE Grounded(s, run[r])
    OBVIOUS
  <2>1. IsGrounded(in)
    BY <1>7, IntentionIsEarned
  <2>2. /\ ~(o.missing > 0)
        /\ ~(o.confidence < PolicyFor(s, o.category).confidence_threshold)
        /\ ~(run[r].support < s.kb_support_floor)
    BY <1>4, <2>1 DEF IsGrounded
  <2> QED
    BY <1>o, <1>f, <2>2 DEF Grounded, o
<1>12. does /\ plan.action = "run_action" =>
         CandidateActionFor(o, Directory[Requester(r)].email) \in s.auto_action_whitelist
  BY <1>4, <1>7, IntentionIsEarned
<1> QED
  BY <1>7, <1>8, <1>9, <1>10, <1>11, <1>12 DEF s, o

(***************************************************************************)
(* What the agent mails and has done.                                      *)
(***************************************************************************)

\* The step of ContactsAreExplained.
ContactStep ==
  \A r \in Runs :
    LET x == run[r]
    IN run'[r] # x /\ ~Torn(x) =>
         /\ \A row \in mail' \ mail : row.kind \notin NotificationKind =>
              MayMail(versions[x.version], x, row.kind, row.to)
         /\ \A c \in called' \ called :
              MayCall(versions[x.version], x, c[2], RequesterOf[x.ticket])

\* Only a run's reply is mail of a run, and only its tool a call.
LEMMA ContactsOfARun ==
  ASSUME TypeInv, NEW r \in Runs, RunStep(r)
  PROVE  /\ ~SendReply(r) => \A row \in mail' \ mail : row.kind \in NotificationKind
         /\ ~Act(r) => UNCHANGED called
<1>1. CASE Start(r) \/ Admit(r) \/ RecordAgentRun(r) \/ Park(r) \/ AskModel(r) \/ Answer(r)
  BY <1>1 DEF Start, Admit, RecordAgentRun, Park, AskModel, Answer, notifyVars
<1>2. CASE DecideAndStamp(r) \/ Resume(r) \/ ProduceDraft(r) \/ WriteDraft(r) \/ Escalate(r)
  BY <1>2 DEF DecideAndStamp, Resume, ProduceDraft, WriteDraft, Escalate, notifyVars
<1>3. CASE Told(r) \/ ParkDraft(r) \/ SettleReply(r) \/ CountQuestion(r)
           \/ RefusedByConversation(r) \/ WaitForUser(r)
  BY <1>3 DEF Told, ParkDraft, SettleReply, CountQuestion, RefusedByConversation, WaitForUser,
              notifyVars
<1>4. CASE Act(r)
  BY <1>4 DEF Act, notifyVars
<1>5. CASE SendReply(r)
  BY <1>5 DEF SendReply
<1>6. CASE CheckNotice(r) /\ UNCHANGED runVars
  BY <1>6 DEF CheckNotice, runVars
<1>7. CASE QueueNotice(r) /\ UNCHANGED runVars
  <2>1. PICK n \in errand[r].now : QueueOutbound(n, KeyOf(n))
    BY <1>7 DEF QueueNotice
  <2>2. n.kind \in NotificationKind
    BY DEF TypeInv, NotifyTypes, Senders, ErrandType, NoticeType
  <2>3. \A row \in mail' \ mail : row.kind = n.kind
    BY <2>1, QueueOutboundAdds
  <2> QED
    BY <1>7, <2>2, <2>3 DEF runVars
<1> QED
  BY <1>1, <1>2, <1>3, <1>4, <1>5, <1>6, <1>7 DEF RunStep

LEMMA ReplyIsAllowed ==
  ASSUME TypeInv, PlanInv, NEW r \in Runs, SendReply(r), ~Torn(run[r]),
         NEW row \in mail' \ mail
  PROVE  MayMail(versions[run[r].version], run[r], row.kind, row.to)
<1> DEFINE kind == DraftKind(run[r].plan)
           key == [kind |-> kind, tickets |-> {TicketOf(r)}, prefixes |-> {},
                   to |-> Nobody, number |-> run[r].words]
           s == SettingsOf(r)
<1>1. s = versions[run[r].version]
  BY DEF Torn, SettingsOf
<1>2. /\ run[r].pc = "send" /\ MayReply(r)
      /\ QueueOutbound(Notice(kind, {TicketOf(r)}, Requester(r), run[r].words), key)
  BY DEF SendReply, At
<1> HIDE DEF key
<1>3. row.kind = kind /\ row.to = Requester(r)
  BY <1>2, QueueOutboundAdds DEF Notice
<1>4. run[r].pc \in Decided /\ run[r].plan.execute /\ run[r].plan.action # "escalate"
  BY <1>2 DEF PlanInv, PlanHolds, Decided, Contacting
<1>5. /\ run[r].plan.action = run[r].plan.intended /\ MayContact(s, run[r], Requester(r))
      /\ run[r].plan.action = Ask =>
           run[r].output.missing > 0 /\ run[r].rounds < s.max_clarify_rounds
      /\ run[r].plan.action = "link_incident" => run[r].output.hint \in Incidents
      /\ run[r].plan.action \in {"send_reply", "run_action"} => Grounded(s, run[r])
  BY <1>4, PlanIsEarned
<1>6. run[r].plan.intended \in Actions
  BY DEF TypeInv, RunTypes, RunType, PlanType
<1>7. "ticket.send_reply" \in s.auto_action_whitelist
  BY <1>2 DEF MayReply
<1> HIDE DEF s
<1>8. MayMail(s, run[r], kind, Requester(r))
  BY <1>4, <1>5, <1>6, <1>7 DEF MayMail, DraftKind, Actions, Ask
<1> QED
  BY <1>1, <1>3, <1>8

LEMMA CallIsAllowed ==
  ASSUME TypeInv, PlanInv, NEW r \in Runs, Act(r), ~Torn(run[r]),
         NEW c \in called' \ called
  PROVE  MayCall(versions[run[r].version], run[r], c[2], RequesterOf[run[r].ticket])
<1> DEFINE s == SettingsOf(r)
           tool == CandidateActionFor(run[r].output, Directory[Requester(r)].email)
<1>1. s = versions[run[r].version]
  BY DEF Torn, SettingsOf
<1>2. /\ run[r].pc \in Decided /\ run[r].plan.execute /\ run[r].plan.action = "run_action"
      /\ c = <<TicketOf(r), tool>>
  BY DEF Act, At, Decided
<1>3. /\ MayContact(s, run[r], Requester(r)) /\ Grounded(s, run[r])
      /\ tool \in s.auto_action_whitelist
      /\ PolicyFor(s, run[r].output.category).autonomy = "act"
  BY <1>2, PlanIsEarned
<1> QED
  BY <1>1, <1>2, <1>3 DEF MayCall, Requester, TicketOf

LEMMA ContactsMove ==
  ASSUME TypeInv, PlanInv, [DeskNext]_allVars
  PROVE  ContactStep
<1>1. ASSUME NEW q \in scene.runs, RunStep(q) PROVE ContactStep
  <2>1. q \in Runs /\ \A o \in Runs \ {q} : run'[o] = run[o]
    BY <1>1, ScenesAreTyped, OtherRunsStay DEF TypeInv
  <2>2. ASSUME ~Torn(run[q])
        PROVE  /\ \A row \in mail' \ mail : row.kind \notin NotificationKind =>
                    MayMail(versions[run[q].version], run[q], row.kind, row.to)
               /\ \A c \in called' \ called :
                    MayCall(versions[run[q].version], run[q], c[2], RequesterOf[run[q].ticket])
    BY <1>1, <2>1, <2>2, ContactsOfARun, ReplyIsAllowed, CallIsAllowed
  <2> QED
    BY <2>1, <2>2 DEF ContactStep
<1>2. ASSUME NEW q \in scene.runs, CrashRun(q) PROVE ContactStep
  BY <1>2 DEF CrashRun, ContactStep
<1>3. CASE UNCHANGED run
  BY <1>3 DEF ContactStep
<1>4. CASE Next
  <2>1. (\E r \in scene.runs : RunStep(r) \/ CrashRun(r)) \/ UNCHANGED run
    BY <1>4 DEF Next, Retriage, Answered, MergeTicket, CommitSettings, PassHour, runVars
  <2> QED
    BY <1>1, <1>2, <1>3, <2>1
<1>5. CASE Desks
  BY <1>5, <1>3, DeskStepTypes DEF runVars
<1>6. ASSUME NEW w \in Writers, Writes(w) PROVE ContactStep
  BY <1>6, <1>3, WriteTypes
<1>7. CASE UNCHANGED allVars
  BY <1>7, <1>3 DEF allVars, vars, runVars
<1> QED
  BY <1>4, <1>5, <1>6, <1>7, DeskNextSplits

LEMMA PlansHold == DeskSpec => [](TypeInv /\ PlanInv)
<1>1. DeskInit => TypeInv /\ PlanInv
  <2> SUFFICES ASSUME DeskInit PROVE TypeInv /\ PlanInv
    OBVIOUS
  <2>1. \A r \in Runs : run[r].pc = "idle"
    BY DEF DeskInit, Init, PipelineStart, Idle
  <2> QED
    BY <2>1, InitTypes DEF PlanInv, PlanHolds, Decided, Contacting
<1>2. TypeInv /\ PlanInv /\ [DeskNext]_allVars => (TypeInv /\ PlanInv)'
  BY StepTypes, PlanInvStep
<1> QED
  BY <1>1, <1>2, PTL DEF DeskSpec

\* Whatever the model answers and however the settings change under it, what the
\* agent mails to a requester or has a tool do is allowed by the version of the
\* settings the run has on record, unless that number was read after a change
\* (pipeline.ts:59 and :74, decide.ts, tools/service.ts send_reply).
THEOREM EveryContactIsExplained == DeskSpec => ContactsAreExplained
<1>1. TypeInv /\ PlanInv /\ [DeskNext]_allVars => [ContactStep]_vars
  BY ContactsMove
<1> QED
  BY <1>1, PlansHold, PTL DEF DeskSpec, ContactsAreExplained, ContactStep

(***************************************************************************)
(* The promise a status makes.                                             *)
(***************************************************************************)

SameStatus(t) ==
  /\ ticket'[t].status = ticket[t].status /\ ticket'[t].by = ticket[t].by
  /\ ticket'[t].merged = ticket[t].merged

\* Whoever is not a run leaves a ticket's status, or makes it a person's.
LEMMA OthersLeaveStatus ==
  ASSUME TypeInv, [DeskNext]_allVars, ~(\E r \in scene.runs : RunStep(r))
  PROVE  \A t \in Tickets : /\ SameStatus(t) \/ ticket'[t].by # "agent"
                            /\ ticket[t].merged => ticket'[t].merged
<1> DEFINE Goal == \A t \in Tickets : /\ SameStatus(t) \/ ticket'[t].by # "agent"
                                      /\ ticket[t].merged => ticket'[t].merged
<1> SUFFICES Goal
  OBVIOUS
<1>a. UNCHANGED ticket => Goal
  BY DEF SameStatus
<1>b. ASSUME NEW t \in Tickets, NEW status \in Statuses, NEW by \in {"system", "person"},
             ticket' = [ticket EXCEPT ![t].status = status, ![t].by = by]
      PROVE  Goal
  BY <1>b, StatusGiven DEF SameStatus, TypeInv
<1>s. {"resolved", "triaged", "closed"} \subseteq Statuses
  BY DEF Statuses
<1>1. CASE NotifyNext
  <2>1. ASSUME NEW q \in scene.requests, NEW ts \in scene.assigns, NEW p \in Staff \cup {Nobody},
               AssignTickets(q, ts, p)
        PROVE  Goal
    BY <2>1 DEF AssignTickets, Assigned, SameStatus, TypeInv, NotifyTypes, TicketType
  <2>2. ASSUME NEW q \in scene.requests, NEW t \in Tickets, MoveTicket(q, t) PROVE Goal
    BY <2>2, <1>b, <1>s DEF MoveTicket
  <2>3. (\E q \in scene.requests, t \in Tickets : MoveTicket(q, t))
        \/ (\E q \in scene.requests, ts \in scene.assigns, p \in Staff \cup {Nobody} :
              AssignTickets(q, ts, p))
        \/ UNCHANGED ticket
    BY <1>1 DEF NotifyNext, AskResolve, ResolutionNotice, Sweep, CheckNotice, QueueNotice,
                CrashRequest, OptOut, OptIn, Bounces, ClockMoves
  <2> QED
    BY <1>a, <2>1, <2>2, <2>3
<1>2. ASSUME NEW t \in Tickets, Answered(t) PROVE Goal
  BY <1>2, <1>b, <1>s DEF Answered
<1>3. ASSUME NEW t \in Tickets, MergeTicket(t) PROVE Goal
  BY <1>3 DEF MergeTicket, SameStatus, TypeInv, NotifyTypes, TicketType
<1>4. CASE Next
  <2>1. (\E r \in scene.runs : CrashRun(r)) \/ (\E t \in Tickets : Retriage(t))
        \/ CommitSettings \/ PassHour => UNCHANGED ticket
    BY DEF CrashRun, Retriage, CommitSettings, PassHour, notifyVars
  <2> QED
    BY <1>1, <1>2, <1>3, <1>4, <1>a, <2>1 DEF Next
<1>5. CASE Desks
  <2>1. ASSUME NEW q \in scene.requests, SettlePersonReply(q) PROVE Goal
    <3>1. reply[q].ticket \in Tickets
      BY <2>1, ScenesAreTyped DEF SettlePersonReply, TypeInv, DeskTypes
    <3>2. \/ ticket' = ticket
          \/ ticket' = [ticket EXCEPT ![reply[q].ticket].status = "resolved",
                                      ![reply[q].ticket].by = "person"]
      BY <2>1 DEF SettlePersonReply
    <3> QED
      BY <1>a, <1>b, <1>s, <3>1, <3>2
  <2>2. ASSUME NEW q \in scene.requests, NEW t \in scene.closes, ChangeStatus(q, t) PROVE Goal
    BY <2>2, <1>b, <1>s, ScenesAreTyped DEF ChangeStatus, TypeInv
  <2>3. ASSUME NEW t \in scene.followups, FollowUp(t) PROVE Goal
    <3>1. t \in Tickets /\ ticket' = [ticket EXCEPT ![t].status = "closed", ![t].by = "system"]
      BY <2>3, ScenesAreTyped DEF FollowUp, TypeInv
    <3> QED
      BY <1>b, <1>s, <3>1
  <2>4. ASSUME NEW q \in scene.requests, NEW t \in scene.replies, NEW close \in BOOLEAN,
               SendAsPerson(q, t, close)
        PROVE  Goal
    BY <2>4, <1>a DEF SendAsPerson
  <2> QED
    BY <1>5, <2>1, <2>2, <2>3, <2>4 DEF Desks
<1>6. ASSUME NEW w \in Writers, Writes(w) PROVE Goal
  BY <1>6, <1>a, WriteTypes
<1>7. CASE UNCHANGED allVars
  BY <1>7, <1>a DEF allVars, vars, notifyVars
<1> QED
  BY <1>4, <1>5, <1>6, <1>7, DeskNextSplits

\* A run touches the status of its own ticket only.
LEMMA RunLeavesOtherTickets ==
  ASSUME TypeInv, NEW r \in Runs, RunStep(r)
  PROVE  /\ \A t \in Tickets : ticket'[t].merged = ticket[t].merged
         /\ \A t \in Tickets : run[r].ticket # t => ticket'[t] = ticket[t]
<1> DEFINE Goal == /\ \A t \in Tickets : ticket'[t].merged = ticket[t].merged
                   /\ \A t \in Tickets : run[r].ticket # t => ticket'[t] = ticket[t]
<1> SUFFICES Goal
  OBVIOUS
<1>a. UNCHANGED ticket => Goal
  OBVIOUS
<1>b. ASSUME NEW status \in Statuses, run[r].pc # "idle", SetStatus(TicketOf(r), status) PROVE Goal
  BY <1>b, SetStatusDoes DEF TypeInv, RunsAreOn, TicketOf
<1>s. {"resolved", "triaged", "awaiting_user"} \subseteq Statuses
  BY DEF Statuses
<1>p. \A support : run[r].pc # "idle" => PlanOf(r, support).status \in Statuses
  BY PlanIsTyped DEF TypeInv, PlanType
<1>q. run[r].plan.status \in Statuses
  BY DEF TypeInv, RunTypes, RunType, PlanType
<1> HIDE DEF Goal
<1>1. CASE Park(r) \/ Escalate(r) \/ SettleReply(r) \/ WaitForUser(r)
  BY <1>1, <1>b, <1>s DEF Park, Escalate, SettleReply, WaitForUser, At
<1>2. CASE DecideAndStamp(r)
  <2>1. PICK support : ticket' = ticket \/ SetStatus(TicketOf(r), PlanOf(r, support).status)
    BY <1>2 DEF DecideAndStamp
  <2> QED
    BY <1>2, <1>a, <1>b, <1>p, <2>1 DEF DecideAndStamp, At
<1>3. CASE Resume(r)
  BY <1>3, <1>b, <1>q DEF Resume, At
<1>4. CASE Start(r) \/ Admit(r) \/ RecordAgentRun(r) \/ AskModel(r) \/ Answer(r)
  BY <1>4, <1>a DEF Start, Admit, RecordAgentRun, AskModel, Answer, notifyVars
<1>5. CASE ProduceDraft(r) \/ WriteDraft(r) \/ Told(r) \/ ParkDraft(r) \/ Act(r)
  BY <1>5, <1>a DEF ProduceDraft, WriteDraft, Told, ParkDraft, Act, notifyVars
<1>6. CASE SendReply(r)
  BY <1>6, <1>a DEF SendReply
<1>7. CASE CountQuestion(r) \/ RefusedByConversation(r) \/ CheckNotice(r) \/ QueueNotice(r)
  BY <1>7, <1>a DEF CountQuestion, RefusedByConversation, CheckNotice, QueueNotice, notifyVars
<1> QED
  BY <1>1, <1>2, <1>3, <1>4, <1>5, <1>6, <1>7 DEF RunStep

\* Where each action takes a run.
LEMMA RunLands ==
  ASSUME RunTypes, NEW r \in Runs
  PROVE  /\ Start(r) => run'[r].pc = "admit"
         /\ Admit(r) => run'[r] = Idle \/ run'[r].pc \in {"record", "park"}
         /\ RecordAgentRun(r) => run'[r].pc = "ask"
         /\ AskModel(r) => run'[r].pc \in {"answer", "park"}
         /\ Answer(r) => run'[r].pc \in {"decide", "park"}
         /\ DecideAndStamp(r) => run'[r].pc \in {"resume", "draft"}
         /\ Resume(r) => run'[r].pc = "draft"
         /\ ProduceDraft(r) => run'[r].pc \in {"write", "carry", "park"}
         /\ WriteDraft(r) => run'[r].pc \in {"carry", "park"}
         /\ Escalate(r) => run'[r].pc = "tell"
         /\ ParkDraft(r) => run'[r] = Idle \/ run'[r].pc = "park"
         /\ Act(r) => run'[r].pc \in {"send", "park"}
         /\ SendReply(r) => run'[r].pc \in {"settle", "park"}
         /\ CountQuestion(r) => run'[r].pc = "wait"
         /\ RefusedByConversation(r) => run'[r].pc = "park"
         /\ Park(r) \/ Told(r) \/ SettleReply(r) \/ WaitForUser(r) => run'[r] = Idle
         /\ CheckNotice(r) \/ QueueNotice(r) => errand[r] # NoErrand
<1>p. run[r] \in RunType
  BY DEF RunTypes
<1>g. \A pc : Goes(r, pc) => run'[r].pc = pc
  BY GoesKeeps
<1>i. Ends(r) => run'[r] = Idle
  BY DEF Ends, RunTypes
<1>x. \A x : run' = [run EXCEPT ![r] = x] => run'[r] = x
  BY DEF RunTypes
<1>1. Start(r) => run'[r].pc = "admit"
  BY DEF Start, RunTypes, Idle
<1>2. Admit(r) => run'[r] = Idle \/ run'[r].pc \in {"record", "park"}
  BY <1>p DEF Admit, RunTypes, RunType
<1>3. RecordAgentRun(r) => run'[r].pc = "ask"
  BY <1>g DEF RecordAgentRun
<1>4. AskModel(r) => run'[r].pc \in {"answer", "park"}
  BY <1>g DEF AskModel
<1>5. Answer(r) => run'[r].pc \in {"decide", "park"}
  <2>1. ASSUME NEW o, Understood(r, o) PROVE run'[r].pc = "decide"
    <3> DEFINE x == [run[r] EXCEPT !.output = o, !.pc = "decide"]
    <3>1. run' = [run EXCEPT ![r] = x] /\ x.pc = "decide"
      BY <1>p, <2>1 DEF Understood, RunTypes, RunType
    <3> HIDE DEF x
    <3> QED
      BY <1>x, <3>1
  <2> QED
    BY <1>g, <2>1 DEF Answer
<1>6. DecideAndStamp(r) => run'[r].pc \in {"resume", "draft"}
  <2> SUFFICES ASSUME DecideAndStamp(r) PROVE run'[r].pc \in {"resume", "draft"}
    OBVIOUS
  <2>1. PICK support \in KbTopScores : \E pc \in {"resume", "draft"} :
          run' = [run EXCEPT ![r].support = support, ![r].plan = PlanOf(r, support), ![r].pc = pc]
    BY DEF DecideAndStamp
  <2>2. PICK pc \in {"resume", "draft"} :
          run' = [run EXCEPT ![r].support = support, ![r].plan = PlanOf(r, support), ![r].pc = pc]
    BY <2>1
  <2> DEFINE x == [run[r] EXCEPT !.support = support, !.plan = PlanOf(r, support), !.pc = pc]
  <2>3. run' = [run EXCEPT ![r] = x] /\ x.pc = pc
    BY <1>p, <2>2 DEF RunType
  <2> HIDE DEF x
  <2> QED
    BY <1>x, <2>3
<1>7. Resume(r) => run'[r].pc = "draft"
  BY <1>g DEF Resume
<1>8. ProduceDraft(r) => run'[r].pc \in {"write", "carry", "park"}
  BY <1>g DEF ProduceDraft
<1>9. WriteDraft(r) => run'[r].pc \in {"carry", "park"}
  <2>1. ASSUME NEW words, run' = [run EXCEPT ![r].words = words, ![r].pc = "carry"]
        PROVE  run'[r].pc = "carry"
    <3> DEFINE x == [run[r] EXCEPT !.words = words, !.pc = "carry"]
    <3>1. run' = [run EXCEPT ![r] = x] /\ x.pc = "carry"
      BY <1>p, <2>1 DEF RunType
    <3> HIDE DEF x
    <3> QED
      BY <1>x, <3>1
  <2> QED
    BY <1>g, <2>1 DEF WriteDraft
<1>10. Escalate(r) => run'[r].pc = "tell"
  BY <1>g DEF Escalate
<1>11. ParkDraft(r) => run'[r] = Idle \/ run'[r].pc = "park"
  BY <1>g, <1>i DEF ParkDraft
<1>12. Act(r) => run'[r].pc \in {"send", "park"}
  BY <1>g DEF Act
<1>13. SendReply(r) => run'[r].pc \in {"settle", "park"}
  BY <1>g DEF SendReply
<1>14. /\ CountQuestion(r) => run'[r].pc = "wait"
       /\ RefusedByConversation(r) => run'[r].pc = "park"
  BY <1>g DEF CountQuestion, RefusedByConversation
<1>15. Park(r) \/ Told(r) \/ SettleReply(r) \/ WaitForUser(r) => run'[r] = Idle
  BY <1>i DEF Park, Told, SettleReply, WaitForUser
<1>16. CheckNotice(r) \/ QueueNotice(r) => errand[r] # NoErrand
  <2>1. NoErrand.todo = {} /\ NoErrand.now = {}
    BY DEF NoErrand
  <2>2. CheckNotice(r) \/ QueueNotice(r) => errand[r].todo # {} \/ errand[r].now # {}
    BY DEF CheckNotice, QueueNotice
  <2> QED
    BY <2>1, <2>2
<1> QED
  BY <1>1, <1>2, <1>3, <1>4, <1>5, <1>6, <1>7, <1>8, <1>9, <1>10, <1>11, <1>12, <1>13, <1>14,
     <1>15, <1>16

\* From the decision to its end a run keeps its plan.
LEMMA PlanIsKept ==
  ASSUME RunTypes, NEW r \in Runs, RunStep(r), run[r].pc \in Decided, run'[r] # Idle
  PROVE  run'[r].plan = run[r].plan
<1>p. run[r] \in RunType
  BY DEF RunTypes
<1>g. (\E pc : Goes(r, pc)) => run'[r].plan = run[r].plan
  BY GoesKeeps
<1>i. ~Ends(r)
  BY DEF Ends, RunTypes
<1> USE DEF At, Decided
<1>1. CASE Start(r) \/ Admit(r) \/ RecordAgentRun(r) \/ Park(r) \/ AskModel(r) \/ Answer(r)
           \/ DecideAndStamp(r)
  BY <1>1 DEF Start, Admit, RecordAgentRun, Park, AskModel, Answer, DecideAndStamp
<1>2. CASE Resume(r) \/ ProduceDraft(r) \/ Escalate(r)
  BY <1>2, <1>g DEF Resume, ProduceDraft, Escalate
<1>3. CASE WriteDraft(r)
  <2>1. ASSUME NEW words, run' = [run EXCEPT ![r].words = words, ![r].pc = "carry"]
        PROVE  run'[r].plan = run[r].plan
    <3> DEFINE x == [run[r] EXCEPT !.words = words, !.pc = "carry"]
    <3>1. run' = [run EXCEPT ![r] = x] /\ x.plan = run[r].plan
      BY <1>p, <2>1 DEF RunType
    <3> HIDE DEF x
    <3> QED
      BY <3>1 DEF RunTypes
  <2>2. (\E words : run' = [run EXCEPT ![r].words = words, ![r].pc = "carry"]) \/ Goes(r, "park")
    BY <1>3 DEF WriteDraft
  <2> QED
    BY <1>g, <2>1, <2>2
<1>4. CASE ParkDraft(r) \/ Act(r)
  BY <1>4, <1>g, <1>i DEF ParkDraft, Act
<1>5. CASE SendReply(r)
  BY <1>5, <1>g DEF SendReply
<1>6. CASE CountQuestion(r) \/ RefusedByConversation(r)
  BY <1>6, <1>g DEF CountQuestion, RefusedByConversation
<1>7. CASE Told(r) \/ SettleReply(r) \/ WaitForUser(r)
  BY <1>7, <1>i DEF Told, SettleReply, WaitForUser
<1>8. CASE UNCHANGED runVars
  BY <1>8 DEF runVars
<1> QED
  BY <1>1, <1>2, <1>3, <1>4, <1>5, <1>6, <1>7, <1>8 DEF RunStep

\* The reply is in the queue when the run goes on to settle it.
LEMMA SentReplyIsThere ==
  ASSUME TypeInv, NoticeInv, NEW r \in Runs, SendReply(r), run'[r].pc = "settle"
  PROVE  \E row \in mail' : /\ row.kind = DraftKind(run[r].plan) /\ row.tickets = {run[r].ticket}
                            /\ ~row.suppressed
<1> DEFINE kind == DraftKind(run[r].plan)
           key == [kind |-> kind, tickets |-> {TicketOf(r)}, prefixes |-> {},
                   to |-> Nobody, number |-> run[r].words]
           reply0 == Notice(kind, {TicketOf(r)}, Requester(r), run[r].words)
           dead == IF RowsWith(key) # {} THEN \E row \in RowsWith(key) : row.suppressed
                   ELSE Requester(r) \in suppressed
<1>1. QueueOutbound(reply0, key) /\ Goes(r, IF dead THEN "park" ELSE "settle")
  <2>1. ~Goes(r, "park")
    BY GoesKeeps DEF TypeInv
  <2> QED
    BY <2>1 DEF SendReply
<1>2. ~dead
  <2> HIDE DEF dead
  <2> QED
    BY <1>1, GoesKeeps DEF TypeInv
<1>3. key.kind = kind /\ key.tickets = {TicketOf(r)}
  OBVIOUS
<1>4. reply0.kind = kind /\ reply0.tickets = {TicketOf(r)} /\ reply0.to = Requester(r)
  BY DEF Notice
<1>d. kind # "digest"
  BY DEF DraftKind
<1> HIDE DEF key, kind, reply0
<1>5. CASE RowsWith(key) # {}
  <2>1. PICK row \in RowsWith(key) : ~row.suppressed
    BY <1>2, <1>5
  <2>2. row \in mail /\ row.key = key
    BY DEF RowsWith
  <2>3. row.kind = kind /\ row.tickets = {TicketOf(r)}
    BY <1>3, <1>d, <2>2 DEF NoticeInv, RowsAreKeyed
  <2> QED
    BY <1>1, <2>1, <2>2, <2>3, QueueOutboundAdds DEF kind, TicketOf
<1>6. CASE RowsWith(key) = {}
  <2> DEFINE row == [key |-> key, to |-> reply0.to, suppressed |-> reply0.to \in suppressed,
                     kind |-> reply0.kind, tickets |-> reply0.tickets, hour |-> hour,
                     fact |-> reply0.fact]
  <2>1. row \in mail'
    BY <1>1, <1>6 DEF QueueOutbound
  <2>2. row.kind = kind /\ row.tickets = {TicketOf(r)} /\ row.suppressed = (Requester(r) \in suppressed)
    BY <1>4
  <2>3. Requester(r) \notin suppressed
    BY <1>2, <1>6
  <2> HIDE DEF row
  <2> QED
    BY <2>1, <2>2, <2>3 DEF kind, TicketOf
<1> QED
  BY <1>5, <1>6

LEMMA RepliesStay ==
  ASSUME TypeInv, NoticeInv, NEW r \in Runs, ReplyIsThere(r), RunStep(r), mail \subseteq mail'
  PROVE  ReplyIsThere(r)'
<1> SUFFICES ASSUME run'[r].pc \in {"settle", "wait"} PROVE ReplyIsThere(r)'
  BY DEF ReplyIsThere
<1>1. CASE SendReply(r)
  <2>1. run'[r].pc = "settle"
    BY <1>1, RunLands DEF TypeInv
  <2>2. run'[r].plan = run[r].plan /\ run'[r].ticket = run[r].ticket
    BY <1>1, GoesKeeps DEF SendReply, SameReading, TypeInv
  <2> QED
    BY <1>1, <2>1, <2>2, SentReplyIsThere DEF ReplyIsThere
<1>2. CASE CountQuestion(r)
  <2>1. run[r].pc = "settle" /\ run'[r].plan = run[r].plan /\ run'[r].ticket = run[r].ticket
    BY <1>2, GoesKeeps DEF CountQuestion, At, SameReading, TypeInv
  <2> QED
    BY <2>1 DEF ReplyIsThere
<1>3. CASE UNCHANGED runVars
  BY <1>3 DEF ReplyIsThere, runVars
<1>4. Idle.pc = "idle"
  BY DEF Idle
<1> QED
  BY <1>1, <1>2, <1>3, <1>4, RunLands DEF RunStep, TypeInv

LEMMA MergesStand ==
  ASSUME TypeInv, NEW r \in Runs, MergeStands(r), RunStep(r)
  PROVE  MergeStands(r)'
<1>1. \A t \in Tickets : ticket'[t].merged = ticket[t].merged
  BY RunLeavesOtherTickets
<1>2. CASE run[r].pc # "idle"
  <2>1. CASE run'[r] = Idle
    BY <2>1 DEF MergeStands, Idle
  <2>2. CASE SameReading(r)
    BY <1>1, <1>2, <2>2 DEF MergeStands, SameReading, TypeInv, RunsAreOn
  <2> QED
    BY <1>2, <2>1, <2>2, ReadingStays DEF TypeInv
<1>3. CASE run[r].pc = "idle"
  <2>1. CASE Start(r)
    <3>1. PICK t \in Tickets, stalled \in BOOLEAN :
            run' = [run EXCEPT ![r] = [Idle EXCEPT !.pc = "admit", !.ticket = t, !.stalled = stalled,
                                         !.merged = ticket[t].merged, !.rounds = clarify[t],
                                         !.seen = Len(versions)]]
      BY <2>1 DEF Start
    <3>2. run'[r].ticket = t /\ run'[r].merged = ticket[t].merged
      BY <3>1 DEF TypeInv, RunTypes, Idle
    <3> QED
      BY <1>1, <3>2 DEF MergeStands
  <2>2. CASE UNCHANGED runVars
    BY <1>3, <2>2 DEF MergeStands, runVars
  <2>3. Start(r) \/ UNCHANGED runVars
    BY <1>3 DEF RunStep, Admit, RecordAgentRun, Park, AskModel, Answer, DecideAndStamp, Resume,
                ProduceDraft, WriteDraft, Escalate, Told, ParkDraft, Act, SendReply, SettleReply,
                CountQuestion, RefusedByConversation, WaitForUser, At
  <2> QED
    BY <2>1, <2>2, <2>3
<1> QED
  BY <1>2, <1>3

\* What a run does to its own ticket: it goes on keeping the status, or the
\* status promises nothing, or the mail is there, or it never kept it.
LEMMA RunKeepsOrLeaves ==
  ASSUME TypeInv, NoticeInv, PlanInv, PromiseInv, NEW r \in Runs, RunStep(r), run[r].pc # "idle",
         mail \subseteq mail', NEW t \in Tickets, t = run[r].ticket, Promised(t)'
  PROVE  \/ Keeps(r, t)'
         \/ \E row \in mail' : Fits(row, t)'
         \/ ticket'[t] = ticket[t] /\ ~Keeps(r, t)
         \/ ticket'[t] = ticket[t] /\ run'[r] = run[r]
<1> DEFINE Goal == \/ Keeps(r, t)'
                   \/ \E row \in mail' : Fits(row, t)'
                   \/ ticket'[t] = ticket[t] /\ ~Keeps(r, t)
                   \/ ticket'[t] = ticket[t] /\ run'[r] = run[r]
<1> SUFFICES Goal
  OBVIOUS
<1> USE DEF TypeInv
<1>t. TicketOf(r) = t /\ TicketOf(r) \in Tickets
  BY DEF TicketOf
<1>p. run'[r].ticket = t /\ run'[r].pc \in {"admit", "record", "ask", "answer", "decide", "resume", "park"}
      => Keeps(r, t)'
  BY DEF Keeps
<1>q. /\ run'[r].ticket = t
      /\ run'[r].pc \in {"draft", "write", "carry", "send", "settle", "wait"}
      /\ run'[r].plan.status = ticket'[t].status
      => Keeps(r, t)'
  BY DEF Keeps
<1>k. run'[r] = Idle \/ run'[r].ticket = t
  BY ReadingStays DEF SameReading
<1>s. ASSUME NEW status \in Statuses, SetStatus(TicketOf(r), status)
      PROVE  ticket'[t].status = status
  BY <1>s, <1>t, SetStatusDoes
<1>i. Idle.pc = "idle"
  BY DEF Idle
\* To where nothing is stamped yet.
<1>e. ASSUME run'[r].pc \in {"admit", "record", "ask", "answer", "decide", "resume", "park"} PROVE Goal
  BY <1>e, <1>k, <1>i, <1>p
\* On with the plan, the ticket left alone.
<1>o. ASSUME UNCHANGED ticket, run[r].pc \in {"draft", "write", "carry", "send", "settle"},
             run'[r].pc \in {"write", "carry", "send", "settle", "wait"}
      PROVE  Goal
  <2>1. run'[r].plan = run[r].plan
    BY <1>o, <1>i, PlanIsKept DEF Decided
  <2>2. CASE Keeps(r, t)
    <3>1. run[r].plan.status = ticket[t].status
      BY <1>o, <2>2 DEF Keeps
    <3> QED
      BY <1>o, <1>k, <1>i, <1>q, <2>1, <3>1
  <2> QED
    BY <1>o, <2>2
<1>f. ASSUME NEW status \in {"resolved", "awaiting_user"}, ticket'[t].status = status,
             run[r].pc \in {"settle", "wait"},
             status = "awaiting_user" => run[r].plan.action = Ask,
             status = "resolved" => run[r].plan.action # Ask
      PROVE  Goal
  <2>1. PICK row \in mail : /\ row.kind = DraftKind(run[r].plan) /\ row.tickets = {run[r].ticket}
                            /\ ~row.suppressed
    BY <1>f DEF PromiseInv, ReplyIsThere
  <2>2. run[r].plan.action = run[r].plan.intended
    <3>1. run[r].plan.execute /\ run[r].plan.action # "escalate"
      BY <1>f DEF PlanInv, PlanHolds, Contacting
    <3> QED
      BY <1>f, <3>1, PlanIsEarned DEF Decided
  <2>3. row.tickets = {t} /\ ~row.suppressed
    BY <2>1
  <2>4. IF status = "awaiting_user" THEN row.kind = "question" ELSE row.kind \in {"reply", "ack"}
    <3>1. CASE status = "awaiting_user"
      <4>1. run[r].plan.intended = Ask
        BY <1>f, <2>2, <3>1
      <4>2. DraftKind(run[r].plan) = "question"
        BY <4>1 DEF DraftKind, Ask
      <4> QED
        BY <2>1, <3>1, <4>2
    <3>2. CASE status = "resolved"
      <4>1. run[r].plan.intended # Ask
        BY <1>f, <2>2, <3>2
      <4>2. DraftKind(run[r].plan) \in {"reply", "ack"}
        BY <4>1 DEF DraftKind
      <4> QED
        BY <2>1, <3>2, <4>2
    <3> QED
      BY <1>f, <3>1, <3>2
  <2>5. Fits(row, t)'
    BY <1>f, <2>3, <2>4 DEF Fits
  <2> QED
    BY <2>1, <2>5
<1> HIDE DEF Goal
<1>1. CASE Admit(r)
  <2>1. CASE run'[r] = Idle
    <3>1. run[r].merged
      BY <1>1, <2>1, <1>i DEF Admit, RunTypes, RunType
    <3>2. ticket'[t].merged
      BY <3>1, RunLeavesOtherTickets DEF PromiseInv, MergeStands
    <3> QED
      BY <3>2 DEF Promised
  <2> QED
    BY <1>1, <1>e, <2>1, RunLands
<1>2. CASE RecordAgentRun(r) \/ AskModel(r) \/ Answer(r) \/ RefusedByConversation(r)
  BY <1>2, <1>e, RunLands
<1>3. CASE Park(r) \/ Escalate(r)
  <2>1. ticket'[t].status = "triaged"
    BY <1>3, <1>s DEF Park, Escalate, Statuses
  <2> QED
    BY <2>1 DEF Promised
<1>4. CASE DecideAndStamp(r)
  <2>1. PICK support \in KbTopScores :
          /\ \E pc \in {"resume", "draft"} :
               /\ run' = [run EXCEPT ![r].support = support, ![r].plan = PlanOf(r, support), ![r].pc = pc]
               /\ pc = "draft" => SetStatus(TicketOf(r), PlanOf(r, support).status)
    BY <1>4 DEF DecideAndStamp
  <2>2. PICK pc \in {"resume", "draft"} :
          /\ run' = [run EXCEPT ![r].support = support, ![r].plan = PlanOf(r, support), ![r].pc = pc]
          /\ pc = "draft" => SetStatus(TicketOf(r), PlanOf(r, support).status)
    BY <2>1
  <2> DEFINE plan == PlanOf(r, support)
             x == [run[r] EXCEPT !.support = support, !.plan = plan, !.pc = pc]
  <2>3. run' = [run EXCEPT ![r] = x] /\ x.plan = plan /\ x.pc = pc
    BY <2>2 DEF RunTypes, RunType
  <2>4. plan.status \in Statuses
    BY PlanIsTyped DEF PlanType
  <2> HIDE DEF x
  <2>5. run'[r].pc = pc /\ run'[r].plan = plan
    BY <2>3 DEF RunTypes
  <2>6. CASE pc = "draft"
    <3>1. ticket'[t].status = plan.status
      BY <1>s, <2>2, <2>4, <2>6
    <3> HIDE DEF plan
    <3> QED
      BY <1>k, <1>i, <1>q, <2>5, <2>6, <3>1 DEF Goal
  <2> QED
    BY <1>e, <2>5, <2>6
<1>5. CASE Resume(r)
  <2>1. run'[r].plan = run[r].plan /\ run'[r].pc = "draft"
    BY <1>5, GoesKeeps DEF Resume
  <2>2. ticket'[t].status = run[r].plan.status
    <3>1. run[r].plan.status \in Statuses
      BY DEF RunTypes, RunType, PlanType
    <3> QED
      BY <1>5, <1>s, <3>1 DEF Resume
  <2> QED
    BY <1>k, <1>i, <1>q, <2>1, <2>2 DEF Goal
<1>6. CASE ProduceDraft(r)
  <2>1. UNCHANGED ticket /\ run[r].pc = "draft"
    BY <1>6 DEF ProduceDraft, At, notifyVars
  <2> QED
    BY <1>6, <1>e, <1>o, <2>1, RunLands
<1>7. CASE WriteDraft(r)
  <2>1. UNCHANGED ticket /\ run[r].pc = "write"
    BY <1>7 DEF WriteDraft, At, notifyVars
  <2> QED
    BY <1>7, <1>e, <1>o, <2>1, RunLands
<1>8. CASE Act(r)
  <2>1. UNCHANGED ticket /\ run[r].pc = "carry"
    BY <1>8 DEF Act, At, notifyVars
  <2> QED
    BY <1>8, <1>e, <1>o, <2>1, RunLands
<1>9. CASE SendReply(r)
  <2>1. UNCHANGED ticket /\ run[r].pc = "send"
    BY <1>9 DEF SendReply, At
  <2> QED
    BY <1>9, <1>e, <1>o, <2>1, RunLands
<1>10. CASE CountQuestion(r)
  <2>1. UNCHANGED ticket /\ run[r].pc = "settle"
    BY <1>10 DEF CountQuestion, At, notifyVars
  <2> QED
    BY <1>10, <1>o, <2>1, RunLands
<1>11. CASE Told(r)
  <2>1. UNCHANGED ticket /\ run[r].pc = "tell"
    BY <1>11 DEF Told, At, notifyVars
  <2> QED
    BY <2>1 DEF Goal, Keeps
<1>12. CASE ParkDraft(r)
  <2>1. UNCHANGED ticket /\ run[r].pc = "carry" /\ ~run[r].plan.execute
    BY <1>12 DEF ParkDraft, At, notifyVars
  <2>2. ticket[t].status \in {"resolved", "awaiting_user"}
    BY <2>1 DEF Promised
  <2>3. ~Keeps(r, t)
    BY <2>1, <2>2, PlanIsEarned DEF Keeps, Decided
  <2> QED
    BY <2>1, <2>3 DEF Goal
<1>13. CASE SettleReply(r)
  <2>1. /\ run[r].pc = "settle" /\ run[r].plan.action # Ask
        /\ ticket'[t].status = "resolved"
    BY <1>13, <1>s DEF SettleReply, At, Statuses
  <2> QED
    BY <1>f, <2>1
<1>14. CASE WaitForUser(r)
  <2>1. run[r].pc = "wait" /\ ticket'[t].status = "awaiting_user"
    BY <1>14, <1>s DEF WaitForUser, At, Statuses
  <2>2. run[r].plan.action = Ask
    BY <2>1 DEF PlanInv, PlanHolds
  <2> QED
    BY <1>f, <2>1, <2>2
<1>15. CASE (CheckNotice(r) \/ QueueNotice(r)) /\ UNCHANGED runVars
  BY <1>15 DEF CheckNotice, QueueNotice, runVars, Goal
<1>16. ~Start(r)
  BY DEF Start, At
<1> QED
  BY <1>1, <1>2, <1>3, <1>4, <1>5, <1>6, <1>7, <1>8, <1>9, <1>10, <1>11, <1>12, <1>13, <1>14,
     <1>15, <1>16 DEF RunStep

\* A status stays covered while the mail is kept, the job waits and those who
\* keep it go on.
LEMMA CoverStays ==
  ASSUME TypeInv, NEW t \in Tickets, Covered(t), ticket'[t].status = ticket[t].status,
         mail \subseteq mail', job'[t].fresh + job'[t].stalled > 0 \/ job'[t] = job[t],
         \A o \in Runs : Keeps(o, t) => run'[o] = run[o]
  PROVE  Covered(t)'
<1>1. \A row \in mail : Fits(row, t) => Fits(row, t)'
  BY DEF Fits
<1>2. \A o \in Runs : Keeps(o, t) => Keeps(o, t)'
  BY DEF Keeps
<1> QED
  BY <1>1, <1>2 DEF Covered

\* Only its start takes a job, and no step of a run gives one up.
LEMMA RunLeavesJobs ==
  ASSUME NEW r \in Runs, RunStep(r)
  PROVE  /\ UNCHANGED lost
         /\ Start(r) \/ UNCHANGED job
         /\ run[r].pc = "idle" => Start(r) \/ (UNCHANGED run /\ UNCHANGED ticket)
<1>1. CASE Start(r)
  BY <1>1 DEF Start
<1>2. CASE Admit(r) \/ RecordAgentRun(r) \/ Park(r) \/ AskModel(r) \/ Answer(r)
  BY <1>2 DEF Admit, RecordAgentRun, Park, AskModel, Answer, At
<1>3. CASE DecideAndStamp(r) \/ Resume(r) \/ ProduceDraft(r) \/ WriteDraft(r)
  BY <1>3 DEF DecideAndStamp, Resume, ProduceDraft, WriteDraft, At
<1>4. CASE Escalate(r) \/ Told(r) \/ ParkDraft(r) \/ Act(r)
  BY <1>4 DEF Escalate, Told, ParkDraft, Act, At
<1>5. CASE SendReply(r)
  BY <1>5 DEF SendReply, At
<1>6. CASE SettleReply(r) \/ CountQuestion(r) \/ RefusedByConversation(r) \/ WaitForUser(r)
  BY <1>6 DEF SettleReply, CountQuestion, RefusedByConversation, WaitForUser, At
<1>7. CASE (CheckNotice(r) \/ QueueNotice(r)) /\ UNCHANGED runVars
  BY <1>7 DEF CheckNotice, QueueNotice, runVars
<1> QED
  BY <1>1, <1>2, <1>3, <1>4, <1>5, <1>6, <1>7 DEF RunStep

LEMMA RunKeepsPromises ==
  ASSUME TypeInv, NoticeInv, PlanInv, PromiseInv, NEW r \in Runs, RunStep(r), mail \subseteq mail',
         NEW t \in Tickets, Promised(t)'
  PROVE  Covered(t)'
<1>o. \A o \in Runs \ {r} : run'[o] = run[o]
  BY OtherRunsStay DEF TypeInv
<1>a. ASSUME ticket'[t] = ticket[t] PROVE Covered(t)
  BY <1>a, RunLeavesJobs DEF Promised, PromiseInv
<1>1. CASE Start(r)
  <2>1. ticket' = ticket /\ run[r].pc = "idle"
    BY <1>1 DEF Start, At, notifyVars
  <2>2. PICK u \in Tickets, stalled \in BOOLEAN :
          /\ job' = IF stalled THEN [job EXCEPT ![u].stalled = @ - 1]
                    ELSE [job EXCEPT ![u].fresh = @ - 1]
          /\ run' = [run EXCEPT ![r] = [Idle EXCEPT !.pc = "admit", !.ticket = u, !.stalled = stalled,
                                          !.merged = ticket[u].merged, !.rounds = clarify[u],
                                          !.seen = Len(versions)]]
    BY <1>1 DEF Start
  <2>3. run'[r].ticket = u /\ run'[r].pc = "admit"
    BY <2>2 DEF TypeInv, RunTypes, Idle
  <2>4. CASE u = t
    BY <2>3, <2>4 DEF Covered, Keeps
  <2>5. CASE u # t
    <3>1. job'[t] = job[t]
      BY <2>2, <2>5 DEF TypeInv, RunTypes
    <3>2. ~Keeps(r, t)
      BY <2>1 DEF Keeps
    <3> QED
      BY <1>a, <1>o, <2>1, <3>1, <3>2, CoverStays
  <2> QED
    BY <2>4, <2>5
<1>2. CASE ~Start(r)
  <2>1. UNCHANGED job
    BY <1>2, RunLeavesJobs
  <2>2. CASE run[r].pc = "idle"
    BY <1>2, <1>a, <2>1, <2>2, RunLeavesJobs, CoverStays
  <2>3. CASE run[r].pc # "idle" /\ run[r].ticket # t
    <3>1. ticket'[t] = ticket[t]
      BY <2>3, RunLeavesOtherTickets
    <3>2. ~Keeps(r, t)
      BY <2>3 DEF Keeps
    <3> QED
      BY <1>a, <1>o, <2>1, <3>1, <3>2, CoverStays
  <2>4. CASE run[r].pc # "idle" /\ run[r].ticket = t
    <3>1. \/ Keeps(r, t)'
          \/ \E row \in mail' : Fits(row, t)'
          \/ ticket'[t] = ticket[t] /\ ~Keeps(r, t)
          \/ ticket'[t] = ticket[t] /\ run'[r] = run[r]
      BY <2>4, RunKeepsOrLeaves
    <3>2. CASE Keeps(r, t)' \/ \E row \in mail' : Fits(row, t)'
      BY <3>2 DEF Covered
    <3>3. CASE ticket'[t] = ticket[t] /\ (~Keeps(r, t) \/ run'[r] = run[r])
      BY <1>a, <1>o, <2>1, <3>3, CoverStays
    <3> QED
      BY <3>1, <3>2, <3>3
  <2> QED
    BY <2>2, <2>3, <2>4
<1> QED
  BY <1>1, <1>2

\* What is no step of a run leaves the runs, or stops one and has its job
\* delivered again, unless it is given up.
LEMMA OthersLeaveRuns ==
  ASSUME TypeInv, [DeskNext]_allVars, ~(\E r \in scene.runs : RunStep(r))
  PROVE  \/ /\ UNCHANGED run /\ lost \subseteq lost'
            /\ \A t \in Tickets : job'[t] = job[t] \/ job'[t].fresh + job'[t].stalled > 0
         \/ \E r \in Runs : CrashRun(r)
<1> DEFINE Leaves == /\ UNCHANGED run /\ lost \subseteq lost'
                     /\ \A t \in Tickets : job'[t] = job[t] \/ job'[t].fresh + job'[t].stalled > 0
           Goal == Leaves \/ \E r \in Runs : CrashRun(r)
<1> SUFFICES Goal
  OBVIOUS
<1>a. UNCHANGED <<run, lost, job>> => Goal
  OBVIOUS
<1>1. ASSUME NEW r \in scene.runs, CrashRun(r) PROVE Goal
  BY <1>1, ScenesAreTyped DEF TypeInv
<1>2. ASSUME NEW t \in Tickets, Retriage(t) PROVE Goal
  <2>1. \A u \in Tickets : job'[u] = job[u] \/ job'[u].fresh + job'[u].stalled > 0
    BY <1>2 DEF Retriage, TypeInv, RunTypes
  <2> QED
    BY <1>2, <2>1 DEF Retriage
<1>3. ASSUME NEW t \in Tickets, Answered(t) \/ MergeTicket(t) PROVE Goal
  BY <1>3, <1>a DEF Answered, MergeTicket, runVars
<1>4. CASE CommitSettings \/ PassHour
  <2>1. UNCHANGED <<run, lost, job>>
    BY <1>4 DEF CommitSettings, PassHour, runVars
  <2> QED
    BY <1>a, <2>1
<1>5. CASE NotifyNext /\ UNCHANGED runVars
  BY <1>5, <1>a DEF runVars
<1>6. CASE Desks
  BY <1>6, <1>a, DeskStepTypes DEF runVars
<1>7. ASSUME NEW w \in Writers, Writes(w) PROVE Goal
  BY <1>7, <1>a, WriteTypes
<1>8. CASE UNCHANGED allVars
  BY <1>8, <1>a DEF allVars, vars, runVars
<1> HIDE DEF Goal
<1>9. CASE Next
  BY <1>1, <1>2, <1>3, <1>4, <1>5, <1>9 DEF Next
<1> QED
  BY <1>6, <1>7, <1>8, <1>9, DeskNextSplits

LEMMA CrashKeepsPromises ==
  ASSUME TypeInv, NoticeInv, PromiseInv, NEW r \in Runs, CrashRun(r), NEW t \in Tickets, Promised(t)'
  PROVE  Covered(t)'
<1>1. /\ run' = [run EXCEPT ![r] = Idle] /\ UNCHANGED <<ticket, mail>> /\ run[r].pc # "idle"
      /\ IF run[r].stalled THEN lost' = lost \cup {TicketOf(r)} /\ UNCHANGED job
         ELSE job' = [job EXCEPT ![TicketOf(r)].stalled = @ + 1] /\ UNCHANGED lost
  BY DEF CrashRun, Ends, At
<1>2. Promised(t)
  BY <1>1 DEF Promised
<1>3. Covered(t)
  BY <1>2 DEF PromiseInv
<1>4. \A o \in Runs \ {r} : run'[o] = run[o]
  BY <1>1 DEF TypeInv, RunTypes
<1>5. CASE run[r].ticket = t
  <2>1. ~run[r].stalled
    BY <1>1, <1>5 DEF Promised, TicketOf
  <2>2. job' = [job EXCEPT ![t].stalled = @ + 1]
    BY <1>1, <1>5, <2>1 DEF TicketOf
  <2>3. job'[t].fresh \in Nat /\ job'[t].stalled = job[t].stalled + 1 /\ job[t].stalled \in Nat
    BY <2>2 DEF TypeInv, RunTypes
  <2>4. job'[t].fresh + job'[t].stalled > 0
    BY <2>3
  <2> QED
    BY <2>4 DEF Covered
<1>6. CASE run[r].ticket # t
  <2>1. job'[t] = job[t]
    BY <1>1, <1>6 DEF TypeInv, RunTypes, TicketOf
  <2>2. ~Keeps(r, t)
    BY <1>6 DEF Keeps
  <2> QED
    BY <1>1, <1>3, <1>4, <2>1, <2>2, CoverStays
<1> QED
  BY <1>5, <1>6

LEMMA PromiseStart == DeskInit => PromiseInv
<1> SUFFICES ASSUME DeskInit PROVE PromiseInv
  OBVIOUS
<1>1. \A t \in Tickets : ticket[t].by # "agent"
  BY DEF DeskInit, Init, NotifyStart
<1>2. \A r \in Runs : run[r].pc = "idle"
  BY DEF DeskInit, Init, PipelineStart, Idle
<1> QED
  BY <1>1, <1>2 DEF PromiseInv, Promised, ReplyIsThere, MergeStands

LEMMA PromisesMove ==
  ASSUME TypeInv, NoticeInv, PlanInv, PromiseInv, [DeskNext]_allVars
  PROVE  PromiseInv'
<1>m. mail \subseteq mail'
  BY StepMoves, MailMovesKeep
<1>1. ASSUME NEW r \in Runs, RunStep(r)
      PROVE  PromiseInv'
  <2>1. \A t \in Tickets : Promised(t)' => Covered(t)'
    BY <1>1, <1>m, RunKeepsPromises
  <2>2. ReplyIsThere(r)' /\ MergeStands(r)'
    BY <1>1, <1>m, RepliesStay, MergesStand DEF PromiseInv
  <2>3. ASSUME NEW o \in Runs \ {r} PROVE ReplyIsThere(o)' /\ MergeStands(o)'
    <3>1. run'[o] = run[o]
      BY <1>1, OtherRunsStay DEF TypeInv
    <3>2. ReplyIsThere(o) /\ MergeStands(o)
      BY DEF PromiseInv
    <3>3. run[o].pc # "idle" => run[o].ticket \in Tickets
      BY DEF TypeInv, RunsAreOn
    <3>4. \A t \in Tickets : ticket'[t].merged = ticket[t].merged
      BY <1>1, RunLeavesOtherTickets
    <3>5. ReplyIsThere(o)'
      BY <1>m, <3>1, <3>2 DEF ReplyIsThere
    <3>6. MergeStands(o)'
      BY <3>1, <3>2, <3>3, <3>4 DEF MergeStands
    <3> QED
      BY <3>5, <3>6
  <2> QED
    BY <2>1, <2>2, <2>3 DEF PromiseInv
<1>2. CASE ~(\E r \in scene.runs : RunStep(r))
  <2>1. \A t \in Tickets : /\ SameStatus(t) \/ ticket'[t].by # "agent"
                           /\ ticket[t].merged => ticket'[t].merged
    BY <1>2, OthersLeaveStatus
  <2>2. ASSUME NEW o \in Runs, run'[o] = run[o] \/ run'[o] = Idle
        PROVE  ReplyIsThere(o)' /\ MergeStands(o)'
    <3>1. ReplyIsThere(o) /\ MergeStands(o)
      BY DEF PromiseInv
    <3>2. CASE run'[o] = run[o]
      <4>1. run[o].pc # "idle" => run[o].ticket \in Tickets
        BY DEF TypeInv, RunsAreOn
      <4>2. ReplyIsThere(o)'
        BY <1>m, <3>1, <3>2 DEF ReplyIsThere
      <4>3. MergeStands(o)'
        BY <2>1, <3>1, <3>2, <4>1 DEF MergeStands
      <4> QED
        BY <4>2, <4>3
    <3>3. CASE run'[o] = Idle
      BY <3>3 DEF ReplyIsThere, MergeStands, Idle
    <3> QED
      BY <2>2, <3>2, <3>3
  <2>3. CASE UNCHANGED run /\ lost \subseteq lost'
             /\ \A t \in Tickets : job'[t] = job[t] \/ job'[t].fresh + job'[t].stalled > 0
    <3>1. ASSUME NEW t \in Tickets, Promised(t)' PROVE Covered(t)'
      <4>1. SameStatus(t)
        BY <2>1, <3>1 DEF Promised
      <4>2. Covered(t)
        BY <2>3, <3>1, <4>1 DEF Promised, SameStatus, PromiseInv
      <4> QED
        BY <1>m, <2>3, <4>1, <4>2, CoverStays DEF SameStatus
    <3> QED
      BY <2>2, <2>3, <3>1 DEF PromiseInv
  <2>4. ASSUME NEW r \in Runs, CrashRun(r) PROVE PromiseInv'
    <3>1. \A t \in Tickets : Promised(t)' => Covered(t)'
      BY <2>4, CrashKeepsPromises
    <3>2. \A o \in Runs : run'[o] = run[o] \/ run'[o] = Idle
      BY <2>4 DEF CrashRun, Ends, TypeInv, RunTypes
    <3> QED
      BY <2>2, <3>1, <3>2 DEF PromiseInv
  <2> QED
    BY <1>2, <2>3, <2>4, OthersLeaveRuns
<1> QED
  BY <1>1, <1>2, ScenesAreTyped DEF TypeInv

LEMMA PromisesHold == DeskSpec => [](TypeInv /\ PlanInv /\ PromiseInv)
<1>1. DeskInit => PromiseInv
  BY PromiseStart
<1>2. /\ TypeInv /\ NoticeInv /\ PlanInv /\ PromiseInv /\ [DeskNext]_allVars
      => PromiseInv'
  BY PromisesMove
<1> QED
  BY <1>1, <1>2, NoticesHold, PlansHold, PTL DEF DeskSpec

\* A ticket the agent has left resolved, or waiting for its requester, has the
\* reply or the question in the queue, or a run on it or a job that will put it
\* right, whatever crashes, overlaps and changes under it; unless its job was
\* given up (pipeline.ts:246, where the status is written first).
THEOREM PromisesStand == DeskSpec => []PromisesAreKept
<1>1. PromiseInv => PromisesAreKept
  BY DEF PromiseInv, Promised, Covered, Keeps, PromisesAreKept
<1> QED
  BY <1>1, PromisesHold, PTL

(***************************************************************************)
(* The versions of a fix.                                                  *)
(***************************************************************************)

LEMMA SmallerCounts ==
  ASSUME NEW S, IsFiniteSet(S), NEW T, T \subseteq S
  PROVE  /\ IsFiniteSet(T) /\ Cardinality(T) \in Nat /\ Cardinality(S) \in Nat
         /\ Cardinality(T) <= Cardinality(S)
  BY FS_Subset, FS_CardinalityType

LEMMA CountsOneMore ==
  ASSUME NEW S, IsFiniteSet(S), NEW T, NEW x, T \subseteq S \cup {x}
  PROVE  IsFiniteSet(T) /\ Cardinality(T) \in Nat /\ Cardinality(T) <= Cardinality(S) + 1
<1>1. Cardinality(S) \in Nat
  BY FS_CardinalityType
<1>2. /\ IsFiniteSet(S \cup {x})
      /\ Cardinality(S \cup {x}) = IF x \in S THEN Cardinality(S) ELSE Cardinality(S) + 1
  BY FS_AddElement
<1>3. IsFiniteSet(T) /\ Cardinality(T) \in Nat /\ Cardinality(T) <= Cardinality(S \cup {x})
  BY <1>2, SmallerCounts
<1> QED
  BY <1>1, <1>2, <1>3

\* Nothing in the knowledge base changes and nobody begins to replace.
LEMMA FixesRest ==
  ASSUME FixInv, UNCHANGED kb,
         \A w \in Writers : writer'[w].pc = "ingest" => writer'[w] = writer[w]
  PROVE  FixInv'
<1>1. \A fix : Live(fix)' = Live(fix)
  BY DEF Live
<1>2. ASSUME NEW fix \in {FixOf[t] : t \in Tickets}, NEW ws \in SUBSET Replacing(fix)'
      PROVE  Cardinality(Live(fix)' \ NearTo(ws)') + Cardinality(ws) <= Cardinality(Writers)
  <2>1. \A w \in ws : w \in Writers /\ writer'[w].pc = "ingest" /\ FixFor(w)' = fix
    BY DEF Replacing
  <2>2. \A w \in ws : writer'[w] = writer[w]
    BY <2>1
  <2>3. ws \in SUBSET Replacing(fix)
    BY <2>1, <2>2 DEF Replacing, FixFor
  <2>4. NearTo(ws)' = NearTo(ws)
    BY <2>2 DEF NearTo
  <2>5. Cardinality(Live(fix) \ NearTo(ws)) + Cardinality(ws) <= Cardinality(Writers)
    BY <2>3 DEF FixInv
  <2> QED
    BY <1>1, <2>4, <2>5
<1>3. \A w \in Writers : writer'[w].pc = "ingest" =>
        \A doc \in writer'[w].near : doc.fix = FixFor(w)' /\ doc.live
  BY DEF FixInv, FixFor
<1>4. \A doc \in kb' : Live(doc.fix)' # {}
  BY <1>1 DEF FixInv
<1> QED
  BY <1>2, <1>3, <1>4 DEF FixInv

LEMMA NeighboursAreReplaced ==
  ASSUME TypeInv, FixInv, NEW w \in Writers, FindNeighbours(w)
  PROVE  FixInv'
<1>0. /\ writer[w].pc = "look" /\ UNCHANGED kb
      /\ writer' = [writer EXCEPT ![w].near = Live(FixFor(w)), ![w].pc = "ingest"]
  BY DEF FindNeighbours
<1>1. \A fix : Live(fix)' = Live(fix)
  BY <1>0 DEF Live
<1> DEFINE found == Live(FixFor(w))
           x == [writer[w] EXCEPT !.near = found, !.pc = "ingest"]
<1> HIDE DEF found
<1>2. writer' = [writer EXCEPT ![w] = x]
  BY <1>0 DEF TypeInv, DeskTypes, found
<1>3. x.near = found /\ x.pc = "ingest" /\ x.ticket = writer[w].ticket
  BY DEF TypeInv, DeskTypes, WriterType
<1> HIDE DEF x
<1>4. writer'[w] = x /\ \A v \in Writers \ {w} : writer'[v] = writer[v]
  BY <1>2 DEF TypeInv, DeskTypes
<1>5. FixFor(w)' = FixFor(w) /\ \A v \in Writers \ {w} : FixFor(v)' = FixFor(v)
  BY <1>3, <1>4 DEF FixFor
<1>6. \A v \in Writers : writer'[v].pc = "ingest" =>
        \A doc \in writer'[v].near : doc.fix = FixFor(v)' /\ doc.live
  BY <1>3, <1>4, <1>5 DEF FixInv, Live, found
<1>7. ASSUME NEW fix \in {FixOf[t] : t \in Tickets}, NEW ws \in SUBSET Replacing(fix)'
      PROVE  Cardinality(Live(fix)' \ NearTo(ws)') + Cardinality(ws) <= Cardinality(Writers)
  <2>0. ws \subseteq Writers /\ \A v \in ws : writer'[v].pc = "ingest" /\ FixFor(v)' = fix
    BY DEF Replacing
  <2>1. CASE w \in ws
    <3>1. FixFor(w) = fix
      BY <1>5, <2>0, <2>1
    <3>2. Live(fix) \subseteq NearTo(ws)'
      BY <1>3, <1>4, <2>1, <3>1 DEF NearTo, found
    <3>3. Live(fix)' \ NearTo(ws)' = {}
      BY <1>1, <3>2
    <3>4. Cardinality(ws) \in Nat /\ Cardinality(Writers) \in Nat
          /\ Cardinality(ws) <= Cardinality(Writers)
      BY <2>0, SmallerCounts, PipelineAssumption
    <3> QED
      BY <3>3, <3>4, FS_EmptySet
  <2>2. CASE w \notin ws
    <3>1. ws \in SUBSET Replacing(fix)
      BY <1>4, <1>5, <2>0, <2>2 DEF Replacing
    <3>2. NearTo(ws)' = NearTo(ws)
      BY <1>4, <2>0, <2>2 DEF NearTo
    <3>3. Cardinality(Live(fix) \ NearTo(ws)) + Cardinality(ws) <= Cardinality(Writers)
      BY <3>1 DEF FixInv
    <3> QED
      BY <1>1, <3>2, <3>3
  <2> QED
    BY <2>1, <2>2
<1>8. \A doc \in kb' : Live(doc.fix)' # {}
  BY <1>0, <1>1 DEF FixInv
<1>9. IsFiniteSet(kb')
  BY <1>0 DEF FixInv
<1> QED
  BY <1>6, <1>7, <1>8, <1>9 DEF FixInv

LEMMA MarkedAreFinite ==
  ASSUME NEW S, IsFiniteSet(S)
  PROVE  IsFiniteSet({[doc EXCEPT !.live = FALSE] : doc \in S})
<1> DEFINE T == {[doc EXCEPT !.live = FALSE] : doc \in S}
           f == [doc \in S |-> [doc EXCEPT !.live = FALSE]]
<1>1. f \in [S -> T]
  OBVIOUS
<1>2. \A y \in T : \E doc \in S : f[doc] = y
  OBVIOUS
<1>3. f \in Surjection(S, T)
  BY <1>1, <1>2 DEF Surjection
<1> QED
  BY <1>3, FS_Surjection

\* New words retire what was near: one version comes, and one write-back is done.
LEMMA ReplacementStands ==
  ASSUME TypeInv, FixInv, NEW w \in Writers, IngestDocument(w)
  PROVE  FixInv'
<1>p. PICK fix : fix = FixFor(w)
  OBVIOUS
<1> DEFINE words == writer[w].words
           retired == {doc \in kb : \E old \in writer[w].near : old.fix = doc.fix /\ old.words = doc.words}
           dead == {[doc EXCEPT !.live = FALSE] : doc \in retired}
           new == [fix |-> fix, words |-> words, live |-> TRUE]
<1>0. writer[w].pc = "ingest" /\ writer' = [writer EXCEPT ![w] = Resting]
  BY DEF IngestDocument, Rests
<1>1. writer'[w].pc = "idle" /\ \A v \in Writers \ {w} : writer'[v] = writer[v]
  BY <1>0 DEF TypeInv, DeskTypes, Resting
<1>2. kb' = kb \/ kb' = (kb \ retired) \cup dead \cup {new}
  BY <1>p DEF IngestDocument
<1>3. new.fix = fix /\ new.live
  OBVIOUS
<1>4. \A doc \in dead : doc.fix = fix /\ ~doc.live
  <2>1. \A doc \in retired : doc \in DocType /\ doc.fix = fix
    BY <1>0, <1>p DEF FixInv, TypeInv, DeskTypes
  <2> QED
    BY <2>1 DEF DocType
<1>5. \A doc \in retired : doc.fix = fix
  BY <1>0, <1>p DEF FixInv
<1>6. writer[w].near \cap kb \subseteq retired
  OBVIOUS
<1>7. retired \subseteq kb
  OBVIOUS
<1>8. IsFiniteSet(retired) => IsFiniteSet(dead)
  BY MarkedAreFinite
<1>9. IsFiniteSet(kb')
  <2>1. IsFiniteSet(kb)
    BY DEF FixInv
  <2>2. IsFiniteSet(retired) /\ IsFiniteSet(kb \ retired)
    BY <1>7, <2>1, SmallerCounts
  <2>3. IsFiniteSet((kb \ retired) \cup dead)
    BY <1>8, <2>2, FS_Union
  <2>4. IsFiniteSet((kb \ retired) \cup dead \cup {new})
    BY <2>3, FS_AddElement
  <2> QED
    BY <1>2, <2>1, <2>4
<1>f. fix \in {FixOf[t] : t \in Tickets}
  BY <1>0, <1>p DEF TypeInv, DeskTypes, Resting, FixFor
<1> HIDE DEF new, dead, retired
<1>10. CASE kb' = kb
  BY <1>1, <1>10, FixesRest
<1>11. CASE kb' = (kb \ retired) \cup dead \cup {new}
  <2>1. \A other : other # fix => Live(other)' = Live(other)
    BY <1>3, <1>4, <1>5, <1>11 DEF Live
  <2>2. new \in Live(fix)'
    BY <1>3, <1>11 DEF Live
  <2>3. Live(fix)' \subseteq (Live(fix) \ writer[w].near) \cup {new}
    BY <1>4, <1>6, <1>11 DEF Live
  <2>4. \A doc \in kb' : Live(doc.fix)' # {}
    BY <1>3, <1>4, <1>11, <2>1, <2>2 DEF FixInv
  <2>5. \A v \in Writers : writer'[v].pc = "ingest" =>
          \A doc \in writer'[v].near : doc.fix = FixFor(v)' /\ doc.live
    BY <1>1 DEF FixInv, FixFor
  <2>6. ASSUME NEW other \in {FixOf[t] : t \in Tickets}, NEW ws \in SUBSET Replacing(other)'
        PROVE  Cardinality(Live(other)' \ NearTo(ws)') + Cardinality(ws) <= Cardinality(Writers)
    <3>1. \A v \in ws : v \in Writers /\ v # w /\ writer'[v].pc = "ingest" /\ FixFor(v)' = other
      BY <1>1 DEF Replacing
    <3>2. \A v \in ws : writer'[v] = writer[v]
      BY <1>1, <3>1
    <3>3. ws \in SUBSET Replacing(other)
      BY <3>1, <3>2 DEF Replacing, FixFor
    <3>4. NearTo(ws)' = NearTo(ws)
      BY <3>2 DEF NearTo
    <3>5. CASE other # fix
      BY <2>1, <3>3, <3>4, <3>5 DEF FixInv
    <3>6. CASE other = fix
      <4> DEFINE more == ws \cup {w}
                 rest == Live(fix) \ NearTo(more)
                 left == Live(fix)' \ NearTo(ws)
      <4>1. more \in SUBSET Replacing(fix)
        BY <1>0, <1>p, <3>3, <3>6 DEF Replacing
      <4>2. Cardinality(rest) + Cardinality(more) <= Cardinality(Writers)
        BY <1>f, <4>1 DEF FixInv
      <4>3. IsFiniteSet(ws) /\ Cardinality(ws) \in Nat /\ Cardinality(Writers) \in Nat
        BY <3>1, SmallerCounts, PipelineAssumption
      <4>4. Cardinality(more) = Cardinality(ws) + 1
        BY <3>1, <4>3, FS_AddElement
      <4>5. IsFiniteSet(rest) /\ Cardinality(rest) \in Nat
        <5>1. rest \subseteq kb /\ IsFiniteSet(kb)
          BY DEF FixInv, Live
        <5> QED
          BY <5>1, SmallerCounts
      <4>6. NearTo(more) = NearTo(ws) \cup writer[w].near
        BY DEF NearTo
      <4>7. left \subseteq rest \cup {new}
        BY <2>3, <4>6
      <4> HIDE DEF rest, left, more
      <4>8. Cardinality(left) \in Nat /\ Cardinality(left) <= Cardinality(rest) + 1
        BY <4>5, <4>7, CountsOneMore
      <4>9. Cardinality(left) + Cardinality(ws) <= Cardinality(Writers)
        BY <4>2, <4>3, <4>4, <4>5, <4>8
      <4> QED
        BY <3>4, <3>6, <4>9 DEF left
    <3> QED
      BY <3>5, <3>6
  <2> QED
    BY <1>9, <2>4, <2>5, <2>6 DEF FixInv
<1> QED
  BY <1>2, <1>10, <1>11

LEMMA FixesMove ==
  ASSUME TypeInv, FixInv, [DeskNext]_allVars
  PROVE  FixInv'
<1>1. CASE UNCHANGED <<writer, kb>>
  BY <1>1, FixesRest
<1>2. ASSUME NEW w \in Writers, Writes(w) PROVE FixInv'
  <2>1. ASSUME UNCHANGED kb, NEW x, x.pc # "ingest",
               writer' = [writer EXCEPT ![w] = x] \/ writer' = writer
        PROVE  FixInv'
    BY <2>1, FixesRest DEF TypeInv, DeskTypes
  <2>2. Resting.pc # "ingest"
    BY DEF Resting
  <2>3. CASE StartWriteback(w)
    <3>1. PICK t : writer' = IF SpendAllows
                             THEN [writer EXCEPT ![w] = [Resting EXCEPT !.pc = "tell", !.ticket = t]]
                             ELSE writer
      BY <2>3 DEF StartWriteback
    <3> DEFINE x == [Resting EXCEPT !.pc = "tell", !.ticket = t]
    <3>2. x.pc # "ingest" /\ (writer' = [writer EXCEPT ![w] = x] \/ writer' = writer)
      BY <3>1 DEF Resting
    <3> HIDE DEF x
    <3> QED
      BY <2>1, <2>3, <3>2 DEF StartWriteback
  <2>4. CASE TellFix(w)
    <3>1. ASSUME NEW words, writer' = [writer EXCEPT ![w].words = words, ![w].pc = "look"] PROVE FixInv'
      <4> DEFINE x == [writer[w] EXCEPT !.words = words, !.pc = "look"]
      <4>1. x.pc # "ingest" /\ writer' = [writer EXCEPT ![w] = x]
        BY <3>1 DEF TypeInv, DeskTypes, WriterType
      <4> HIDE DEF x
      <4> QED
        BY <2>1, <2>4, <4>1 DEF TellFix
    <3> QED
      BY <2>1, <2>2, <2>4, <3>1 DEF TellFix, Rests
  <2>5. CASE WritebackFails(w)
    BY <2>1, <2>2, <2>5 DEF WritebackFails, Rests
  <2> QED
    BY <1>2, <2>3, <2>4, <2>5, NeighboursAreReplaced, ReplacementStands DEF Writes
<1>3. CASE Next /\ UNCHANGED deskVars
  BY <1>1, <1>3 DEF deskVars
<1>4. CASE Desks
  BY <1>1, <1>4, DeskStepTypes
<1>5. CASE UNCHANGED allVars
  BY <1>1, <1>5 DEF allVars, deskVars
<1> QED
  BY <1>2, <1>3, <1>4, <1>5, DeskNextSplits

LEMMA FixStart == DeskInit => FixInv
<1> SUFFICES ASSUME DeskInit PROVE FixInv
  OBVIOUS
<1>1. kb = {} /\ \A w \in Writers : writer[w].pc = "idle"
  BY DEF DeskInit, Resting
<1>2. ASSUME NEW fix, NEW ws \in SUBSET Replacing(fix)
      PROVE  Cardinality(Live(fix) \ NearTo(ws)) + Cardinality(ws) <= Cardinality(Writers)
  <2>1. Live(fix) \ NearTo(ws) = {} /\ ws = {}
    BY <1>1 DEF Live, Replacing
  <2>2. Cardinality(Live(fix) \ NearTo(ws)) = 0 /\ Cardinality(ws) = 0
    BY <2>1, FS_EmptySet
  <2>3. Cardinality(Writers) \in Nat
    BY FS_CardinalityType, PipelineAssumption
  <2> QED
    BY <2>2, <2>3
<1> QED
  BY <1>1, <1>2, FS_EmptySet DEF FixInv

LEMMA FixesHold == DeskSpec => [](TypeInv /\ FixInv)
<1>1. DeskInit => TypeInv /\ FixInv
  BY InitTypes, FixStart
<1>2. TypeInv /\ FixInv /\ [DeskNext]_allVars => (TypeInv /\ FixInv)'
  BY StepTypes, FixesMove
<1> QED
  BY <1>1, <1>2, PTL DEF DeskSpec

\* However many write-backs run side by side, in whatever order and with
\* whatever crashes and repeats, a fix once written back keeps a version an
\* answer can be grounded in, and never more of them than there are write-backs
\* at once (writeback.ts:88, ingest.ts:51).
THEOREM FixesStayCurrent == DeskSpec => []FixesAreCurrent
<1>1. TypeInv /\ FixInv => FixesAreCurrent
  <2> SUFFICES ASSUME TypeInv, FixInv, NEW doc \in kb
               PROVE  Cardinality(Live(doc.fix)) \in 1 .. Cardinality(Writers)
    BY DEF FixesAreCurrent
  <2>1. doc.fix \in {FixOf[t] : t \in Tickets} /\ Live(doc.fix) # {}
    BY DEF TypeInv, DeskTypes, DocType, FixInv
  <2>2. IsFiniteSet(Live(doc.fix)) /\ Cardinality(Live(doc.fix)) \in Nat
    BY SmallerCounts DEF FixInv, Live
  <2>3. Cardinality(Live(doc.fix)) # 0
    BY <2>1, <2>2, FS_EmptySet
  <2>4. Cardinality(Live(doc.fix) \ NearTo({})) + Cardinality({}) <= Cardinality(Writers)
    BY <2>1 DEF FixInv
  <2>5. Live(doc.fix) \ NearTo({}) = Live(doc.fix)
    BY DEF NearTo
  <2>6. Cardinality({}) = 0 /\ Cardinality(Writers) \in Nat
    BY FS_EmptySet, FS_CardinalityType, PipelineAssumption
  <2> QED
    BY <2>2, <2>3, <2>4, <2>5, <2>6
<1> QED
  BY <1>1, FixesHold, PTL

(***************************************************************************)
(* The limits.                                                             *)
(***************************************************************************)

LEMMA RunsAreFew ==
  /\ Together \in Nat
  /\ \A rs \in SUBSET Runs : /\ IsFiniteSet(rs) /\ Cardinality(rs) \in Nat
                             /\ Cardinality(rs) <= Together + 1
<1>1. Cardinality(Runs) \in Nat \ {0}
  BY PipelineAssumption, FS_CardinalityType, FS_EmptySet
<1>2. ASSUME NEW rs \in SUBSET Runs
      PROVE  /\ IsFiniteSet(rs) /\ Cardinality(rs) \in Nat
             /\ Cardinality(rs) <= Cardinality(Runs)
  BY PipelineAssumption, SmallerCounts
<1> QED
  BY <1>1, <1>2 DEF Together

\* The settings a run has read are or were in force.
LEMMA LimitsAreInForce ==
  ASSUME TypeInv
  PROVE  /\ \A s \in InForce : /\ s.max_agent_runs_per_requester_hour \in Nat
                               /\ s.max_agent_runs_per_tenant_hour \in Nat
                               /\ s.max_clarify_rounds \in Nat
         /\ InForce # {}
         /\ \A r \in Runs : run[r].pc # "idle" => SettingsOf(r) \in InForce
<1>1. versions \in Seq(AllSettings) /\ DOMAIN versions = 1 .. Len(versions)
  BY DEF TypeInv, NotifyTypes
<1>2. InForce \subseteq AllSettings
  BY <1>1 DEF InForce
<1>3. \A s \in AllSettings : /\ s.max_agent_runs_per_requester_hour \in Nat
                             /\ s.max_agent_runs_per_tenant_hour \in Nat
                             /\ s.max_clarify_rounds \in Nat
  BY SettingsAreTyped DEF IsBusinessSettings
<1>4. InForce # {}
  <2>1. 1 \in DOMAIN versions
    BY <1>1, VersionsAreTyped DEF TypeInv
  <2>2. versions[1] \in InForce
    BY <2>1 DEF InForce
  <2> QED
    BY <2>2
<1>5. \A r \in Runs : run[r].pc # "idle" => SettingsOf(r) \in InForce
  BY <1>1 DEF TypeInv, RunsAreOn, SettingsOf, InForce
<1> QED
  BY <1>2, <1>3, <1>4, <1>5

LEMMA InForceGrows ==
  ASSUME TypeInv, [DeskNext]_allVars
  PROVE  /\ InForce \subseteq InForce'
         /\ \A r \in Runs : run[r].pc # "idle" =>
              versions'[run[r].seen] = SettingsOf(r)
<1>0. TypeInv'
  BY StepTypes
<1>1. /\ DOMAIN versions = 1 .. Len(versions) /\ DOMAIN versions' = 1 .. Len(versions')
  BY <1>0 DEF TypeInv, NotifyTypes
<1>2. InForce \subseteq InForce'
  BY <1>1, VersionsGrow DEF InForce
<1>3. \A r \in Runs : run[r].pc # "idle" => versions'[run[r].seen] = SettingsOf(r)
  BY VersionsGrow DEF TypeInv, RunsAreOn, SettingsOf
<1> QED
  BY <1>2, <1>3

\* Which step of a run adds to which count.
LEMMA RunCounts ==
  ASSUME NEW r \in Runs, RunStep(r)
  PROVE  /\ RecordAgentRun(r) \/ UNCHANGED agentRuns
         /\ Answer(r) \/ WriteDraft(r) \/ UNCHANGED spent
         /\ CountQuestion(r) \/ UNCHANGED clarify
         /\ RefusedByConversation(r) \/ UNCHANGED slips
         /\ SendReply(r) \/ QueueNotice(r) \/ UNCHANGED mail
<1>1. CASE Start(r) \/ Admit(r) \/ RecordAgentRun(r) \/ Park(r) \/ AskModel(r) \/ Answer(r)
  BY <1>1 DEF Start, Admit, RecordAgentRun, Park, AskModel, Answer, notifyVars
<1>2. CASE DecideAndStamp(r) \/ Resume(r) \/ ProduceDraft(r) \/ WriteDraft(r)
  BY <1>2 DEF DecideAndStamp, Resume, ProduceDraft, WriteDraft, notifyVars
<1>3. CASE Escalate(r) \/ Told(r) \/ ParkDraft(r) \/ Act(r)
  BY <1>3 DEF Escalate, Told, ParkDraft, Act, notifyVars
<1>4. CASE SendReply(r)
  BY <1>4 DEF SendReply
<1>5. CASE SettleReply(r) \/ CountQuestion(r) \/ RefusedByConversation(r) \/ WaitForUser(r)
  BY <1>5 DEF SettleReply, CountQuestion, RefusedByConversation, WaitForUser, notifyVars
<1>6. CASE (CheckNotice(r) \/ QueueNotice(r)) /\ UNCHANGED runVars
  BY <1>6 DEF CheckNotice, runVars
<1> QED
  BY <1>1, <1>2, <1>3, <1>4, <1>5, <1>6 DEF RunStep

\* What is no step of a run counts nothing, but the calls of the write-back and
\* the question a crash leaves uncounted.
LEMMA OthersCount ==
  ASSUME TypeInv, [DeskNext]_allVars, ~(\E r \in scene.runs : RunStep(r))
  PROVE  /\ UNCHANGED clarify
         /\ \/ /\ UNCHANGED <<run, slips, agentRuns, spent>>
               /\ UNCHANGED writer \/ \E w \in Writers : Writes(w)
            \/ \E w \in Writers : TellFix(w)
            \/ PassHour /\ UNCHANGED writer
            \/ \E r \in Runs : CrashRun(r) /\ UNCHANGED writer
<1> DEFINE Counts == /\ UNCHANGED <<run, slips, agentRuns, spent>>
                     /\ UNCHANGED writer \/ \E w \in Writers : Writes(w)
           Goal == /\ UNCHANGED clarify
                   /\ \/ Counts
                      \/ \E w \in Writers : TellFix(w)
                      \/ PassHour /\ UNCHANGED writer
                      \/ \E r \in Runs : CrashRun(r) /\ UNCHANGED writer
<1> SUFFICES Goal
  OBVIOUS
<1>a. UNCHANGED <<run, slips, agentRuns, spent, clarify, writer>> => Goal
  OBVIOUS
<1>1. ASSUME NEW r \in scene.runs, CrashRun(r), UNCHANGED writer PROVE Goal
  BY <1>1, ScenesAreTyped DEF TypeInv, CrashRun
<1>2. ASSUME NEW t \in Tickets, Retriage(t) \/ Answered(t) \/ MergeTicket(t), UNCHANGED writer
      PROVE  Goal
  BY <1>2, <1>a DEF Retriage, Answered, MergeTicket, runVars
<1>3. CASE CommitSettings /\ UNCHANGED writer
  BY <1>3, <1>a DEF CommitSettings, runVars
<1>4. CASE PassHour /\ UNCHANGED writer
  BY <1>4 DEF PassHour
<1>5. CASE NotifyNext /\ UNCHANGED runVars /\ UNCHANGED writer
  BY <1>5, <1>a DEF runVars
<1>6. CASE Desks
  BY <1>6, <1>a, DeskStepTypes DEF runVars
<1>7. ASSUME NEW w \in Writers, Writes(w) PROVE Goal
  <2>1. UNCHANGED <<run, slips, agentRuns, clarify>>
    BY <1>7, WriteTypes
  <2>2. TellFix(w) \/ UNCHANGED spent
    BY <1>7 DEF Writes, StartWriteback, FindNeighbours, IngestDocument, WritebackFails, vars, runVars
  <2> QED
    BY <1>7, <2>1, <2>2
<1>8. CASE UNCHANGED allVars
  BY <1>8, <1>a DEF allVars, vars, runVars, deskVars
<1> HIDE DEF Goal
<1>9. CASE Next /\ UNCHANGED deskVars
  <2>1. UNCHANGED writer
    BY <1>9 DEF deskVars
  <2> QED
    BY <1>1, <1>2, <1>3, <1>4, <1>5, <1>9, <2>1 DEF Next
<1> QED
  BY <1>6, <1>7, <1>8, <1>9, DeskNextSplits

\* How the rows of the hour are counted.
LEMMA RequesterRunsAreTyped ==
  ASSUME RunTypes
  PROVE  /\ TenantRuns \in Nat
         /\ \A p \in People : IsFiniteSet({i \in DOMAIN agentRuns : agentRuns[i] = p})
                              /\ RequesterRuns(p) \in Nat
<1>1. Len(agentRuns) \in Nat /\ DOMAIN agentRuns = 1 .. Len(agentRuns)
  BY DEF RunTypes
<1>2. IsFiniteSet(1 .. Len(agentRuns))
  BY <1>1, FS_Interval
<1>3. ASSUME NEW p \in People
      PROVE  /\ IsFiniteSet({i \in DOMAIN agentRuns : agentRuns[i] = p})
             /\ Cardinality({i \in DOMAIN agentRuns : agentRuns[i] = p}) \in Nat
  BY <1>1, <1>2, SmallerCounts
<1> QED
  BY <1>1, <1>3 DEF TenantRuns, RequesterRuns

\* Nobody comes to record a run, and nothing is recorded.
LEMMA RatesRest ==
  ASSUME TypeInv, [DeskNext]_allVars, RequestersKeepTo, TenantKeepsTo,
         TenantRuns' \in Nat /\ TenantRuns' <= TenantRuns,
         \A p \in People : RequesterRuns(p)' \in Nat /\ RequesterRuns(p)' <= RequesterRuns(p),
         \A o \in Runs : run'[o].pc = "record" => run'[o] = run[o]
  PROVE  RequestersKeepTo' /\ TenantKeepsTo'
<1>1. InForce \subseteq InForce' /\ UNCHANGED Together
  BY InForceGrows DEF Together
<1>2. Recording' \subseteq Recording
  BY DEF Recording
<1>3. \A p : RecordingFor(p)' \subseteq RecordingFor(p)
  BY DEF RecordingFor, Recording, Requester, TicketOf
<1>4. TenantRuns \in Nat /\ \A p \in People : RequesterRuns(p) \in Nat
  BY RequesterRunsAreTyped DEF TypeInv
<1>5. TenantKeepsTo'
  <2>1. PICK s \in InForce :
          TenantRuns + Cardinality(Recording) <= s.max_agent_runs_per_tenant_hour + Together
    BY DEF TenantKeepsTo
  <2>2. /\ Cardinality(Recording) \in Nat /\ Cardinality(Recording') \in Nat
        /\ Cardinality(Recording') <= Cardinality(Recording)
    <3>1. Recording \in SUBSET Runs
      BY DEF Recording
    <3> QED
      BY <1>2, <3>1, RunsAreFew, SmallerCounts
  <2>3. s.max_agent_runs_per_tenant_hour \in Nat /\ Together \in Nat
    BY LimitsAreInForce, RunsAreFew
  <2>4. TenantRuns' + Cardinality(Recording') <= s.max_agent_runs_per_tenant_hour + Together
    BY <1>4, <2>1, <2>2, <2>3
  <2> QED
    BY <1>1, <2>4 DEF TenantKeepsTo
<1>6. ASSUME NEW p \in People
      PROVE  \E s \in InForce' : RequesterRuns(p)' + Cardinality(RecordingFor(p)')
               <= s.max_agent_runs_per_requester_hour + Together
  <2>1. PICK s \in InForce :
          RequesterRuns(p) + Cardinality(RecordingFor(p)) <= s.max_agent_runs_per_requester_hour + Together
    BY DEF RequestersKeepTo
  <2>2. /\ Cardinality(RecordingFor(p)) \in Nat /\ Cardinality(RecordingFor(p)') \in Nat
        /\ Cardinality(RecordingFor(p)') <= Cardinality(RecordingFor(p))
    <3>1. RecordingFor(p) \in SUBSET Runs
      BY DEF RecordingFor, Recording
    <3> QED
      BY <1>3, <3>1, RunsAreFew, SmallerCounts
  <2>3. s.max_agent_runs_per_requester_hour \in Nat /\ Together \in Nat
    BY LimitsAreInForce, RunsAreFew
  <2>4. RequesterRuns(p)' + Cardinality(RecordingFor(p)') <= s.max_agent_runs_per_requester_hour + Together
    BY <1>4, <2>1, <2>2, <2>3
  <2> QED
    BY <1>1, <2>4
<1> QED
  BY <1>1, <1>5, <1>6 DEF RequestersKeepTo

\* The run was admitted under limits it had looked at; whoever else records
\* meanwhile had looked too.
LEMMA AdmittedUnderLimits ==
  ASSUME TypeInv, [DeskNext]_allVars, RequestersKeepTo, TenantKeepsTo,
         NEW r \in Runs, Admit(r), RunStep(r)
  PROVE  RequestersKeepTo' /\ TenantKeepsTo'
<1>0. /\ UNCHANGED agentRuns /\ run[r].pc = "admit"
      /\ \A o \in Runs \ {r} : run'[o] = run[o]
  BY OtherRunsStay DEF Admit, At, TypeInv
<1>t. /\ TenantRuns \in Nat /\ TenantRuns' = TenantRuns
      /\ \A p \in People : RequesterRuns(p) \in Nat /\ RequesterRuns(p)' = RequesterRuns(p)
  BY <1>0, RequesterRunsAreTyped DEF TenantRuns, RequesterRuns, TypeInv
<1>1. CASE run'[r].pc = "record"
  <2>1. RateAllowed(r) /\ run'[r].ticket = run[r].ticket
    <3>1. run[r].merged \/ ~RateAllowed(r) => run'[r].pc # "record"
      BY <1>0 DEF Admit, TypeInv, RunTypes, RunType, Idle
    <3>2. run'[r].ticket = run[r].ticket
      BY <1>0, <1>1, ReadingStays DEF TypeInv, SameReading, Idle
    <3> QED
      BY <1>1, <3>1, <3>2
  <2>2. /\ InForce \subseteq InForce' /\ UNCHANGED Together
        /\ SettingsOf(r) \in InForce
    BY <1>0, InForceGrows, LimitsAreInForce DEF Together
  <2>3. /\ Together \in Nat /\ SettingsOf(r).max_agent_runs_per_tenant_hour \in Nat
        /\ SettingsOf(r).max_agent_runs_per_requester_hour \in Nat
    BY <2>2, RunsAreFew, LimitsAreInForce
  <2>4. TenantKeepsTo'
    <3>1. Recording' \in SUBSET Runs
      BY DEF Recording
    <3>2. Cardinality(Recording') \in Nat /\ Cardinality(Recording') <= Together + 1
      BY <3>1, RunsAreFew
    <3>3. TenantRuns' + Cardinality(Recording') <= SettingsOf(r).max_agent_runs_per_tenant_hour + Together
      BY <1>t, <2>1, <2>3, <3>2 DEF RateAllowed
    <3> QED
      BY <2>2, <3>3 DEF TenantKeepsTo
  <2>5. ASSUME NEW p \in People
        PROVE  \E s \in InForce' : RequesterRuns(p)' + Cardinality(RecordingFor(p)')
                 <= s.max_agent_runs_per_requester_hour + Together
    <3>1. CASE p = Requester(r)
      <4>1. RecordingFor(p)' \in SUBSET Runs
        BY DEF RecordingFor, Recording
      <4>2. Cardinality(RecordingFor(p)') \in Nat /\ Cardinality(RecordingFor(p)') <= Together + 1
        BY <4>1, RunsAreFew
      <4>3. RequesterRuns(p)' + Cardinality(RecordingFor(p)')
              <= SettingsOf(r).max_agent_runs_per_requester_hour + Together
        BY <1>t, <2>1, <2>3, <3>1, <4>2 DEF RateAllowed
      <4> QED
        BY <2>2, <4>3
    <3>2. CASE p # Requester(r)
      <4>1. \A o \in Runs : o \in RecordingFor(p)' <=> o \in RecordingFor(p)
        BY <1>0, <2>1, <3>2 DEF RecordingFor, Recording, Requester, TicketOf
      <4>2. RecordingFor(p)' = RecordingFor(p)
        BY <4>1 DEF RecordingFor, Recording
      <4>3. PICK s \in InForce :
              RequesterRuns(p) + Cardinality(RecordingFor(p))
                <= s.max_agent_runs_per_requester_hour + Together
        BY DEF RequestersKeepTo
      <4>4. RequesterRuns(p)' + Cardinality(RecordingFor(p)')
              <= s.max_agent_runs_per_requester_hour + Together
        BY <1>t, <4>2, <4>3
      <4> QED
        BY <2>2, <4>4
    <3> QED
      BY <3>1, <3>2
  <2> QED
    BY <2>2, <2>4, <2>5 DEF RequestersKeepTo
<1>2. CASE run'[r].pc # "record"
  BY <1>0, <1>t, <1>2, RatesRest
<1> QED
  BY <1>1, <1>2

LEMMA RecordedUnderLimits ==
  ASSUME TypeInv, [DeskNext]_allVars, RequestersKeepTo, TenantKeepsTo,
         NEW r \in Runs, RecordAgentRun(r), RunStep(r)
  PROVE  RequestersKeepTo' /\ TenantKeepsTo'
<1>0. /\ agentRuns' = Append(agentRuns, Requester(r)) /\ run[r].pc = "record"
      /\ run'[r].pc = "ask" /\ \A o \in Runs \ {r} : run'[o] = run[o]
  BY OtherRunsStay, RunLands DEF RecordAgentRun, At, TypeInv
<1>1. run[r].ticket \in Tickets /\ Requester(r) \in People
  BY <1>0, NotifyAssumption DEF TypeInv, RunsAreOn, Requester, TicketOf
<1>2. /\ agentRuns \in Seq(People) /\ Len(agentRuns) \in Nat
      /\ DOMAIN agentRuns = 1 .. Len(agentRuns)
  BY DEF TypeInv, RunTypes
<1>3. /\ Len(agentRuns') = Len(agentRuns) + 1 /\ DOMAIN agentRuns' = 1 .. Len(agentRuns) + 1
      /\ \A i \in 1 .. Len(agentRuns) : agentRuns'[i] = agentRuns[i]
      /\ agentRuns'[Len(agentRuns) + 1] = Requester(r)
  BY <1>0, <1>1, <1>2, AppendProperties
<1>4. InForce \subseteq InForce' /\ UNCHANGED Together /\ Together \in Nat
  BY InForceGrows, RunsAreFew DEF Together
<1>5. TenantKeepsTo'
  <2>1. PICK s \in InForce :
          TenantRuns + Cardinality(Recording) <= s.max_agent_runs_per_tenant_hour + Together
    BY DEF TenantKeepsTo
  <2>2. Recording \in SUBSET Runs /\ r \in Recording /\ Recording' = Recording \ {r}
    BY <1>0 DEF Recording
  <2>3. /\ Cardinality(Recording) \in Nat /\ Cardinality(Recording') \in Nat
        /\ Cardinality(Recording') = Cardinality(Recording) - 1
    BY <2>2, RunsAreFew, FS_RemoveElement
  <2>4. s.max_agent_runs_per_tenant_hour \in Nat
    BY LimitsAreInForce
  <2>5. TenantRuns' + Cardinality(Recording') <= s.max_agent_runs_per_tenant_hour + Together
    BY <1>2, <1>3, <2>1, <2>3, <2>4 DEF TenantRuns
  <2> QED
    BY <1>4, <2>5 DEF TenantKeepsTo
<1>6. ASSUME NEW p \in People
      PROVE  \E s \in InForce' : RequesterRuns(p)' + Cardinality(RecordingFor(p)')
               <= s.max_agent_runs_per_requester_hour + Together
  <2> DEFINE rows == {i \in DOMAIN agentRuns : agentRuns[i] = p}
  <2>1. PICK s \in InForce :
          RequesterRuns(p) + Cardinality(RecordingFor(p)) <= s.max_agent_runs_per_requester_hour + Together
    BY DEF RequestersKeepTo
  <2>2. IsFiniteSet(rows) /\ Cardinality(rows) \in Nat /\ Cardinality(rows) = RequesterRuns(p)
    BY RequesterRunsAreTyped DEF RequesterRuns, TypeInv
  <2>3. RequesterRuns(p)' = Cardinality(rows')
    BY DEF RequesterRuns
  <2>4. RecordingFor(p) \in SUBSET Runs /\ Cardinality(RecordingFor(p)) \in Nat
    <3>1. RecordingFor(p) \in SUBSET Runs
      BY DEF RecordingFor, Recording
    <3> QED
      BY <3>1, RunsAreFew
  <2>5. s.max_agent_runs_per_requester_hour \in Nat
    BY LimitsAreInForce
  <2>6. CASE p = Requester(r)
    <3>1. rows' = rows \cup {Len(agentRuns) + 1} /\ Len(agentRuns) + 1 \notin rows
      BY <1>2, <1>3, <2>6
    <3>2. Cardinality(rows') = Cardinality(rows) + 1
      BY <2>2, <3>1, FS_AddElement
    <3>3. r \in RecordingFor(p)
      BY <1>0, <2>6 DEF RecordingFor, Recording
    <3>4. \A o \in Runs : o \in RecordingFor(p)' <=> o \in RecordingFor(p) \ {r}
      BY <1>0 DEF RecordingFor, Recording, Requester, TicketOf
    <3>5. RecordingFor(p)' = RecordingFor(p) \ {r}
      BY <2>4, <3>4 DEF RecordingFor, Recording
    <3>6. Cardinality(RecordingFor(p)') = Cardinality(RecordingFor(p)) - 1
      BY <2>4, <3>3, <3>5, RunsAreFew, FS_RemoveElement
    <3>7. RequesterRuns(p)' + Cardinality(RecordingFor(p)')
            <= s.max_agent_runs_per_requester_hour + Together
      BY <1>4, <2>1, <2>2, <2>3, <2>4, <2>5, <3>2, <3>6
    <3> QED
      BY <1>4, <3>7
  <2>7. CASE p # Requester(r)
    <3>1. rows' = rows
      BY <1>2, <1>3, <2>7
    <3>2. \A o \in Runs : o \in RecordingFor(p)' <=> o \in RecordingFor(p)
      BY <1>0, <2>7 DEF RecordingFor, Recording, Requester, TicketOf
    <3>3. RecordingFor(p)' = RecordingFor(p)
      BY <2>4, <3>2 DEF RecordingFor, Recording
    <3> QED
      BY <1>4, <2>1, <2>2, <2>3, <3>1, <3>3
  <2> QED
    BY <2>6, <2>7
<1> QED
  BY <1>4, <1>5, <1>6 DEF RequestersKeepTo

\* Rows that leave the window are not counted any more.
LEMMA HourForgets ==
  ASSUME TypeInv, PassHour
  PROVE  /\ TenantRuns' \in Nat /\ TenantRuns' <= TenantRuns
         /\ \A p \in People : RequesterRuns(p)' \in Nat /\ RequesterRuns(p)' <= RequesterRuns(p)
<1>1. /\ agentRuns \in Seq(People) /\ Len(agentRuns) \in Nat
      /\ DOMAIN agentRuns = 1 .. Len(agentRuns)
  BY DEF TypeInv, RunTypes
<1>2. PICK gone \in 0 .. Len(agentRuns) : agentRuns' = SubSeq(agentRuns, gone + 1, Len(agentRuns))
  BY DEF PassHour, TenantRuns
<1>3. \A i \in gone + 1 .. Len(agentRuns) : agentRuns[i] \in People
  BY <1>1
<1>4. /\ agentRuns' \in Seq(People) /\ Len(agentRuns') = Len(agentRuns) - gone
      /\ \A i \in 1 .. Len(agentRuns) - gone : agentRuns'[i] = agentRuns[gone + i]
  <2> DEFINE m == gone + 1
             n == Len(agentRuns)
  <2>1. m \in Int /\ n \in Int /\ (m <= n \/ m = n + 1)
    BY <1>1
  <2>2. agentRuns' = SubSeq(agentRuns, m, n) /\ \A i \in m .. n : agentRuns[i] \in People
    BY <1>2, <1>3
  <2> HIDE DEF m, n
  <2>3. /\ agentRuns' \in Seq(People)
        /\ Len(agentRuns') = IF m <= n THEN n - m + 1 ELSE 0
        /\ \A i \in 1 .. n - m + 1 : agentRuns'[i] = agentRuns[m + i - 1]
    BY <2>1, <2>2, SubSeqProperties
  <2>4. n - m + 1 = Len(agentRuns) - gone /\ \A i \in Int : m + i - 1 = gone + i
    BY <1>1 DEF m, n
  <2>5. Len(agentRuns') = Len(agentRuns) - gone
    BY <2>1, <2>3, <2>4
  <2>6. ASSUME NEW i \in 1 .. Len(agentRuns) - gone PROVE agentRuns'[i] = agentRuns[gone + i]
    <3>1. i \in 1 .. n - m + 1 /\ i \in Int
      BY <2>4
    <3>2. agentRuns'[i] = agentRuns[m + i - 1]
      BY <2>3, <3>1
    <3>3. m + i - 1 = gone + i
      BY <2>4, <3>1
    <3> QED
      BY <3>2, <3>3
  <2> QED
    BY <2>3, <2>5, <2>6
<1>5. DOMAIN agentRuns' = 1 .. Len(agentRuns) - gone
  BY <1>4
<1>6. ASSUME NEW p \in People
      PROVE  RequesterRuns(p)' \in Nat /\ RequesterRuns(p)' <= RequesterRuns(p)
  <2> DEFINE rows == {i \in DOMAIN agentRuns : agentRuns[i] = p}
             left == {i \in 1 .. Len(agentRuns) - gone : agentRuns'[i] = p}
             f == [i \in left |-> gone + i]
  <2>1. IsFiniteSet(rows) /\ RequesterRuns(p) = Cardinality(rows)
    BY RequesterRunsAreTyped DEF RequesterRuns, TypeInv
  <2>2. RequesterRuns(p)' = Cardinality(left)
    BY <1>5 DEF RequesterRuns
  <2>3. f \in [left -> rows]
    BY <1>1, <1>4
  <2>4. \A i, j \in left : f[i] = f[j] => i = j
    BY <1>1
  <2>5. f \in Injection(left, rows)
    BY <2>3, <2>4 DEF Injection, IsInjective
  <2>6. IsFiniteSet(left) /\ Cardinality(left) <= Cardinality(rows)
    BY <2>1, <2>5, FS_Injection
  <2> QED
    BY <2>1, <2>2, <2>6, FS_CardinalityType
<1> QED
  BY <1>1, <1>4, <1>6 DEF TenantRuns

LEMMA RatesMove ==
  ASSUME TypeInv, [DeskNext]_allVars, RequestersKeepTo, TenantKeepsTo
  PROVE  RequestersKeepTo' /\ TenantKeepsTo'
<1> DEFINE Goal == RequestersKeepTo' /\ TenantKeepsTo'
<1> SUFFICES Goal
  OBVIOUS
<1>a. ASSUME UNCHANGED agentRuns, \A o \in Runs : run'[o].pc = "record" => run'[o] = run[o]
      PROVE  Goal
  <2>1. /\ TenantRuns' = TenantRuns /\ TenantRuns \in Nat
        /\ \A p \in People : RequesterRuns(p)' = RequesterRuns(p) /\ RequesterRuns(p) \in Nat
    BY <1>a, RequesterRunsAreTyped DEF TenantRuns, RequesterRuns, TypeInv
  <2> QED
    BY <1>a, <2>1, RatesRest
<1>i. Idle.pc = "idle"
  BY DEF Idle
<1>1. ASSUME NEW r \in Runs, RunStep(r) PROVE Goal
  <2>1. CASE Admit(r) \/ RecordAgentRun(r)
    BY <1>1, <2>1, AdmittedUnderLimits, RecordedUnderLimits
  <2>2. CASE ~Admit(r) /\ ~RecordAgentRun(r)
    <3>1. run'[r].pc # "record" \/ run'[r] = run[r]
      BY <1>1, <1>i, <2>2, RunLands DEF RunStep, runVars, TypeInv
    <3> QED
      BY <1>1, <1>a, <2>2, <3>1, RunCounts, OtherRunsStay DEF TypeInv
  <2> QED
    BY <2>1, <2>2
<1>2. CASE PassHour
  <2>1. UNCHANGED run
    BY <1>2 DEF PassHour
  <2> QED
    BY <1>2, <2>1, HourForgets, RatesRest
<1>3. ASSUME NEW r \in Runs, CrashRun(r) PROVE Goal
  <2>1. UNCHANGED agentRuns /\ \A o \in Runs : run'[o] = run[o] \/ run'[o] = Idle
    BY <1>3 DEF CrashRun, Ends, TypeInv, RunTypes
  <2> QED
    BY <1>a, <1>i, <2>1
<1>4. ASSUME NEW w \in Writers, TellFix(w) PROVE Goal
  BY <1>4, <1>a DEF TellFix
<1>5. CASE UNCHANGED <<run, agentRuns>>
  BY <1>5, <1>a
<1> HIDE DEF Goal
<1> QED
  BY <1>1, <1>2, <1>3, <1>4, <1>5, OthersCount, ScenesAreTyped DEF TypeInv

LEMMA CallsAreTyped ==
  ASSUME TypeInv
  PROVE  /\ spent \in Nat /\ CostCap \in Nat /\ Together \in Nat /\ Cardinality(Writers) \in Nat
         /\ IsFiniteSet(Calling) /\ Cardinality(Calling) \in Nat
         /\ Cardinality(Calling) <= Together + 1
         /\ IsFiniteSet(Composing) /\ Cardinality(Composing) \in Nat
         /\ Cardinality(Composing) <= Cardinality(Writers)
<1>1. Calling \in SUBSET Runs /\ Composing \subseteq Writers
  BY DEF Calling, Composing
<1> QED
  BY <1>1, RunsAreFew, SmallerCounts, PipelineAssumption DEF TypeInv, RunTypes

\* Nobody comes to call, and nothing is spent.
LEMMA CallsRest ==
  ASSUME TypeInv, TypeInv', CallsKeepTo, spent' <= spent, Calling' \subseteq Calling,
         Composing' \subseteq Composing
  PROVE  CallsKeepTo'
<1>1. /\ Cardinality(Calling') <= Cardinality(Calling) /\ Cardinality(Calling') \in Nat
      /\ Cardinality(Composing') <= Cardinality(Composing) /\ Cardinality(Composing') \in Nat
  BY CallsAreTyped, SmallerCounts
<1>2. spent' \in Nat /\ UNCHANGED Together
  BY DEF TypeInv, RunTypes, Together
<1> QED
  BY <1>1, <1>2, CallsAreTyped DEF CallsKeepTo

\* Whoever begins a call has found the day's spending under the cap; whoever
\* else is about to spend is a run or a slot.
LEMMA CallsBegin ==
  ASSUME TypeInv, TypeInv', SpendAllows, UNCHANGED spent
  PROVE  CallsKeepTo'
<1>1. /\ Cardinality(Calling') \in Nat /\ Cardinality(Calling') <= Together + 1
      /\ Cardinality(Composing') \in Nat /\ Cardinality(Composing') <= Cardinality(Writers)
  <2>1. Calling' \in SUBSET Runs /\ Composing' \subseteq Writers
    BY DEF Calling, Composing
  <2> QED
    BY <2>1, RunsAreFew, SmallerCounts, PipelineAssumption
<1>2. spent + 1 <= CostCap
  BY CallsAreTyped DEF SpendAllows
<1>3. spent' + 2 * Cardinality(Calling') + Cardinality(Composing')
        <= CostCap + 1 + 2 * Together + Cardinality(Writers)
  BY <1>1, <1>2, CallsAreTyped
<1> QED
  BY <1>3 DEF CallsKeepTo, Together

\* A run's call is over and billed.
LEMMA CallsEnd ==
  ASSUME TypeInv, TypeInv', CallsKeepTo, NEW r \in Runs, r \in Calling, Calling' = Calling \ {r},
         UNCHANGED writer, NEW calls \in 0 .. 2, spent' = spent + calls
  PROVE  CallsKeepTo'
<1>1. Cardinality(Calling') = Cardinality(Calling) - 1
  BY CallsAreTyped, FS_RemoveElement
<1>2. Composing' = Composing
  BY DEF Composing
<1>3. spent' + 2 * Cardinality(Calling') + Cardinality(Composing')
        <= CostCap + 1 + 2 * Together + Cardinality(Writers)
  BY <1>1, <1>2, CallsAreTyped DEF CallsKeepTo
<1> QED
  BY <1>3 DEF CallsKeepTo, Together

LEMMA RunSpends ==
  ASSUME TypeInv, TypeInv', CallsKeepTo, NEW r \in Runs, RunStep(r), UNCHANGED writer
  PROVE  CallsKeepTo'
<1>o. \A o \in Runs \ {r} : run'[o] = run[o]
  BY OtherRunsStay DEF TypeInv
<1>c. Composing' = Composing
  BY DEF Composing
<1>i. Idle.pc = "idle"
  BY DEF Idle
<1>a. ASSUME UNCHANGED spent, run'[r].pc \notin {"answer", "write"} \/ run'[r] = run[r]
      PROVE  CallsKeepTo'
  <2>1. Calling' \subseteq Calling
    BY <1>a, <1>o DEF Calling
  <2> QED
    BY <1>a, <1>c, <2>1, CallsRest DEF TypeInv, RunTypes
<1>b. ASSUME run[r].pc \in {"answer", "write"}, run'[r].pc \notin {"answer", "write"},
             NEW calls \in 0 .. 2, spent' = spent + calls
      PROVE  CallsKeepTo'
  <2>1. r \in Calling /\ Calling' = Calling \ {r}
    BY <1>b, <1>o DEF Calling
  <2> QED
    BY <1>b, <2>1, CallsEnd
<1>1. CASE AskModel(r)
  <2>1. UNCHANGED spent /\ Goes(r, IF SpendAllows THEN "answer" ELSE "park")
    BY <1>1 DEF AskModel
  <2>2. CASE SpendAllows
    BY <2>1, <2>2, CallsBegin
  <2>3. CASE ~SpendAllows
    <3>1. run'[r].pc = "park"
      BY <2>1, <2>3, GoesKeeps DEF TypeInv
    <3> QED
      BY <1>a, <2>1, <3>1
  <2> QED
    BY <2>2, <2>3
<1>2. CASE ProduceDraft(r)
  <2>1. UNCHANGED spent
    BY <1>2 DEF ProduceDraft
  <2>2. CASE SpendAllows
    BY <2>1, <2>2, CallsBegin
  <2>3. CASE ~SpendAllows
    <3>1. Goes(r, "carry") \/ Goes(r, "park")
      BY <1>2, <2>3 DEF ProduceDraft
    <3>2. run'[r].pc \in {"carry", "park"}
      BY <3>1, GoesKeeps DEF TypeInv
    <3> QED
      BY <1>a, <2>1, <3>2
  <2> QED
    BY <2>2, <2>3
<1>3. CASE Answer(r)
  <2>1. scene.attempts \in 1 .. 2
    BY ScenesAreTyped DEF TypeInv
  <2>2. \E calls \in 0 .. 2 : spent' = spent + calls
    BY <1>3, <2>1 DEF Answer, Billed
  <2>3. run[r].pc = "answer" /\ run'[r].pc \in {"decide", "park"}
    BY <1>3, RunLands DEF Answer, At, TypeInv
  <2> QED
    BY <1>b, <2>2, <2>3
<1>4. CASE WriteDraft(r)
  <2>1. \E calls \in 0 .. 2 : spent' = spent + calls
    <3>1. spent' = spent + 1 \/ spent' = spent
      BY <1>4 DEF WriteDraft, Billed
    <3> QED
      BY <3>1 DEF TypeInv, RunTypes
  <2>2. run[r].pc = "write" /\ run'[r].pc \in {"carry", "park"}
    BY <1>4, RunLands DEF WriteDraft, At, TypeInv
  <2> QED
    BY <1>b, <2>1, <2>2
<1>5. CASE ~AskModel(r) /\ ~ProduceDraft(r) /\ ~Answer(r) /\ ~WriteDraft(r)
  <2>1. run'[r].pc \notin {"answer", "write"} \/ run'[r] = run[r]
    BY <1>i, <1>5, RunLands DEF RunStep, runVars, TypeInv
  <2> QED
    BY <1>a, <1>5, <2>1, RunCounts
<1> QED
  BY <1>1, <1>2, <1>3, <1>4, <1>5

LEMMA WriterSpends ==
  ASSUME TypeInv, TypeInv', CallsKeepTo, NEW w \in Writers, Writes(w)
  PROVE  CallsKeepTo'
<1>1. Calling' = Calling
  BY WriteTypes DEF Calling
<1>r. Resting.pc = "idle"
  BY DEF Resting
<1>a. ASSUME UNCHANGED spent, NEW x, x.pc # "tell",
             writer' = [writer EXCEPT ![w] = x] \/ writer' = writer
      PROVE  CallsKeepTo'
  <2>1. Composing' \subseteq Composing
    BY <1>a DEF Composing, TypeInv, DeskTypes
  <2> QED
    BY <1>1, <1>a, <2>1, CallsRest DEF TypeInv, RunTypes
<1>2. CASE StartWriteback(w)
  <2>1. UNCHANGED spent
    BY <1>2 DEF StartWriteback, vars, runVars
  <2>2. CASE SpendAllows
    BY <2>1, <2>2, CallsBegin
  <2>3. CASE ~SpendAllows
    BY <1>2, <1>a, <1>r, <2>1, <2>3 DEF StartWriteback
  <2> QED
    BY <2>2, <2>3
<1>3. CASE TellFix(w)
  <2>1. writer[w].pc = "tell" /\ spent' = spent + 1
    BY <1>3 DEF TellFix
  <2>2. writer'[w].pc # "tell" /\ \A v \in Writers \ {w} : writer'[v] = writer[v]
    <3>1. ASSUME NEW words, writer' = [writer EXCEPT ![w].words = words, ![w].pc = "look"]
          PROVE  writer'[w].pc # "tell" /\ \A v \in Writers \ {w} : writer'[v] = writer[v]
      <4> DEFINE x == [writer[w] EXCEPT !.words = words, !.pc = "look"]
      <4>1. x.pc = "look" /\ writer' = [writer EXCEPT ![w] = x]
        BY <3>1 DEF TypeInv, DeskTypes, WriterType
      <4> HIDE DEF x
      <4> QED
        BY <4>1 DEF TypeInv, DeskTypes
    <3>2. CASE Rests(w)
      BY <1>r, <3>2 DEF Rests, TypeInv, DeskTypes
    <3> QED
      BY <1>3, <3>1, <3>2 DEF TellFix
  <2>3. w \in Composing /\ Composing' = Composing \ {w}
    BY <2>1, <2>2 DEF Composing
  <2>4. Cardinality(Composing') = Cardinality(Composing) - 1
    BY <2>3, CallsAreTyped, FS_RemoveElement
  <2>5. spent' + 2 * Cardinality(Calling') + Cardinality(Composing')
          <= CostCap + 1 + 2 * Together + Cardinality(Writers)
    BY <1>1, <2>1, <2>4, CallsAreTyped DEF CallsKeepTo
  <2> QED
    BY <2>5 DEF CallsKeepTo, Together
<1>4. CASE FindNeighbours(w)
  <2> DEFINE x == [writer[w] EXCEPT !.near = Live(FixFor(w)), !.pc = "ingest"]
  <2>1. writer' = [writer EXCEPT ![w] = x] /\ x.pc = "ingest"
    <3> HIDE DEF Live, FixFor
    <3> QED
      BY <1>4 DEF FindNeighbours, TypeInv, DeskTypes, WriterType
  <2> HIDE DEF x
  <2>2. UNCHANGED spent
    BY <1>4 DEF FindNeighbours, vars, runVars
  <2> QED
    BY <1>a, <2>1, <2>2
<1>5. CASE IngestDocument(w) \/ WritebackFails(w)
  BY <1>5, <1>a, <1>r DEF IngestDocument, WritebackFails, Rests, vars, runVars
<1> QED
  BY <1>2, <1>3, <1>4, <1>5 DEF Writes

LEMMA CallsMove ==
  ASSUME TypeInv, [DeskNext]_allVars, CallsKeepTo
  PROVE  CallsKeepTo'
<1>0. TypeInv'
  BY StepTypes
<1>a. ASSUME spent' <= spent, UNCHANGED writer,
             \A o \in Runs : run'[o] = run[o] \/ run'[o] = Idle
      PROVE  CallsKeepTo'
  <2>1. Calling' \subseteq Calling /\ Composing' = Composing
    BY <1>a DEF Calling, Composing, Idle
  <2> QED
    BY <1>0, <1>a, <2>1, CallsRest
<1>n. spent \in Nat
  BY DEF TypeInv, RunTypes
<1>1. ASSUME NEW r \in scene.runs, RunStep(r), UNCHANGED writer PROVE CallsKeepTo'
  BY <1>0, <1>1, RunSpends, ScenesAreTyped DEF TypeInv
<1>2. CASE PassHour /\ UNCHANGED writer
  <2>1. spent' <= spent /\ UNCHANGED run
    BY <1>2, <1>n DEF PassHour
  <2> QED
    BY <1>2, <1>a, <2>1
<1>3. ASSUME NEW r \in Runs, CrashRun(r), UNCHANGED writer PROVE CallsKeepTo'
  <2>1. spent' = spent /\ \A o \in Runs : run'[o] = run[o] \/ run'[o] = Idle
    BY <1>3 DEF CrashRun, Ends, TypeInv, RunTypes
  <2> QED
    BY <1>3, <1>a, <1>n, <2>1
<1>4. ASSUME NEW w \in Writers, Writes(w) PROVE CallsKeepTo'
  BY <1>0, <1>4, WriterSpends
<1>5. CASE UNCHANGED <<run, spent, writer>>
  BY <1>5, <1>a, <1>n
<1>6. (\E r \in scene.runs : RunStep(r)) => UNCHANGED writer \/ \E w \in Writers : Writes(w)
  <2>1. Desks \/ UNCHANGED allVars \/ UNCHANGED deskVars => UNCHANGED writer
    BY DeskStepTypes DEF allVars, deskVars
  <2> QED
    BY <2>1, DeskNextSplits
<1> QED
  BY <1>1, <1>2, <1>3, <1>4, <1>5, <1>6, OthersCount DEF Writes

\* The rounds a run has read and the most its settings allow are what they were.
LEMMA AskersStay ==
  ASSUME TypeInv, [DeskNext]_allVars, NEW o \in Runs, NEW t \in Tickets, o \in Askers(t)',
         \/ run'[o] = run[o]
         \/ SameReading(o) /\ run[o].pc \notin {"idle", "park", "tell", "wait"}
  PROVE  o \in Askers(t)
<1>1. run[o].pc # "idle"
  BY DEF Askers
<1>2. run'[o].seen = run[o].seen /\ run'[o].rounds = run[o].rounds /\ run'[o].ticket = run[o].ticket
  BY DEF SameReading
<1>3. SettingsOf(o)' = SettingsOf(o)
  BY <1>1, <1>2, InForceGrows DEF SettingsOf
<1> QED
  BY <1>2, <1>3 DEF Askers

\* Nobody comes to ask, and no round is counted.
LEMMA RoundsRest ==
  ASSUME TypeInv, [DeskNext]_allVars, RoundsKeepTo, NEW t \in Tickets, clarify'[t] = clarify[t],
         Askers(t)' \subseteq Askers(t)
  PROVE  \E s \in InForce' : clarify'[t] + Cardinality(Askers(t)') <= s.max_clarify_rounds + Together
<1>1. PICK s \in InForce : clarify[t] + Cardinality(Askers(t)) <= s.max_clarify_rounds + Together
  BY DEF RoundsKeepTo
<1>2. Askers(t) \in SUBSET Runs
  BY DEF Askers
<1>3. /\ Cardinality(Askers(t)) \in Nat /\ Cardinality(Askers(t)') \in Nat
      /\ Cardinality(Askers(t)') <= Cardinality(Askers(t))
  BY <1>2, RunsAreFew, SmallerCounts
<1>4. clarify[t] \in Nat /\ s.max_clarify_rounds \in Nat /\ Together \in Nat
  BY LimitsAreInForce, RunsAreFew DEF TypeInv, RunTypes
<1>5. clarify'[t] + Cardinality(Askers(t)') <= s.max_clarify_rounds + Together
  BY <1>1, <1>3, <1>4
<1> QED
  BY <1>5, InForceGrows

\* Out of where it could ask, a run does not come back.
LEMMA RunStaysOut ==
  ASSUME TypeInv, NEW r \in Runs, RunStep(r), run[r].pc \in {"idle", "park", "tell", "wait"}
  PROVE  Start(r) \/ run'[r] = Idle \/ run'[r] = run[r]
<1>1. CASE Park(r) \/ Told(r) \/ WaitForUser(r)
  BY <1>1, RunLands DEF TypeInv
<1>2. CASE UNCHANGED runVars
  BY <1>2 DEF runVars
<1> QED
  BY <1>1, <1>2 DEF RunStep, Admit, RecordAgentRun, AskModel, Answer, DecideAndStamp, Resume,
                    ProduceDraft, WriteDraft, Escalate, ParkDraft, Act, SendReply, SettleReply,
                    CountQuestion, RefusedByConversation, At

\* A run that starts reads the rounds already counted.
LEMMA StartReadsRounds ==
  ASSUME TypeInv, [DeskNext]_allVars, RoundsKeepTo, NEW r \in Runs, Start(r), RunStep(r)
  PROVE  RoundsKeepTo'
<1>o. \A o \in Runs \ {r} : run'[o] = run[o]
  BY OtherRunsStay DEF TypeInv
<1>1. PICK t \in Tickets, stalled \in BOOLEAN :
        run' = [run EXCEPT ![r] = [Idle EXCEPT !.pc = "admit", !.ticket = t, !.stalled = stalled,
                                     !.merged = ticket[t].merged, !.rounds = clarify[t],
                                     !.seen = Len(versions)]]
  BY DEF Start
<1>2. run'[r].ticket = t /\ run'[r].rounds = clarify[t] /\ run'[r].seen = Len(versions)
  BY <1>1 DEF TypeInv, RunTypes, Idle
<1>3. UNCHANGED <<clarify, versions>>
  BY DEF Start, notifyVars
<1>4. SettingsOf(r)' \in InForce
  <2>1. Len(versions) \in DOMAIN versions
    BY VersionsAreTyped DEF TypeInv, NotifyTypes
  <2> QED
    BY <1>2, <1>3, <2>1 DEF SettingsOf, InForce
<1>5. ASSUME NEW u \in Tickets
      PROVE  \E s \in InForce' :
               clarify'[u] + Cardinality(Askers(u)') <= s.max_clarify_rounds + Together
  <2>1. \A o \in Askers(u)' : o \in Runs
    BY DEF Askers
  <2>2. CASE r \in Askers(u)'
    <3>1. u = t /\ clarify[u] < (SettingsOf(r)').max_clarify_rounds
      BY <1>2, <2>2 DEF Askers
    <3>2. Cardinality(Askers(u)') \in Nat /\ Cardinality(Askers(u)') <= Together + 1
      <4>1. Askers(u)' \in SUBSET Runs
        BY <2>1
      <4> QED
        BY <4>1, RunsAreFew
    <3>3. /\ clarify'[u] = clarify[u] /\ clarify[u] \in Nat /\ Together \in Nat
          /\ (SettingsOf(r)').max_clarify_rounds \in Nat
      BY <1>3, <1>4, LimitsAreInForce, RunsAreFew DEF TypeInv, RunTypes
    <3>4. clarify'[u] + Cardinality(Askers(u)') <= (SettingsOf(r)').max_clarify_rounds + Together
      BY <3>1, <3>2, <3>3
    <3> QED
      BY <1>4, <3>4, InForceGrows
  <2>3. CASE r \notin Askers(u)'
    <3>1. Askers(u)' \subseteq Askers(u)
      BY <1>o, <2>1, <2>3, AskersStay
    <3> QED
      BY <1>3, <3>1, RoundsRest
  <2> QED
    BY <2>2, <2>3
<1> QED
  BY <1>5 DEF RoundsKeepTo, Together

\* The run whose question is counted was one of those that could ask it.
LEMMA CountedRunWasAsking ==
  ASSUME TypeInv, PlanInv, NEW r \in Runs, Uncounted(r)
  PROVE  r \in Askers(run[r].ticket)
<1>1. run[r].pc = "settle" /\ run[r].plan.action = Ask
  BY DEF Uncounted, At
<1>2. run[r].plan.execute /\ run[r].plan.action # "escalate"
  BY <1>1 DEF PlanInv, PlanHolds, Contacting
<1>3. run[r].rounds < SettingsOf(r).max_clarify_rounds
  BY <1>1, <1>2, PlanIsEarned DEF Decided
<1> QED
  BY <1>1, <1>3 DEF Askers

LEMMA CountedInRounds ==
  ASSUME TypeInv, PlanInv, [DeskNext]_allVars, RoundsKeepTo, NEW r \in Runs, CountQuestion(r),
         RunStep(r)
  PROVE  RoundsKeepTo'
<1>o. \A o \in Runs \ {r} : run'[o] = run[o]
  BY OtherRunsStay DEF TypeInv
<1>1. run'[r].pc = "wait"
  BY RunLands DEF TypeInv
<1>2. clarify' = [clarify EXCEPT ![run[r].ticket] = @ + 1] /\ Uncounted(r) /\ run[r].ticket \in Tickets
  BY DEF CountQuestion, TicketOf, Uncounted, At, TypeInv, RunsAreOn
<1>3. \A u \in Tickets : r \notin Askers(u)'
  BY <1>1 DEF Askers
<1>4. ASSUME NEW u \in Tickets PROVE Askers(u)' \subseteq Askers(u) \ {r}
  <2>1. \A o \in Askers(u)' : o \in Runs \ {r}
    BY <1>3 DEF Askers
  <2> QED
    BY <1>o, <2>1, AskersStay
<1>5. ASSUME NEW u \in Tickets
      PROVE  \E s \in InForce' :
               clarify'[u] + Cardinality(Askers(u)') <= s.max_clarify_rounds + Together
  <2>1. CASE u = run[r].ticket
    <3>1. PICK s \in InForce : clarify[u] + Cardinality(Askers(u)) <= s.max_clarify_rounds + Together
      BY DEF RoundsKeepTo
    <3>2. Askers(u) \in SUBSET Runs /\ r \in Askers(u)
      BY <1>2, <2>1, CountedRunWasAsking DEF Askers
    <3>3. /\ Cardinality(Askers(u)) \in Nat /\ IsFiniteSet(Askers(u) \ {r})
          /\ Cardinality(Askers(u) \ {r}) = Cardinality(Askers(u)) - 1
      BY <3>2, RunsAreFew, FS_RemoveElement
    <3>4. /\ Cardinality(Askers(u)') \in Nat
          /\ Cardinality(Askers(u)') <= Cardinality(Askers(u) \ {r})
      BY <1>4, <3>3, SmallerCounts
    <3>5. /\ clarify'[u] = clarify[u] + 1 /\ clarify[u] \in Nat
          /\ s.max_clarify_rounds \in Nat /\ Together \in Nat
      BY <1>2, <2>1, LimitsAreInForce, RunsAreFew DEF TypeInv, RunTypes
    <3>6. clarify'[u] + Cardinality(Askers(u)') <= s.max_clarify_rounds + Together
      BY <3>1, <3>3, <3>4, <3>5
    <3> QED
      BY <3>6, InForceGrows
  <2>2. CASE u # run[r].ticket
    <3>1. clarify'[u] = clarify[u]
      BY <1>2, <2>2 DEF TypeInv, RunTypes
    <3> QED
      BY <1>4, <3>1, RoundsRest
  <2> QED
    BY <2>1, <2>2
<1> QED
  BY <1>5 DEF RoundsKeepTo, Together

LEMMA RoundsMove ==
  ASSUME TypeInv, PlanInv, [DeskNext]_allVars, RoundsKeepTo
  PROVE  RoundsKeepTo'
<1>a. ASSUME UNCHANGED clarify,
             \A o \in Runs : \/ run'[o] = run[o] \/ run'[o] = Idle
                             \/ SameReading(o) /\ run[o].pc \notin {"idle", "park", "tell", "wait"}
      PROVE  RoundsKeepTo'
  <2>1. ASSUME NEW t \in Tickets PROVE Askers(t)' \subseteq Askers(t)
    <3>1. \A o \in Askers(t)' : o \in Runs /\ run'[o] # Idle
      BY DEF Askers, Idle
    <3> QED
      BY <1>a, <3>1, AskersStay
  <2>2. \A t \in Tickets : \E s \in InForce' :
          clarify'[t] + Cardinality(Askers(t)') <= s.max_clarify_rounds + Together
    BY <1>a, <2>1, RoundsRest
  <2> QED
    BY <2>2 DEF RoundsKeepTo, Together
<1>1. ASSUME NEW r \in Runs, RunStep(r) PROVE RoundsKeepTo'
  <2>1. CASE Start(r) \/ CountQuestion(r)
    BY <1>1, <2>1, StartReadsRounds, CountedInRounds
  <2>2. CASE ~Start(r) /\ ~CountQuestion(r)
    <3>1. \/ run'[r] = run[r] \/ run'[r] = Idle
          \/ SameReading(r) /\ run[r].pc \notin {"idle", "park", "tell", "wait"}
      BY <1>1, <2>2, RunStaysOut, ReadingStays DEF TypeInv
    <3> QED
      BY <1>1, <1>a, <2>2, <3>1, RunCounts, OtherRunsStay DEF TypeInv
  <2> QED
    BY <2>1, <2>2
<1>2. CASE ~(\E r \in scene.runs : RunStep(r))
  <2>1. UNCHANGED clarify /\ (UNCHANGED run \/ \E r \in Runs : CrashRun(r))
    BY <1>2, OthersCount DEF TellFix, PassHour
  <2>2. \A o \in Runs : run'[o] = run[o] \/ run'[o] = Idle
    BY <2>1 DEF CrashRun, Ends, TypeInv, RunTypes
  <2> QED
    BY <1>a, <2>1, <2>2
<1> QED
  BY <1>1, <1>2, ScenesAreTyped DEF TypeInv

\* One row more at the most, and a question only when it is one.
LEMMA MailHasOneMore ==
  ASSUME IsFiniteSet(mail), NEW n, NEW key, QueueOutbound(n, key)
  PROVE  /\ IsFiniteSet(mail')
         /\ n.kind # "question" => \A t : Questions(t)' = Questions(t)
<1> DEFINE new == [key |-> key, to |-> n.to, suppressed |-> n.to \in suppressed, kind |-> n.kind,
                   tickets |-> n.tickets, hour |-> hour, fact |-> n.fact]
<1>1. new.kind = n.kind
  OBVIOUS
<1>2. mail' = mail \/ mail' = mail \cup {new}
  BY DEF QueueOutbound
<1> HIDE DEF new
<1>3. IsFiniteSet(mail')
  BY <1>2, FS_AddElement
<1>4. n.kind # "question" => \A t : Questions(t)' = Questions(t)
  BY <1>1, <1>2 DEF Questions
<1> QED
  BY <1>3, <1>4

LEMMA NoticesAskNothing ==
  ASSUME TypeInv, IsFiniteSet(mail), NEW s \in Senders, QueueNotice(s)
  PROVE  IsFiniteSet(mail') /\ \A t : Questions(t)' = Questions(t)
<1>1. PICK n \in errand[s].now : QueueOutbound(n, KeyOf(n))
  BY DEF QueueNotice
<1>2. n.kind \in NotificationKind
  BY DEF TypeInv, NotifyTypes, ErrandType, NoticeType
<1>3. n.kind # "question"
  BY <1>2 DEF NotificationKind
<1> QED
  BY <1>1, <1>3, MailHasOneMore

LEMMA OthersAskNothing ==
  ASSUME TypeInv, [DeskNext]_allVars, ~(\E r \in scene.runs : RunStep(r)), IsFiniteSet(mail)
  PROVE  IsFiniteSet(mail') /\ \A t : Questions(t)' = Questions(t)
<1> DEFINE Goal == IsFiniteSet(mail') /\ \A t : Questions(t)' = Questions(t)
<1> SUFFICES Goal
  OBVIOUS
<1>a. UNCHANGED mail => Goal
  BY DEF Questions
<1>1. ASSUME NEW s \in Senders, QueueNotice(s) PROVE Goal
  BY <1>1, NoticesAskNothing
<1>2. CASE NotifyNext
  <2>1. scene.requests \subseteq Senders
    BY ScenesAreTyped DEF Senders, TypeInv
  <2>2. UNCHANGED mail \/ \E s \in Senders : QueueNotice(s)
    BY <1>2, <2>1 DEF NotifyNext, AssignTickets, AskResolve, MoveTicket, ResolutionNotice, Sweep,
                      CheckNotice, CrashRequest, OptOut, OptIn, Bounces, ClockMoves, Senders
  <2> QED
    BY <1>1, <1>a, <2>2
<1>3. CASE Next
  <2>1. (\E r \in scene.runs : CrashRun(r))
        \/ (\E t \in Tickets : Retriage(t) \/ Answered(t) \/ MergeTicket(t))
        \/ CommitSettings \/ PassHour => UNCHANGED mail
    BY DEF CrashRun, Retriage, Answered, MergeTicket, CommitSettings, PassHour, notifyVars
  <2> QED
    BY <1>2, <1>3, <1>a, <2>1 DEF Next
<1>4. CASE Desks
  <2>1. ASSUME NEW q \in scene.requests, NEW t \in scene.replies, NEW close \in BOOLEAN,
               SendAsPerson(q, t, close)
        PROVE  Goal
    <3> DEFINE key == [kind |-> "person", tickets |-> {t}, prefixes |-> {},
                       to |-> Nobody, number |-> 0]
               n == Notice("person", {t}, RequesterOf[t], 0)
    <3>1. QueueOutbound(n, key) /\ n.kind # "question"
      BY <2>1 DEF SendAsPerson, Notice
    <3> HIDE DEF n, key
    <3> QED
      BY <3>1, MailHasOneMore
  <2> QED
    BY <1>4, <1>a, <2>1 DEF Desks, SettlePersonReply, ChangeStatus, FollowUp
<1>5. ASSUME NEW w \in Writers, Writes(w) PROVE Goal
  BY <1>5, <1>a, WriteTypes
<1>6. CASE UNCHANGED allVars
  BY <1>6, <1>a DEF allVars, vars, notifyVars
<1> HIDE DEF Goal
<1> QED
  BY <1>3, <1>4, <1>5, <1>6, DeskNextSplits

LEMMA CountingIsFinite ==
  \A t \in Tickets : /\ Counting(t) \in SUBSET Runs /\ IsFiniteSet(Counting(t))
                     /\ Cardinality(Counting(t)) \in Nat
<1>1. \A t \in Tickets : Counting(t) \in SUBSET Runs
  BY DEF Counting
<1> QED
  BY <1>1, RunsAreFew

\* No question comes; one that was queued stays with the run, is counted, or is
\* noted as a slip.
LEMMA CountsRest ==
  ASSUME TypeInv, TypeInv', QuestionsAreCounted, IsFiniteSet(mail'), NEW r \in Runs,
         \A t : Questions(t)' = Questions(t),
         \A o \in Runs \ {r} : run'[o] = run[o],
         \/ /\ UNCHANGED <<clarify, slips>>
            /\ \/ run'[r] = run[r]
               \/ ~Uncounted(r) /\ run'[r].pc # "settle"
         \/ /\ Uncounted(r) /\ run'[r].pc # "settle"
            /\ \/ clarify' = [clarify EXCEPT ![run[r].ticket] = @ + 1] /\ UNCHANGED slips
               \/ slips' = [slips EXCEPT ![run[r].ticket] = @ + 1] /\ UNCHANGED clarify
  PROVE  QuestionsAreCounted'
<1>1. ASSUME NEW t \in Tickets
      PROVE  clarify[t] + Cardinality(Counting(t)) + slips[t]
               <= clarify'[t] + Cardinality(Counting(t)') + slips'[t]
  <2>0. /\ clarify[t] \in Nat /\ slips[t] \in Nat
        /\ \A o \in Runs \ {r} : o \in Counting(t)' <=> o \in Counting(t)
    BY DEF TypeInv, RunTypes, Counting, Uncounted, At
  <2>1. CASE /\ UNCHANGED <<clarify, slips>>
             /\ run'[r] = run[r] \/ (~Uncounted(r) /\ run'[r].pc # "settle")
    <3>1. r \in Counting(t)' <=> r \in Counting(t)
      BY <2>1 DEF Counting, Uncounted, At
    <3>2. Counting(t)' = Counting(t)
      BY <2>0, <3>1 DEF Counting
    <3> QED
      BY <2>0, <2>1, <3>2, CountingIsFinite
  <2>2. CASE /\ Uncounted(r) /\ run'[r].pc # "settle"
             /\ \/ clarify' = [clarify EXCEPT ![run[r].ticket] = @ + 1] /\ UNCHANGED slips
                \/ slips' = [slips EXCEPT ![run[r].ticket] = @ + 1] /\ UNCHANGED clarify
    <3>1. r \notin Counting(t)'
      BY <2>2 DEF Counting, Uncounted, At
    <3>2. Counting(t)' = Counting(t) \ {r}
      BY <2>0, <3>1 DEF Counting
    <3>3. r \in Counting(t) <=> run[r].ticket = t
      BY <2>2 DEF Counting
    <3>4. Cardinality(Counting(t)') = IF run[r].ticket = t THEN Cardinality(Counting(t)) - 1
                                      ELSE Cardinality(Counting(t))
      BY <3>2, <3>3, CountingIsFinite, FS_RemoveElement
    <3>5. clarify'[t] + slips'[t] = IF run[r].ticket = t THEN clarify[t] + slips[t] + 1
                                    ELSE clarify[t] + slips[t]
      <4>0. clarify \in [Tickets -> Nat] /\ slips \in [Tickets -> Nat]
        BY DEF TypeInv, RunTypes
      <4>1. CASE clarify' = [clarify EXCEPT ![run[r].ticket] = @ + 1] /\ UNCHANGED slips
        <5>1. clarify'[t] = IF run[r].ticket = t THEN clarify[t] + 1 ELSE clarify[t]
          BY <4>0, <4>1
        <5> QED
          BY <2>0, <4>1, <5>1
      <4>2. CASE slips' = [slips EXCEPT ![run[r].ticket] = @ + 1] /\ UNCHANGED clarify
        <5>1. slips'[t] = IF run[r].ticket = t THEN slips[t] + 1 ELSE slips[t]
          BY <4>0, <4>2
        <5> QED
          BY <2>0, <4>2, <5>1
      <4> QED
        BY <2>2, <4>1, <4>2
    <3>6. clarify'[t] \in Nat /\ slips'[t] \in Nat
      BY DEF TypeInv, RunTypes
    <3> QED
      BY <2>0, <3>4, <3>5, <3>6, CountingIsFinite
  <2> QED
    BY <2>1, <2>2
<1>2. ASSUME NEW t \in Tickets
      PROVE  Cardinality(Questions(t)') <= clarify'[t] + Cardinality(Counting(t)') + slips'[t]
  <2>1. Cardinality(Questions(t)) <= clarify[t] + Cardinality(Counting(t)) + slips[t]
    BY DEF QuestionsAreCounted
  <2>2. Cardinality(Questions(t)) \in Nat /\ Cardinality(Questions(t)') = Cardinality(Questions(t))
    <3>1. Questions(t) \subseteq mail /\ IsFiniteSet(mail)
      BY DEF Questions, QuestionsAreCounted
    <3> QED
      BY <3>1, SmallerCounts
  <2>3. Cardinality(Counting(t)') \in Nat
    <3>1. Counting(t)' \in SUBSET Runs
      BY DEF Counting
    <3> QED
      BY <3>1, RunsAreFew
  <2>4. clarify[t] \in Nat /\ slips[t] \in Nat /\ clarify'[t] \in Nat /\ slips'[t] \in Nat
    BY DEF TypeInv, RunTypes
  <2> QED
    BY <1>1, <2>1, <2>2, <2>3, <2>4, CountingIsFinite
<1> QED
  BY <1>2 DEF QuestionsAreCounted

\* A question sent is one that its run will count.
LEMMA QuestionIsSent ==
  ASSUME TypeInv, TypeInv', PlanInv, QuestionsAreCounted, NEW r \in Runs, SendReply(r),
         \A o \in Runs \ {r} : run'[o] = run[o]
  PROVE  QuestionsAreCounted'
<1> DEFINE kind == DraftKind(run[r].plan)
           key == [kind |-> kind, tickets |-> {TicketOf(r)}, prefixes |-> {},
                   to |-> Nobody, number |-> run[r].words]
           reply0 == Notice(kind, {TicketOf(r)}, Requester(r), run[r].words)
           new == [key |-> key, to |-> reply0.to, suppressed |-> reply0.to \in suppressed,
                   kind |-> reply0.kind, tickets |-> reply0.tickets, hour |-> hour,
                   fact |-> reply0.fact]
           dead == IF RowsWith(key) # {} THEN \E row \in RowsWith(key) : row.suppressed
                   ELSE Requester(r) \in suppressed
<1>1. /\ run[r].pc = "send" /\ UNCHANGED <<clarify, slips>>
      /\ \/ Goes(r, "park") /\ UNCHANGED mail
         \/ QueueOutbound(reply0, key) /\ Goes(r, IF dead THEN "park" ELSE "settle")
  BY DEF SendReply, At
<1>2. reply0.kind = kind /\ reply0.to = Requester(r) /\ reply0.tickets = {TicketOf(r)}
  BY DEF Notice
<1>3. /\ new.kind = kind /\ new.tickets = {TicketOf(r)}
      /\ new.suppressed = (Requester(r) \in suppressed)
  BY <1>2
<1>4. QueueOutbound(reply0, key) => mail' = IF RowsWith(key) # {} THEN mail ELSE mail \cup {new}
  BY DEF QueueOutbound
<1>5. ~Uncounted(r) /\ IsFiniteSet(mail)
  BY <1>1 DEF Uncounted, At, QuestionsAreCounted
<1> HIDE DEF new, key, reply0, kind
<1>6. IsFiniteSet(mail')
  BY <1>1, <1>5, MailHasOneMore
<1>7. CASE \A t : Questions(t)' = Questions(t)
  <2>1. CASE run'[r].pc # "settle" \/ run[r].plan.action # Ask
    <3>1. run'[r].plan = run[r].plan /\ run'[r].ticket = run[r].ticket
      BY <1>1, GoesKeeps DEF SameReading, TypeInv
    <3>2. ASSUME NEW t \in Tickets
          PROVE  Cardinality(Questions(t)') <= clarify'[t] + Cardinality(Counting(t)') + slips'[t]
      <4>1. \A o \in Runs : o \in Counting(t)' <=> o \in Counting(t)
        BY <1>1, <2>1, <3>1 DEF Counting, Uncounted, At
      <4>2. Counting(t)' = Counting(t)
        BY <4>1 DEF Counting
      <4> QED
        BY <1>1, <1>7, <4>2 DEF QuestionsAreCounted
    <3> QED
      BY <1>6, <3>2 DEF QuestionsAreCounted
  <2>2. CASE run'[r].pc = "settle" /\ run[r].plan.action = Ask
    <3>1. run'[r].plan = run[r].plan /\ run'[r].ticket = run[r].ticket
      BY <1>1, GoesKeeps DEF SameReading, TypeInv
    <3>2. ASSUME NEW t \in Tickets
          PROVE  Cardinality(Questions(t)') <= clarify'[t] + Cardinality(Counting(t)') + slips'[t]
      <4>1. \A o \in Counting(t) : o # r /\ o \in Runs /\ run'[o] = run[o]
        BY <1>5 DEF Counting
      <4>2. Counting(t) \subseteq Counting(t)' /\ IsFiniteSet(Counting(t)')
        <5>1. Counting(t)' \in SUBSET Runs
          BY DEF Counting
        <5>2. Counting(t) \subseteq Counting(t)'
          BY <4>1 DEF Counting, Uncounted, At
        <5> QED
          BY <5>1, <5>2, RunsAreFew
      <4>3. /\ Cardinality(Counting(t)) \in Nat /\ Cardinality(Counting(t)') \in Nat
            /\ Cardinality(Counting(t)) <= Cardinality(Counting(t)')
        BY <4>2, SmallerCounts
      <4>4. Cardinality(Questions(t)) <= clarify[t] + Cardinality(Counting(t)) + slips[t]
        BY DEF QuestionsAreCounted
      <4>5. clarify[t] \in Nat /\ slips[t] \in Nat /\ Cardinality(Questions(t)) \in Nat
        <5>1. Questions(t) \subseteq mail
          BY DEF Questions
        <5> QED
          BY <1>5, <5>1, SmallerCounts DEF TypeInv, RunTypes
      <4> QED
        BY <1>1, <1>7, <4>3, <4>4, <4>5
    <3> QED
      BY <1>6, <3>2 DEF QuestionsAreCounted
  <2> QED
    BY <2>1, <2>2
<1>8. CASE ~(\A t : Questions(t)' = Questions(t))
  <2>1. QueueOutbound(reply0, key) /\ mail' = mail \cup {new} /\ RowsWith(key) = {}
    <3>1. mail' # mail
      BY <1>8 DEF Questions
    <3> QED
      BY <1>1, <1>4, <3>1
  <2>2. kind = "question" /\ Requester(r) \notin suppressed
    BY <1>3, <1>8, <2>1 DEF Questions
  <2>3. run'[r].pc = "settle" /\ run'[r].plan = run[r].plan /\ run'[r].ticket = run[r].ticket
    <3>1. ~dead
      BY <2>1, <2>2
    <3>2. mail' # mail
      BY <1>8 DEF Questions
    <3>3. Goes(r, "settle")
      BY <1>1, <3>1, <3>2
    <3> QED
      BY <3>3, GoesKeeps DEF SameReading, TypeInv
  <2>4. run[r].plan.action = Ask
    <3>1. run[r].plan.execute /\ run[r].plan.action # "escalate"
      BY <1>1 DEF PlanInv, PlanHolds, Contacting
    <3>2. run[r].plan.action = run[r].plan.intended
      BY <1>1, <3>1, PlanIsEarned DEF Decided
    <3>3. run[r].plan.intended = Ask
      BY <2>2 DEF kind, DraftKind, Ask
    <3> QED
      BY <3>2, <3>3
  <2>5. ASSUME NEW t \in Tickets
        PROVE  Cardinality(Questions(t)') <= clarify'[t] + Cardinality(Counting(t)') + slips'[t]
    <3>1. /\ Cardinality(Questions(t)) <= clarify[t] + Cardinality(Counting(t)) + slips[t]
          /\ clarify[t] \in Nat /\ slips[t] \in Nat
      BY DEF QuestionsAreCounted, TypeInv, RunTypes
    <3>2. IsFiniteSet(Questions(t)) /\ Cardinality(Questions(t)) \in Nat
      <4>1. Questions(t) \subseteq mail
        BY DEF Questions
      <4> QED
        BY <1>5, <4>1, SmallerCounts
    <3>3. r \notin Counting(t) /\ \A o \in Runs \ {r} : o \in Counting(t)' <=> o \in Counting(t)
      BY <1>5 DEF Counting, Uncounted, At
    <3>4. CASE run[r].ticket = t
      <4>1. Counting(t)' = Counting(t) \cup {r}
        <5>1. r \in Counting(t)'
          BY <2>3, <2>4, <3>4 DEF Counting, Uncounted, At
        <5> QED
          BY <3>3, <5>1 DEF Counting
      <4>2. Cardinality(Counting(t)') = Cardinality(Counting(t)) + 1
        <5>1. IsFiniteSet(Counting(t)) /\ r \notin Counting(t)
          BY <3>3, CountingIsFinite
        <5>2. Cardinality(Counting(t) \cup {r}) = Cardinality(Counting(t)) + 1
          BY <5>1, FS_AddElement
        <5> QED
          BY <4>1, <5>2
      <4>3. Questions(t)' \subseteq Questions(t) \cup {new}
        BY <2>1 DEF Questions
      <4>4. Cardinality(Questions(t)') \in Nat /\ Cardinality(Questions(t)') <= Cardinality(Questions(t)) + 1
        BY <3>2, <4>3, CountsOneMore
      <4> QED
        BY <1>1, <3>1, <3>2, <4>2, <4>4, CountingIsFinite
    <3>5. CASE run[r].ticket # t
      <4>1. r \notin Counting(t)'
        BY <2>3, <3>5 DEF Counting
      <4>2. Counting(t)' = Counting(t)
        BY <3>3, <4>1 DEF Counting
      <4>3. new.tickets # {t}
        BY <1>3, <3>5 DEF TicketOf
      <4>4. Questions(t)' = Questions(t)
        BY <2>1, <4>3 DEF Questions
      <4> QED
        BY <1>1, <3>1, <4>2, <4>4
    <3> QED
      BY <3>4, <3>5
  <2> QED
    BY <1>6, <2>5 DEF QuestionsAreCounted
<1> QED
  BY <1>7, <1>8

LEMMA QuestionsMove ==
  ASSUME TypeInv, PlanInv, [DeskNext]_allVars, QuestionsAreCounted
  PROVE  QuestionsAreCounted'
<1>0. TypeInv' /\ IsFiniteSet(mail)
  BY StepTypes DEF QuestionsAreCounted
<1>1. ASSUME NEW r \in Runs, RunStep(r) PROVE QuestionsAreCounted'
  <2>o. \A o \in Runs \ {r} : run'[o] = run[o]
    BY <1>1, OtherRunsStay DEF TypeInv
  <2>i. Idle.pc = "idle"
    BY DEF Idle
  <2>1. CASE SendReply(r)
    BY <1>0, <2>1, <2>o, QuestionIsSent
  <2>2. CASE ~SendReply(r)
    <3>1. IsFiniteSet(mail') /\ \A t : Questions(t)' = Questions(t)
      <4>1. UNCHANGED mail \/ QueueNotice(r)
        BY <1>1, <2>2, RunCounts
      <4>2. CASE UNCHANGED mail
        BY <1>0, <4>2 DEF Questions
      <4>3. CASE QueueNotice(r)
        BY <1>0, <4>3, NoticesAskNothing DEF Senders
      <4> QED
        BY <4>1, <4>2, <4>3
    <3>2. CASE CountQuestion(r)
      <4>1. run'[r].pc = "wait" /\ Uncounted(r)
        BY <3>2, RunLands DEF CountQuestion, Uncounted, At, TypeInv
      <4>2. clarify' = [clarify EXCEPT ![run[r].ticket] = @ + 1] /\ UNCHANGED slips
        BY <3>2 DEF CountQuestion, TicketOf
      <4> QED
        BY <1>0, <2>o, <3>1, <4>1, <4>2, CountsRest
    <3>3. CASE RefusedByConversation(r)
      <4>1. run'[r].pc = "park" /\ UNCHANGED clarify /\ Slips(r)
        BY <3>3, RunLands DEF RefusedByConversation, TypeInv
      <4> QED
        BY <1>0, <2>o, <3>1, <4>1, CountsRest DEF Slips, TicketOf
    <3>4. CASE ~CountQuestion(r) /\ ~RefusedByConversation(r)
      <4>1. UNCHANGED <<clarify, slips>>
        BY <1>1, <3>4, RunCounts
      <4>2. run'[r] = run[r] \/ (~Uncounted(r) /\ run'[r].pc # "settle")
        <5>1. run'[r] = run[r] \/ run'[r].pc # "settle"
          BY <1>1, <2>2, <2>i, RunLands DEF RunStep, runVars, TypeInv
        <5>2. run'[r] = run[r] \/ ~Uncounted(r)
          <6>1. CASE SettleReply(r)
            BY <6>1 DEF SettleReply, Uncounted
          <6>2. CASE UNCHANGED runVars
            BY <6>2 DEF runVars
          <6>3. CASE run[r].pc = "settle"
            BY <1>1, <2>2, <3>4, <6>1, <6>2, <6>3
               DEF RunStep, Start, Admit, RecordAgentRun, Park, AskModel, Answer, DecideAndStamp,
                   Resume, ProduceDraft, WriteDraft, Escalate, Told, ParkDraft, Act, WaitForUser, At
          <6> QED
            BY <6>3 DEF Uncounted, At
        <5> QED
          BY <5>1, <5>2
      <4> QED
        BY <1>0, <2>o, <3>1, <4>1, <4>2, CountsRest
    <3> QED
      BY <3>2, <3>3, <3>4
  <2> QED
    BY <2>1, <2>2
<1>2. CASE ~(\E r \in scene.runs : RunStep(r))
  <2>1. IsFiniteSet(mail') /\ \A t : Questions(t)' = Questions(t)
    BY <1>0, <1>2, OthersAskNothing
  <2>2. ASSUME NEW r \in Runs, CrashRun(r) PROVE QuestionsAreCounted'
    <3>1. /\ run'[r].pc = "idle" /\ UNCHANGED clarify /\ Slips(r)
          /\ \A o \in Runs \ {r} : run'[o] = run[o]
      BY <2>2 DEF CrashRun, Ends, Idle, TypeInv, RunTypes
    <3> QED
      BY <1>0, <2>1, <3>1, CountsRest DEF Slips, TicketOf
  <2>3. CASE UNCHANGED <<run, clarify, slips>>
    <3>1. PICK r \in Runs : TRUE
      BY PipelineAssumption
    <3> QED
      BY <1>0, <2>1, <2>3, <3>1, CountsRest
  <2>4. UNCHANGED <<run, clarify, slips>> \/ \E r \in Runs : CrashRun(r)
    BY <1>2, OthersCount DEF TellFix, PassHour
  <2> QED
    BY <2>2, <2>3, <2>4
<1> QED
  BY <1>1, <1>2, ScenesAreTyped DEF TypeInv

LEMMA LimitStart == DeskInit => LimitInv
<1> SUFFICES ASSUME DeskInit PROVE LimitInv
  OBVIOUS
<1>0. TypeInv
  BY InitTypes
<1>1. /\ mail = {} /\ agentRuns = <<>> /\ spent = 0
      /\ \A t \in Tickets : clarify[t] = 0 /\ slips[t] = 0
      /\ \A r \in Runs : run[r].pc = "idle"
      /\ \A w \in Writers : writer[w].pc = "idle"
  BY DEF DeskInit, Init, NotifyStart, PipelineStart, Idle, Resting
<1>2. /\ Recording = {} /\ Calling = {} /\ Composing = {}
      /\ \A p \in People : RecordingFor(p) = {}
      /\ \A t \in Tickets : Askers(t) = {} /\ Counting(t) = {} /\ Questions(t) = {}
  BY <1>1 DEF Recording, Calling, Composing, RecordingFor, Askers, Counting, Uncounted, At, Questions
<1>3. Cardinality({}) = 0 /\ IsFiniteSet({})
  BY FS_EmptySet
<1>4. TenantRuns = 0 /\ \A p \in People : RequesterRuns(p) = 0
  <2>1. Len(agentRuns) = 0
    BY <1>1
  <2>2. \A p : {i \in DOMAIN agentRuns : agentRuns[i] = p} = {}
    BY <1>1
  <2> QED
    BY <1>3, <2>1, <2>2 DEF TenantRuns, RequesterRuns
<1>5. PICK s \in InForce : TRUE
  BY <1>0, LimitsAreInForce
<1>6. /\ s.max_agent_runs_per_requester_hour \in Nat /\ s.max_agent_runs_per_tenant_hour \in Nat
      /\ s.max_clarify_rounds \in Nat /\ Together \in Nat
  BY <1>0, LimitsAreInForce, RunsAreFew
<1>7. RequestersKeepTo /\ TenantKeepsTo
  <2>1. \A p \in People : RequesterRuns(p) + Cardinality(RecordingFor(p))
                            <= s.max_agent_runs_per_requester_hour + Together
    BY <1>2, <1>3, <1>4, <1>6
  <2>2. TenantRuns + Cardinality(Recording) <= s.max_agent_runs_per_tenant_hour + Together
    BY <1>2, <1>3, <1>4, <1>6
  <2> QED
    BY <1>5, <2>1, <2>2 DEF RequestersKeepTo, TenantKeepsTo
<1>8. CallsKeepTo
  BY <1>0, <1>1, <1>2, <1>3, CallsAreTyped DEF CallsKeepTo
<1>9. QuestionsAreCounted /\ RoundsKeepTo
  <2>1. ASSUME NEW t \in Tickets
        PROVE  /\ Cardinality(Questions(t)) <= clarify[t] + Cardinality(Counting(t)) + slips[t]
               /\ clarify[t] + Cardinality(Askers(t)) <= s.max_clarify_rounds + Together
    <3>1. /\ Cardinality(Questions(t)) = 0 /\ Cardinality(Counting(t)) = 0
          /\ Cardinality(Askers(t)) = 0 /\ clarify[t] = 0 /\ slips[t] = 0
      BY <1>1, <1>2, <1>3
    <3> QED
      BY <1>6, <3>1
  <2>2. IsFiniteSet(mail)
    BY <1>1, <1>3
  <2> QED
    BY <1>5, <2>1, <2>2 DEF QuestionsAreCounted, RoundsKeepTo
<1> QED
  BY <1>7, <1>8, <1>9 DEF LimitInv

LEMMA LimitsMove ==
  ASSUME TypeInv, PlanInv, LimitInv, [DeskNext]_allVars
  PROVE  LimitInv'
  BY RatesMove, CallsMove, QuestionsMove, RoundsMove DEF LimitInv

LEMMA LimitsAreKept == DeskSpec => [](TypeInv /\ PlanInv /\ LimitInv)
<1>1. DeskInit => LimitInv
  BY LimitStart
<1>2. TypeInv /\ PlanInv /\ LimitInv /\ [DeskNext]_allVars => LimitInv'
  BY LimitsMove
<1> QED
  BY <1>1, <1>2, PlansHold, PTL DEF DeskSpec

\* What is counted before it is recorded is passed by at most the runs that can
\* be in flight: the hourly limits, the day's calls and the rounds of questions
\* are each under what some version in force allowed, plus those
\* (limits.ts:33, gateway.ts:72 and :204, pipeline.ts:477).
THEOREM LimitsAreBounds == DeskSpec => []LimitsHold
<1>1. TypeInv /\ PlanInv /\ LimitInv => LimitsHold
  <2> SUFFICES ASSUME TypeInv, PlanInv, LimitInv PROVE LimitsHold
    OBVIOUS
  <2>1. ASSUME NEW p \in People
        PROVE  \E s \in InForce : RequesterRuns(p) <= s.max_agent_runs_per_requester_hour + Together
    <3>1. PICK s \in InForce : RequesterRuns(p) + Cardinality(RecordingFor(p))
                                 <= s.max_agent_runs_per_requester_hour + Together
      BY DEF LimitInv, RequestersKeepTo
    <3>2. RecordingFor(p) \in SUBSET Runs
      BY DEF RecordingFor, Recording
    <3>3. Cardinality(RecordingFor(p)) \in Nat /\ RequesterRuns(p) \in Nat /\ Together \in Nat
          /\ s.max_agent_runs_per_requester_hour \in Nat
      BY <3>2, RunsAreFew, LimitsAreInForce, RequesterRunsAreTyped DEF TypeInv
    <3> QED
      BY <3>1, <3>3
  <2>2. \E s \in InForce : TenantRuns <= s.max_agent_runs_per_tenant_hour + Together
    <3>1. PICK s \in InForce :
            TenantRuns + Cardinality(Recording) <= s.max_agent_runs_per_tenant_hour + Together
      BY DEF LimitInv, TenantKeepsTo
    <3>2. Recording \in SUBSET Runs
      BY DEF Recording
    <3>3. Cardinality(Recording) \in Nat /\ TenantRuns \in Nat /\ Together \in Nat
          /\ s.max_agent_runs_per_tenant_hour \in Nat
      BY <3>2, RunsAreFew, LimitsAreInForce, RequesterRunsAreTyped DEF TypeInv
    <3> QED
      BY <3>1, <3>3
  <2>3. spent <= CostCap + 1 + 2 * Together + Cardinality(Writers)
    BY CallsAreTyped DEF LimitInv, CallsKeepTo
  <2>4. ASSUME NEW t \in Tickets
        PROVE  \E s \in InForce :
                 Cardinality(Questions(t)) <= s.max_clarify_rounds + Together + slips[t]
    <3>1. PICK s \in InForce : clarify[t] + Cardinality(Askers(t)) <= s.max_clarify_rounds + Together
      BY DEF LimitInv, RoundsKeepTo
    <3>2. Cardinality(Questions(t)) <= clarify[t] + Cardinality(Counting(t)) + slips[t]
      BY DEF LimitInv, QuestionsAreCounted
    <3>3. Counting(t) \subseteq Askers(t) /\ Askers(t) \in SUBSET Runs
      BY CountedRunWasAsking DEF Counting, Askers
    <3>4. /\ Cardinality(Askers(t)) \in Nat /\ Cardinality(Counting(t)) \in Nat
          /\ Cardinality(Counting(t)) <= Cardinality(Askers(t))
      BY <3>3, RunsAreFew, SmallerCounts
    <3>5. Questions(t) \subseteq mail /\ IsFiniteSet(mail)
      BY DEF Questions, LimitInv, QuestionsAreCounted
    <3>6. Cardinality(Questions(t)) \in Nat /\ clarify[t] \in Nat /\ slips[t] \in Nat
          /\ Together \in Nat /\ s.max_clarify_rounds \in Nat
      BY <3>5, SmallerCounts, RunsAreFew, LimitsAreInForce DEF TypeInv, RunTypes
    <3>7. Cardinality(Questions(t)) <= s.max_clarify_rounds + Together + slips[t]
      BY <3>1, <3>2, <3>4, <3>6
    <3> QED
      BY <3>7
  <2> QED
    BY <2>1, <2>2, <2>3, <2>4 DEF LimitsHold, InForce, Together
<1> QED
  BY <1>1, LimitsAreKept, PTL
=============================================================================
