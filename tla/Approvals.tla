----------------------------- MODULE Approvals -----------------------------
(***************************************************************************)
(* The risk gate and the approval queue: the rows of action_requests       *)
(* (packages/core/src/repos/approvals.ts), the gate every tool runs        *)
(* through (packages/tools/src/registry.ts), the pipeline's step that asks *)
(* for permission and parks the ticket                                     *)
(* (packages/agent-helpdesk/src/pipeline.ts), the console's approve and    *)
(* reject (apps/web/app/(console)/approvals/actions.ts) and the worker's   *)
(* expiry sweep (apps/worker/src/index.ts).                                *)
(*                                                                         *)
(* One SQL statement is one step.  A pipeline run raises at most one       *)
(* request, so the run also names the row.                                 *)
(***************************************************************************)
EXTENDS Naturals

CONSTANTS
  Runs,       \* pipeline runs, and the request each may raise
  Visits,     \* submissions of the approve or reject form
  Sweepers,   \* workers running the expiry sweep
  Tickets,
  NoRun,      \* what an idle visit is about
  Tools,      \* the tools a candidate action may name
  Tier,       \* risk tier of each tool
  Autonomies, \* autonomy levels of the categories under test
  Expiry,     \* whether a deadline may pass
  Faults      \* what may go wrong, see FaultKinds

RiskTiers == {"read", "internal", "safe_write", "sensitive", "destructive"}
AutonomyLevels == {"off", "suggest", "reply", "act"}

\* "crash": a process stops between two statements, or a statement fails where
\* nothing but the run's last resort catches it.  "tool": the tool itself
\* fails.  "log": the row of tool_calls cannot be written.
FaultKinds == {"crash", "tool", "log"}

ASSUME ApprovalsAssumption ==
  /\ NoRun \notin Runs
  /\ Tier \in [Tools -> RiskTiers]
  /\ Autonomies \subseteq AutonomyLevels
  /\ Expiry \in BOOLEAN
  /\ Faults \subseteq FaultKinds

VARIABLES
  status,     \* action_requests.status, "none" before the row exists
  decided,    \* what decided_by decided, "none" while decided_at is null
  lapsed,     \* expires_at <= now()
  run,        \* the pipeline run: where it is, its ticket and its candidate tool
  visit,      \* the console visit: where it is and the request it is about
  toTell,     \* expired requests a sweep has yet to write the note for
  told,       \* requests whose ticket carries the note approval_expired
  ticket,     \* tickets.status
  whitelist,  \* settings.auto_action_whitelist
  done,       \* how often the tool ran to its end under this request
  alone,      \* runs whose tool ran without an approval
  unlogged    \* whether the tool ran and the row of its call could not be written

request == <<status, decided, lapsed>>
effects == <<done, alone, unlogged>>
vars == <<request, run, visit, toTell, told, ticket, whitelist, effects>>

ApprovalStatus == {"pending", "approved", "rejected", "expired", "executed", "failed"}
TicketStatus == {"new", "triaged", "awaiting_approval", "in_progress", "resolved"}

\* Where a pipeline run can be: between two awaits of carryOut.
RunPoints == {"idle", "acting", "parking", "replying", "failing", "finished"}

\* Where a visit can be.  "granted" has the row back from decideApproval;
\* "cleared" has passed checkApproval; "retiring" failed it on the deadline;
\* "erred" and "ran" have the tool's outcome and have not recorded it.
Holding == {"granted", "retiring", "cleared", "erred", "ran"}
VisitPoints ==
  Holding \cup {"idle", "unsure", "lapsing", "rejecting", "returning", "working", "dead"}

TypeOK ==
  /\ status \in [Runs -> ApprovalStatus \cup {"none"}]
  /\ decided \in [Runs -> {"none", "approved", "rejected"}]
  /\ lapsed \in [Runs -> BOOLEAN]
  /\ run \in [Runs -> [at : RunPoints, ticket : Tickets, tool : Tools]]
  /\ visit \in [Visits -> [at : VisitPoints, run : Runs \cup {NoRun}]]
  /\ toTell \in [Sweepers -> SUBSET Runs]
  /\ told \subseteq Runs
  /\ ticket \in [Tickets -> TicketStatus]
  /\ whitelist \subseteq Tools
  /\ done \in [Runs -> Nat]
  /\ alone \subseteq Runs
  /\ unlogged \in [Runs -> BOOLEAN]

Idle == [at |-> "idle", run |-> NoRun]

Init ==
  /\ status = [w \in Runs |-> "none"]
  /\ decided = [w \in Runs |-> "none"]
  /\ lapsed = [w \in Runs |-> FALSE]
  /\ run \in [Runs -> [at : {"idle"}, ticket : Tickets, tool : Tools]]
  /\ visit = [v \in Visits |-> Idle]
  /\ toTell = [k \in Sweepers |-> {}]
  /\ told = {}
  /\ ticket = [t \in Tickets |-> "new"]
  /\ whitelist \in SUBSET Tools
  /\ done = [w \in Runs |-> 0]
  /\ alone = {}
  /\ unlogged = [w \in Runs |-> FALSE]

----------------------------------------------------------------------------
(* The pipeline: deciding, passing the gate, asking, parking.              *)

\* What the decision makes of a candidate tool, once no rule has escalated:
\* where the run goes next and the status applyTriage writes.
Outcome(tool, autonomy) ==
  CASE autonomy \in {"off", "suggest"} -> [at |-> "finished", status |-> "triaged"]
    [] tool \notin whitelist -> [at |-> "replying", status |-> "resolved"]
    [] autonomy = "reply" -> [at |-> "finished", status |-> "awaiting_approval"]
    [] OTHER -> [at |-> "acting", status |-> "in_progress"]

DecideRun(w) ==
  \E autonomy \in Autonomies :
    LET outcome == Outcome(run[w].tool, autonomy) IN
    /\ run[w].at = "idle"
    /\ run' = [run EXCEPT ![w].at = outcome.at]
    /\ ticket' = [ticket EXCEPT ![run[w].ticket] = outcome.status]
    /\ UNCHANGED <<request, visit, toTell, told, whitelist, effects>>

\* The gate for a call without an approval.  A run that acts was decided with
\* the tool on the whitelist, and hands the gate that same copy of the settings.
NeedsApproval(tool) == Tier[tool] \in {"sensitive", "destructive"}

ActUnattended(w) ==
  /\ run[w].at = "acting"
  /\ ~NeedsApproval(run[w].tool)
  /\ \/ /\ alone' = alone \cup {w}
        /\ run' = [run EXCEPT ![w].at = "replying"]
     \/ /\ "log" \in Faults
        /\ alone' = alone \cup {w}
        /\ run' = [run EXCEPT ![w].at = "failing"]
     \/ /\ "tool" \in Faults
        /\ run' = [run EXCEPT ![w].at = "failing"]
        /\ UNCHANGED alone
  /\ UNCHANGED <<request, visit, toTell, told, ticket, whitelist, done, unlogged>>

RequestApproval(w) ==
  /\ run[w].at = "acting"
  /\ NeedsApproval(run[w].tool)
  /\ status' = [status EXCEPT ![w] = "pending"]
  /\ run' = [run EXCEPT ![w].at = "parking"]
  /\ UNCHANGED <<decided, lapsed, visit, toTell, told, ticket, whitelist, effects>>

Moves(w, s, at) ==
  /\ ticket' = [ticket EXCEPT ![run[w].ticket] = s]
  /\ run' = [run EXCEPT ![w].at = at]
  /\ UNCHANGED <<request, visit, toTell, told, whitelist, effects>>

Park(w) == run[w].at = "parking" /\ Moves(w, "awaiting_approval", "finished")

Reply(w) == run[w].at = "replying" /\ Moves(w, "resolved", "finished")

GiveUp(w) == run[w].at = "failing" /\ Moves(w, "triaged", "finished")

CrashRun(w) ==
  /\ "crash" \in Faults
  /\ run[w].at \in {"acting", "parking", "replying", "failing"}
  /\ \/ run' = [run EXCEPT ![w].at = "finished"]
     \/ run[w].at # "failing" /\ run' = [run EXCEPT ![w].at = "failing"]
  /\ UNCHANGED <<request, visit, toTell, told, ticket, whitelist, effects>>

EditWhitelist(tool) ==
  /\ \/ whitelist' = whitelist \ {tool}
     \/ whitelist' = whitelist \cup {tool}
  /\ UNCHANGED <<request, run, visit, toTell, told, ticket, effects>>

----------------------------------------------------------------------------
(* The console: one visit decides one request and, if it said yes, runs    *)
(* the tool and records what came of it.                                   *)

Goes(v, at) == visit' = [visit EXCEPT ![v].at = at]

Leaves(v) == visit' = [visit EXCEPT ![v] = Idle]

\* Mutant: the last reviewer wins.
DecidableAgain(w) == status[w] \in {"pending", "approved"} /\ ~lapsed[w]

\* The one statement of decideApproval: the status and the deadline are part
\* of its predicate, so it decides or it matches no row.
Decidable(w) == status[w] = "pending" /\ ~lapsed[w]

Decide(v, w, decision) ==
  /\ visit[v].at = "idle"
  /\ Decidable(w)
  /\ status' = [status EXCEPT ![w] = decision]
  /\ decided' = [decided EXCEPT ![w] = decision]
  /\ visit' = [visit EXCEPT ![v] =
       [at |-> IF decision = "approved" THEN "granted" ELSE "rejecting", run |-> w]]
  /\ UNCHANGED <<lapsed, run, toTell, told, ticket, whitelist, effects>>

\* The form of a request somebody else decided, or whose deadline has passed.
DecideNothing(v, w) ==
  /\ visit[v].at = "idle"
  /\ status[w] # "none"
  /\ ~Decidable(w)
  /\ visit' = [visit EXCEPT ![v] = [at |-> "unsure", run |-> w]]
  /\ UNCHANGED <<request, run, toTell, told, ticket, whitelist, effects>>

\* The select after it, which tells "expired" from "decided by somebody else".
StaleStatuses == {"pending", "expired"}

ReadStale(v) ==
  /\ visit[v].at = "unsure"
  /\ IF status[visit[v].run] \in StaleStatuses THEN Goes(v, "lapsing") ELSE Leaves(v)
  /\ UNCHANGED <<request, run, toTell, told, ticket, whitelist, effects>>

\* Mutant: markExpired without "and status = 'pending'".
MarkExpiredUnguarded(v) ==
  /\ visit[v].at = "lapsing"
  /\ status' = [status EXCEPT ![visit[v].run] = "expired"]
  /\ Leaves(v)
  /\ UNCHANGED <<decided, lapsed, run, toTell, told, ticket, whitelist, effects>>

\* markExpired, and the ApprovalExpiredError that ends the visit.
MarkExpired(v) ==
  LET w == visit[v].run IN
  /\ visit[v].at = "lapsing"
  /\ status' = IF status[w] = "pending" THEN [status EXCEPT ![w] = "expired"] ELSE status
  /\ Leaves(v)
  /\ UNCHANGED <<decided, lapsed, run, toTell, told, ticket, whitelist, effects>>

\* checkApproval's select.  The tool and the arguments are the row's own, so
\* the row is found and the hash agrees.
CheckApproval(v) ==
  LET w == visit[v].run IN
  /\ visit[v].at = "granted"
  /\ \/ status[w] # "approved" /\ Goes(v, "erred")
     \/ status[w] = "approved" /\ lapsed[w] /\ Goes(v, "retiring")
     \/ status[w] = "approved" /\ ~lapsed[w] /\ Goes(v, "cleared")
  /\ UNCHANGED <<request, run, toTell, told, ticket, whitelist, effects>>

\* markExpiredAfterApproval, and the ApprovalInvalidError executeTool throws.
MarkExpiredAfterApproval(v) ==
  LET w == visit[v].run IN
  /\ visit[v].at = "retiring"
  /\ status' = IF status[w] = "approved" THEN [status EXCEPT ![w] = "expired"] ELSE status
  /\ Goes(v, "erred")
  /\ UNCHANGED <<decided, lapsed, run, toTell, told, ticket, whitelist, effects>>

\* Mutant: a failure that is logged and not rethrown.
RunToolSwallows(v) ==
  LET w == visit[v].run IN
  /\ visit[v].at = "cleared"
  /\ \/ done' = [done EXCEPT ![w] = @ + 1]
     \/ "tool" \in Faults /\ UNCHANGED done
  /\ Goes(v, "ran")
  /\ UNCHANGED <<request, run, toTell, told, ticket, whitelist, alone, unlogged>>

\* tool.execute and logToolCall share one try: a result whose row cannot be
\* written is handled, and recorded, as a tool that failed.
RunTool(v) ==
  LET w == visit[v].run IN
  /\ visit[v].at = "cleared"
  /\ \/ /\ done' = [done EXCEPT ![w] = @ + 1]
        /\ \/ Goes(v, "ran") /\ UNCHANGED unlogged
           \/ "log" \in Faults /\ Goes(v, "erred") /\ unlogged' = [unlogged EXCEPT ![w] = TRUE]
     \/ "tool" \in Faults /\ Goes(v, "erred") /\ UNCHANGED <<done, unlogged>>
  /\ UNCHANGED <<request, run, toTell, told, ticket, whitelist, alone>>

\* Mutant: a failed request goes back to the queue.
RecordOutcomeRequeues(v) ==
  LET ok == visit[v].at = "ran" IN
  /\ visit[v].at \in {"ran", "erred"}
  /\ status' = [status EXCEPT ![visit[v].run] = IF ok THEN "executed" ELSE "pending"]
  /\ Goes(v, IF ok THEN "working" ELSE "returning")
  /\ UNCHANGED <<decided, lapsed, run, toTell, told, ticket, whitelist, effects>>

\* recordApprovalOutcome, which has no predicate but the id.
RecordOutcome(v) ==
  LET w == visit[v].run
      ok == visit[v].at = "ran" IN
  /\ visit[v].at \in {"ran", "erred"}
  /\ status' = [status EXCEPT ![w] = IF ok THEN "executed" ELSE "failed"]
  /\ Goes(v, IF ok THEN "working" ELSE "returning")
  /\ UNCHANGED <<decided, lapsed, run, toTell, told, ticket, whitelist, effects>>

\* The ticket's next status, and the end of the visit.
StatusAfter == [working |-> "in_progress", returning |-> "triaged", rejecting |-> "triaged"]

\* Mutant: a rejection leaves the ticket where it was.
MoveTicketUnlessRejected(v) ==
  /\ visit[v].at \in DOMAIN StatusAfter
  /\ ticket' = IF visit[v].at = "rejecting" THEN ticket
               ELSE [ticket EXCEPT ![run[visit[v].run].ticket] = StatusAfter[visit[v].at]]
  /\ Leaves(v)
  /\ UNCHANGED <<request, run, toTell, told, whitelist, effects>>

MoveTicket(v) ==
  /\ visit[v].at \in DOMAIN StatusAfter
  /\ ticket' = [ticket EXCEPT ![run[visit[v].run].ticket] = StatusAfter[visit[v].at]]
  /\ Leaves(v)
  /\ UNCHANGED <<request, run, toTell, told, whitelist, effects>>

CrashVisit(v) ==
  /\ "crash" \in Faults
  /\ visit[v].at \notin {"idle", "dead"}
  /\ visit' = [visit EXCEPT ![v] = [at |-> "dead", run |-> NoRun]]
  /\ UNCHANGED <<request, run, toTell, told, ticket, whitelist, effects>>

----------------------------------------------------------------------------
(* Time, and the worker's sweep.                                           *)

Lapse(w) ==
  /\ Expiry
  /\ status[w] # "none"
  /\ ~lapsed[w]
  /\ lapsed' = [lapsed EXCEPT ![w] = TRUE]
  /\ UNCHANGED <<status, decided, run, visit, toTell, told, ticket, whitelist, effects>>

\* Mutant: approved rows never expire.
OverduePendingOnly == {w \in Runs : status[w] = "pending" /\ lapsed[w]}

\* expireApprovals: one statement, returning the rows it expired.
Overdue == {w \in Runs : status[w] \in {"pending", "approved"} /\ lapsed[w]}

Expire(k) ==
  /\ toTell[k] = {}
  /\ Overdue # {}
  /\ status' = [w \in Runs |-> IF w \in Overdue THEN "expired" ELSE status[w]]
  /\ toTell' = [toTell EXCEPT ![k] = Overdue]
  /\ UNCHANGED <<decided, lapsed, run, visit, told, ticket, whitelist, effects>>

Tell(k, w) ==
  /\ w \in toTell[k]
  /\ toTell' = [toTell EXCEPT ![k] = @ \ {w}]
  /\ told' = told \cup {w}
  /\ UNCHANGED <<request, run, visit, ticket, whitelist, effects>>

CrashSweep(k) ==
  /\ "crash" \in Faults
  /\ toTell[k] # {}
  /\ toTell' = [toTell EXCEPT ![k] = {}]
  /\ UNCHANGED <<request, run, visit, told, ticket, whitelist, effects>>

----------------------------------------------------------------------------
RunStep(w) ==
  \/ DecideRun(w) \/ ActUnattended(w) \/ RequestApproval(w)
  \/ Park(w) \/ Reply(w) \/ GiveUp(w)

VisitStep(v) ==
  \/ ReadStale(v) \/ MarkExpired(v)
  \/ CheckApproval(v) \/ MarkExpiredAfterApproval(v) \/ RunTool(v)
  \/ RecordOutcome(v) \/ MoveTicket(v)

SweepStep(k) == Expire(k) \/ \E w \in Runs : Tell(k, w)

Next ==
  \/ \E w \in Runs : RunStep(w) \/ CrashRun(w) \/ Lapse(w)
  \/ \E v \in Visits, w \in Runs :
       \/ \E decision \in {"approved", "rejected"} : Decide(v, w, decision)
       \/ DecideNothing(v, w)
  \/ \E v \in Visits : VisitStep(v) \/ CrashVisit(v)
  \/ \E k \in Sweepers : SweepStep(k) \/ CrashSweep(k)
  \/ \E tool \in Tools : EditWhitelist(tool)

Spec == Init /\ [][Next]_vars

\* The sweep runs on a timer, deadlines pass, and a process that is not stopped
\* goes on.  Nobody has to decide anything.
Fairness ==
  /\ \A w \in Runs : WF_vars(RunStep(w)) /\ WF_vars(Lapse(w))
  /\ \A v \in Visits : WF_vars(VisitStep(v))
  /\ \A k \in Sweepers : WF_vars(SweepStep(k))

FairSpec == Spec /\ Fairness

----------------------------------------------------------------------------
(* Properties.                                                             *)

\* A tool runs under a request only if somebody approved that request, however
\* visits, deadlines and sweeps interleave.  decideApproval decides in one
\* statement and executeTool reads the row again before it runs anything.
RunsWereGranted == \A w \in Runs : done[w] > 0 => decided[w] = "approved"

\* And at most once.  Nothing consumes an approval: the row stays approved while
\* the tool runs, so this rests on one visit only being handed the row.
OncePerApproval == \A w \in Runs : done[w] <= 1

\* A tool the gate holds back never runs without an approval, whatever the
\* tenant's whitelist has held and whenever it was edited.
GateHolds == \A w \in alone : Tier[run[w].tool] \notin {"sensitive", "destructive"}

\* What the row says is what happened: an executed request ran, a request its
\* reviewer rejected did not, and a failed one ran only if the row of its call
\* could not be written, the one way in which executeTool throws after the tool.
RecordIsTrue == \A w \in Runs :
  /\ status[w] = "executed" => done[w] = 1
  /\ decided[w] = "rejected" => status[w] = "rejected" /\ done[w] = 0
  /\ status[w] = "failed" /\ done[w] > 0 => unlogged[w]

\* The visit v was handed the approval of w and has not recorded its outcome.
Holds(v, w) == visit[v].run = w /\ visit[v].at \in Holding

\* Why these hold: what a visit holding an approval may rely on, that it is
\* alone, and what the row of a request says about its past.
HolderKnows == \A v \in Visits, w \in Runs : Holds(v, w) =>
  /\ decided[w] = "approved"
  /\ status[w] \in {"approved", "expired"}
  /\ visit[v].at \in {"granted", "retiring", "cleared"} => done[w] = 0
  /\ visit[v].at = "ran" => done[w] = 1
  /\ visit[v].at = "erred" /\ done[w] > 0 => unlogged[w]
  /\ visit[v].at = "retiring" => lapsed[w]

OneHolder == \A u, v \in Visits, w \in Runs : Holds(u, w) /\ Holds(v, w) => u = v

RowKnows == \A w \in Runs :
  /\ status[w] \in {"none", "pending"} => decided[w] = "none" /\ done[w] = 0
  /\ status[w] \in {"approved", "executed", "failed"} => decided[w] = "approved"
  /\ status[w] = "rejected" <=> decided[w] = "rejected"
  /\ status[w] = "expired" => lapsed[w]
  /\ status[w] = "executed" => done[w] = 1
  /\ status[w] = "failed" /\ done[w] > 0 => unlogged[w]
  /\ done[w] \in {0, 1}
  /\ done[w] = 1 => decided[w] = "approved"
  /\ run[w].at \in {"idle", "acting"} => status[w] = "none"

\* A visit that missed the decision only expires a row whose deadline passed.
LateKnows == \A v \in Visits : visit[v].at \notin {"idle", "dead"} =>
  /\ visit[v].run \in Runs
  /\ status[visit[v].run] # "none"
  /\ visit[v].at \in {"unsure", "lapsing"} /\ status[visit[v].run] = "pending" =>
       lapsed[visit[v].run]

Custody == HolderKnows /\ OneHolder /\ RowKnows /\ LateKnows

\* A request expires only after its deadline, also when the statement that
\* expires it acts on a status read earlier.
OnlyLapsedExpire ==
  [][\A w \in Runs : status[w] # "expired" /\ status'[w] = "expired" => lapsed[w]]_vars

\* A settled request is final but for one case: the visit that was handed the
\* approval may still write an outcome over "expired".
SettledIsFinal ==
  [][\A w \in Runs :
       /\ status[w] \in {"rejected", "executed", "failed"} => status'[w] = status[w]
       /\ status[w] = "expired" /\ status'[w] # "expired" =>
            \E v \in Visits : Holds(v, w) /\ ~Holds(v, w)']_vars

\* Every request is settled in the end, with reviewers who never come or come
\* late, and with visits that die holding an approval.
RequestsSettle ==
  \A w \in Runs : status[w] \in {"pending", "approved"} ~>
                   status[w] \in {"rejected", "expired", "executed", "failed"}

\* When the only request on a parked ticket is decided, the ticket leaves
\* awaiting_approval, unless the visit that decided it dies on the way.
DecisionsMoveTheTicket ==
  \A v \in Visits, w \in Runs :
    visit[v].run = w /\ visit[v].at \in {"granted", "rejecting"} /\ run[w].at = "finished"
      ~> visit[v].at = "dead" \/ ticket[run[w].ticket] # "awaiting_approval"

\* apps/worker/src/index.ts:91, of the sweep: it tells somebody, because "an
\* approval that lapses in silence is indistinguishable from one that was
\* quietly denied".
LapsesAreTold ==
  \A w \in Runs : status[w] = "expired" =>
    w \in told \/ \E k \in Sweepers : w \in toTell[k]
=============================================================================
