--------------------------- MODULE ConfigVersions ---------------------------
(***************************************************************************)
(* A tenant's settings, their versions and the proposals that need a       *)
(* second administrator: packages/core/src/repos/config.ts behind          *)
(* apps/web/app/(console)/settings/actions.ts, with the meaning of a       *)
(* change from packages/core/src/config-policy.ts and the tables of        *)
(* db/migrations/0008_config_versions.sql.  Who may ask is Access.         *)
(*                                                                         *)
(* A field is its dotted path.  A value is a number (a threshold, a limit, *)
(* the rank of an autonomy level or of a mode), a switch or a set of       *)
(* names; a category policy may be Unset.  A request reads, compares and   *)
(* writes in separate steps; commitVersion is one transaction.             *)
(***************************************************************************)
EXTENDS Access, Sequences

CONSTANTS
  Fields,         \* the fields of the settings object
  Unset,          \* a category without a policy of its own
  Submissions,    \* what the forms of the settings page submit: values of some fields
  Saves,          \* requests on the settings, each made once
  MaxVersions,    \* bound: versions a behaviour writes
  MaxProposals    \* bound: proposals a behaviour makes

CRITICAL_FIELDS ==
  {<<"default_policy">>, <<"category_policies">>, <<"agent_mode_override">>,
   <<"auto_action_whitelist">>, <<"never_auto_categories">>, <<"vip_always_human">>,
   <<"human_only_departments">>, <<"routing">>, <<"kb_support_floor">>, <<"followup_hours">>,
   <<"scrub_secrets_at_rest">>, <<"max_agent_runs_per_requester_hour">>,
   <<"max_agent_runs_per_tenant_hour">>, <<"max_clarify_rounds">>,
   <<"require_dual_control_for_widening">>, <<"approval_expiry_hours">>,
   <<"notifications", "enabled">>, <<"notifications", "approval">>}
\* A rank: autonomy is off, suggest, reply, act; a mode is shadow, assist, auto,
\* and null, "the widest this can be", above them.
RANKED == {"autonomy", "agent_mode_override"}
HIGHER_IS_WIDER == {"max_agent_runs_per_requester_hour", "max_agent_runs_per_tenant_hour",
                    "max_clarify_rounds", "approval_expiry_hours"}
LOWER_IS_WIDER == {"confidence_threshold", "kb_support_floor", "followup_hours"}
ADDING_WIDENS == {"auto_action_whitelist"}
REMOVING_WIDENS == {"never_auto_categories", "human_only_departments"}
FALSE_IS_WIDER == {<<"vip_always_human">>, <<"scrub_secrets_at_rest">>,
                   <<"require_dual_control_for_widening">>,
                   <<"notifications", "enabled">>, <<"notifications", "approval">>}
Dual == <<"require_dual_control_for_widening">>

Leaf(f) == f[Len(f)]
Below(f, k) == Len(k) <= Len(f) /\ SubSeq(f, 1, Len(k)) = k
Critical(f) == \E k \in CRITICAL_FIELDS : Below(f, k)
OfCategory(f) == Head(f) = "category_policies"
DefaultOf(f) == <<"default_policy", Leaf(f)>>

ASSUME ConfigAssumption ==
  /\ Fields \subseteq Seq(STRING) /\ <<>> \notin Fields
  /\ \A f \in Fields : Len(f) = IF OfCategory(f) THEN 3
                                ELSE IF Head(f) \in {"default_policy", "notifications"} THEN 2 ELSE 1
  /\ \A f \in Fields : OfCategory(f) => DefaultOf(f) \in Fields
  /\ Dual \in Fields
  /\ \A form \in Submissions : DOMAIN form \subseteq Fields
  /\ Scenarios # {} /\ \A sc \in Scenarios : sc.settings = [f \in Fields |-> sc.settings[f]]
  /\ MaxVersions \in Nat \ {0} /\ MaxProposals \in Nat

(***************************************************************************)
(* What a change means                                                     *)
(***************************************************************************)

Compare(before, after) ==
  IF Unset \in {before, after} \/ after = before THEN "lateral"
  ELSE IF after > before THEN "widening" ELSE "narrowing"

CompareLists(before, after, widens, narrows) ==
  IF widens # {} THEN "widening" ELSE IF narrows # {} THEN "narrowing" ELSE "lateral"

DirectionOf(f, before, after) ==
  CASE Leaf(f) \in RANKED \cup HIGHER_IS_WIDER -> Compare(before, after)
    [] Leaf(f) \in LOWER_IS_WIDER -> Compare(after, before)
    [] f \in FALSE_IS_WIDER \/ <<Leaf(f)>> \in FALSE_IS_WIDER ->
         IF before = after THEN "lateral" ELSE IF after THEN "narrowing" ELSE "widening"
    [] Leaf(f) \in ADDING_WIDENS -> CompareLists(before, after, after \ before, before \ after)
    [] Leaf(f) \in REMOVING_WIDENS -> CompareLists(before, after, before \ after, after \ before)
    [] OTHER -> "lateral"

\* fallbackFor: a category without a policy runs under the default one.
InForce(s, f) == IF s[f] = Unset /\ OfCategory(f) THEN s[DefaultOf(f)] ELSE s[f]

\* Broken form: a category without a policy has no value to compare with.
DiffWithoutFallback(before, after) ==
  [f \in {g \in Fields : before[g] # after[g]} |->
     [old |-> before[f], new |-> after[f], direction |-> DirectionOf(f, before[f], after[f])]]

DiffSettings(before, after) ==
  [f \in {g \in Fields : before[g] # after[g]} |->
     [old |-> before[f], new |-> after[f],
      direction |-> DirectionOf(f, InForce(before, f), InForce(after, f))]]

ChangesCritical(changes) == \E f \in DOMAIN changes : Critical(f)
RequiresDualControl(changes) ==
  \E f \in DOMAIN changes : Critical(f) /\ changes[f].direction = "widening"

(***************************************************************************)
(* State                                                                   *)
(***************************************************************************)

VARIABLES
  settings,   \* businesses.settings
  versions,   \* config_versions by number, with what the committing request knew
  proposals,  \* config_change_requests
  save        \* each request: where it is and what it has read

configVars == <<settings, versions, proposals, save>>
adminVars == <<accessVars, configVars>>

NoChanges == [f \in {} |-> "none"]
AnySettings == (CHOOSE sc \in Scenarios : TRUE).settings
Fresh == [pc |-> "unused", op |-> "none", by |-> NoUser, as |-> Nobody, next |-> AnySettings,
          acknowledged |-> FALSE, base |-> 0, changes |-> NoChanges, proposal |-> 0, version |-> 0]

ConfigInit ==
  \E sc \in Scenarios :
    /\ AccessStart(sc)
    /\ settings = sc.settings
    /\ versions = <<[settings |-> settings, changes |-> NoChanges, source |-> "seed", base |-> 0,
                     asked |-> NoUser, as |-> Nobody, acknowledged |-> FALSE, by |-> NoUser]>>
    /\ proposals = <<>>
    /\ save = [s \in Saves |-> Fresh]

Status(p, status) == [proposals EXCEPT ![p].status = status]
At(s, pc) == save[s].pc = pc
Move(s, pc) == save' = [save EXCEPT ![s].pc = pc]
End(s) == save' = [save EXCEPT ![s] = [Fresh EXCEPT !.pc = "done"]]
Begin(s, u, op, pc, next, acknowledged, p) ==
  /\ s \in expected /\ At(s, "unused")
  /\ Can(RoleNow(u), "config:update")
  /\ save' = [save EXCEPT ![s] =
       [Fresh EXCEPT !.pc = pc, !.op = op, !.by = u, !.as = RoleNow(u), !.next = next,
                     !.acknowledged = acknowledged, !.proposal = p]]
  /\ UNCHANGED <<settings, versions, proposals>>

(***************************************************************************)
(* Changing the settings                                                   *)
(***************************************************************************)

\* proposedFrom: what is in force now, with the form's fields as submitted.
SubmitForm(s, u) ==
  \E form \in Submissions, acknowledged \in BOOLEAN :
    LET next == [f \in Fields |-> IF f \in DOMAIN form THEN form[f] ELSE settings[f]]
    IN Begin(s, u, "update", "compare", next, acknowledged, 0)

SubmitRollback(s, u) ==
  \E v \in DOMAIN versions, acknowledged \in BOOLEAN :
    Begin(s, u, "rollback", "compare", versions[v].settings, acknowledged, 0)

\* previewSettingsChange and the gates ask this of one read of the settings.
NeedsSecondApprover(before, changes) == RequiresDualControl(changes) /\ before[Dual]

\* The gates of updateSettings and rollbackConfig, on one read of the settings.
\* The forms demand a reason, so none is missing.
Gate(k, before, changes) ==
  CASE DOMAIN changes = {} -> "done"
    [] ChangesCritical(changes) /\ ~Can(k.as, "security:update") -> "done"
    [] RequiresDualControl(changes) /\ ~k.acknowledged -> "done"
    [] NeedsSecondApprover(before, changes) -> "propose"
    [] OTHER -> "commit"

CompareSettings(s) ==
  /\ At(s, "compare")
  /\ LET changes == DiffSettings(settings, save[s].next)
         gate == Gate(save[s], settings, changes)
     IN IF gate = "done" THEN End(s)
        ELSE save' = [save EXCEPT ![s].pc = gate, ![s].changes = changes, ![s].base = Len(versions)]
  /\ UNCHANGED <<settings, versions, proposals>>

\* proposeChange: the base is the version of now, not the one compared with.
ProposeChange(s) ==
  /\ At(s, "propose") /\ Len(proposals) < MaxProposals
  /\ proposals' = Append(proposals,
       [settings |-> save[s].next, changes |-> save[s].changes, base |-> Len(versions),
        status |-> "pending", asked |-> save[s].by, decided |-> NoUser, version |-> 0, lapsed |-> FALSE])
  /\ End(s)
  /\ UNCHANGED <<settings, versions>>

Source(k) == IF k.op = "rollback" THEN "rollback" ELSE "update"
Asker(k) == IF k.op = "decide" THEN proposals[k.proposal].asked ELSE k.by

\* commitVersion: one transaction under the lock of the tenant's row.
CommitVersion(s) ==
  /\ At(s, "commit") /\ Len(versions) < MaxVersions
  /\ LET k == save[s] IN
       /\ settings' = k.next
       /\ versions' = Append(versions,
            [settings |-> k.next, changes |-> k.changes, source |-> Source(k), base |-> k.base,
             asked |-> Asker(k), as |-> k.as,
             acknowledged |-> k.acknowledged, by |-> k.by])
       /\ IF k.op = "decide"
          THEN save' = [save EXCEPT ![s].pc = "applied", ![s].version = Len(versions) + 1]
          ELSE End(s)
  /\ UNCHANGED proposals

(***************************************************************************)
(* The second administrator                                                *)
(***************************************************************************)

\* Broken form: whoever proposed a change may decide it.
OpenDecisionOwn(s, u) ==
  \E p \in DOMAIN proposals, verdict \in {"approved", "rejected"} :
    /\ Can(RoleNow(u), "security:update")
    /\ proposals[p].status = "pending"
    /\ Begin(s, u, "decide",
             IF proposals[p].lapsed THEN "expire" ELSE IF verdict = "rejected" THEN "reject" ELSE "base",
             proposals[p].settings, TRUE, p)

\* decideConfigRequest up to its first write: the row is read as pending.
OpenDecision(s, u) ==
  \E p \in DOMAIN proposals, verdict \in {"approved", "rejected"} :
    /\ Can(RoleNow(u), "security:update")
    /\ proposals[p].status = "pending"
    /\ proposals[p].asked # u
    /\ Begin(s, u, "decide",
             IF proposals[p].lapsed THEN "expire" ELSE IF verdict = "rejected" THEN "reject" ELSE "base",
             proposals[p].settings, TRUE, p)

\* The writes name the proposal by its id alone.
WriteExpired(s) ==
  /\ At(s, "expire")
  /\ proposals' = Status(save[s].proposal, "expired")
  /\ End(s)
  /\ UNCHANGED <<settings, versions>>

WriteRejected(s) ==
  /\ At(s, "reject")
  /\ proposals' = [Status(save[s].proposal, "rejected") EXCEPT ![save[s].proposal].decided = save[s].by]
  /\ End(s)
  /\ UNCHANGED <<settings, versions>>

CheckBase(s) ==
  /\ At(s, "base")
  /\ Move(s, IF Len(versions) # proposals[save[s].proposal].base THEN "stale" ELSE "read")
  /\ UNCHANGED <<settings, versions, proposals>>

WriteStale(s) ==
  /\ At(s, "stale")
  /\ proposals' = Status(save[s].proposal, "stale")
  /\ End(s)
  /\ UNCHANGED <<settings, versions>>

\* Broken form: the history records the change the proposal was stored with.
ReadBeforeAsProposed(s) ==
  /\ At(s, "read")
  /\ save' = [save EXCEPT ![s].pc = "commit", ![s].base = Len(versions),
                          ![s].changes = proposals[save[s].proposal].changes]
  /\ UNCHANGED <<settings, versions, proposals>>

\* The history records the change against what is in force, not what was proposed.
ReadBefore(s) ==
  /\ At(s, "read")
  /\ save' = [save EXCEPT ![s].pc = "commit", ![s].base = Len(versions),
                          ![s].changes = DiffSettings(settings, save[s].next)]
  /\ UNCHANGED <<settings, versions, proposals>>

WriteApplied(s) ==
  /\ At(s, "applied")
  /\ LET p == save[s].proposal IN
       proposals' = [Status(p, "applied") EXCEPT ![p].decided = save[s].by,
                                                 ![p].version = save[s].version]
  /\ End(s)
  /\ UNCHANGED <<settings, versions>>

(***************************************************************************)
(* The worker, the clock and the next step                                 *)
(***************************************************************************)

\* expires_at has passed; the clock matters to pending proposals only.
Lapse(p) ==
  /\ p \in DOMAIN proposals /\ proposals[p].status = "pending" /\ ~proposals[p].lapsed
  /\ proposals' = [proposals EXCEPT ![p].lapsed = TRUE]
  /\ UNCHANGED <<settings, versions, save>>

Overdue(p) == proposals[p].status = "pending" /\ proposals[p].lapsed

\* expireConfigRequests, in the worker's sweep of expiries.
ExpireProposals ==
  /\ \E p \in DOMAIN proposals : Overdue(p)
  /\ proposals' = [p \in DOMAIN proposals |->
       IF Overdue(p) THEN [proposals[p] EXCEPT !.status = "expired"] ELSE proposals[p]]
  /\ UNCHANGED <<settings, versions, save>>

\* The console stops between two statements.
SaveCrash(s) ==
  /\ save[s].pc \notin {"unused", "done"}
  /\ End(s)
  /\ UNCHANGED <<settings, versions, proposals>>

SaveStep(s) ==
  \/ CompareSettings(s) \/ ProposeChange(s) \/ CommitVersion(s)
  \/ WriteExpired(s) \/ WriteRejected(s) \/ CheckBase(s) \/ WriteStale(s)
  \/ ReadBefore(s) \/ WriteApplied(s) \/ SaveCrash(s)

SaveRequest(s, u) == SubmitForm(s, u) \/ SubmitRollback(s, u) \/ OpenDecision(s, u)

ConfigNext ==
  \/ \E s \in Saves : SaveStep(s) \/ \E u \in Users : SaveRequest(s, u)
  \/ \E p \in 1..MaxProposals : Lapse(p)
  \/ ExpireProposals

AdminNext ==
  \/ ConfigNext /\ UNCHANGED accessVars
  \/ AccessNext /\ UNCHANGED configVars

AdminSpec == ConfigInit /\ [][AdminNext]_adminVars

(***************************************************************************)
(* Properties                                                              *)
(***************************************************************************)

\* What the settings let the agent do in a place: a category without a policy
\* follows the default one, a restriction counts where it holds.
Wider(f, before, after) ==
  DirectionOf(f, InForce(before, f), InForce(after, f)) = "widening"

Freer(before, after) ==
  \E f \in Fields : Critical(f) /\ Wider(f, before, after)

\* Every version that leaves the agent freer than the one before it was asked
\* for by somebody who may widen it and has acknowledged it, and while two people
\* are demanded there were two; unless the request had compared its settings with
\* a version that was no longer the last when it committed (config.ts:394 reads
\* them before the lock), which only a second request can bring about.
WideningIsGated ==
  \A v \in 2..Len(versions) :
    LET before == versions[v - 1].settings
        new == versions[v]
    IN Freer(before, new.settings) =>
         \/ new.base # v - 1
         \/ /\ Can(new.as, "security:update") /\ new.acknowledged
            /\ before[Dual] => new.asked # new.by

\* The history explains the settings: what is in force is the last version, and
\* what each version records as changed is its difference from the one before,
\* also when it was proposed against other settings than those it replaced;
\* unless its request was overtaken after it had read.
HistoryExplains ==
  /\ settings = versions[Len(versions)].settings
  /\ \A v \in 2..Len(versions) :
       versions[v].base = v - 1 =>
         versions[v].changes = DiffSettings(versions[v - 1].settings, versions[v].settings)

\* A proposal marked applied names the version that holds its settings, and the
\* person who decided it is not the one who asked; a rejected one was decided too.
DecisionsAreTrue ==
  \A p \in DOMAIN proposals :
    LET r == proposals[p] IN
      /\ r.status = "applied" =>
           /\ r.version \in DOMAIN versions /\ versions[r.version].settings = r.settings
           /\ versions[r.version].by = r.decided /\ versions[r.version].asked = r.asked
      /\ r.status \in {"applied", "rejected"} => r.decided \notin {r.asked, NoUser}
=============================================================================
