------------------------------- MODULE Access -------------------------------
(***************************************************************************)
(* Who may act in one tenant: memberships and invitations                  *)
(* (packages/core/src/repos/users.ts), sessions                            *)
(* (packages/core/src/auth/sessions.ts, apps/web/lib/auth.ts,              *)
(* apps/web/app/(auth)/actions.ts), API keys                               *)
(* (packages/core/src/repos/api-keys.ts) and the roles all of them go      *)
(* through (packages/core/src/auth/permissions.ts).                        *)
(*                                                                         *)
(* A request of the console resolves its context, with the role the        *)
(* membership has at that moment, in its first step and carries it to the  *)
(* last; each statement on the database is a step.  Passwords, hashes,     *)
(* audit rows and what a user does in other tenants are left out.          *)
(***************************************************************************)
EXTENDS Naturals, FiniteSets

CONSTANTS
  Users,        \* the people the deployment knows
  NoUser,       \* no actor: a context built for an API key, a column left null
  SuperAdmins,  \* users.is_super_admin
  Outsiders,    \* users with a membership in another tenant as well
  Calls,        \* requests that change who has access, each made once
  ApiKeys,      \* API keys that may be issued, each once
  Offered,      \* bound: the roles that are handed out, some the settings page offers
  Scenarios     \* bound: the memberships a behaviour starts with and what happens in it

ROLE == {"viewer", "agent", "manager", "admin", "security_admin", "super_admin"}
Nobody == "nobody"

VIEWER == {"ticket:read", "ticket_internal:read", "kb:read", "agent:read", "analytics:read"}
AGENT == VIEWER \cup {"ticket:create", "ticket:update", "ticket:close", "kb:create"}
MANAGER == AGENT \cup {"ticket:assign", "ticket:reopen", "kb:update", "kb:publish",
                       "agent:override", "action:approve", "config:read", "audit:read"}
ADMIN == MANAGER \cup {"agent:configure", "config:update", "action:execute", "security:read"}
SECURITY_ADMIN == ADMIN \cup {"security:update", "credentials:read", "credentials:update"}

ROLE_PERMISSIONS ==
  [r \in ROLE |-> CASE r = "viewer"  -> VIEWER
                    [] r = "agent"   -> AGENT
                    [] r = "manager" -> MANAGER
                    [] r = "admin"   -> ADMIN
                    [] OTHER         -> SECURITY_ADMIN]

PermissionsOf(r) == IF r \in ROLE THEN ROLE_PERMISSIONS[r] ELSE {}
Can(r, p) == p \in PermissionsOf(r)

\* Broken form: what the acting user may grant is not looked at.
WithinReachIgnored(mine, r) == TRUE

WithinReach(mine, r) == PermissionsOf(r) \subseteq PermissionsOf(mine)
Administrators == {"admin", "security_admin"}

ASSUME AccessAssumption ==
  /\ NoUser \notin Users
  /\ SuperAdmins \subseteq Users /\ Outsiders \subseteq Users
  /\ Offered \subseteq ROLE \ {"super_admin"}
  /\ \A sc \in Scenarios : /\ sc.role \in [Users -> ROLE \cup {Nobody}]
                           /\ \E u \in Users : sc.role[u] \in Administrators

VARIABLES
  role,       \* memberships: the role of each user here, or Nobody
  session,    \* each user's session: signed out, or the tenant it points at
  apiKey,     \* each key: its role and whether it works
  call,       \* each request: where it is and what it has read
  expected,   \* the requests and keys that are made in this behaviour, and who leaves
  overlapped  \* history: a membership changed under a request that had read it

accessVars == <<role, session, apiKey, call, expected, overlapped>>
callVars == <<expected, overlapped>>

Unused == [pc |-> "unused", op |-> "none", by |-> NoUser, as |-> Nobody,
           target |-> NoUser, role |-> Nobody, tenant |-> "none"]
Done == [Unused EXCEPT !.pc = "done"]
Finish(c) == call' = [call EXCEPT ![c] = Done]
Goto(c, pc) == call' = [call EXCEPT ![c].pc = pc]

AccessStart(sc) ==
  /\ role = sc.role
  /\ expected = sc.expected
  /\ session = [u \in Users |-> IF role[u] = Nobody THEN "out" ELSE "here"]
  /\ apiKey = [k \in ApiKeys |-> [role |-> Nobody, state |-> "none"]]
  /\ call = [c \in Calls |-> Unused]
  /\ overlapped = FALSE

AccessInit == \E sc \in Scenarios : AccessStart(sc)

(***************************************************************************)
(* Sessions                                                                *)
(***************************************************************************)

\* resolveSession: the role is the membership's of now, in the tenant the
\* session points at, if it points at one.
ResolvedRole(u) == IF role[u] = Nobody /\ u \in SuperAdmins THEN "super_admin" ELSE role[u]

\* contextFromSession, for this tenant: no context without a tenant and a role.
RoleNow(u) == IF session[u] = "here" THEN ResolvedRole(u) ELSE Nobody

MayEnter(u, tenant) ==
  \/ u \in SuperAdmins
  \/ tenant = "here" /\ role[u] # Nobody
  \/ tenant = "elsewhere" /\ u \in Outsiders

Open(c, u, op, pc, target, r, tenant) ==
  /\ c \in expected /\ call[c].pc = "unused"
  /\ call' = [call EXCEPT ![c] = [pc |-> pc, op |-> op, by |-> u, as |-> RoleNow(u),
                                  target |-> target, role |-> r, tenant |-> tenant]]
  /\ UNCHANGED <<role, session, apiKey, callVars>>

\* The first membership by name decides; a super admin may have none.
SignIn(c, u) ==
  \E tenant \in {"here", "elsewhere", "unset"} :
    /\ IF tenant = "unset"
       THEN u \in SuperAdmins /\ role[u] = Nobody /\ u \notin Outsiders
       ELSE MayEnter(u, tenant) /\ (tenant = "here" => role[u] # Nobody)
                                /\ (tenant = "elsewhere" => u \in Outsiders)
    /\ session[u] = "out"
    /\ Open(c, u, "sign_in", "enter", NoUser, Nobody, tenant)

SwitchTenant(c, u) ==
  \E tenant \in {"here", "elsewhere"} :
    /\ session[u] # "out"
    /\ MayEnter(u, tenant)
    /\ Open(c, u, "switch", "enter", NoUser, Nobody, tenant)

PointsAt(c) == session' = [session EXCEPT ![call[c].by] = call[c].tenant]

\* createSession.  Whoever signed in twice goes on with the later session.
CreateSession(c) ==
  /\ call[c].pc = "enter" /\ call[c].op = "sign_in"
  /\ PointsAt(c)
  /\ Finish(c)
  /\ UNCHANGED <<role, apiKey, callVars>>

\* switchTenant's update, of a session that is still live (Ended).
EnterTenant(c) ==
  /\ call[c].pc = "enter" /\ call[c].op = "switch"
  /\ PointsAt(c)
  /\ Finish(c)
  /\ UNCHANGED <<role, apiKey, callVars>>

\* A switch under way updates a live session only, so its end is the switch's.
Ended(calls, u) ==
  [c \in Calls |-> IF calls[c].op = "switch" /\ calls[c].by = u
                   THEN Done ELSE calls[c]]

\* Signed out, or twelve hours have passed.
Leave(u) ==
  /\ u \in expected /\ session[u] # "out"
  /\ session' = [session EXCEPT ![u] = "out"]
  /\ call' = Ended(call, u)
  /\ UNCHANGED <<role, apiKey, callVars>>

(***************************************************************************)
(* Members                                                                 *)
(***************************************************************************)

OpenSetRole(c, u, t, r) ==
  /\ Can(RoleNow(u), "config:update") /\ WithinReach(RoleNow(u), r)
  /\ Open(c, u, "set", "member", t, r, "here")

OpenInvite(c, u, t, r) ==
  /\ Can(RoleNow(u), "config:update") /\ WithinReach(RoleNow(u), r)
  /\ Open(c, u, "invite", "invited", t, r, "here")

OpenRemove(c, u, t) ==
  /\ Can(RoleNow(u), "config:update")
  /\ Open(c, u, "remove", "member", t, "viewer", "here")

\* An address that is already a member is a change of role.
SeeInvited(c) ==
  /\ call[c].pc = "invited"
  /\ LET held == role[call[c].target] IN
       IF held = call[c].role THEN Finish(c)
       ELSE Goto(c, IF held = Nobody THEN "insert" ELSE "member")
  /\ UNCHANGED <<role, session, apiKey, callVars>>

\* What the request may go on with once it has read the member.
SeeMember(c) ==
  /\ call[c].pc = "member"
  /\ LET k == call[c]
         held == role[k.target]
     IN IF held = Nobody \/ ~WithinReach(k.as, held) \/ k.target = k.by THEN Finish(c)
        ELSE Goto(c, IF k.op = "remove" \/ (held # k.role /\ k.role \notin Administrators)
                     THEN "count" ELSE "write")
  /\ UNCHANGED <<role, session, apiKey, callVars>>

\* Broken form: the member the change is about is counted as well.
OthersAdministerCountsSelf(t) == \E u \in Users : role[u] \in Administrators

OthersAdminister(t) == \E u \in Users \ {t} : role[u] \in Administrators

\* wouldRemoveLastAdmin
CountAdmins(c) ==
  /\ call[c].pc = "count"
  /\ IF OthersAdminister(call[c].target) THEN Goto(c, "write") ELSE Finish(c)
  /\ UNCHANGED <<role, session, apiKey, callVars>>

Reading(c) == \E d \in Calls \ {c} : call[d].pc \in {"count", "write"}

InsertMember(c) ==
  /\ call[c].pc = "insert"
  /\ role' = IF role[call[c].target] = Nobody
             THEN [role EXCEPT ![call[c].target] = call[c].role] ELSE role
  /\ Finish(c)
  /\ UNCHANGED <<session, apiKey, callVars>>

\* By id and tenant, whatever the role has become.
WriteRole(c) ==
  /\ call[c].pc = "write" /\ call[c].op # "remove"
  /\ role' = IF role[call[c].target] = Nobody THEN role
             ELSE [role EXCEPT ![call[c].target] = call[c].role]
  /\ overlapped' = (overlapped \/ Reading(c))
  /\ Finish(c)
  /\ UNCHANGED <<session, apiKey, expected>>

DeleteMember(c) ==
  /\ call[c].pc = "write" /\ call[c].op = "remove"
  /\ role' = [role EXCEPT ![call[c].target] = Nobody]
  /\ overlapped' = (overlapped \/ Reading(c))
  /\ Goto(c, "revoke")
  /\ UNCHANGED <<session, apiKey, expected>>

RevokeSessions(c) ==
  /\ call[c].pc = "revoke"
  /\ LET t == call[c].target
         ended == [call EXCEPT ![c] = Done]
     IN IF session[t] = "here"
        THEN session' = [session EXCEPT ![t] = "out"] /\ call' = Ended(ended, t)
        ELSE call' = ended /\ UNCHANGED session
  /\ UNCHANGED <<role, apiKey, callVars>>

\* The console stops between two statements.
AccessCrash(c) ==
  /\ call[c].pc \notin {"unused", "done"}
  /\ Finish(c)
  /\ UNCHANGED <<role, session, apiKey, callVars>>

(***************************************************************************)
(* API keys                                                                *)
(***************************************************************************)

GrantableRoles(mine) ==
  IF Can(mine, "config:update")
  THEN {r \in ROLE \ {"super_admin"} : WithinReach(mine, r)} ELSE {}

CreateApiKey(u, k, r) ==
  /\ k \in expected /\ apiKey[k].state = "none"
  /\ Can(RoleNow(u), "security:update") /\ r \in GrantableRoles(RoleNow(u))
  /\ apiKey' = [apiKey EXCEPT ![k] = [role |-> r, state |-> "live"]]
  /\ UNCHANGED <<role, session, call, callVars>>

RevokeApiKey(u, k) ==
  /\ apiKey[k].state \in {"live", "expired"}
  /\ Can(RoleNow(u), "security:update")
  /\ apiKey' = [apiKey EXCEPT ![k].state = "revoked"]
  /\ UNCHANGED <<role, session, call, callVars>>

ExpireApiKey(k) ==
  /\ apiKey[k].state = "live"
  /\ apiKey' = [apiKey EXCEPT ![k].state = "expired"]
  /\ UNCHANGED <<role, session, call, callVars>>

\* contextForApiKey: revoked and expired keys grant nothing.
KeyRole(k) == IF apiKey[k].state = "live" THEN apiKey[k].role ELSE Nobody

(***************************************************************************)
(* Next                                                                    *)
(***************************************************************************)

Request(c, u) ==
  \/ SignIn(c, u) \/ SwitchTenant(c, u)
  \/ \E t \in Users : OpenRemove(c, u, t)
  \/ \E t \in Users, r \in Offered : OpenSetRole(c, u, t, r) \/ OpenInvite(c, u, t, r)

CallStep(c) ==
  \/ CreateSession(c) \/ EnterTenant(c) \/ SeeInvited(c) \/ SeeMember(c) \/ CountAdmins(c) \/ InsertMember(c)
  \/ WriteRole(c) \/ DeleteMember(c) \/ RevokeSessions(c) \/ AccessCrash(c)

KeyStep(k) ==
  \/ ExpireApiKey(k)
  \/ \E u \in Users : RevokeApiKey(u, k) \/ \E r \in Offered : CreateApiKey(u, k, r)

AccessNext ==
  \/ \E c \in Calls : CallStep(c) \/ \E u \in Users : Request(c, u)
  \/ \E u \in Users : Leave(u)
  \/ \E k \in ApiKeys : KeyStep(k)

AccessSpec == AccessInit /\ [][AccessNext]_accessVars

(***************************************************************************)
(* Properties                                                              *)
(***************************************************************************)

AccessTypeOK ==
  /\ role \in [Users -> ROLE \cup {Nobody}]
  /\ session \in [Users -> {"out", "here", "elsewhere", "unset"}]
  /\ apiKey \in [ApiKeys -> [role : ROLE \cup {Nobody},
                             state : {"none", "live", "expired", "revoked"}]]
  /\ call \in [Calls -> [pc : {"unused", "enter", "invited", "member", "count", "insert",
                               "write", "revoke", "done"},
                         op : {"none", "sign_in", "switch", "set", "invite", "remove"},
                         by : Users \cup {NoUser}, as : ROLE \cup {Nobody},
                         target : Users \cup {NoUser}, role : ROLE \cup {Nobody},
                         tenant : {"none", "here", "elsewhere", "unset"}]]
  /\ expected \in {sc.expected : sc \in Scenarios}
  /\ overlapped \in BOOLEAN

\* A tenant is never left without an administrator, as setRole and removeMember
\* promise, except by two requests of which one changed a membership while the
\* other had already looked: the count and the write are two statements.
AdminRemains == (\E u \in Users : role[u] \in Administrators) \/ overlapped

Underway(c) == call[c].pc \notin {"unused", "done"}

\* Somebody or something in the tenant, or a request on its way, holds p.
Held(p) ==
  \/ \E u \in Users : Can(role[u], p)
  \/ \E c \in Calls : Underway(c) /\ Can(call[c].as, p)
  \/ \E k \in ApiKeys : Can(KeyRole(k), p)
  \/ SuperAdmins # {}

\* "You cannot grant access you do not have": no sequence of invitations,
\* changes of role and keys brings a permission into a tenant where nobody has
\* it, however the requests overlap and whoever is demoted or removed meanwhile.
AuthorityIsNotMade == [][\A p \in SECURITY_ADMIN : Held(p)' => Held(p)]_accessVars
=============================================================================
