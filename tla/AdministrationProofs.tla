--------------------------- MODULE AdministrationProofs ---------------------------
(***************************************************************************)
(* Proofs about Access and about ConfigVersions, which extends it.         *)
(*                                                                         *)
(* Of Access: its types, that a tenant keeps an administrator unless two   *)
(* requests overlapped, and that no request makes a permission nobody had. *)
(* Of ConfigVersions: that widening the agent's freedom is gated, that the *)
(* history explains the settings and that decisions are recorded as they   *)
(* were taken.  For any users, requests, keys, fields and forms.           *)
(***************************************************************************)
EXTENDS ConfigVersions, SequenceTheorems, TLAPS

(***************************************************************************)
(* Identity and access                                                     *)
(***************************************************************************)


-----------------------------------------------------------------------------
(* Types.                                                                  *)

CallType == [pc : {"unused", "enter", "invited", "member", "count", "insert",
                   "write", "revoke", "done"},
             op : {"none", "sign_in", "switch", "set", "invite", "remove"},
             by : Users \cup {NoUser}, as : ROLE \cup {Nobody},
             target : Users \cup {NoUser}, role : ROLE \cup {Nobody},
             tenant : {"none", "here", "elsewhere", "unset"}]
KeyType == [role : ROLE \cup {Nobody}, state : {"none", "live", "expired", "revoked"}]
MemberOps == {"set", "invite", "remove"}

\* What a request that is under way is about: a role within the reach of whoever
\* asked, or a session of one's own.
Asked(k) ==
  \/ k.pc \in {"unused", "done"}
  \/ k.pc = "enter" /\ k.op \in {"sign_in", "switch"} /\ k.by \in Users
     /\ k.tenant \in {"here", "elsewhere", "unset"}
  \/ /\ k.pc \in {"invited", "member", "count", "insert", "write", "revoke"}
     /\ k.op \in MemberOps /\ k.target \in Users /\ k.by \in Users
     /\ k.op # "remove" => k.role \in ROLE /\ WithinReach(k.as, k.role)
     /\ k.pc \in {"invited", "insert"} => k.op = "invite"
     /\ k.pc = "revoke" => k.op = "remove"

TypeInv == AccessTypeOK /\ \A c \in Calls : Asked(call[c])

LEMMA Steps ==
  ASSUME [AccessNext]_accessVars
  PROVE  \/ \E c \in Calls, u \in Users : Request(c, u)
         \/ \E c \in Calls : \/ CreateSession(c) \/ EnterTenant(c) \/ SeeInvited(c)
                             \/ SeeMember(c) \/ CountAdmins(c) \/ InsertMember(c)
                             \/ WriteRole(c) \/ DeleteMember(c) \/ RevokeSessions(c)
                             \/ AccessCrash(c)
         \/ \E u \in Users : Leave(u)
         \/ \E k \in ApiKeys : ExpireApiKey(k)
         \/ \E k \in ApiKeys, u \in Users : RevokeApiKey(u, k)
         \/ \E k \in ApiKeys, u \in Users, r \in Offered : CreateApiKey(u, k, r)
         \/ UNCHANGED accessVars
  BY DEF AccessNext, CallStep, KeyStep

\* A request records who asks, with the role of now, and what for.
LEMMA Opened ==
  ASSUME TypeInv, NEW c \in Calls, NEW u \in Users, Request(c, u)
  PROVE  /\ \E k \in CallType : /\ call' = [call EXCEPT ![c] = k]
                                /\ Asked(k) /\ k.pc \notin {"unused", "done", "write", "count"}
                                /\ k.as = RoleNow(u)
         /\ call[c].pc = "unused"
         /\ UNCHANGED <<role, session, apiKey, expected, overlapped>>
<1>1. RoleNow(u) \in ROLE \cup {Nobody}
  BY DEF RoleNow, ResolvedRole, TypeInv, AccessTypeOK, ROLE
<1>2. Offered \subseteq ROLE
  BY AccessAssumption
<1> DEFINE Rec(op, pc, t, r, tenant) ==
             [pc |-> pc, op |-> op, by |-> u, as |-> RoleNow(u), target |-> t, role |-> r,
              tenant |-> tenant]
<1>3. ASSUME NEW op, NEW pc, NEW t, NEW r, NEW tenant, Open(c, u, op, pc, t, r, tenant)
      PROVE  /\ call' = [call EXCEPT ![c] = Rec(op, pc, t, r, tenant)]
             /\ call[c].pc = "unused"
             /\ UNCHANGED <<role, session, apiKey, expected, overlapped>>
  BY <1>3 DEF Open, callVars
<1>4. CASE SignIn(c, u) \/ SwitchTenant(c, u)
  <2>1. PICK op \in {"sign_in", "switch"}, tenant \in {"here", "elsewhere", "unset"} :
             Open(c, u, op, "enter", NoUser, Nobody, tenant)
    BY <1>4 DEF SignIn, SwitchTenant
  <2>2. Rec(op, "enter", NoUser, Nobody, tenant) \in CallType
        /\ Asked(Rec(op, "enter", NoUser, Nobody, tenant))
    BY <1>1 DEF CallType, Asked
  <2> QED
    BY <1>3, <2>1, <2>2
<1>5. ASSUME NEW t \in Users, OpenRemove(c, u, t)
      PROVE  /\ Open(c, u, "remove", "member", t, "viewer", "here")
             /\ Rec("remove", "member", t, "viewer", "here") \in CallType
             /\ Asked(Rec("remove", "member", t, "viewer", "here"))
  BY <1>1, <1>5 DEF OpenRemove, CallType, Asked, MemberOps, ROLE
<1>6. ASSUME NEW t \in Users, NEW r \in Offered, OpenSetRole(c, u, t, r)
      PROVE  /\ Open(c, u, "set", "member", t, r, "here")
             /\ Rec("set", "member", t, r, "here") \in CallType
             /\ Asked(Rec("set", "member", t, r, "here"))
  BY <1>1, <1>2, <1>6 DEF OpenSetRole, CallType, Asked, MemberOps
<1>7. ASSUME NEW t \in Users, NEW r \in Offered, OpenInvite(c, u, t, r)
      PROVE  /\ Open(c, u, "invite", "invited", t, r, "here")
             /\ Rec("invite", "invited", t, r, "here") \in CallType
             /\ Asked(Rec("invite", "invited", t, r, "here"))
  BY <1>1, <1>2, <1>7 DEF OpenInvite, CallType, Asked, MemberOps
<1>8. CASE \E t \in Users : OpenRemove(c, u, t)
  <2>1. PICK t \in Users : OpenRemove(c, u, t)
    BY <1>8
  <2> DEFINE k == Rec("remove", "member", t, "viewer", "here")
  <2>2. Open(c, u, "remove", "member", t, "viewer", "here") /\ k \in CallType /\ Asked(k)
    BY <1>5, <2>1
  <2>3. k.pc = "member" /\ k.as = RoleNow(u)
    OBVIOUS
  <2>4. call' = [call EXCEPT ![c] = k]
    BY <1>3, <2>2
  <2>5. call[c].pc = "unused" /\ UNCHANGED <<role, session, apiKey, expected, overlapped>>
    BY <1>3, <2>2
  <2> HIDE DEF k
  <2> QED
    BY <2>2, <2>3, <2>4, <2>5
<1>9. CASE \E t \in Users, r \in Offered : OpenSetRole(c, u, t, r)
  <2>1. PICK t \in Users, r \in Offered : OpenSetRole(c, u, t, r)
    BY <1>9
  <2> DEFINE k == Rec("set", "member", t, r, "here")
  <2>2. Open(c, u, "set", "member", t, r, "here") /\ k \in CallType /\ Asked(k)
    BY <1>6, <2>1
  <2>3. k.pc = "member" /\ k.as = RoleNow(u)
    OBVIOUS
  <2>4. call' = [call EXCEPT ![c] = k]
    BY <1>3, <2>2
  <2>5. call[c].pc = "unused" /\ UNCHANGED <<role, session, apiKey, expected, overlapped>>
    BY <1>3, <2>2
  <2> HIDE DEF k
  <2> QED
    BY <2>2, <2>3, <2>4, <2>5
<1>10. CASE \E t \in Users, r \in Offered : OpenInvite(c, u, t, r)
  <2>1. PICK t \in Users, r \in Offered : OpenInvite(c, u, t, r)
    BY <1>10
  <2> DEFINE k == Rec("invite", "invited", t, r, "here")
  <2>2. Open(c, u, "invite", "invited", t, r, "here") /\ k \in CallType /\ Asked(k)
    BY <1>7, <2>1
  <2>3. k.pc = "invited" /\ k.as = RoleNow(u)
    OBVIOUS
  <2>4. call' = [call EXCEPT ![c] = k]
    BY <1>3, <2>2
  <2>5. call[c].pc = "unused" /\ UNCHANGED <<role, session, apiKey, expected, overlapped>>
    BY <1>3, <2>2
  <2> HIDE DEF k
  <2> QED
    BY <2>2, <2>3, <2>4, <2>5
<1> QED
  BY <1>4, <1>8, <1>9, <1>10 DEF Request

\* How a request goes on: to a later place with what it was opened with, or to its end.
Proceeds(c) ==
  \E k \in CallType : /\ call' = [call EXCEPT ![c] = k] /\ Asked(k)
                      /\ k.pc = "done" \/ (k.as = call[c].as /\ call[c].pc \notin {"unused", "done"})

LEMMA DoneType == Done \in CallType /\ Asked(Done) /\ Done.pc = "done"
  BY DEF Done, Unused, CallType, Asked

LEMMA Proceeding ==
  ASSUME TypeInv, NEW c \in Calls,
         \/ SeeInvited(c) \/ SeeMember(c) \/ CountAdmins(c) \/ InsertMember(c)
         \/ WriteRole(c) \/ DeleteMember(c) \/ CreateSession(c) \/ EnterTenant(c) \/ AccessCrash(c)
  PROVE  Proceeds(c)
<1>1. call[c] \in CallType /\ Asked(call[c])
  BY DEF TypeInv, AccessTypeOK, CallType
<1>2. CASE Finish(c)
  BY <1>2, DoneType DEF Proceeds, Finish
<1>3. ASSUME NEW pc \in {"insert", "member", "count", "write", "revoke"}, Goto(c, pc),
             Asked([call[c] EXCEPT !.pc = pc]), call[c].pc \notin {"unused", "done"}
      PROVE  Proceeds(c)
  <2>1. [call[c] EXCEPT !.pc = pc] \in CallType /\ [call[c] EXCEPT !.pc = pc].as = call[c].as
    BY <1>1 DEF CallType
  <2>2. call' = [call EXCEPT ![c] = [call[c] EXCEPT !.pc = pc]]
    BY <1>3 DEF Goto
  <2> QED
    BY <1>3, <2>1, <2>2 DEF Proceeds
<1>4. ASSUME NEW pc \in {"insert", "member", "count", "write", "revoke"},
             call[c].pc \in {"invited", "member", "count", "insert", "write", "revoke"},
             pc = "insert" => call[c].op = "invite", pc = "revoke" => call[c].op = "remove"
      PROVE  Asked([call[c] EXCEPT !.pc = pc])
  <2>1. /\ [call[c] EXCEPT !.pc = pc].pc = pc
        /\ [call[c] EXCEPT !.pc = pc].op = call[c].op
        /\ [call[c] EXCEPT !.pc = pc].by = call[c].by
        /\ [call[c] EXCEPT !.pc = pc].as = call[c].as
        /\ [call[c] EXCEPT !.pc = pc].role = call[c].role
        /\ [call[c] EXCEPT !.pc = pc].target = call[c].target
    BY <1>1 DEF CallType
  <2> QED
    BY <1>1, <1>4, <2>1 DEF Asked
<1>5. CASE SeeInvited(c)
  <2>1. call[c].op = "invite" /\ call[c].pc = "invited"
    BY <1>1, <1>5 DEF SeeInvited, Asked
  <2>2. Finish(c) \/ Goto(c, "insert") \/ Goto(c, "member")
    BY <1>5 DEF SeeInvited
  <2> QED
    BY <1>2, <1>3, <1>4, <2>1, <2>2
<1>6. CASE SeeMember(c)
  <2>1. call[c].pc = "member" /\ (Finish(c) \/ Goto(c, "count") \/ Goto(c, "write"))
    BY <1>6 DEF SeeMember
  <2> QED
    BY <1>2, <1>3, <1>4, <2>1
<1>7. CASE CountAdmins(c)
  <2>1. call[c].pc = "count" /\ (Finish(c) \/ Goto(c, "write"))
    BY <1>7 DEF CountAdmins
  <2> QED
    BY <1>2, <1>3, <1>4, <2>1
<1>8. CASE DeleteMember(c)
  <2>1. call[c].pc = "write" /\ call[c].op = "remove" /\ Goto(c, "revoke")
    BY <1>8 DEF DeleteMember
  <2> QED
    BY <1>3, <1>4, <2>1
<1>9. CASE InsertMember(c) \/ WriteRole(c) \/ CreateSession(c) \/ EnterTenant(c) \/ AccessCrash(c)
  BY <1>2, <1>9 DEF InsertMember, WriteRole, CreateSession, EnterTenant, AccessCrash
<1> QED
  BY <1>5, <1>6, <1>7, <1>8, <1>9
\* A request that goes through an Ended map keeps its place or is done with.
LEMMA Ending ==
  ASSUME TypeInv, NEW u
  PROVE  /\ Ended(call, u) \in [Calls -> CallType]
         /\ \A c \in Calls : Ended(call, u)[c] \in {Done, call[c]}
         /\ \A c \in Calls : Asked(Ended(call, u)[c])
  BY DoneType DEF Ended, TypeInv, AccessTypeOK, CallType

LEMMA Revoking ==
  ASSUME TypeInv, NEW c \in Calls, RevokeSessions(c)
  PROVE  /\ call' \in [Calls -> CallType]
         /\ \A d \in Calls : call'[d] \in {Done, call[d]}
         /\ \A d \in Calls : Asked(call'[d])
         /\ session' \in [Users -> {"out", "here", "elsewhere", "unset"}]
         /\ UNCHANGED <<role, apiKey, expected, overlapped>>
<1>1. call \in [Calls -> CallType] /\ \A d \in Calls : Asked(call[d])
  BY DEF TypeInv, AccessTypeOK, CallType
<1> DEFINE ended == [call EXCEPT ![c] = Done]
<1>2. /\ ended \in [Calls -> CallType]
      /\ \A d \in Calls : ended[d] \in {Done, call[d]} /\ Asked(ended[d])
  BY <1>1, DoneType
<1>3. \/ call' = Ended(ended, call[c].target) \/ call' = ended
  BY DEF RevokeSessions
<1>4. ASSUME NEW t
      PROVE  /\ Ended(ended, t) \in [Calls -> CallType]
             /\ \A d \in Calls : Ended(ended, t)[d] \in {Done, call[d]} /\ Asked(Ended(ended, t)[d])
  <2> HIDE DEF ended
  <2> QED
    BY <1>2, DoneType DEF Ended
<1>5. /\ session' \in [Users -> {"out", "here", "elsewhere", "unset"}]
      /\ UNCHANGED <<role, apiKey, expected, overlapped>>
  BY DEF RevokeSessions, TypeInv, AccessTypeOK, callVars
<1> QED
  BY <1>2, <1>3, <1>4, <1>5

LEMMA TypeStep == TypeInv /\ [AccessNext]_accessVars => TypeInv'
<1> SUFFICES ASSUME TypeInv, [AccessNext]_accessVars PROVE TypeInv'
  OBVIOUS
<1>0. /\ role \in [Users -> ROLE \cup {Nobody}]
      /\ session \in [Users -> {"out", "here", "elsewhere", "unset"}]
      /\ apiKey \in [ApiKeys -> KeyType]
      /\ call \in [Calls -> CallType] /\ \A c \in Calls : Asked(call[c])
      /\ expected \in {sc.expected : sc \in Scenarios} /\ overlapped \in BOOLEAN
  BY DEF TypeInv, AccessTypeOK, KeyType, CallType
<1>1. SUFFICES /\ role' \in [Users -> ROLE \cup {Nobody}]
               /\ session' \in [Users -> {"out", "here", "elsewhere", "unset"}]
               /\ apiKey' \in [ApiKeys -> KeyType]
               /\ call' \in [Calls -> CallType] /\ \A c \in Calls : Asked(call'[c])
               /\ expected' = expected /\ overlapped' \in BOOLEAN
  BY <1>0 DEF TypeInv, AccessTypeOK, KeyType, CallType
<1>2. ASSUME NEW c \in Calls, NEW u \in Users, Request(c, u) PROVE <1>1!1
  <2>1. PICK k \in CallType : call' = [call EXCEPT ![c] = k] /\ Asked(k)
    BY <1>2, Opened
  <2>2. UNCHANGED <<role, session, apiKey, expected, overlapped>>
    BY <1>2, Opened
  <2>3. call' \in [Calls -> CallType] /\ \A d \in Calls : Asked(call'[d])
    BY <1>0, <2>1
  <2> QED
    BY <1>0, <2>2, <2>3
<1>3. ASSUME NEW c \in Calls,
             \/ SeeInvited(c) \/ SeeMember(c) \/ CountAdmins(c) \/ InsertMember(c)
             \/ WriteRole(c) \/ DeleteMember(c) \/ CreateSession(c) \/ EnterTenant(c) \/ AccessCrash(c)
      PROVE  <1>1!1
  <2>1. PICK k \in CallType : call' = [call EXCEPT ![c] = k] /\ Asked(k)
    BY <1>3, Proceeding DEF Proceeds
  <2>2. call' \in [Calls -> CallType] /\ \A d \in Calls : Asked(call'[d])
    BY <1>0, <2>1
  <2>3. /\ call[c].role \in ROLE \cup {Nobody}
        /\ call[c].pc = "enter" => call[c].tenant \in {"here", "elsewhere", "unset"}
    BY <1>0 DEF CallType, Asked
  <2>4. role' \in [Users -> ROLE \cup {Nobody}]
    <3>1. CASE InsertMember(c) \/ WriteRole(c)
      <4>1. role' = role \/ role' = [role EXCEPT ![call[c].target] = call[c].role]
        BY <3>1 DEF InsertMember, WriteRole
      <4> QED
        BY <1>0, <2>3, <4>1
    <3>2. CASE DeleteMember(c)
      BY <1>0, <3>2 DEF DeleteMember
    <3>3. CASE role' = role
      BY <1>0, <3>3
    <3> QED
      BY <1>3, <3>1, <3>2, <3>3 DEF SeeInvited, SeeMember, CountAdmins, CreateSession,
         EnterTenant, AccessCrash
  <2>5. session' \in [Users -> {"out", "here", "elsewhere", "unset"}]
    <3>1. CASE CreateSession(c) \/ EnterTenant(c)
      <4>1. call[c].pc = "enter" /\ PointsAt(c)
        BY <3>1 DEF CreateSession, EnterTenant
      <4>2. call[c].tenant \in {"out", "here", "elsewhere", "unset"}
        BY <2>3, <4>1
      <4>3. session' = [session EXCEPT ![call[c].by] = call[c].tenant]
        BY <4>1 DEF PointsAt
      <4> QED
        BY <1>0, <4>2, <4>3
    <3>2. CASE session' = session
      BY <1>0, <3>2
    <3> QED
      BY <1>3, <3>1, <3>2 DEF SeeInvited, SeeMember, CountAdmins, InsertMember, WriteRole,
         DeleteMember, AccessCrash
  <2>6. apiKey' = apiKey /\ expected' = expected
    BY <1>3 DEF SeeInvited, SeeMember, CountAdmins, InsertMember, WriteRole,
       DeleteMember, CreateSession, EnterTenant, AccessCrash, callVars
  <2>7. overlapped' \in BOOLEAN
    BY <1>0, <1>3 DEF SeeInvited, SeeMember, CountAdmins, InsertMember, WriteRole,
       DeleteMember, CreateSession, EnterTenant, AccessCrash, callVars
  <2> QED
    BY <1>0, <2>2, <2>4, <2>5, <2>6, <2>7
<1>4. ASSUME NEW c \in Calls, RevokeSessions(c) PROVE <1>1!1
  BY <1>0, <1>4, Revoking
<1>5. ASSUME NEW u \in Users, Leave(u) PROVE <1>1!1
  <2>1. call' \in [Calls -> CallType] /\ \A c \in Calls : Asked(call'[c])
    BY <1>5, Ending DEF Leave
  <2> QED
    BY <1>0, <1>5, <2>1 DEF Leave, callVars
<1>6. ASSUME NEW key \in ApiKeys, NEW u \in Users, RevokeApiKey(u, key)
      PROVE  <1>1!1
  <2>1. apiKey' \in [ApiKeys -> KeyType]
    BY <1>0, <1>6 DEF RevokeApiKey, KeyType
  <2> QED
    BY <1>0, <1>6, <2>1 DEF RevokeApiKey, callVars
<1>7. ASSUME NEW key \in ApiKeys, NEW u \in Users, NEW r \in Offered, CreateApiKey(u, key, r)
      PROVE  <1>1!1
  <2>1. r \in ROLE
    BY AccessAssumption
  <2>2. apiKey' \in [ApiKeys -> KeyType]
    BY <1>0, <1>7, <2>1 DEF CreateApiKey, KeyType
  <2> QED
    BY <1>0, <1>7, <2>2 DEF CreateApiKey, callVars
<1>8. ASSUME NEW key \in ApiKeys, ExpireApiKey(key) PROVE <1>1!1
  <2>1. apiKey' \in [ApiKeys -> KeyType]
    BY <1>0, <1>8 DEF ExpireApiKey, KeyType
  <2> QED
    BY <1>0, <1>8, <2>1 DEF ExpireApiKey, callVars
<1>9. CASE UNCHANGED accessVars
  BY <1>0, <1>9 DEF accessVars
<1> QED
  BY Steps, <1>2, <1>3, <1>4, <1>5, <1>6, <1>7, <1>8, <1>9

LEMMA TypeStart == AccessInit => TypeInv
<1> SUFFICES ASSUME NEW sc \in Scenarios, AccessStart(sc) PROVE TypeInv
  BY DEF AccessInit
<1>1. role \in [Users -> ROLE \cup {Nobody}] /\ expected = sc.expected
  BY AccessAssumption DEF AccessStart
<1>2. Unused \in CallType /\ Asked(Unused)
  BY DEF Unused, CallType, Asked
<1>3. call \in [Calls -> CallType] /\ \A c \in Calls : Asked(call[c])
  BY <1>2 DEF AccessStart
<1>4. /\ session \in [Users -> {"out", "here", "elsewhere", "unset"}]
      /\ apiKey \in [ApiKeys -> KeyType] /\ overlapped \in BOOLEAN
  BY DEF AccessStart, KeyType
<1> QED
  BY <1>1, <1>3, <1>4 DEF TypeInv, AccessTypeOK, CallType, KeyType

\* The memberships, sessions, keys and requests keep their shape, and what a
\* request under way would grant stays within the reach of whoever asked for it.
THEOREM AccessTypeCorrect == AccessSpec => []TypeInv
  BY TypeStart, TypeStep, PTL DEF AccessSpec

-----------------------------------------------------------------------------
(* Nobody is given what nobody has.                                        *)

LEMMA ReachGrants ==
  ASSUME NEW mine, NEW r, WithinReach(mine, r), NEW p, Can(r, p)
  PROVE  Can(mine, p)
  BY DEF WithinReach, Can

LEMMA RoleNowIsHeld ==
  ASSUME NEW u \in Users, NEW p, Can(RoleNow(u), p)
  PROVE  Held(p)
<1>1. RoleNow(u) = Nobody \/ RoleNow(u) = role[u] \/ u \in SuperAdmins
  BY DEF RoleNow, ResolvedRole
<1>2. ~Can(Nobody, p)
  BY DEF Can, PermissionsOf, Nobody, ROLE
<1> QED
  BY <1>1, <1>2 DEF Held

LEMMA AuthorityStep ==
  ASSUME TypeInv, [AccessNext]_accessVars, NEW p, Held(p)'
  PROVE  Held(p)
<1>0. call \in [Calls -> CallType] /\ role \in [Users -> ROLE \cup {Nobody}]
      /\ \A c \in Calls : Asked(call[c])
  BY DEF TypeInv, AccessTypeOK, CallType
<1>1. SUFFICES /\ \A u \in Users : Can(role'[u], p) => Held(p)
               /\ \A c \in Calls : call'[c].pc \notin {"unused", "done"} /\ Can(call'[c].as, p)
                                   => Held(p)
               /\ \A k \in ApiKeys : Can(KeyRole(k)', p) => Held(p)
  BY DEF Held, Underway, Can
<1>2. ASSUME UNCHANGED role PROVE \A u \in Users : Can(role'[u], p) => Held(p)
  BY <1>2 DEF Held
<1>3. ASSUME UNCHANGED apiKey PROVE \A k \in ApiKeys : Can(KeyRole(k)', p) => Held(p)
  BY <1>3 DEF Held, KeyRole
<1>4. ASSUME \A c \in Calls : \/ call'[c].pc \in {"unused", "done"}
                              \/ call'[c].as = call[c].as /\ Underway(c)
      PROVE  \A c \in Calls : call'[c].pc \notin {"unused", "done"} /\ Can(call'[c].as, p)
                              => Held(p)
  BY <1>4 DEF Held
<1>5. ASSUME NEW c \in Calls, NEW u \in Users, Request(c, u) PROVE <1>1!1
  <2>1. PICK k \in CallType : call' = [call EXCEPT ![c] = k] /\ k.as = RoleNow(u)
    BY <1>5, Opened
  <2>2. UNCHANGED <<role, apiKey>>
    BY <1>5, Opened
  <2>3. ASSUME NEW d \in Calls, call'[d].pc \notin {"unused", "done"}, Can(call'[d].as, p)
        PROVE  Held(p)
    <3>1. CASE d = c
      BY <1>0, <2>1, <2>3, <3>1, RoleNowIsHeld
    <3>2. CASE d # c
      BY <1>0, <2>1, <2>3, <3>2 DEF Held, Underway
    <3> QED
      BY <3>1, <3>2
  <2> QED
    BY <1>2, <1>3, <2>2, <2>3
<1>6. ASSUME NEW c \in Calls,
             \/ SeeInvited(c) \/ SeeMember(c) \/ CountAdmins(c) \/ InsertMember(c)
             \/ WriteRole(c) \/ DeleteMember(c) \/ CreateSession(c) \/ EnterTenant(c) \/ AccessCrash(c)
      PROVE  <1>1!1
  <2>1. PICK k \in CallType : /\ call' = [call EXCEPT ![c] = k]
                              /\ k.pc = "done" \/ (k.as = call[c].as /\ Underway(c))
    BY <1>6, Proceeding DEF Proceeds, Underway
  <2>2. \A d \in Calls : \/ call'[d].pc \in {"unused", "done"}
                         \/ call'[d].as = call[d].as /\ Underway(d)
    BY <1>0, <2>1 DEF Underway
  <2>3. UNCHANGED apiKey
    BY <1>6 DEF SeeInvited, SeeMember, CountAdmins, InsertMember, WriteRole,
       DeleteMember, CreateSession, EnterTenant, AccessCrash
  <2>4. \A u \in Users : Can(role'[u], p) => Held(p)
    <3>1. CASE InsertMember(c) \/ WriteRole(c)
      <4>1. Underway(c) /\ WithinReach(call[c].as, call[c].role)
        BY <1>0, <3>1 DEF InsertMember, WriteRole, Asked, Underway
      <4>2. ASSUME NEW u \in Users PROVE role'[u] \in {role[u], call[c].role}
        BY <1>0, <3>1 DEF InsertMember, WriteRole
      <4> QED
        BY <4>1, <4>2, ReachGrants DEF Held
    <3>2. CASE DeleteMember(c)
      <4>1. ASSUME NEW u \in Users PROVE role'[u] \in {role[u], Nobody}
        BY <1>0, <3>2 DEF DeleteMember
      <4>2. ~Can(Nobody, p)
        BY DEF Can, PermissionsOf, Nobody, ROLE
      <4> QED
        BY <4>1, <4>2 DEF Held
    <3>3. CASE UNCHANGED role
      BY <1>2, <3>3
    <3> QED
      BY <1>6, <3>1, <3>2, <3>3 DEF SeeInvited, SeeMember, CountAdmins, CreateSession,
         EnterTenant, AccessCrash
  <2> QED
    BY <1>3, <1>4, <2>2, <2>3, <2>4
<1>7. ASSUME \A c \in Calls : call'[c] \in {Done, call[c]}, UNCHANGED <<role, apiKey>>
      PROVE  <1>1!1
  <2>1. \A c \in Calls : \/ call'[c].pc \in {"unused", "done"}
                         \/ call'[c].as = call[c].as /\ Underway(c)
    BY <1>7, DoneType DEF Underway
  <2> QED
    BY <1>2, <1>3, <1>4, <1>7, <2>1
<1>8. ASSUME NEW c \in Calls, RevokeSessions(c) PROVE <1>1!1
  BY <1>7, <1>8, Revoking
<1>9. ASSUME NEW u \in Users, Leave(u) PROVE <1>1!1
  BY <1>7, <1>9, Ending DEF Leave
<1>10. ASSUME UNCHANGED <<role, call>>, \A k \in ApiKeys : Can(KeyRole(k)', p) => Held(p)
       PROVE  <1>1!1
  BY <1>2, <1>10 DEF Held, Underway
<1>11. ASSUME NEW key \in ApiKeys,
              ExpireApiKey(key) \/ \E u \in Users : RevokeApiKey(u, key)
       PROVE  <1>1!1
  <2>1. \A k \in ApiKeys : KeyRole(k)' \in {KeyRole(k), Nobody}
    BY <1>11 DEF KeyRole, ExpireApiKey, RevokeApiKey, TypeInv, AccessTypeOK
  <2>2. ~Can(Nobody, p)
    BY DEF Can, PermissionsOf, Nobody, ROLE
  <2>3. UNCHANGED <<role, call>>
    BY <1>11 DEF ExpireApiKey, RevokeApiKey
  <2>4. \A k \in ApiKeys : Can(KeyRole(k)', p) => Held(p)
    BY <2>1, <2>2 DEF Held
  <2> QED
    BY <1>10, <2>3, <2>4
<1>12. ASSUME NEW key \in ApiKeys, NEW u \in Users, NEW r \in Offered, CreateApiKey(u, key, r)
       PROVE  <1>1!1
  <2>1. WithinReach(RoleNow(u), r)
    BY <1>12 DEF CreateApiKey, GrantableRoles
  <2>2. \A k \in ApiKeys : KeyRole(k)' \in {KeyRole(k), r}
    BY <1>12 DEF KeyRole, CreateApiKey, TypeInv, AccessTypeOK
  <2>3. Can(r, p) => Held(p)
    BY <2>1, ReachGrants, RoleNowIsHeld
  <2>4. \A k \in ApiKeys : Can(KeyRole(k)', p) => Held(p)
    BY <2>2, <2>3 DEF Held
  <2> QED
    BY <1>10, <1>12, <2>4 DEF CreateApiKey
<1>13. CASE UNCHANGED accessVars
  BY <1>1, <1>13 DEF accessVars, Held, KeyRole, Underway
<1> QED
  BY Steps, <1>5, <1>6, <1>8, <1>9, <1>11, <1>12, <1>13

\* "You cannot grant access you do not have" (users.ts, api-keys.ts): whatever
\* the people, the requests under way and the order of their statements, a
\* permission nobody in the tenant has is not brought into it.
THEOREM NoAuthorityIsMade == AccessSpec => AuthorityIsNotMade
<1>1. TypeInv /\ [AccessNext]_accessVars
      => [\A p \in SECURITY_ADMIN : Held(p)' => Held(p)]_accessVars
  BY AuthorityStep
<1> QED
  BY <1>1, AccessTypeCorrect, PTL DEF AccessSpec, AuthorityIsNotMade

-----------------------------------------------------------------------------
(* A tenant keeps an administrator.                                        *)

\* What a request that is about to write relied on when it was let through.
Relied(k) ==
  \/ OthersAdminister(k.target)
  \/ k.op # "remove" /\ k.role \in Administrators
  \/ k.op # "remove" /\ role[k.target] = k.role

AdminInv ==
  \/ overlapped
  \/ /\ \E u \in Users : role[u] \in Administrators
     /\ \A c \in Calls : call[c].pc = "write" => Relied(call[c])

LEMMA AdminStart == AccessInit => AdminInv
<1> SUFFICES ASSUME NEW sc \in Scenarios, AccessStart(sc) PROVE AdminInv
  BY DEF AccessInit
<1>1. role = sc.role /\ \E u \in Users : sc.role[u] \in Administrators
  BY AccessAssumption DEF AccessStart
<1>2. \A c \in Calls : call[c].pc = "unused"
  BY DEF AccessStart, Unused
<1> QED
  BY <1>1, <1>2 DEF AdminInv

\* A step that changes no membership and brings no request to its write.
LEMMA AdminUnmoved ==
  ASSUME AdminInv, UNCHANGED <<role, overlapped>>,
         \A c \in Calls : call'[c].pc = "write" => call'[c] = call[c]
  PROVE  AdminInv'
<1>1. ASSUME NEW c \in Calls, call'[c].pc = "write", \A d \in Calls : call[d].pc = "write" => Relied(call[d])
      PROVE  Relied(call[c])' 
  BY <1>1 DEF Relied, OthersAdminister
<1> QED
  BY <1>1 DEF AdminInv

\* What the request relied on holds when nobody else was between its look and
\* its write, so the write leaves an administrator.
LEMMA AdminWrites ==
  ASSUME TypeInv, AdminInv, ~overlapped', NEW c \in Calls, WriteRole(c) \/ DeleteMember(c)
  PROVE  AdminInv'
<1>0. call \in [Calls -> CallType] /\ role \in [Users -> ROLE \cup {Nobody}] /\ Asked(call[c])
  BY DEF TypeInv, AccessTypeOK, CallType
<1> DEFINE k == call[c]
<1>1. k.pc = "write" /\ ~overlapped /\ ~Reading(c)
  BY DEF WriteRole, DeleteMember
<1>2. k.target \in Users
  BY <1>0, <1>1 DEF Asked
<1>3. Relied(k) /\ \E u \in Users : role[u] \in Administrators
  BY <1>1 DEF AdminInv
<1>4. \A d \in Calls : call'[d].pc # "write"
  <2>1. \A d \in Calls \ {c} : call[d].pc # "write" /\ call'[d] = call[d]
    BY <1>0, <1>1 DEF Reading, WriteRole, DeleteMember, Finish, Goto
  <2>2. call'[c].pc # "write"
    BY <1>0 DEF WriteRole, DeleteMember, Finish, Goto, Done, Unused, CallType
  <2> QED
    BY <2>1, <2>2
<1>5. \E u \in Users : role'[u] \in Administrators
  <2>1. \A u \in Users \ {k.target} : role'[u] = role[u]
    BY <1>0 DEF WriteRole, DeleteMember
  <2>2. CASE OthersAdminister(k.target)
    BY <2>1, <2>2 DEF OthersAdminister
  <2>3. CASE WriteRole(c) /\ role'[k.target] = k.role /\ k.role \in Administrators
    BY <1>2, <2>3
  <2>4. CASE role' = role
    BY <1>3, <2>4
  <2>5. WriteRole(c) => \/ role' = role
                        \/ role' = [role EXCEPT ![k.target] = k.role]
    BY DEF WriteRole
  <2>6. WriteRole(c) => k.op # "remove"
    BY DEF WriteRole
  <2>7. DeleteMember(c) => k.op = "remove"
    BY DEF DeleteMember
  <2>8. role' = [role EXCEPT ![k.target] = k.role] /\ role[k.target] = k.role => role' = role
    BY <1>0, <1>2
  <2>9. role' = [role EXCEPT ![k.target] = k.role] => role'[k.target] = k.role
    BY <1>0, <1>2
  <2> QED
    BY <1>3, <2>2, <2>3, <2>4, <2>5, <2>6, <2>7, <2>8, <2>9 DEF Relied
<1> QED
  BY <1>4, <1>5 DEF AdminInv

LEMMA AdminStep == TypeInv /\ AdminInv /\ [AccessNext]_accessVars => AdminInv'
<1> SUFFICES ASSUME TypeInv, AdminInv, [AccessNext]_accessVars PROVE AdminInv'
  OBVIOUS
<1>0. call \in [Calls -> CallType] /\ role \in [Users -> ROLE \cup {Nobody}]
      /\ \A c \in Calls : Asked(call[c])
  BY DEF TypeInv, AccessTypeOK, CallType
<1>1. ASSUME NEW c \in Calls, NEW u \in Users, Request(c, u) PROVE AdminInv'
  <2>1. PICK k \in CallType : call' = [call EXCEPT ![c] = k] /\ k.pc # "write"
    BY <1>1, Opened
  <2>2. \A d \in Calls : call'[d].pc = "write" => call'[d] = call[d]
    BY <1>0, <2>1
  <2> QED
    BY <1>1, <2>2, Opened, AdminUnmoved
<1>2. ASSUME NEW c \in Calls, \/ Finish(c)
                              \/ \E pc \in {"insert", "member", "count", "revoke"} : Goto(c, pc)
      PROVE  \A d \in Calls : call'[d].pc = "write" => call'[d] = call[d]
  BY <1>0, <1>2 DEF Finish, Goto, Done, Unused, CallType
<1>3. ASSUME NEW c \in Calls, \/ SeeInvited(c) \/ CreateSession(c) \/ EnterTenant(c) \/ AccessCrash(c)
      PROVE AdminInv'
  <2>1. Finish(c) \/ \E pc \in {"insert", "member", "count", "revoke"} : Goto(c, pc)
    BY <1>3 DEF SeeInvited, CreateSession, EnterTenant, AccessCrash
  <2>2. UNCHANGED <<role, overlapped>>
    BY <1>3 DEF SeeInvited, CreateSession, EnterTenant, AccessCrash, callVars
  <2> QED
    BY <1>2, <2>1, <2>2, AdminUnmoved
<1>4. ASSUME NEW c \in Calls, SeeMember(c) \/ CountAdmins(c), Goto(c, "write"), Relied(call[c]) 
      PROVE AdminInv'
  <2>1. UNCHANGED <<role, overlapped>>
    BY <1>4 DEF SeeMember, CountAdmins, callVars
  <2>2. call' = [call EXCEPT ![c] = [call[c] EXCEPT !.pc = "write"]]
    BY <1>4 DEF Goto
  <2>3. /\ call'[c].target = call[c].target /\ call'[c].op = call[c].op
        /\ call'[c].role = call[c].role
    BY <1>0, <2>2 DEF CallType
  <2>4. Relied(call[c])'
    BY <1>4, <2>1, <2>3 DEF Relied, OthersAdminister
  <2>5. \A d \in Calls \ {c} : call'[d] = call[d]
    BY <1>0, <2>2
  <2>6. ASSUME NEW d \in Calls \ {c}, Relied(call[d]) PROVE Relied(call[d])'
    BY <2>1, <2>5, <2>6 DEF Relied, OthersAdminister
  <2>7. ASSUME ~overlapped, NEW d \in Calls, call'[d].pc = "write" PROVE Relied(call[d])'
    BY <2>4, <2>5, <2>6, <2>7 DEF AdminInv
  <2> QED
    BY <2>1, <2>7 DEF AdminInv
<1>5. ASSUME NEW c \in Calls, SeeMember(c) PROVE AdminInv'
  <2>1. UNCHANGED <<role, overlapped>>
    BY <1>5 DEF SeeMember, callVars
  <2>2. Finish(c) \/ Goto(c, "count") \/ (Goto(c, "write") /\ Relied(call[c]))
    BY <1>5 DEF SeeMember, Relied
  <2> QED
    BY <1>2, <1>4, <1>5, <2>1, <2>2, AdminUnmoved
<1>6. ASSUME NEW c \in Calls, CountAdmins(c) PROVE AdminInv'
  <2>1. UNCHANGED <<role, overlapped>>
    BY <1>6 DEF CountAdmins, callVars
  <2>2. Finish(c) \/ (Goto(c, "write") /\ Relied(call[c]))
    BY <1>6 DEF CountAdmins, Relied
  <2> QED
    BY <1>2, <1>4, <1>6, <2>1, <2>2, AdminUnmoved
<1>7. ASSUME NEW c \in Calls, InsertMember(c) PROVE AdminInv'
  <2>1. /\ UNCHANGED overlapped /\ Finish(c)
        /\ \A u \in Users : role[u] # Nobody => role'[u] = role[u]
    BY <1>0, <1>7 DEF InsertMember, callVars
  <2>2. Nobody \notin Administrators
    BY DEF Nobody, Administrators
  <2>3. ASSUME NEW d \in Calls, call'[d].pc = "write" PROVE call'[d] = call[d]
    BY <1>2, <2>1, <2>3
  <2>4. ASSUME NEW d \in Calls, call[d].pc = "write", Relied(call[d]), call'[d] = call[d]
        PROVE  Relied(call[d])'
    <3>1. call[d].target \in Users
             /\ (call[d].op # "remove" => call[d].role \in ROLE)
      BY <1>0, <2>4 DEF Asked
    <3>2. Nobody \notin ROLE
      BY DEF Nobody, ROLE
    <3>3. OthersAdminister(call[d].target) => OthersAdminister(call[d].target)'
      BY <2>1, <2>2, <2>4 DEF OthersAdminister
    <3>4. call[d].op # "remove" /\ role[call[d].target] = call[d].role
          => role'[call[d].target] = call[d].role
      BY <2>1, <3>1, <3>2
    <3> QED
      BY <2>4, <3>3, <3>4 DEF Relied
  <2> QED
    BY <2>1, <2>2, <2>3, <2>4 DEF AdminInv
<1>8. ASSUME NEW c \in Calls, WriteRole(c) \/ DeleteMember(c) PROVE AdminInv'
  <2>1. CASE overlapped'
    BY <2>1 DEF AdminInv
  <2>2. CASE ~overlapped'
    BY <1>8, <2>2, AdminWrites
  <2> QED
    BY <2>1, <2>2
<1>9. ASSUME \A c \in Calls : call'[c] \in {Done, call[c]}, UNCHANGED <<role, overlapped>>
      PROVE  AdminInv'
  BY <1>9, DoneType, AdminUnmoved
<1>10. ASSUME NEW c \in Calls, RevokeSessions(c) PROVE AdminInv'
  BY <1>9, <1>10, Revoking
<1>11. ASSUME NEW u \in Users, Leave(u) PROVE AdminInv'
  BY <1>9, <1>11, Ending DEF Leave, callVars
<1>12. ASSUME UNCHANGED <<role, call, overlapped>> PROVE AdminInv'
  BY <1>12, AdminUnmoved
<1>13. ASSUME NEW key \in ApiKeys,
              \/ ExpireApiKey(key)
              \/ \E u \in Users : RevokeApiKey(u, key) \/ \E r \in Offered : CreateApiKey(u, key, r)
       PROVE  AdminInv'
  BY <1>12, <1>13 DEF ExpireApiKey, RevokeApiKey, CreateApiKey, callVars
<1>14. CASE UNCHANGED accessVars
  BY <1>12, <1>14 DEF accessVars
<1> QED
  BY Steps, <1>1, <1>3, <1>5, <1>6, <1>7, <1>8, <1>10, <1>11, <1>13, <1>14

\* setRole and removeMember leave the tenant an administrator, unless a membership
\* was changed while another request was between its look and its write.
THEOREM AnAdministratorRemains == AccessSpec => []AdminRemains
<1>1. AccessInit => TypeInv /\ AdminInv
  BY TypeStart, AdminStart
<1>2. TypeInv /\ AdminInv /\ [AccessNext]_accessVars => (TypeInv /\ AdminInv)'
  BY TypeStep, AdminStep
<1>3. TypeInv /\ AdminInv => AdminRemains
  BY DEF AdminInv, AdminRemains
<1> QED
  BY <1>1, <1>2, <1>3, PTL DEF AccessSpec

(***************************************************************************)
(* Configuration                                                           *)
(***************************************************************************)


-----------------------------------------------------------------------------
(* Types.                                                                  *)

Values == {sc.settings[f] : sc \in Scenarios, f \in Fields}
          \cup UNION {{form[f] : f \in DOMAIN form} : form \in Submissions}
Settings == [Fields -> Values]
Changes == {NoChanges} \cup {DiffSettings(a, b) : a \in Settings, b \in Settings}
Somebody == Users \cup {NoUser}
VersionType ==
  [settings : Settings, changes : Changes, source : {"seed", "update", "rollback"}, base : Nat,
   asked : Somebody, as : ROLE \cup {Nobody}, acknowledged : BOOLEAN, by : Somebody]
ProposalType ==
  [settings : Settings, changes : Changes, base : Nat,
   status : {"pending", "applied", "rejected", "expired", "stale"},
   asked : Somebody, decided : Somebody, version : Nat, lapsed : BOOLEAN]
SaveType ==
  [pc : {"unused", "compare", "propose", "commit", "expire", "reject", "base", "stale", "read",
         "applied", "done"},
   op : {"none", "update", "rollback", "decide"},
   by : Somebody, as : ROLE \cup {Nobody}, next : Settings, acknowledged : BOOLEAN,
   base : Nat, changes : Changes, proposal : Nat, version : Nat]

ConfigTypeInv ==
  /\ settings \in Settings
  /\ versions \in Seq(VersionType) /\ versions # <<>>
  /\ proposals \in Seq(ProposalType)
  /\ save \in [Saves -> SaveType]

LEMMA DiffType ==
  ASSUME NEW a \in Settings, NEW b \in Settings
  PROVE  DiffSettings(a, b) \in Changes
  BY DEF Changes

LEMMA SettingsType ==
  ASSUME NEW sc \in Scenarios
  PROVE  sc.settings \in Settings
<1>1. sc.settings = [f \in Fields |-> sc.settings[f]]
  BY ConfigAssumption
<1>2. \A f \in Fields : sc.settings[f] \in Values
  BY DEF Values
<1>3. [f \in Fields |-> sc.settings[f]] \in [Fields -> Values]
  BY <1>2
<1> QED
  BY <1>1, <1>3 DEF Settings

LEMMA Elements ==
  ASSUME ConfigTypeInv
  PROVE  /\ Len(versions) \in Nat \ {0} /\ DOMAIN versions = 1 .. Len(versions)
         /\ \A v \in DOMAIN versions : versions[v] \in VersionType /\ versions[v].settings \in Settings
         /\ Len(proposals) \in Nat /\ DOMAIN proposals = 1 .. Len(proposals)
         /\ \A p \in DOMAIN proposals :
              /\ p \in Nat /\ proposals[p] \in ProposalType /\ proposals[p].settings \in Settings
<1>1. versions \in Seq(VersionType) /\ versions # <<>> /\ proposals \in Seq(ProposalType)
  BY DEF ConfigTypeInv
<1>2. /\ Len(versions) \in Nat \ {0} /\ DOMAIN versions = 1 .. Len(versions)
      /\ Len(proposals) \in Nat /\ DOMAIN proposals = 1 .. Len(proposals)
  BY <1>1, EmptySeq, LenProperties
<1>3. \A v \in DOMAIN versions : versions[v] \in VersionType
  BY <1>1, <1>2, ElementOfSeq
<1>4. \A p \in DOMAIN proposals : p \in Nat /\ proposals[p] \in ProposalType
  BY <1>1, <1>2, ElementOfSeq
<1>5. \A v \in DOMAIN versions : versions[v].settings \in Settings
  BY <1>3 DEF VersionType
<1>6. \A p \in DOMAIN proposals : proposals[p].settings \in Settings
  BY <1>4 DEF ProposalType
<1> QED
  BY <1>2, <1>3, <1>4, <1>5, <1>6

LEMMA FreshType ==
  /\ Fresh \in SaveType /\ Fresh.pc = "unused"
  /\ [Fresh EXCEPT !.pc = "done"] \in SaveType /\ [Fresh EXCEPT !.pc = "done"].pc = "done"
<1>1. AnySettings \in Settings
  <2>1. (CHOOSE sc \in Scenarios : TRUE) \in Scenarios
    BY ConfigAssumption
  <2> QED
    BY <2>1, SettingsType DEF AnySettings
<1>2. NoChanges \in Changes
  BY DEF Changes
<1>3. Fresh \in SaveType /\ Fresh.pc = "unused"
  BY <1>1, <1>2 DEF Fresh, SaveType, Somebody
<1>4. [Fresh EXCEPT !.pc = "done"] \in SaveType /\ [Fresh EXCEPT !.pc = "done"].pc = "done"
  BY <1>3 DEF SaveType
<1> QED
  BY <1>3, <1>4

-----------------------------------------------------------------------------
(* A change that leaves the agent freer is one that widens a field.        *)

LEMMA SameIsLateral ==
  ASSUME NEW f, NEW x
  PROVE  DirectionOf(f, x, x) # "widening"
<1>1. Compare(x, x) = "lateral"
  BY DEF Compare
<1>2. CompareLists(x, x, x \ x, x \ x) = "lateral"
  BY DEF CompareLists
<1> QED
  BY <1>1, <1>2 DEF DirectionOf

\* A field of a category and the default it falls back on are ordered alike.
LEMMA SameDirection ==
  ASSUME NEW f \in Fields, OfCategory(f)
  PROVE  /\ DefaultOf(f) \in Fields /\ ~OfCategory(DefaultOf(f)) /\ Critical(DefaultOf(f))
         /\ \A x, y : DirectionOf(DefaultOf(f), x, y) = DirectionOf(f, x, y)
<1>1. f \in Seq(STRING) /\ Len(f) = 3 /\ DefaultOf(f) \in Fields
  BY ConfigAssumption
<1> DEFINE g == DefaultOf(f)
<1>2. g = <<"default_policy", f[3]>> /\ f[3] \in STRING
  BY <1>1 DEF DefaultOf, Leaf
<1>3. Leaf(g) = Leaf(f) /\ ~OfCategory(g)
  BY <1>1, <1>2 DEF Leaf, OfCategory
<1>4. Below(g, <<"default_policy">>)
  <2>1. Len(<<"default_policy">>) = 1 /\ Len(g) = 2
    BY <1>2
  <2>2. SubSeq(g, 1, 1) = <<"default_policy">>
    <3>1. g[1] = "default_policy"
      BY <1>2
    <3> HIDE DEF g
    <3> DEFINE Words == {"default_policy"}
               key == <<"default_policy">>
               start == SubSeq(g, 1, 1)
    <3>2. \A i \in 1 .. 1 : g[i] \in Words
      BY <3>1
    <3>3. start \in Seq(Words) /\ Len(start) = 1 /\ \A i \in 1 .. 1 : start[i] = g[i]
      BY <3>2, SubSeqProperties
    <3>4. key \in Seq(Words) /\ Len(key) = 1 /\ key[1] = "default_policy"
      OBVIOUS
    <3> HIDE DEF Words, key, start
    <3>5. \A i \in 1 .. Len(start) : start[i] = key[i]
      BY <3>1, <3>3, <3>4
    <3>6. start = key
      BY <3>3, <3>4, <3>5, SeqEqual
    <3> QED
      BY <3>6 DEF start, key
  <2> QED
    BY <2>1, <2>2 DEF Below
<1>5. Critical(g)
  BY <1>4 DEF Critical, CRITICAL_FIELDS
<1>6. f \notin FALSE_IS_WIDER
  <2>1. \A e \in FALSE_IS_WIDER : Len(e) # 3
    BY DEF FALSE_IS_WIDER
  <2> QED
    BY <1>1, <2>1
<1>7. g \notin FALSE_IS_WIDER
  BY <1>2 DEF FALSE_IS_WIDER
<1>8. \A x, y : DirectionOf(g, x, y) = DirectionOf(f, x, y)
  BY <1>3, <1>6, <1>7 DEF DirectionOf
<1> QED
  BY <1>1, <1>3, <1>5, <1>8

LEMMA FreerIsWidening ==
  ASSUME NEW before \in Settings, NEW after \in Settings, Freer(before, after)
  PROVE  RequiresDualControl(DiffSettings(before, after))
<1> DEFINE changes == DiffSettings(before, after)
<1>1. PICK f \in Fields : Critical(f) /\ Wider(f, before, after)
  BY DEF Freer
<1>2. \A g \in Fields : before[g] # after[g] =>
        /\ g \in DOMAIN changes
        /\ changes[g].direction = DirectionOf(g, InForce(before, g), InForce(after, g))
  BY DEF DiffSettings
<1>3. CASE before[f] # after[f]
  BY <1>1, <1>2, <1>3 DEF RequiresDualControl, Wider
<1>4. CASE before[f] = after[f]
  <2>1. InForce(before, f) # InForce(after, f)
    BY <1>1, SameIsLateral DEF Wider
  <2>2. /\ OfCategory(f) /\ InForce(before, f) = before[DefaultOf(f)]
        /\ InForce(after, f) = after[DefaultOf(f)]
    BY <1>4, <2>1 DEF InForce
  <2>3. /\ DefaultOf(f) \in Fields /\ ~OfCategory(DefaultOf(f)) /\ Critical(DefaultOf(f))
        /\ \A x, y : DirectionOf(DefaultOf(f), x, y) = DirectionOf(f, x, y)
    BY <2>2, SameDirection
  <2>4. /\ InForce(before, DefaultOf(f)) = before[DefaultOf(f)]
        /\ InForce(after, DefaultOf(f)) = after[DefaultOf(f)]
    BY <2>3 DEF InForce
  <2>5. DefaultOf(f) \in DOMAIN changes /\ changes[DefaultOf(f)].direction = "widening"
    BY <1>1, <1>2, <2>1, <2>2, <2>3, <2>4 DEF Wider
  <2> QED
    BY <2>3, <2>5 DEF RequiresDualControl
<1> QED
  BY <1>3, <1>4

-----------------------------------------------------------------------------
(* What a request knows of what it read.                                   *)

\* Whoever decides is another than who proposed, may widen, and carries the
\* proposal's settings.
Deciding(k) ==
  /\ k.proposal \in DOMAIN proposals
  /\ k.by \in Users /\ k.by # proposals[k.proposal].asked
  /\ k.next = proposals[k.proposal].settings
  /\ Can(k.as, "security:update") /\ k.acknowledged

\* What is about to be committed was compared with the version it is based on, and
\* a widening was let through the gates.
Compared(k) ==
  /\ k.base \in 1 .. Len(versions)
  /\ k.base = Len(versions) =>
       /\ k.changes = DiffSettings(settings, k.next)
       /\ k.op # "decide" /\ RequiresDualControl(k.changes) =>
            Can(k.as, "security:update") /\ k.acknowledged /\ ~settings[Dual]

Knows(k) ==
  /\ k.pc \notin {"unused", "done"} /\ k.op = "decide" => Deciding(k)
  /\ k.pc \in {"compare", "propose"} => k.op \in {"update", "rollback"}
  /\ k.pc \in {"expire", "reject", "base", "stale", "read", "applied"} => k.op = "decide"
  /\ k.pc = "commit" => Compared(k)
  /\ k.pc = "applied" =>
       /\ k.version \in DOMAIN versions
       /\ versions[k.version].settings = k.next
       /\ versions[k.version].by = k.by
       /\ versions[k.version].asked = proposals[k.proposal].asked

ConfigInv ==
  /\ ConfigTypeInv
  /\ \A s \in Saves : Knows(save[s])
  /\ WideningIsGated /\ HistoryExplains /\ DecisionsAreTrue

\* Versions are only added, and with each the settings are replaced.
VersionsGrow ==
  /\ Len(versions') >= Len(versions)
  /\ \A v \in DOMAIN versions : v \in DOMAIN versions' /\ versions'[v] = versions[v]
  /\ Len(versions') = Len(versions) => settings' = settings

\* A proposal keeps what it proposes and who asked.
ProposalsKeep ==
  \A p \in DOMAIN proposals :
    /\ p \in DOMAIN proposals'
    /\ proposals'[p].settings = proposals[p].settings
    /\ proposals'[p].asked = proposals[p].asked

LEMMA KnowsKept ==
  ASSUME ConfigTypeInv, ConfigTypeInv', VersionsGrow, ProposalsKeep, NEW k, Knows(k)
  PROVE  Knows(k)'
<1>1. Len(versions) \in Nat /\ Len(versions') \in Nat
      /\ DOMAIN versions = 1 .. Len(versions) /\ DOMAIN versions' = 1 .. Len(versions')
  BY DEF ConfigTypeInv
<1>2. Deciding(k) => Deciding(k)'
  BY DEF Deciding, ProposalsKeep
<1>3. Compared(k) => Compared(k)'
  <2>1. CASE Len(versions') = Len(versions)
    <3>1. settings' = settings
      BY <2>1 DEF VersionsGrow
    <3> QED
      BY <2>1, <3>1 DEF Compared
  <2>2. ASSUME Len(versions') > Len(versions), Compared(k) PROVE Compared(k)'
    <3>1. k.base \in 1 .. Len(versions)
      BY <2>2 DEF Compared
    <3>2. k.base \in 1 .. Len(versions') /\ k.base # Len(versions')
      BY <1>1, <2>2, <3>1
    <3> QED
      BY <3>2 DEF Compared
  <2>3. Len(versions') = Len(versions) \/ Len(versions') > Len(versions)
    <3>1. Len(versions) \in Nat /\ Len(versions') \in Nat
      BY <1>1
    <3>2. Len(versions') >= Len(versions)
      BY DEF VersionsGrow
    <3> QED
      BY <3>1, <3>2
  <2> QED
    BY <2>1, <2>2, <2>3
<1>4. CASE k.pc = "applied"
  <2>1. k.proposal \in DOMAIN proposals
    BY <1>4 DEF Knows, Deciding
  <2> QED
    BY <1>2, <1>4, <2>1 DEF Knows, VersionsGrow, ProposalsKeep
<1>5. CASE k.pc # "applied"
  BY <1>2, <1>3, <1>5 DEF Knows
<1> QED
  BY <1>4, <1>5

LEMMA KnowsFor ==
  ASSUME NEW s, NEW k, k = save'[s], Knows(k)'
  PROVE  Knows(save[s])'
  BY DEF Knows, Deciding, Compared

LEMMA Idle ==
  ASSUME NEW k, k.pc \in {"unused", "done"}
  PROVE  Knows(k)
  BY DEF Knows

\* The history when nothing is committed.
LEMMA HistoryKept ==
  ASSUME ConfigInv, UNCHANGED <<settings, versions>>
  PROVE  (WideningIsGated /\ HistoryExplains)'
<1>1. WideningIsGated /\ HistoryExplains
  BY DEF ConfigInv
<1>2. WideningIsGated'
  BY <1>1 DEF WideningIsGated, Freer, Wider
<1>3. HistoryExplains'
  BY <1>1 DEF HistoryExplains
<1> QED
  BY <1>2, <1>3

\* Decisions when no proposal is written: the versions they name stay.
LEMMA DecisionsKept ==
  ASSUME ConfigInv, VersionsGrow, UNCHANGED proposals
  PROVE  DecisionsAreTrue'
  BY DEF ConfigInv, DecisionsAreTrue, VersionsGrow

-----------------------------------------------------------------------------
(* One lemma for each kind of step.                                        *)

\* A request that goes on to k, while nothing but its own place is written.
LEMMA Advances ==
  ASSUME ConfigInv, NEW s \in Saves, NEW k \in SaveType, Knows(k),
         save' = [save EXCEPT ![s] = k], UNCHANGED <<settings, versions, proposals>>
  PROVE  ConfigInv'
<1>1. ConfigTypeInv'
  BY DEF ConfigInv, ConfigTypeInv
<1>2. VersionsGrow /\ ProposalsKeep
  BY DEF VersionsGrow, ProposalsKeep, ConfigInv, ConfigTypeInv
<1>3. \A r \in Saves : save'[r] = (IF r = s THEN k ELSE save[r])
  BY DEF ConfigInv, ConfigTypeInv
<1>4. ASSUME NEW r \in Saves PROVE Knows(save[r])'
  <2>1. PICK x : x = save'[r]
    OBVIOUS
  <2>2. x = k \/ x = save[r]
    BY <1>3, <2>1
  <2>3. Knows(x)
    BY <2>2 DEF ConfigInv
  <2>4. Knows(x)'
    BY <1>1, <1>2, <2>3, KnowsKept DEF ConfigInv
  <2> QED
    BY <2>1, <2>4, KnowsFor
<1> QED
  BY <1>1, <1>2, <1>4, HistoryKept, DecisionsKept DEF ConfigInv

\* A request ends, or none is involved, and proposals are written.
LEMMA Records ==
  ASSUME ConfigInv, proposals' \in Seq(ProposalType), ProposalsKeep, DecisionsAreTrue',
         UNCHANGED <<settings, versions>>,
         save' = save \/ \E s \in Saves : End(s)
  PROVE  ConfigInv'
<1>1. save' \in [Saves -> SaveType] /\ \A r \in Saves : save'[r] = save[r] \/ save'[r].pc = "done"
  <2>1. CASE save' = save
    BY <2>1 DEF ConfigInv, ConfigTypeInv
  <2>2. CASE \E s \in Saves : End(s)
    <3>0. PICK s \in Saves : End(s)
      BY <2>2
    <3> DEFINE k == [Fresh EXCEPT !.pc = "done"]
    <3>1. k \in SaveType /\ k.pc = "done"
      BY FreshType
    <3>2. save' = [save EXCEPT ![s] = k] /\ save \in [Saves -> SaveType]
      BY <3>0 DEF End, ConfigInv, ConfigTypeInv
    <3> HIDE DEF k
    <3> QED
      BY <3>1, <3>2
  <2> QED
    BY <2>1, <2>2
<1>2. ConfigTypeInv'
  BY <1>1 DEF ConfigInv, ConfigTypeInv
<1>3. VersionsGrow
  BY DEF VersionsGrow, ConfigInv, ConfigTypeInv
<1>4. ASSUME NEW r \in Saves PROVE Knows(save[r])'
  <2>1. PICK x : x = save'[r]
    OBVIOUS
  <2>2. Knows(x)
    BY <1>1, <2>1, Idle DEF ConfigInv
  <2>3. Knows(x)'
    BY <1>2, <1>3, <2>2, KnowsKept DEF ConfigInv
  <2> QED
    BY <2>1, <2>3, KnowsFor
<1> QED
  BY <1>2, <1>4, HistoryKept DEF ConfigInv

\* A request is opened with the role of now.
LEMMA Begins ==
  ASSUME ConfigInv, TypeInv, NEW s \in Saves, NEW u \in Users,
         NEW op \in {"update", "rollback", "decide"}, NEW next \in Settings,
         NEW pc \in {"compare", "expire", "reject", "base"}, NEW acknowledged \in BOOLEAN,
         NEW p \in Nat, Begin(s, u, op, pc, next, acknowledged, p),
         op = "decide" => /\ pc # "compare" /\ p \in DOMAIN proposals
                          /\ proposals[p].asked # u /\ next = proposals[p].settings
                          /\ Can(RoleNow(u), "security:update") /\ acknowledged,
         op # "decide" => pc = "compare"
  PROVE  ConfigInv'
<1> DEFINE k == [Fresh EXCEPT !.pc = pc, !.op = op, !.by = u, !.as = RoleNow(u), !.next = next,
                              !.acknowledged = acknowledged, !.proposal = p]
<1>1. RoleNow(u) \in ROLE \cup {Nobody}
  BY DEF RoleNow, ResolvedRole, TypeInv, AccessTypeOK, ROLE
<1>2. /\ k \in SaveType /\ k.pc = pc /\ k.op = op /\ k.by = u /\ k.as = RoleNow(u)
      /\ k.next = next /\ k.acknowledged = acknowledged /\ k.proposal = p
  BY <1>1, FreshType DEF SaveType, Somebody
<1>3. save' = [save EXCEPT ![s] = k] /\ UNCHANGED <<settings, versions, proposals>>
  BY DEF Begin
<1> HIDE DEF k
<1>4. Knows(k)
  BY <1>2 DEF Knows, Deciding
<1> QED
  BY <1>2, <1>3, <1>4, Advances

LEMMA RequestStep ==
  ASSUME ConfigInv, TypeInv, NEW s \in Saves, NEW u \in Users, SaveRequest(s, u)
  PROVE  ConfigInv'
<1>0. settings \in Settings
  BY DEF ConfigInv, ConfigTypeInv
<1>1. CASE SubmitForm(s, u)
  <2>1. PICK form \in Submissions, acknowledged \in BOOLEAN :
             Begin(s, u, "update", "compare",
                   [f \in Fields |-> IF f \in DOMAIN form THEN form[f] ELSE settings[f]],
                   acknowledged, 0)
    BY <1>1 DEF SubmitForm
  <2> DEFINE next == [f \in Fields |-> IF f \in DOMAIN form THEN form[f] ELSE settings[f]]
  <2>2. \A f \in Fields : (IF f \in DOMAIN form THEN form[f] ELSE settings[f]) \in Values
    BY <1>0 DEF Settings, Values
  <2>3. next \in Settings
    BY <2>2 DEF Settings
  <2> HIDE DEF next
  <2>4. Begin(s, u, "update", "compare", next, acknowledged, 0)
    BY <2>1 DEF next
  <2> QED
    BY <2>3, <2>4, Begins
<1>2. CASE SubmitRollback(s, u)
  <2>1. PICK v \in DOMAIN versions, acknowledged \in BOOLEAN :
             Begin(s, u, "rollback", "compare", versions[v].settings, acknowledged, 0)
    BY <1>2 DEF SubmitRollback
  <2>2. versions[v].settings \in Settings
    BY Elements DEF ConfigInv
  <2> QED
    BY <2>1, <2>2, Begins
<1>3. CASE OpenDecision(s, u)
  <2>1. PICK p \in DOMAIN proposals, verdict \in {"approved", "rejected"} :
             /\ Can(RoleNow(u), "security:update") /\ proposals[p].asked # u
             /\ Begin(s, u, "decide",
                      IF proposals[p].lapsed THEN "expire"
                      ELSE IF verdict = "rejected" THEN "reject" ELSE "base",
                      proposals[p].settings, TRUE, p)
    BY <1>3 DEF OpenDecision
  <2>2. PICK pc \in {"expire", "reject", "base"} :
             Begin(s, u, "decide", pc, proposals[p].settings, TRUE, p)
    BY <2>1
  <2>3. proposals[p].settings \in Settings /\ p \in Nat
    BY Elements DEF ConfigInv
  <2> QED
    BY <2>1, <2>2, <2>3, Begins
<1> QED
  BY <1>1, <1>2, <1>3 DEF SaveRequest

Decided(r) ==
  /\ r.status = "applied" =>
       /\ r.version \in DOMAIN versions /\ versions[r.version].settings = r.settings
       /\ versions[r.version].by = r.decided /\ versions[r.version].asked = r.asked
  /\ r.status \in {"applied", "rejected"} => r.decided \notin {r.asked, NoUser}

\* One proposal gets another status.
LEMMA Writes ==
  ASSUME ConfigInv, NEW p \in DOMAIN proposals, NEW x \in ProposalType,
         proposals' = [proposals EXCEPT ![p] = x], Decided(x),
         x.settings = proposals[p].settings, x.asked = proposals[p].asked,
         UNCHANGED <<settings, versions>>, save' = save \/ \E s \in Saves : End(s)
  PROVE  ConfigInv'
<1>0. proposals \in Seq(ProposalType) /\ p \in 1 .. Len(proposals)
      /\ DOMAIN proposals = 1 .. Len(proposals)
  BY Elements DEF ConfigInv, ConfigTypeInv
<1>1. /\ proposals' \in Seq(ProposalType) /\ DOMAIN proposals' = DOMAIN proposals
      /\ \A q \in DOMAIN proposals : proposals'[q] = IF q = p THEN x ELSE proposals[q]
  BY <1>0, ExceptSeq
<1>2. ProposalsKeep
  BY <1>1 DEF ProposalsKeep
<1>3. DecisionsAreTrue'
  BY <1>1 DEF ConfigInv, DecisionsAreTrue, Decided
<1> QED
  BY <1>1, <1>2, <1>3, Records

LEMMA StatusStep ==
  ASSUME ConfigInv, NEW s \in Saves,
         WriteExpired(s) \/ WriteRejected(s) \/ WriteStale(s) \/ WriteApplied(s)
  PROVE  ConfigInv'
<1> DEFINE k == save[s]
           p == k.proposal
<1>0. k \in SaveType /\ Knows(k)
  BY DEF ConfigInv, ConfigTypeInv
<1>1. k.op = "decide" /\ Deciding(k) /\ p \in DOMAIN proposals
  BY <1>0 DEF WriteExpired, WriteRejected, WriteStale, WriteApplied, At, Knows, Deciding
<1>2. proposals[p] \in ProposalType /\ proposals \in Seq(ProposalType) /\ p \in DOMAIN proposals
  BY <1>1, Elements DEF ConfigInv, ConfigTypeInv
<1>3. End(s) /\ UNCHANGED <<settings, versions>>
  BY DEF WriteExpired, WriteRejected, WriteStale, WriteApplied
<1>4. CASE WriteExpired(s) \/ WriteStale(s)
  <2>1. PICK status \in {"expired", "stale"} : proposals' = Status(p, status)
    BY <1>4 DEF WriteExpired, WriteStale
  <2> DEFINE x == [proposals[p] EXCEPT !.status = status]
  <2>2. /\ x \in ProposalType /\ x.settings = proposals[p].settings
        /\ x.asked = proposals[p].asked /\ x.status = status
    BY <1>2 DEF ProposalType
  <2>3. proposals' = [proposals EXCEPT ![p] = x]
    BY <2>1 DEF Status
  <2> HIDE DEF x
  <2> QED
    BY <1>2, <1>3, <2>2, <2>3, Writes DEF Decided
<1>5. CASE WriteRejected(s)
  <2> DEFINE x == [proposals[p] EXCEPT !.status = "rejected", !.decided = k.by]
  <2>1. proposals' = [Status(p, "rejected") EXCEPT ![p].decided = k.by]
    BY <1>5 DEF WriteRejected
  <2>2. /\ x \in ProposalType /\ x.settings = proposals[p].settings
        /\ x.asked = proposals[p].asked /\ x.status = "rejected" /\ x.decided = k.by
    BY <1>0, <1>2 DEF ProposalType, SaveType
  <2>3. proposals' = [proposals EXCEPT ![p] = x]
    BY <1>2, <2>1 DEF Status
  <2>4. k.by \notin {proposals[p].asked, NoUser}
    BY <1>1, AccessAssumption DEF Deciding
  <2> HIDE DEF x
  <2>5. Decided(x)
    BY <2>2, <2>4 DEF Decided
  <2> QED
    BY <1>2, <1>3, <2>2, <2>3, <2>5, Writes
<1>6. CASE WriteApplied(s)
  <2> DEFINE x == [proposals[p] EXCEPT !.status = "applied", !.decided = k.by, !.version = k.version]
  <2>1. proposals' = [Status(p, "applied") EXCEPT ![p].decided = k.by, ![p].version = k.version]
    BY <1>6 DEF WriteApplied
  <2>2. /\ x \in ProposalType /\ x.settings = proposals[p].settings
        /\ x.asked = proposals[p].asked /\ x.status = "applied" /\ x.decided = k.by
        /\ x.version = k.version
    BY <1>0, <1>2 DEF ProposalType, SaveType
  <2>3. proposals' = [proposals EXCEPT ![p] = x]
    BY <1>2, <2>1 DEF Status
  <2>4. k.by \notin {proposals[p].asked, NoUser} /\ k.next = proposals[p].settings
    BY <1>1, AccessAssumption DEF Deciding
  <2>5. /\ k.version \in DOMAIN versions /\ versions[k.version].settings = k.next
        /\ versions[k.version].by = k.by /\ versions[k.version].asked = proposals[p].asked
    BY <1>0, <1>6 DEF WriteApplied, At, Knows
  <2> HIDE DEF x
  <2>6. Decided(x)
    BY <2>2, <2>4, <2>5 DEF Decided
  <2> QED
    BY <1>2, <1>3, <2>2, <2>3, <2>6, Writes
<1> QED
  BY <1>4, <1>5, <1>6

\* Steps that read and go on, or end.
LEMMA ReadStep ==
  ASSUME ConfigInv, NEW s \in Saves,
         CompareSettings(s) \/ CheckBase(s) \/ ReadBefore(s) \/ SaveCrash(s)
  PROVE  ConfigInv'
<1> DEFINE k == save[s]
<1>0. /\ k \in SaveType /\ Knows(k) /\ settings \in Settings
      /\ UNCHANGED <<settings, versions, proposals>>
  BY DEF ConfigInv, ConfigTypeInv, CompareSettings, CheckBase, ReadBefore, SaveCrash
<1>1. Len(versions) \in Nat \ {0} /\ k.next \in Settings
  BY <1>0, Elements DEF ConfigInv, SaveType
<1>2. CASE End(s)
  <2> DEFINE x == [Fresh EXCEPT !.pc = "done"]
  <2>1. x \in SaveType /\ x.pc = "done" /\ save' = [save EXCEPT ![s] = x]
    BY <1>2, FreshType DEF End
  <2> HIDE DEF x
  <2>2. Knows(x)
    BY <2>1, Idle
  <2>3. UNCHANGED <<settings, versions, proposals>>
    BY <1>0
  <2> QED
    BY <2>1, <2>2, <2>3, Advances
<1>3. ASSUME NEW gate \in {"propose", "commit"}, At(s, "compare"), k.op # "decide",
             gate = "commit" /\ RequiresDualControl(DiffSettings(settings, k.next)) =>
               Can(k.as, "security:update") /\ k.acknowledged /\ ~settings[Dual],
             save' = [save EXCEPT ![s].pc = gate, ![s].changes = DiffSettings(settings, k.next),
                                  ![s].base = Len(versions)]
      PROVE  ConfigInv'
  <2> DEFINE changes == DiffSettings(settings, k.next)
             x == [k EXCEPT !.pc = gate, !.changes = changes, !.base = Len(versions)]
  <2>1. changes \in Changes
    BY <1>0, <1>1, DiffType
  <2>2. save' = [save EXCEPT ![s] = x]
    BY <1>3
  <2> HIDE DEF changes
  <2>3. /\ x \in SaveType /\ x.pc = gate /\ x.changes = changes /\ x.base = Len(versions)
        /\ x.op = k.op /\ x.next = k.next /\ x.as = k.as /\ x.acknowledged = k.acknowledged
    BY <1>0, <1>1, <2>1 DEF SaveType
  <2> HIDE DEF x
  <2>4. k.op \in {"update", "rollback"}
    BY <1>0, <1>3 DEF At, Knows
  <2>5. gate = "commit" => Compared(x)
    BY <1>1, <1>3, <2>3 DEF Compared, changes
  <2>6. Knows(x)
    BY <2>3, <2>4, <2>5 DEF Knows
  <2> QED
    BY <1>0, <2>2, <2>3, <2>6, Advances
<1>4. CASE CompareSettings(s)
  <2> DEFINE changes == DiffSettings(settings, k.next)
             gate == Gate(k, settings, changes)
  <2>1. k.op # "decide"
    BY <1>0, <1>4 DEF CompareSettings, At, Knows
  <2>2. RequiresDualControl(changes) => ChangesCritical(changes)
    BY DEF RequiresDualControl, ChangesCritical
  <2>3. gate \in {"done", "propose", "commit"}
    BY DEF Gate
  <2>4. gate = "commit" /\ RequiresDualControl(changes) =>
          Can(k.as, "security:update") /\ k.acknowledged /\ ~settings[Dual]
    BY <2>2 DEF Gate, NeedsSecondApprover
  <2>5. \/ gate = "done" /\ End(s)
        \/ gate # "done" /\ save' = [save EXCEPT ![s].pc = gate, ![s].changes = changes,
                                                 ![s].base = Len(versions)]
    BY <1>4 DEF CompareSettings
  <2>6. At(s, "compare")
    BY <1>4 DEF CompareSettings
  <2> HIDE DEF gate
  <2>7. CASE gate # "done"
    <3>1. PICK g \in {"propose", "commit"} : g = gate
      BY <2>3, <2>7
    <3>2. save' = [save EXCEPT ![s].pc = g, ![s].changes = DiffSettings(settings, k.next),
                               ![s].base = Len(versions)]
      BY <2>5, <2>7, <3>1
    <3>3. g = "commit" /\ RequiresDualControl(DiffSettings(settings, k.next)) =>
            Can(k.as, "security:update") /\ k.acknowledged /\ ~settings[Dual]
      BY <2>4, <3>1
    <3> QED
      BY <1>3, <2>1, <2>6, <3>2, <3>3
  <2> QED
    BY <1>2, <2>5, <2>7
<1>5. CASE CheckBase(s)
  <2>1. PICK pc \in {"stale", "read"} : save' = [save EXCEPT ![s].pc = pc]
    BY <1>5 DEF CheckBase, Move
  <2> DEFINE x == [k EXCEPT !.pc = pc]
  <2>2. /\ x \in SaveType /\ x.pc = pc /\ x.op = k.op /\ x.proposal = k.proposal
        /\ x.by = k.by /\ x.next = k.next /\ x.as = k.as /\ x.acknowledged = k.acknowledged
    BY <1>0 DEF SaveType
  <2>3. save' = [save EXCEPT ![s] = x]
    BY <2>1
  <2>4. k.op = "decide" /\ Deciding(k)
    BY <1>0, <1>5 DEF CheckBase, At, Knows
  <2> HIDE DEF x
  <2>5. Knows(x)
    BY <2>2, <2>4 DEF Knows, Deciding
  <2> QED
    BY <1>0, <2>2, <2>3, <2>5, Advances
<1>6. CASE ReadBefore(s)
  <2> DEFINE changes == DiffSettings(settings, k.next)
             x == [k EXCEPT !.pc = "commit", !.base = Len(versions), !.changes = changes]
  <2>1. changes \in Changes
    BY <1>0, <1>1, DiffType
  <2>2. save' = [save EXCEPT ![s] = x]
    BY <1>6 DEF ReadBefore
  <2> HIDE DEF changes
  <2>3. /\ x \in SaveType /\ x.pc = "commit" /\ x.changes = changes /\ x.base = Len(versions)
        /\ x.op = k.op /\ x.next = k.next /\ x.as = k.as /\ x.acknowledged = k.acknowledged
        /\ x.proposal = k.proposal /\ x.by = k.by
    BY <1>0, <1>1, <2>1 DEF SaveType
  <2> HIDE DEF x
  <2>4. k.op = "decide" /\ Deciding(k)
    BY <1>0, <1>6 DEF ReadBefore, At, Knows
  <2>5. Compared(x)
    BY <1>1, <2>3, <2>4 DEF Compared, changes
  <2>6. Knows(x)
    BY <2>3, <2>4, <2>5 DEF Knows, Deciding
  <2> QED
    BY <1>0, <2>2, <2>3, <2>6, Advances
<1>7. CASE SaveCrash(s)
  BY <1>2, <1>7 DEF SaveCrash
<1> QED
  BY <1>4, <1>5, <1>6, <1>7

LEMMA ProposeStep ==
  ASSUME ConfigInv, NEW s \in Saves, ProposeChange(s)
  PROVE  ConfigInv'
<1> DEFINE k == save[s]
           x == [settings |-> k.next, changes |-> k.changes, base |-> Len(versions),
                 status |-> "pending", asked |-> k.by, decided |-> NoUser, version |-> 0,
                 lapsed |-> FALSE]
<1>1. k \in SaveType /\ proposals \in Seq(ProposalType)
  BY DEF ConfigInv, ConfigTypeInv
<1>2. x \in ProposalType /\ x.status = "pending"
  BY <1>1, Elements DEF ConfigInv, ProposalType, SaveType, Somebody
<1>3. proposals' = Append(proposals, x) /\ End(s) /\ UNCHANGED <<settings, versions>>
  BY DEF ProposeChange
<1> HIDE DEF x
<1>4. /\ proposals' \in Seq(ProposalType) /\ Len(proposals') = Len(proposals) + 1
      /\ \A q \in 1 .. Len(proposals) : proposals'[q] = proposals[q]
      /\ proposals'[Len(proposals) + 1] = x
  BY <1>1, <1>2, <1>3, AppendProperties
<1>5. /\ Len(proposals) \in Nat /\ DOMAIN proposals = 1 .. Len(proposals)
      /\ DOMAIN proposals' = 1 .. (Len(proposals) + 1)
  BY <1>1, <1>4, LenProperties
<1>6. \A q \in DOMAIN proposals' :
        \/ q \in DOMAIN proposals /\ proposals'[q] = proposals[q]
        \/ proposals'[q].status = "pending"
  BY <1>2, <1>4, <1>5
<1>7. ProposalsKeep
  BY <1>4, <1>5 DEF ProposalsKeep
<1>8. DecisionsAreTrue'
  BY <1>3, <1>6 DEF ConfigInv, DecisionsAreTrue
<1> QED
  BY <1>3, <1>4, <1>7, <1>8, Records

LEMMA ClockStep ==
  ASSUME ConfigInv, ExpireProposals \/ \E p \in 1 .. MaxProposals : Lapse(p)
  PROVE  ConfigInv'
<1>0. proposals \in Seq(ProposalType) /\ UNCHANGED <<settings, versions, save>>
  BY DEF ConfigInv, ConfigTypeInv, ExpireProposals, Lapse
<1>1. CASE \E p \in 1 .. MaxProposals : Lapse(p)
  <2>1. PICK p \in DOMAIN proposals : /\ proposals[p].status = "pending"
                                      /\ proposals' = [proposals EXCEPT ![p].lapsed = TRUE]
    BY <1>1 DEF Lapse
  <2> DEFINE x == [proposals[p] EXCEPT !.lapsed = TRUE]
  <2>2. proposals[p] \in ProposalType
    BY <2>1, Elements DEF ConfigInv
  <2>3. /\ x \in ProposalType /\ x.settings = proposals[p].settings
        /\ x.asked = proposals[p].asked /\ x.status = "pending"
    BY <2>1, <2>2 DEF ProposalType
  <2>4. proposals' = [proposals EXCEPT ![p] = x]
    BY <2>1
  <2> HIDE DEF x
  <2> QED
    BY <1>0, <2>1, <2>3, <2>4, Writes DEF Decided
<1>2. CASE ExpireProposals
  <2> DEFINE x(q) == IF Overdue(q) THEN [proposals[q] EXCEPT !.status = "expired"] ELSE proposals[q]
  <2>1. /\ Len(proposals) \in Nat /\ DOMAIN proposals = 1 .. Len(proposals)
        /\ \A q \in DOMAIN proposals : proposals[q] \in ProposalType
    BY Elements DEF ConfigInv
  <2>2. proposals' = [q \in 1 .. Len(proposals) |-> x(q)]
    BY <1>2, <2>1 DEF ExpireProposals
  <2>3. ASSUME NEW q \in 1 .. Len(proposals)
        PROVE  /\ x(q) \in ProposalType /\ x(q).settings = proposals[q].settings
               /\ x(q).asked = proposals[q].asked
               /\ x(q) = proposals[q] \/ x(q).status = "expired"
    BY <2>1, <2>3 DEF ProposalType
  <2> HIDE DEF x
  <2>4. proposals' \in Seq(ProposalType)
    BY <2>1, <2>2, <2>3
  <2>5. /\ DOMAIN proposals' = DOMAIN proposals
        /\ \A q \in DOMAIN proposals : proposals'[q] = x(q)
    BY <2>1, <2>2
  <2>6. ProposalsKeep
    BY <2>1, <2>3, <2>5 DEF ProposalsKeep
  <2>7. DecisionsAreTrue'
    BY <1>0, <2>1, <2>3, <2>5 DEF ConfigInv, DecisionsAreTrue
  <2> QED
    BY <1>0, <2>4, <2>6, <2>7, Records
<1> QED
  BY <1>1, <1>2

\* A version is committed.
LEMMA CommitStep ==
  ASSUME ConfigInv, NEW s \in Saves, CommitVersion(s)
  PROVE  ConfigInv'
<1> DEFINE k == save[s]
           n == Len(versions)
           v == [settings |-> k.next, changes |-> k.changes, source |-> Source(k),
                 base |-> k.base, asked |-> Asker(k), as |-> k.as,
                 acknowledged |-> k.acknowledged, by |-> k.by]
<1>1. /\ k \in SaveType /\ Knows(k) /\ k.pc = "commit" /\ save \in [Saves -> SaveType]
      /\ versions \in Seq(VersionType) /\ settings \in Settings
  BY DEF ConfigInv, ConfigTypeInv, CommitVersion, At
<1>2. n \in Nat \ {0} /\ DOMAIN versions = 1 .. n
  BY Elements DEF ConfigInv
<1>3. Compared(k) /\ (k.op = "decide" => Deciding(k))
  BY <1>1 DEF Knows
<1>4. Asker(k) \in Somebody
  <2>1. k.by \in Somebody
    BY <1>1 DEF SaveType
  <2>2. k.op = "decide" => proposals[k.proposal] \in ProposalType
    BY <1>3, Elements DEF ConfigInv, Deciding
  <2>3. k.op = "decide" => proposals[k.proposal].asked \in Somebody
    BY <2>2 DEF ProposalType
  <2> QED
    BY <2>1, <2>3 DEF Asker
<1>5. v \in VersionType
  BY <1>1, <1>4 DEF VersionType, SaveType, Source
<1>6. /\ settings' = k.next /\ versions' = Append(versions, v) /\ UNCHANGED proposals
  BY DEF CommitVersion
<1>7. /\ v.settings = k.next /\ v.changes = k.changes /\ v.base = k.base /\ v.asked = Asker(k)
      /\ v.as = k.as /\ v.acknowledged = k.acknowledged /\ v.by = k.by
  OBVIOUS
<1> HIDE DEF v
<1>8. /\ versions' \in Seq(VersionType) /\ versions' # <<>> /\ Len(versions') = n + 1
      /\ \A i \in 1 .. n : versions'[i] = versions[i]
      /\ versions'[n + 1] = v
  BY <1>1, <1>5, <1>6, AppendProperties
<1>9. DOMAIN versions' = 1 .. (n + 1)
  BY <1>8, LenProperties
<1>10. VersionsGrow /\ ProposalsKeep
  <2>1. n + 1 >= n /\ n + 1 # n
    <3>1. n \in Nat
      BY <1>2
    <3> QED
      BY <3>1
  <2>2. \A i \in 1 .. n : i \in 1 .. (n + 1)
    BY <1>2
  <2>3. VersionsGrow
    BY <1>2, <1>8, <1>9, <2>1, <2>2 DEF VersionsGrow
  <2>4. ProposalsKeep
    BY <1>6 DEF ProposalsKeep
  <2> QED
    BY <2>3, <2>4
<1> DEFINE x == [k EXCEPT !.pc = "applied", !.version = n + 1]
           y == [Fresh EXCEPT !.pc = "done"]
<1>11. /\ x \in SaveType /\ x.pc = "applied" /\ x.version = n + 1 /\ x.op = k.op /\ x.by = k.by
       /\ x.next = k.next /\ x.as = k.as /\ x.acknowledged = k.acknowledged
       /\ x.proposal = k.proposal
  <2> HIDE DEF k, n
  <2>1. x.pc = "applied" /\ x.version = n + 1
    BY <1>1 DEF SaveType
  <2>2. /\ x.op = k.op /\ x.by = k.by /\ x.next = k.next /\ x.as = k.as
        /\ x.acknowledged = k.acknowledged /\ x.proposal = k.proposal
    BY <1>1 DEF SaveType
  <2>3. x \in SaveType
    <3>1. n + 1 \in Nat
      BY <1>2
    <3> QED
      BY <1>1, <3>1 DEF SaveType
  <2> QED
    BY <2>1, <2>2, <2>3
<1>12. y \in SaveType /\ y.pc = "done"
  BY FreshType
<1>13. \/ k.op = "decide" /\ save' = [save EXCEPT ![s] = x]
       \/ k.op # "decide" /\ save' = [save EXCEPT ![s] = y]
  BY DEF CommitVersion, End
<1> HIDE DEF x, y
<1>14. /\ save' \in [Saves -> SaveType]
       /\ \A r \in Saves : \/ save'[r] = save[r] \/ save'[r] = y
                           \/ save'[r] = x /\ k.op = "decide"
  BY <1>1, <1>11, <1>12, <1>13
<1>15. ConfigTypeInv'
  <2>1. settings' \in Settings
    BY <1>1, <1>6 DEF SaveType
  <2> QED
    BY <1>6, <1>8, <1>14, <2>1 DEF ConfigInv, ConfigTypeInv
<1>16. ASSUME NEW z, z = x, k.op = "decide" PROVE Knows(z)'
  <2>1. Deciding(z)'
    BY <1>3, <1>6, <1>11, <1>16 DEF Deciding
  <2>2. /\ z.version \in DOMAIN versions' /\ versions'[z.version] = v
        /\ v.settings = z.next /\ v.by = z.by /\ v.asked = proposals'[z.proposal].asked
    <3>1. n + 1 \in 1 .. (n + 1)
      BY <1>2
    <3>2. Asker(k) = proposals[k.proposal].asked
      BY <1>16 DEF Asker
    <3> QED
      BY <1>6, <1>7, <1>8, <1>9, <1>11, <1>16, <3>1, <3>2
  <2> QED
    BY <1>11, <1>16, <2>1, <2>2 DEF Knows
<1>17. ASSUME NEW r \in Saves PROVE Knows(save[r])'
  <2>1. PICK z : z = save'[r]
    OBVIOUS
  <2>2. CASE z = save[r] \/ z = y
    <3>1. Knows(z)
      BY <1>12, <2>2, Idle DEF ConfigInv
    <3>2. Knows(z)'
      BY <1>10, <1>15, <3>1, KnowsKept DEF ConfigInv
    <3> QED
      BY <2>1, <3>2, KnowsFor
  <2>3. CASE z = x /\ k.op = "decide"
    BY <1>16, <2>1, <2>3, KnowsFor
  <2> QED
    BY <1>14, <2>1, <2>2, <2>3
<1>18. settings = versions[n].settings
  BY DEF ConfigInv, HistoryExplains
<1>19. k.base = n => k.changes = DiffSettings(settings, k.next)
  BY <1>3 DEF Compared
<1>20. HistoryExplains'
  BY <1>2, <1>6, <1>7, <1>8, <1>18, <1>19 DEF ConfigInv, HistoryExplains
<1>21. WideningIsGated'
  <2>1. ASSUME Freer(settings, k.next), k.base = n
        PROVE  /\ Can(k.as, "security:update") /\ k.acknowledged
               /\ settings[Dual] => Asker(k) # k.by
    <3>1. RequiresDualControl(k.changes)
      BY <1>1, <1>19, <2>1, FreerIsWidening DEF SaveType
    <3> QED
      BY <1>3, <2>1, <3>1 DEF Compared, Deciding, Asker
  <2>2. \A i \in 2 .. (n + 1) : i \in 2 .. n \/ (i = n + 1 /\ i - 1 = n)
    BY <1>2
  <2> QED
    BY <1>2, <1>7, <1>8, <1>18, <2>1, <2>2 DEF ConfigInv, WideningIsGated, Freer, Wider
<1>22. DecisionsAreTrue'
  BY <1>6, <1>10, DecisionsKept
<1> QED
  BY <1>15, <1>17, <1>20, <1>21, <1>22 DEF ConfigInv

-----------------------------------------------------------------------------
(* The theorems.                                                           *)

\* What Access shows of its own steps holds while the settings change beside it.
LEMMA AdminImpliesAccess == AdminSpec => AccessSpec
<1>1. ConfigInit => AccessInit
  BY DEF ConfigInit, AccessInit
<1>2. [AdminNext]_adminVars => [AccessNext]_accessVars
  BY DEF AdminNext, adminVars
<1> QED
  BY <1>1, <1>2, PTL DEF AdminSpec, AccessSpec

LEMMA ConfigStart == ConfigInit => ConfigInv
<1> SUFFICES ASSUME ConfigInit PROVE ConfigInv
  OBVIOUS
<1>1. PICK sc \in Scenarios : settings = sc.settings
  BY DEF ConfigInit
<1> DEFINE seed == [settings |-> settings, changes |-> NoChanges, source |-> "seed", base |-> 0,
                    asked |-> NoUser, as |-> Nobody, acknowledged |-> FALSE, by |-> NoUser]
<1>2. /\ versions = <<seed>> /\ proposals = <<>> /\ save = [s \in Saves |-> Fresh]
  BY DEF ConfigInit
<1>3. settings \in Settings
  BY <1>1, SettingsType
<1>4. seed \in VersionType /\ seed.settings = settings
  BY <1>3 DEF VersionType, Changes, Somebody
<1> HIDE DEF seed
<1>5. ConfigTypeInv
  BY <1>2, <1>3, <1>4, FreshType DEF ConfigTypeInv
<1>6. \A s \in Saves : Knows(save[s])
  BY <1>2, FreshType, Idle
<1>7. Len(versions) = 1 /\ versions[1] = seed /\ DOMAIN proposals = {}
  BY <1>2
<1>8. WideningIsGated /\ HistoryExplains /\ DecisionsAreTrue
  BY <1>4, <1>7 DEF WideningIsGated, HistoryExplains, DecisionsAreTrue
<1> QED
  BY <1>5, <1>6, <1>8 DEF ConfigInv

LEMMA ConfigStep == TypeInv /\ ConfigInv /\ [AdminNext]_adminVars => ConfigInv'
<1> SUFFICES ASSUME TypeInv, ConfigInv, [AdminNext]_adminVars PROVE ConfigInv'
  OBVIOUS
<1>1. ASSUME NEW s \in Saves, SaveStep(s) PROVE ConfigInv'
  BY <1>1, ReadStep, ProposeStep, CommitStep, StatusStep DEF SaveStep
<1>2. ASSUME NEW s \in Saves, NEW u \in Users, SaveRequest(s, u) PROVE ConfigInv'
  BY <1>2, RequestStep
<1>3. ASSUME ExpireProposals \/ \E p \in 1 .. MaxProposals : Lapse(p) PROVE ConfigInv'
  BY <1>3, ClockStep
<1>4. CASE UNCHANGED configVars
  <2>1. UNCHANGED <<settings, versions, proposals, save>>
    BY <1>4 DEF configVars
  <2>2. ProposalsKeep /\ VersionsGrow /\ proposals \in Seq(ProposalType)
    BY <2>1 DEF ProposalsKeep, VersionsGrow, ConfigInv, ConfigTypeInv
  <2>3. DecisionsAreTrue'
    BY <2>1, <2>2, DecisionsKept
  <2> QED
    BY <2>1, <2>2, <2>3, Records
<1> QED
  BY <1>1, <1>2, <1>3, <1>4 DEF AdminNext, ConfigNext, adminVars

\* The inductive invariant of config.ts's requests: the types, what each request
\* knows of what it read, and the three properties below.
THEOREM ConfigSafety == AdminSpec => []ConfigInv
<1>1. AdminSpec => []TypeInv
  BY AdminImpliesAccess, AccessTypeCorrect, PTL
<1> QED
  BY <1>1, ConfigStart, ConfigStep, PTL DEF AdminSpec

\* config.ts and config-policy.ts: no version leaves the agent freer without
\* somebody who may widen it, and two people while two are demanded, unless the
\* settings were changed between the request's reading and its commit.
THEOREM WideningStaysGated == AdminSpec => []WideningIsGated
<1>1. ConfigInv => WideningIsGated
  BY DEF ConfigInv
<1> QED
  BY <1>1, ConfigSafety, PTL

\* commitVersion: the settings are the last version's, and what a version records
\* as changed is its difference from the one before it.
THEOREM HistoryIsTrue == AdminSpec => []HistoryExplains
<1>1. ConfigInv => HistoryExplains
  BY DEF ConfigInv
<1> QED
  BY <1>1, ConfigSafety, PTL

\* decideConfigRequest: an applied proposal names the version that holds its
\* settings, and nobody decides what he asked for himself.
THEOREM DecisionsStayTrue == AdminSpec => []DecisionsAreTrue
<1>1. ConfigInv => DecisionsAreTrue
  BY DEF ConfigInv
<1> QED
  BY <1>1, ConfigSafety, PTL
===============================================================================
