-------------------------- MODULE ApprovalsProofs --------------------------
(***************************************************************************)
(* What TLAPS proves of Approvals, for any number of runs, visits, workers *)
(* and tools: one invariant, Custody, and the properties that follow.      *)
(***************************************************************************)
EXTENDS Approvals, TLAPS

\* Moving a run on keeps the runs well typed, and moving a visit on the visits.
LEMMA RunType ==
  ASSUME TypeOK, NEW w \in Runs, NEW at \in RunPoints, run' = [run EXCEPT ![w].at = at]
  PROVE  run' \in [Runs -> [at : RunPoints, ticket : Tickets, tool : Tools]]
  BY DEF TypeOK

LEMMA VisitType ==
  ASSUME TypeOK, NEW v \in Visits, NEW at \in VisitPoints, Goes(v, at)
  PROVE  visit' \in [Visits -> [at : VisitPoints, run : Runs \cup {NoRun}]]
  BY DEF TypeOK, Goes

LEMMA LeavesType ==
  ASSUME TypeOK, NEW v \in Visits, Leaves(v)
  PROVE  visit' \in [Visits -> [at : VisitPoints, run : Runs \cup {NoRun}]]
  BY DEF TypeOK, Leaves, Idle, VisitPoints

\* Every state is well typed.
THEOREM TypeCorrect == Spec => []TypeOK
<1>1. Init => TypeOK
  BY ApprovalsAssumption DEF Init, TypeOK, ApprovalStatus, TicketStatus, RunPoints, VisitPoints, Idle
<1>2. TypeOK /\ [Next]_vars => TypeOK'
  <2> SUFFICES ASSUME TypeOK, [Next]_vars PROVE TypeOK'
    OBVIOUS
  <2> USE DEF TypeOK, request, effects, ApprovalStatus, TicketStatus
  <2>1. ASSUME NEW w \in Runs, RunStep(w) \/ CrashRun(w) PROVE TypeOK'
    <3>1. CASE DecideRun(w)
      <4> PICK a \in Autonomies :
            /\ run' = [run EXCEPT ![w].at = Outcome(run[w].tool, a).at]
            /\ ticket' = [ticket EXCEPT ![run[w].ticket] = Outcome(run[w].tool, a).status]
        BY <3>1 DEF DecideRun
      <4>1. Outcome(run[w].tool, a).at \in RunPoints /\ Outcome(run[w].tool, a).status \in TicketStatus
        BY DEF Outcome, RunPoints
      <4> QED
        BY <3>1, <4>1 DEF DecideRun
    <3>2. CASE ActUnattended(w)
      <4>1. PICK at \in RunPoints : run' = [run EXCEPT ![w].at = at]
        BY <3>2 DEF ActUnattended, RunPoints
      <4>2. alone' \subseteq Runs
        BY <3>2 DEF ActUnattended
      <4> QED
        BY <3>2, <4>1, <4>2, RunType DEF ActUnattended
    <3>3. CASE RequestApproval(w)
      <4>1. status' \in [Runs -> ApprovalStatus \cup {"none"}]
        BY <3>3 DEF RequestApproval
      <4>2. run' = [run EXCEPT ![w].at = "parking"]
        BY <3>3 DEF RequestApproval
      <4> QED
        BY <3>3, <4>1, <4>2, RunType DEF RequestApproval, RunPoints
    <3>4. CASE Park(w) \/ Reply(w) \/ GiveUp(w)
      <4>1. PICK st \in TicketStatus : Moves(w, st, "finished")
        BY <3>4 DEF Park, Reply, GiveUp
      <4>2. ticket' \in [Tickets -> TicketStatus]
        BY <4>1 DEF Moves
      <4> QED
        BY <4>1, <4>2, RunType DEF Moves, RunPoints
    <3>5. CASE CrashRun(w)
      <4>1. PICK at \in RunPoints : run' = [run EXCEPT ![w].at = at]
        BY <3>5 DEF CrashRun, RunPoints
      <4> QED
        BY <3>5, <4>1, RunType DEF CrashRun
    <3> QED
      BY <2>1, <3>1, <3>2, <3>3, <3>4, <3>5 DEF RunStep
  <2>2. ASSUME NEW v \in Visits, NEW w \in Runs, NEW d \in {"approved", "rejected"}, Decide(v, w, d)
        PROVE TypeOK'
    BY <2>2 DEF Decide, VisitPoints, Holding
  <2>3. ASSUME NEW v \in Visits, NEW w \in Runs, DecideNothing(v, w) PROVE TypeOK'
    BY <2>3 DEF DecideNothing, VisitPoints, Holding
  <2>4. ASSUME NEW v \in Visits, VisitStep(v) \/ CrashVisit(v) PROVE TypeOK'
    <3> USE DEF Goes, Leaves, Idle, VisitPoints, Holding
    <3>1. CASE ReadStale(v) \/ CrashVisit(v)
      BY <3>1 DEF ReadStale, CrashVisit
    <3>2. CASE MarkExpired(v)
      BY <3>2 DEF MarkExpired
    <3>3. CASE CheckApproval(v)
      <4>1. PICK at \in VisitPoints : visit' = [visit EXCEPT ![v].at = at]
        BY <3>3 DEF CheckApproval
      <4>2. visit' \in [Visits -> [at : VisitPoints, run : Runs \cup {NoRun}]]
        BY <4>1
      <4> QED
        BY <3>3, <4>2 DEF CheckApproval
    <3>4. CASE MarkExpiredAfterApproval(v)
      <4>1. status' \in [Runs -> ApprovalStatus \cup {"none"}]
        BY <3>4 DEF MarkExpiredAfterApproval
      <4>2. visit' = [visit EXCEPT ![v].at = "erred"]
        BY <3>4 DEF MarkExpiredAfterApproval
      <4>3. visit' \in [Visits -> [at : VisitPoints, run : Runs \cup {NoRun}]]
        BY <4>2
      <4> QED
        BY <3>4, <4>1, <4>3 DEF MarkExpiredAfterApproval
    <3>5. CASE RunTool(v)
      <4>1. PICK at \in VisitPoints : visit' = [visit EXCEPT ![v].at = at]
        BY <3>5 DEF RunTool
      <4>2. visit' \in [Visits -> [at : VisitPoints, run : Runs \cup {NoRun}]]
        BY <4>1
      <4>3. done' = done \/ done' = [done EXCEPT ![visit[v].run] = @ + 1]
        BY <3>5 DEF RunTool
      <4>4. done' \in [Runs -> Nat]
        BY <4>3
      <4>5. unlogged' = unlogged \/ unlogged' = [unlogged EXCEPT ![visit[v].run] = TRUE]
        BY <3>5 DEF RunTool
      <4>6. unlogged' \in [Runs -> BOOLEAN]
        BY <4>5
      <4> QED
        BY <3>5, <4>2, <4>4, <4>6 DEF RunTool
    <3>6. CASE RecordOutcome(v)
      <4>1. PICK s \in {"executed", "failed"} : status' = [status EXCEPT ![visit[v].run] = s]
        BY <3>6 DEF RecordOutcome
      <4>2. status' \in [Runs -> ApprovalStatus \cup {"none"}]
        BY <4>1
      <4>3. PICK at \in VisitPoints : visit' = [visit EXCEPT ![v].at = at]
        BY <3>6 DEF RecordOutcome
      <4>4. visit' \in [Visits -> [at : VisitPoints, run : Runs \cup {NoRun}]]
        BY <4>3
      <4> QED
        BY <3>6, <4>2, <4>4 DEF RecordOutcome
    <3>7. CASE MoveTicket(v)
      <4>1. StatusAfter[visit[v].at] \in TicketStatus
        BY <3>7 DEF MoveTicket, StatusAfter
      <4>2. ticket' \in [Tickets -> TicketStatus]
        BY <3>7, <4>1 DEF MoveTicket
      <4> QED
        BY <3>7, <4>2, LeavesType DEF MoveTicket
    <3> QED
      BY <2>4, <3>1, <3>2, <3>3, <3>4, <3>5, <3>6, <3>7 DEF VisitStep
  <2>5. ASSUME NEW w \in Runs, Lapse(w) PROVE TypeOK'
    BY <2>5 DEF Lapse
  <2>6. ASSUME NEW k \in Sweepers, SweepStep(k) \/ CrashSweep(k) PROVE TypeOK'
    <3>1. CASE Expire(k)
      <4>1. status' \in [Runs -> ApprovalStatus \cup {"none"}]
        BY <3>1 DEF Expire
      <4>2. toTell' \in [Sweepers -> SUBSET Runs]
        BY <3>1 DEF Expire, Overdue
      <4> QED
        BY <3>1, <4>1, <4>2 DEF Expire
    <3>2. ASSUME NEW w \in Runs, Tell(k, w) PROVE TypeOK'
      BY <3>2 DEF Tell
    <3>3. CASE CrashSweep(k)
      BY <3>3 DEF CrashSweep
    <3> QED
      BY <2>6, <3>1, <3>2, <3>3 DEF SweepStep
  <2>7. ASSUME NEW tool \in Tools, EditWhitelist(tool) PROVE TypeOK'
    BY <2>7 DEF EditWhitelist
  <2>8. CASE UNCHANGED vars
    BY <2>8 DEF vars
  <2> QED
    BY <2>1, <2>2, <2>3, <2>4, <2>5, <2>6, <2>7, <2>8 DEF Next
<1> QED
  BY <1>1, <1>2, PTL DEF Spec

\* In the beginning no request has been raised and no visit holds anything.
LEMMA CustodyInit == Init => Custody
  BY DEF Init, Custody, HolderKnows, OneHolder, RowKnows, LateKnows, Holds, Holding, Idle

\* A step of a pipeline run leaves every row alone but one it inserts, which no
\* visit can be about.
LEMMA RunKeepsCustody ==
  ASSUME TypeOK, Custody, NEW w \in Runs, RunStep(w) \/ CrashRun(w)
  PROVE  Custody'
<1>1. /\ UNCHANGED <<decided, lapsed, visit, done, unlogged>>
      /\ status' # status => RequestApproval(w)
      /\ \A x \in Runs : run'[x].at \in {"idle", "acting"} => run[x].at \in {"idle", "acting"}
  <2>1. CASE DecideRun(w)
    <3>1. run[w].at = "idle" /\ UNCHANGED <<request, visit, effects>>
      BY <2>1 DEF DecideRun
    <3>2. \A x \in Runs \ {w} : run'[x].at = run[x].at
      BY <2>1 DEF DecideRun, TypeOK
    <3> QED
      BY <3>1, <3>2 DEF request, effects
  <2>2. CASE ActUnattended(w)
    <3>1. run[w].at = "acting" /\ UNCHANGED <<request, visit, done, unlogged>>
      BY <2>2 DEF ActUnattended
    <3>2. \A x \in Runs \ {w} : run'[x].at = run[x].at
      BY <2>2 DEF ActUnattended, TypeOK
    <3> QED
      BY <3>1, <3>2 DEF request
  <2>3. CASE RequestApproval(w)
    BY <2>3 DEF TypeOK, RequestApproval, effects
  <2>4. CASE Park(w) \/ Reply(w) \/ GiveUp(w)
    <3>1. PICK st : Moves(w, st, "finished")
      BY <2>4 DEF Park, Reply, GiveUp
    <3> QED
      BY <3>1 DEF TypeOK, Moves, request, effects
  <2>5. CASE CrashRun(w)
    <3>1. PICK at \in {"finished", "failing"} : run' = [run EXCEPT ![w].at = at]
      BY <2>5 DEF CrashRun
    <3>2. \A x \in Runs : run'[x].at = IF x = w THEN at ELSE run[x].at
      BY <3>1 DEF TypeOK
    <3>3. UNCHANGED <<request, visit, effects>>
      BY <2>5 DEF CrashRun
    <3> QED
      BY <3>2, <3>3 DEF request, effects
  <2> QED
    BY <2>1, <2>2, <2>3, <2>4, <2>5 DEF RunStep
<1>2. CASE status' = status
  BY <1>1, <1>2 DEF Custody, HolderKnows, OneHolder, RowKnows, LateKnows, Holds
<1>3. CASE RequestApproval(w)
  <2>1. /\ status[w] = "none"
        /\ status' = [status EXCEPT ![w] = "pending"]
        /\ run'[w].at = "parking"
    BY <1>3 DEF TypeOK, RequestApproval, Custody, RowKnows
  <2>2. \A v \in Visits : visit[v].at \notin {"idle", "dead"} => visit[v].run # w
    BY <2>1 DEF Custody, LateKnows
  <2>3. HolderKnows' /\ OneHolder'
    BY <1>1, <2>1, <2>2 DEF TypeOK, Custody, HolderKnows, OneHolder, Holds, Holding
  <2>4. RowKnows'
    BY <1>1, <2>1 DEF TypeOK, Custody, RowKnows
  <2>5. LateKnows'
    BY <1>1, <2>1, <2>2 DEF TypeOK, Custody, LateKnows
  <2> QED
    BY <2>3, <2>4, <2>5 DEF Custody
<1> QED
  BY <1>1, <1>2, <1>3

\* The statement of decideApproval hands a row without a holder to one visit.
LEMMA DecideKeepsCustody ==
  ASSUME TypeOK, Custody, NEW v \in Visits, NEW w \in Runs,
         NEW d \in {"approved", "rejected"}, Decide(v, w, d)
  PROVE  Custody'
<1>1. /\ visit[v].at = "idle" /\ status[w] = "pending" /\ decided[w] = "none" /\ done[w] = 0
      /\ run[w].at \notin {"idle", "acting"}
      /\ \A u \in Visits : ~Holds(u, w)
  BY DEF Decide, Decidable, Custody, RowKnows, HolderKnows
<1>2. /\ status' = [status EXCEPT ![w] = d] /\ decided' = [decided EXCEPT ![w] = d]
      /\ visit' = [visit EXCEPT ![v] =
           [at |-> IF d = "approved" THEN "granted" ELSE "rejecting", run |-> w]]
      /\ UNCHANGED <<lapsed, run, done, unlogged>>
  BY DEF Decide, effects
<1>3. /\ \A u \in Visits \ {v} : visit'[u] = visit[u]
      /\ visit'[v].run = w /\ visit'[v].at \in {"granted", "rejecting"}
      /\ visit'[v].at = "granted" => d = "approved"
  BY <1>2 DEF TypeOK
<1>4. HolderKnows'
  BY <1>1, <1>2, <1>3 DEF TypeOK, Custody, HolderKnows, Holds, Holding
<1>5. OneHolder'
  BY <1>1, <1>3 DEF Custody, OneHolder, Holds, Holding
<1>6. RowKnows'
  BY <1>1, <1>2 DEF TypeOK, Custody, RowKnows
<1>7. LateKnows'
  BY <1>1, <1>2, <1>3 DEF TypeOK, Custody, LateKnows
<1> QED
  BY <1>4, <1>5, <1>6, <1>7 DEF Custody

\* A step that touches neither a row's history nor a visit, and only expires
\* rows whose deadline has passed.
LEMMA ExpiryKeepsCustody ==
  ASSUME TypeOK, Custody, UNCHANGED <<decided, visit, done, unlogged, run>>,
         status' \in [Runs -> ApprovalStatus \cup {"none"}],
         lapsed' \in [Runs -> BOOLEAN],
         \A w \in Runs : lapsed[w] => lapsed'[w],
         \A w \in Runs : status'[w] = status[w] \/
            (status[w] \in {"pending", "approved"} /\ lapsed[w] /\ status'[w] = "expired")
  PROVE  Custody'
<1>1. HolderKnows'
  BY DEF Custody, HolderKnows, Holds
<1>2. OneHolder'
  BY DEF Custody, OneHolder, Holds
<1>3. RowKnows'
  BY DEF Custody, RowKnows
<1>4. LateKnows'
  BY DEF Custody, LateKnows
<1> QED
  BY <1>1, <1>2, <1>3, <1>4 DEF Custody

\* A visit that moves on without touching rows may only come to know what it has
\* just seen.
LEMMA VisitMovesOn ==
  ASSUME TypeOK, Custody, NEW v \in Visits,
         UNCHANGED <<status, decided, lapsed, run>>,
         \A u \in Visits \ {v} : visit'[u] = visit[u],
         done' \in [Runs -> Nat],
         \A w \in Runs : w # visit[v].run => done'[w] = done[w],
         visit'[v].at \in {"idle", "dead"} \/ visit'[v].run = visit[v].run,
         visit'[v].at \in Holding => visit[v].at \in Holding,
         visit'[v].at \in {"unsure", "lapsing"} => visit[v].at \in {"unsure", "lapsing"},
         visit'[v].at \notin {"idle", "dead"} => visit[v].at \notin {"idle", "dead"},
         \/ done' = done
         \/ /\ visit[v].at = "cleared" /\ visit'[v].at \in {"erred", "ran"}
            /\ done'[visit[v].run] = done[visit[v].run] + 1,
         visit'[v].at \in {"granted", "retiring", "cleared"} => visit[v].at = "granted" /\ done' = done,
         visit'[v].at = "ran" => visit[v].at = "cleared" /\ done' # done,
         \A w \in Runs : unlogged[w] => unlogged'[w],
         visit'[v].at = "erred" => visit[v].at \in {"granted", "cleared"},
         visit'[v].at = "erred" /\ done' # done => unlogged'[visit[v].run],
         visit'[v].at = "retiring" => lapsed[visit[v].run]
  PROVE  Custody'
<1>1. \A u \in Visits, x \in Runs : Holds(u, x)' => Holds(u, x)
  BY DEF Holds, Holding
<1>2. OneHolder'
  BY <1>1 DEF Custody, OneHolder
<1>3. CASE done' = done
  <2>1. HolderKnows'
    BY <1>1, <1>3 DEF Custody, HolderKnows, Holds, Holding
  <2>2. RowKnows'
    BY <1>3 DEF Custody, RowKnows
  <2>3. LateKnows'
    BY <1>3 DEF Custody, LateKnows
  <2> QED
    BY <1>2, <2>1, <2>2, <2>3 DEF Custody
<1>4. CASE done' # done
  <2>1. /\ visit[v].at = "cleared" /\ visit'[v].at \in {"erred", "ran"}
        /\ visit[v].run \in Runs
    BY <1>4 DEF Custody, LateKnows
  <2>2. Holds(v, visit[v].run)
    BY <2>1 DEF Holds, Holding
  <2>3. /\ done[visit[v].run] = 0 /\ done'[visit[v].run] = 1
        /\ decided[visit[v].run] = "approved"
        /\ status[visit[v].run] \in {"approved", "expired"}
    BY <1>4, <2>1, <2>2 DEF Custody, HolderKnows
  <2>4. \A u \in Visits \ {v} : ~Holds(u, visit[v].run)
    BY <2>1, <2>2 DEF Custody, OneHolder
  <2>5. HolderKnows'
    BY <1>1, <2>1, <2>3, <2>4 DEF Custody, HolderKnows, Holds
  <2>6. RowKnows'
    BY <2>1, <2>3 DEF Custody, RowKnows
  <2>7. LateKnows'
    BY <1>4 DEF Custody, LateKnows
  <2> QED
    BY <1>2, <2>5, <2>6, <2>7 DEF Custody
<1> QED
  BY <1>3, <1>4

\* A visit's own steps, one by one.
LEMMA VisitKeepsCustody ==
  ASSUME TypeOK, TypeOK', Custody, NEW v \in Visits, VisitStep(v) \/ CrashVisit(v)
  PROVE  Custody'
<1> USE DEF Goes, Leaves, Idle
<1>1. CASE ReadStale(v)
  BY <1>1, VisitMovesOn, SMTT(30) DEF ReadStale, TypeOK, request, effects, Holding
<1>2. CASE MarkExpired(v)
  <2>1. /\ visit[v].run \in Runs
        /\ status[visit[v].run] = "pending" => lapsed[visit[v].run]
    BY <1>2 DEF MarkExpired, Custody, LateKnows
  <2>2. \A w \in Runs : status'[w] = status[w] \/
            (status[w] \in {"pending", "approved"} /\ lapsed[w] /\ status'[w] = "expired")
    BY <1>2, <2>1 DEF MarkExpired, TypeOK
  <2>3. UNCHANGED <<decided, lapsed, run, done, unlogged>> /\ visit' = [visit EXCEPT ![v] = Idle]
    BY <1>2 DEF MarkExpired, effects
  <2>4. \A u \in Visits, w \in Runs : Holds(u, w)' => Holds(u, w) /\ visit'[u] = visit[u]
    BY <2>3 DEF TypeOK, Holds, Holding
  <2>5. HolderKnows' /\ OneHolder'
    BY <2>2, <2>3, <2>4 DEF Custody, HolderKnows, OneHolder
  <2>6. RowKnows'
    BY <2>2, <2>3 DEF Custody, RowKnows
  <2>7. \A u \in Visits : visit'[u].at \notin {"idle", "dead"} => visit'[u] = visit[u]
    BY <2>3 DEF TypeOK
  <2>8. LateKnows'
    BY <2>2, <2>3, <2>7 DEF Custody, LateKnows
  <2> QED
    BY <2>5, <2>6, <2>8 DEF Custody
<1>3. CASE CheckApproval(v)
  BY <1>3, VisitMovesOn, SMTT(20) DEF CheckApproval, TypeOK, request, effects, Holding
<1>4. CASE MarkExpiredAfterApproval(v)
  <2>1. /\ visit[v].run \in Runs /\ lapsed[visit[v].run]
        /\ Holds(v, visit[v].run) /\ done[visit[v].run] = 0
    BY <1>4 DEF MarkExpiredAfterApproval, Custody, LateKnows, HolderKnows, Holds, Holding
  <2>2. \A w \in Runs : status'[w] = status[w] \/
            (status[w] \in {"pending", "approved"} /\ lapsed[w] /\ status'[w] = "expired")
    BY <1>4, <2>1 DEF MarkExpiredAfterApproval, TypeOK
  <2>3. UNCHANGED <<decided, lapsed, run, done, unlogged>> /\ visit' = [visit EXCEPT ![v].at = "erred"]
    BY <1>4 DEF MarkExpiredAfterApproval, effects
  <2>4. \A u \in Visits : /\ visit'[u].run = visit[u].run
                          /\ visit'[u].at = IF u = v THEN "erred" ELSE visit[u].at
    BY <2>3 DEF TypeOK
  <2>5. \A u \in Visits, w \in Runs : Holds(u, w)' => Holds(u, w)
    BY <2>1, <2>4 DEF Holds, Holding
  <2>6. HolderKnows' /\ OneHolder'
    BY <2>1, <2>2, <2>3, <2>4, <2>5 DEF Custody, HolderKnows, OneHolder, Holds
  <2>7. RowKnows'
    BY <2>2, <2>3 DEF Custody, RowKnows
  <2>8. LateKnows'
    BY <1>4, <2>2, <2>3, <2>4 DEF Custody, LateKnows, MarkExpiredAfterApproval
  <2> QED
    BY <2>6, <2>7, <2>8 DEF Custody
<1>5. CASE RunTool(v)
  <2>1. visit[v].at = "cleared" /\ visit[v].run \in Runs
    BY <1>5 DEF RunTool, Custody, LateKnows
  <2>2. PICK at \in {"ran", "erred"} : visit' = [visit EXCEPT ![v].at = at]
    BY <1>5 DEF RunTool
  <2>3. /\ \/ at = "erred" /\ done' = done
           \/ done' = [done EXCEPT ![visit[v].run] = @ + 1]
        /\ at = "erred" /\ done' # done => unlogged'[visit[v].run]
        /\ \A w \in Runs : unlogged[w] => unlogged'[w]
    BY <1>5, <2>1, <2>2 DEF RunTool, TypeOK
  <2>4. /\ UNCHANGED <<status, decided, lapsed, run>>
        /\ \A u \in Visits \ {v} : visit'[u] = visit[u]
        /\ visit'[v].at = at /\ visit'[v].run = visit[v].run
    BY <1>5, <2>2 DEF RunTool, TypeOK, request
  <2>5. /\ \A w \in Runs : w # visit[v].run => done'[w] = done[w]
        /\ done' = done \/ done'[visit[v].run] = done[visit[v].run] + 1
        /\ at = "ran" => done'[visit[v].run] = done[visit[v].run] + 1
        /\ at = "erred" /\ done' # done => unlogged'[visit[v].run]
        /\ \A w \in Runs : unlogged[w] => unlogged'[w]
        /\ done[visit[v].run] \in Nat
        /\ done' \in [Runs -> Nat]
    BY <2>1, <2>3 DEF TypeOK
  <2> QED
    BY <2>1, <2>4, <2>5, VisitMovesOn DEF Holding
<1>6. CASE RecordOutcome(v)
  <2>1. /\ visit[v].run \in Runs /\ visit[v].at \in {"ran", "erred"}
        /\ Holds(v, visit[v].run)
        /\ \A u \in Visits \ {v} : ~Holds(u, visit[v].run)
    BY <1>6 DEF RecordOutcome, Custody, LateKnows, OneHolder, Holds, Holding
  <2>2. PICK st \in {"executed", "failed"} :
          /\ status' = [status EXCEPT ![visit[v].run] = st]
          /\ st = "executed" => visit[v].at = "ran"
          /\ st = "failed" => visit[v].at = "erred"
    BY <1>6 DEF RecordOutcome
  <2>3. PICK at \in {"working", "returning"} : visit' = [visit EXCEPT ![v].at = at]
    BY <1>6 DEF RecordOutcome
  <2>4. UNCHANGED <<decided, lapsed, run, done, unlogged>>
    BY <1>6 DEF RecordOutcome, effects
  <2>5. \A u \in Visits : /\ visit'[u].run = visit[u].run
                          /\ visit'[u].at = IF u = v THEN at ELSE visit[u].at
    BY <2>3 DEF TypeOK
  <2>6. \A w \in Runs : status'[w] = IF w = visit[v].run THEN st ELSE status[w]
    BY <2>2 DEF TypeOK
  <2>7. \A u \in Visits, w \in Runs : Holds(u, w)' =>
           Holds(u, w) /\ u # v /\ w # visit[v].run
    BY <2>1, <2>5 DEF Holds, Holding
  <2>8. HolderKnows' /\ OneHolder'
    BY <2>4, <2>5, <2>6, <2>7 DEF Custody, HolderKnows, OneHolder
  <2>9. /\ decided[visit[v].run] = "approved" /\ status[visit[v].run] \in {"approved", "expired"}
        /\ visit[v].at = "ran" => done[visit[v].run] = 1
        /\ visit[v].at = "erred" /\ done[visit[v].run] > 0 => unlogged[visit[v].run]
    BY <2>1 DEF Custody, HolderKnows
  <2>10. RowKnows'
    BY <2>1, <2>2, <2>4, <2>6, <2>9 DEF Custody, RowKnows
  <2>11. LateKnows'
    BY <2>1, <2>4, <2>5, <2>6 DEF Custody, LateKnows
  <2> QED
    BY <2>8, <2>10, <2>11 DEF Custody
<1>7. CASE MoveTicket(v) \/ CrashVisit(v)
  <2>1. PICK at \in {"idle", "dead"} : visit' = [visit EXCEPT ![v] = [at |-> at, run |-> NoRun]]
    BY <1>7 DEF MoveTicket, CrashVisit
  <2>2. visit[v].at \notin {"idle", "dead"} /\ UNCHANGED <<request, run, effects>>
    BY <1>7 DEF MoveTicket, CrashVisit, StatusAfter
  <2> QED
    BY <2>1, <2>2, VisitMovesOn DEF TypeOK, request, effects, Holding
<1> QED
  BY <1>1, <1>2, <1>3, <1>4, <1>5, <1>6, <1>7 DEF VisitStep

LEMMA CustodyStep == TypeOK /\ TypeOK' /\ Custody /\ [Next]_vars => Custody'
<1> SUFFICES ASSUME TypeOK, TypeOK', Custody, [Next]_vars PROVE Custody'
  OBVIOUS
<1>1. ASSUME NEW w \in Runs, RunStep(w) \/ CrashRun(w) PROVE Custody'
  BY <1>1, RunKeepsCustody
<1>2. ASSUME NEW v \in Visits, NEW w \in Runs, NEW d \in {"approved", "rejected"}, Decide(v, w, d)
      PROVE Custody'
  BY <1>2, DecideKeepsCustody
<1>3. ASSUME NEW v \in Visits, NEW w \in Runs, DecideNothing(v, w) PROVE Custody'
  <2>1. /\ UNCHANGED <<status, decided, lapsed, run, done, unlogged>>
        /\ visit[v].at = "idle" /\ status[w] # "none"
        /\ status[w] = "pending" => lapsed[w]
    BY <1>3 DEF DecideNothing, Decidable, request, effects
  <2>2. \A u \in Visits : visit'[u] = IF u = v THEN [at |-> "unsure", run |-> w] ELSE visit[u]
    BY <1>3 DEF DecideNothing, TypeOK
  <2>3. HolderKnows' /\ OneHolder' /\ RowKnows'
    BY <2>1, <2>2 DEF Custody, HolderKnows, OneHolder, RowKnows, Holds, Holding
  <2>4. LateKnows'
    BY <2>1, <2>2 DEF Custody, LateKnows
  <2> QED
    BY <2>3, <2>4 DEF Custody
<1>4. ASSUME NEW v \in Visits, VisitStep(v) \/ CrashVisit(v) PROVE Custody'
  BY <1>4, VisitKeepsCustody
<1>5. ASSUME NEW w \in Runs, Lapse(w) PROVE Custody'
  BY <1>5, ExpiryKeepsCustody DEF Lapse, TypeOK, effects
<1>6. ASSUME NEW k \in Sweepers, SweepStep(k) \/ CrashSweep(k) PROVE Custody'
  BY <1>6, ExpiryKeepsCustody DEF SweepStep, Expire, Overdue, Tell, CrashSweep, TypeOK, request, effects
<1>7. ASSUME NEW tool \in Tools, EditWhitelist(tool) PROVE Custody'
  BY <1>7, ExpiryKeepsCustody DEF EditWhitelist, TypeOK, request, effects
<1>8. CASE UNCHANGED vars
  BY <1>8, ExpiryKeepsCustody DEF vars, TypeOK, request, effects
<1> QED
  BY <1>1, <1>2, <1>3, <1>4, <1>5, <1>6, <1>7, <1>8 DEF Next

\* The invariant the properties rest on: whoever holds an approval holds it
\* alone, and every row tells its own past.
THEOREM CustodyHolds == Spec => []Custody
<1>1. Init => Custody
  BY CustodyInit
<1>2. TypeOK /\ TypeOK' /\ Custody /\ [Next]_vars => Custody'
  BY CustodyStep
<1> QED
  BY <1>1, <1>2, TypeCorrect, PTL DEF Spec

\* No tool runs under a request nobody approved.
THEOREM GrantedRuns == Spec => []RunsWereGranted
<1>1. TypeOK /\ Custody => RunsWereGranted
  BY DEF TypeOK, Custody, RowKnows, RunsWereGranted
<1> QED
  BY <1>1, TypeCorrect, CustodyHolds, PTL

\* And none runs twice under one approval, with any number of reviewers.
THEOREM RunsOnce == Spec => []OncePerApproval
<1>1. TypeOK /\ Custody => OncePerApproval
  <2> SUFFICES ASSUME Custody, NEW w \in Runs PROVE done[w] <= 1
    BY DEF OncePerApproval
  <2>1. done[w] = 0 \/ done[w] = 1
    BY DEF Custody, RowKnows
  <2> QED
    BY <2>1
<1> QED
  BY <1>1, TypeCorrect, CustodyHolds, PTL

\* An executed request ran, a rejected one did not, and a failed one ran only if
\* the row of its call could not be written.
THEOREM TrueRecord == Spec => []RecordIsTrue
<1>1. Custody => RecordIsTrue
  BY DEF Custody, RowKnows, RecordIsTrue
<1> QED
  BY <1>1, CustodyHolds, PTL

\* A request only expires after its deadline.
THEOREM ExpiryIsDue == Spec => OnlyLapsedExpire
<1> DEFINE Due == \A w \in Runs : status[w] # "expired" /\ status'[w] = "expired" => lapsed[w]
<1>1. TypeOK /\ Custody /\ [Next]_vars => Due
  <2> SUFFICES ASSUME TypeOK, Custody, [Next]_vars, NEW w \in Runs,
                      status[w] # "expired", status'[w] = "expired"
               PROVE  lapsed[w]
    OBVIOUS
  <2>1. ASSUME NEW x \in Runs, RunStep(x) \/ CrashRun(x) \/ Lapse(x) PROVE FALSE
    BY <2>1 DEF RunStep, DecideRun, ActUnattended, RequestApproval, Park, Reply, GiveUp, Moves,
                CrashRun, Lapse, request, TypeOK
  <2>2. ASSUME NEW v \in Visits, NEW x \in Runs, NEW d \in {"approved", "rejected"},
               Decide(v, x, d) \/ DecideNothing(v, x)
        PROVE  FALSE
    BY <2>2 DEF Decide, DecideNothing, request, TypeOK
  <2>3. ASSUME NEW v \in Visits, VisitStep(v) \/ CrashVisit(v) PROVE lapsed[w]
    <3>1. CASE MarkExpired(v)
      BY <3>1 DEF MarkExpired, Custody, LateKnows, TypeOK
    <3>2. CASE MarkExpiredAfterApproval(v)
      <4>1. visit[v].run \in Runs /\ Holds(v, visit[v].run)
        BY <3>2 DEF MarkExpiredAfterApproval, Custody, LateKnows, Holds, Holding
      <4> QED
        BY <3>2, <4>1 DEF MarkExpiredAfterApproval, Custody, HolderKnows, TypeOK
    <3>3. CASE RecordOutcome(v)
      BY <3>3 DEF RecordOutcome, TypeOK
    <3> QED
      BY <2>3, <3>1, <3>2, <3>3
      DEF VisitStep, ReadStale, CheckApproval, RunTool, MoveTicket, CrashVisit, request
  <2>4. ASSUME NEW k \in Sweepers, SweepStep(k) \/ CrashSweep(k) PROVE lapsed[w]
    BY <2>4 DEF SweepStep, Expire, Overdue, Tell, CrashSweep, request
  <2>5. ASSUME NEW tool \in Tools, EditWhitelist(tool) PROVE FALSE
    BY <2>5 DEF EditWhitelist, request
  <2> QED
    BY <2>1, <2>2, <2>3, <2>4, <2>5 DEF Next, vars, request
<1>2. TypeOK /\ Custody /\ [Next]_vars => [Due]_vars
  BY <1>1
<1> QED
  BY <1>2, TypeCorrect, CustodyHolds, PTL DEF Spec, OnlyLapsedExpire

\* A settled request stays as it is, but for the outcome of a visit that was
\* handed its approval before the deadline.
THEOREM Settled == Spec => SettledIsFinal
<1> DEFINE Final ==
      \A w \in Runs :
        /\ status[w] \in {"rejected", "executed", "failed"} => status'[w] = status[w]
        /\ status[w] = "expired" /\ status'[w] # "expired" =>
             \E v \in Visits : Holds(v, w) /\ ~Holds(v, w)'
<1>1. TypeOK /\ Custody /\ [Next]_vars => Final
  <2> SUFFICES ASSUME TypeOK, Custody, [Next]_vars, NEW w \in Runs,
                      status[w] \in {"rejected", "executed", "failed", "expired"},
                      status'[w] # status[w]
               PROVE  /\ status[w] = "expired"
                      /\ \E v \in Visits : Holds(v, w) /\ ~Holds(v, w)'
    OBVIOUS
  <2>1. ASSUME NEW x \in Runs, RunStep(x) \/ CrashRun(x) \/ Lapse(x) PROVE FALSE
    <3>1. CASE RequestApproval(x)
      <4>1. status[x] = "none" /\ status' = [status EXCEPT ![x] = "pending"]
        BY <3>1 DEF RequestApproval, Custody, RowKnows
      <4> QED
        BY <4>1 DEF TypeOK
    <3> QED
      BY <2>1, <3>1 DEF RunStep, DecideRun, ActUnattended, Park, Reply, GiveUp, Moves,
                        CrashRun, Lapse, request
  <2>2. ASSUME NEW v \in Visits, NEW x \in Runs, NEW d \in {"approved", "rejected"},
               Decide(v, x, d) \/ DecideNothing(v, x)
        PROVE  FALSE
    BY <2>2 DEF Decide, Decidable, DecideNothing, request, TypeOK
  <2>3. ASSUME NEW v \in Visits, VisitStep(v) \/ CrashVisit(v)
        PROVE  /\ status[w] = "expired"
               /\ \E u \in Visits : Holds(u, w) /\ ~Holds(u, w)'
    <3>1. CASE MarkExpired(v)
      BY <3>1 DEF MarkExpired, TypeOK
    <3>2. CASE MarkExpiredAfterApproval(v)
      BY <3>2 DEF MarkExpiredAfterApproval, TypeOK
    <3>3. CASE RecordOutcome(v)
      <4>1. visit[v].run = w
        BY <3>3 DEF RecordOutcome, TypeOK
      <4>2. Holds(v, w)
        BY <3>3, <4>1 DEF RecordOutcome, Holds, Holding
      <4>3. status[w] = "expired"
        BY <4>2 DEF Custody, HolderKnows
      <4>4. PICK at \in {"working", "returning"} : visit' = [visit EXCEPT ![v].at = at]
        BY <3>3 DEF RecordOutcome, Goes
      <4>5. visit'[v].at \in {"working", "returning"}
        BY <4>4 DEF TypeOK
      <4>6. ~Holds(v, w)'
        BY <4>5 DEF Holds, Holding
      <4> QED
        BY <4>2, <4>3, <4>6
    <3> QED
      BY <2>3, <3>1, <3>2, <3>3
      DEF VisitStep, ReadStale, CheckApproval, RunTool, MoveTicket, CrashVisit, request
  <2>4. ASSUME NEW k \in Sweepers, SweepStep(k) \/ CrashSweep(k) PROVE FALSE
    BY <2>4 DEF SweepStep, Expire, Overdue, Tell, CrashSweep, request
  <2>5. ASSUME NEW tool \in Tools, EditWhitelist(tool) PROVE FALSE
    BY <2>5 DEF EditWhitelist, request
  <2> QED
    BY <2>1, <2>2, <2>3, <2>4, <2>5 DEF Next, vars, request
<1>2. TypeOK /\ Custody /\ [Next]_vars => [Final]_vars
  BY <1>1
<1> QED
  BY <1>2, TypeCorrect, CustodyHolds, PTL DEF Spec, SettledIsFinal

\* The gate holds whatever the tenant's whitelist: no sensitive or destructive
\* tool ever runs without an approval.
THEOREM GateIsShut == Spec => []GateHolds
<1>1. Init => GateHolds
  BY DEF Init, GateHolds
<1>2. TypeOK /\ GateHolds /\ [Next]_vars => GateHolds'
  <2> SUFFICES ASSUME TypeOK, GateHolds, [Next]_vars PROVE GateHolds'
    OBVIOUS
  <2>1. \A w \in Runs : run'[w].tool = run[w].tool
    <3>1. ASSUME NEW x \in Runs, RunStep(x) \/ CrashRun(x) PROVE \A w \in Runs : run'[w].tool = run[w].tool
      <4>1. PICK at : run' = [run EXCEPT ![x].at = at]
        BY <3>1 DEF RunStep, DecideRun, ActUnattended, RequestApproval, Park, Reply, GiveUp, Moves, CrashRun
      <4> QED
        BY <4>1 DEF TypeOK
    <3> QED
      BY <3>1 DEF Next, vars, Lapse, Decide, DecideNothing, VisitStep, ReadStale, MarkExpired,
                  CheckApproval, MarkExpiredAfterApproval, RunTool, RecordOutcome, MoveTicket,
                  CrashVisit, SweepStep, Expire, Tell, CrashSweep, EditWhitelist
  <2>2. ASSUME NEW x \in Runs, ActUnattended(x)
        PROVE  /\ alone' \subseteq alone \cup {x}
               /\ Tier[run[x].tool] \notin {"sensitive", "destructive"}
    BY <2>2 DEF ActUnattended, NeedsApproval
  <2>3. alone' = alone \/ \E x \in Runs : ActUnattended(x)
    <3>1. ASSUME NEW x \in Runs, RunStep(x) \/ CrashRun(x), ~ActUnattended(x)
          PROVE  alone' = alone
      BY <3>1 DEF RunStep, DecideRun, RequestApproval, Park, Reply, GiveUp, Moves, CrashRun,
                  effects
    <3>2. ASSUME NEW v \in Visits, VisitStep(v) \/ CrashVisit(v) PROVE alone' = alone
      BY <3>2 DEF VisitStep, ReadStale, MarkExpired, CheckApproval, MarkExpiredAfterApproval,
                  RunTool, RecordOutcome, MoveTicket, CrashVisit, effects
    <3>3. ASSUME NEW v \in Visits, NEW w \in Runs,
                 DecideNothing(v, w) \/ \E d \in {"approved", "rejected"} : Decide(v, w, d)
          PROVE  alone' = alone
      BY <3>3 DEF Decide, DecideNothing, effects
    <3>4. ASSUME NEW k \in Sweepers, SweepStep(k) \/ CrashSweep(k) PROVE alone' = alone
      BY <3>4 DEF SweepStep, Expire, Tell, CrashSweep, effects
    <3> QED
      BY <3>1, <3>2, <3>3, <3>4 DEF Next, vars, effects, Lapse, EditWhitelist
  <2>4. alone \subseteq Runs
    BY DEF TypeOK
  <2>5. \A w \in alone' : w \in Runs /\ Tier[run[w].tool] \notin {"sensitive", "destructive"}
    BY <2>2, <2>3, <2>4 DEF GateHolds
  <2> QED
    BY <2>1, <2>5 DEF GateHolds
<1> QED
  BY <1>1, <1>2, TypeCorrect, PTL DEF Spec
=============================================================================
