------------------------- MODULE ConversationProofs -------------------------
(* Theorems about Conversation, for any number of tickets, messages and     *)
(* transactions.                                                            *)
EXTENDS Conversation, FiniteSetTheorems, TLAPS

\* What a numbering is: the numbers after n, each once, in the order of the records.
LEMMA CopiesNumber ==
  ASSUME NEW t \in Tickets, NEW new \in SUBSET History[t], NEW n \in Nat,
         NEW pos \in Copies(n, new)
  PROVE  /\ Cardinality(new) \in Nat
         /\ new = {} => Cardinality(new) = 0
         /\ new # {} => Cardinality(new) > 0
         /\ DOMAIN pos = new
         /\ \A k \in new : pos[k] \in n + 1 .. n + Cardinality(new)
         /\ \A i \in n + 1 .. n + Cardinality(new) : \E k \in new : pos[k] = i
         /\ \A j, k \in new : pos[j] = pos[k] => j = k
         /\ \A j, k \in new : pos[j] < pos[k] => Said[j] < Said[k]
<1>1. IsFiniteSet(new)
  BY FS_Subset, ConstantsAssumption
<1>2. /\ Cardinality(new) \in Nat
      /\ new = {} <=> Cardinality(new) = 0
  BY <1>1, FS_CardinalityType, FS_EmptySet
<1>3. /\ pos \in [new -> n + 1 .. n + Cardinality(new)]
      /\ \A i \in n + 1 .. n + Cardinality(new) : \E k \in new : pos[k] = i
      /\ \A j, k \in new : Said[j] < Said[k] => pos[j] < pos[k]
  BY DEF Copies, Numbering
<1>4. \A j, k \in new : j \in HistoryKeys /\ k \in HistoryKeys /\ Said[j] \in Nat /\ Said[k] \in Nat
  BY ConstantsAssumption DEF HistoryKeys
<1>5. \A j, k \in new : j # k => Said[j] < Said[k] \/ Said[k] < Said[j]
  <2> SUFFICES ASSUME NEW j \in new, NEW k \in new, j # k
               PROVE  Said[j] < Said[k] \/ Said[k] < Said[j]
    OBVIOUS
  <2>1. Said[j] # Said[k]
    BY <1>4, ConstantsAssumption
  <2> QED BY <2>1, <1>4
<1>6. \A k \in new : pos[k] \in Nat
  BY <1>2, <1>3
<1>7. \A j, k \in new : pos[j] = pos[k] => j = k
  BY <1>3, <1>5, <1>6
<1>8. \A j, k \in new : pos[j] < pos[k] => Said[j] < Said[k]
  BY <1>3, <1>5, <1>6
<1> QED BY <1>2, <1>3, <1>7, <1>8

LEMMA MissingIsHistory ==
  ASSUME NEW t \in Tickets
  PROVE  /\ \A w \in SUBSET History[t] : Missing(t, w) \in SUBSET History[t]
         /\ \A seq, k : FirstCopies(t, seq, k) \in SUBSET History[t]
         /\ History[t] \subseteq Keys /\ History[t] \subseteq HistoryKeys
BY ConstantsAssumption DEF Missing, FirstCopies, HistoryKeys

-----------------------------------------------------------------------------
(* Typing.                                                                 *)

LEMMA CommitType ==
  ASSUME TypeOK, NEW p \in Procs, Commit(p)
  PROVE  /\ holder' \in [Tickets -> Procs \cup {Nobody}]
         /\ call' \in [Procs -> Calls]
         /\ \A q \in Procs : call'[q].at # "idle" => call'[q].ticket \in Tickets
         /\ \A q \in Procs : call'[q].at \in {"locking", "writing"} => call'[q].key \in Keys
BY DEF TypeOK, Commit, Released, Idle, Calls

\* A transaction that moves on.
LEMMA MovesType ==
  ASSUME TypeOK, NEW p \in Procs, NEW c \in Calls, c.ticket \in Tickets,
         c.at \in {"locking", "writing"} => c.key \in Keys,
         call' = [call EXCEPT ![p] = c]
  PROVE  /\ call' \in [Procs -> Calls]
         /\ \A q \in Procs : call'[q].at # "idle" => call'[q].ticket \in Tickets
         /\ \A q \in Procs : call'[q].at \in {"locking", "writing"} => call'[q].key \in Keys
BY DEF TypeOK

LEMMA RollbackType ==
  ASSUME TypeOK, NEW p \in Procs, call[p].at # "idle", Rollback(p)
  PROVE  TypeOK'
<1>1. conv' \in [Tickets -> {"none", "open", "locked"}]
  BY DEF TypeOK, Rollback, Calls
<1> QED BY <1>1, CommitType DEF TypeOK, Rollback

LEMMA EnsureType ==
  ASSUME TypeOK, NEW p \in Procs, NEW t \in Tickets, NEW s \in {"none", "open", "locked"},
         NEW label \in Calls, label.ticket \in Tickets,
         label.at \in {"locking", "writing"} => label.key \in Keys,
         EnsureRow(p, t, s, label), UNCHANGED <<last, message, merged, problem, acked>>
  PROVE  TypeOK'
<1>1. CASE conv[t] = "none" /\ s # "none"
  <2>1. /\ [label EXCEPT !.was = "none"] \in Calls
        /\ [label EXCEPT !.was = "none"].ticket = label.ticket
        /\ [label EXCEPT !.was = "none"].at = label.at
        /\ [label EXCEPT !.was = "none"].key = label.key
    BY DEF Calls
  <2>2. /\ call' = [call EXCEPT ![p] = [label EXCEPT !.was = "none"]]
        /\ holder' = [holder EXCEPT ![t] = p]
        /\ conv' = [conv EXCEPT ![t] = s]
    BY <1>1 DEF EnsureRow
  <2> QED BY <2>1, <2>2, MovesType DEF TypeOK
<1>2. CASE ~(conv[t] = "none" /\ s # "none")
  BY <1>2, MovesType DEF EnsureRow, TypeOK
<1> QED BY <1>1, <1>2

LEMMA LockPrimaryType == ASSUME TypeOK, NEW p \in Writers, LockPrimary(p) PROVE TypeOK'
<1>0. p \in Procs /\ call[p].ticket \in Tickets /\ call[p].key \in Keys /\ call[p].at # "idle"
  BY DEF Procs, TypeOK, LockPrimary
<1>1. CASE Commit(p) /\ acked' = acked \cup {<<call[p].key, call[p].ticket>>}
           /\ UNCHANGED <<conv, last, message, merged, problem>>
  BY <1>0, <1>1, CommitType DEF TypeOK
<1>2. CASE Rollback(p)
  BY <1>0, <1>2, RollbackType
<1>3. CASE /\ holder' = [holder EXCEPT ![call[p].ticket] = p]
           /\ call' = [call EXCEPT ![p].at = "writing", ![p].seq = last[call[p].ticket]]
           /\ UNCHANGED <<conv, last, message, merged, problem, acked>>
  <2>1. /\ call[p] \in Calls
        /\ last[call[p].ticket] \in Nat
    BY <1>0 DEF TypeOK
  <2>2. /\ [call[p] EXCEPT !.at = "writing", !.seq = last[call[p].ticket]] \in Calls
        /\ [call[p] EXCEPT !.at = "writing", !.seq = last[call[p].ticket]].ticket = call[p].ticket
        /\ [call[p] EXCEPT !.at = "writing", !.seq = last[call[p].ticket]].key = call[p].key
    BY <2>1 DEF Calls
  <2>3. call' = [call EXCEPT ![p] =
                   [call[p] EXCEPT !.at = "writing", !.seq = last[call[p].ticket]]]
    BY <1>0, <1>3 DEF TypeOK
  <2> QED BY <1>0, <1>3, <2>2, <2>3, MovesType DEF TypeOK
<1> QED BY <1>1, <1>2, <1>3 DEF LockPrimary

\* What a write or a copy makes of the messages.
LEMMA CopiedType ==
  ASSUME TypeOK, NEW t \in Tickets, NEW new \in SUBSET History[t], NEW n \in Nat,
         NEW pos \in Copies(n, new)
  PROVE  Copied(t, pos, message) \in
           [Keys -> [ticket : Tickets \cup {Nowhere}, seq : Nat, copy : BOOLEAN]]
<1>1. DOMAIN pos = new /\ \A k \in new : pos[k] \in Nat
  BY CopiesNumber
<1> QED BY <1>1 DEF Copied, TypeOK

LEMMA WriteType == ASSUME TypeOK, NEW p \in Writers, Write(p) PROVE TypeOK'
<1> DEFINE t == call[p].ticket
           k == call[p].key
           new == FirstCopies(t, call[p].seq, k)
           end == (IF new = {} THEN last[t] ELSE call[p].seq + Cardinality(new)) + 1
<1>0. p \in Procs /\ t \in Tickets /\ k \in Keys /\ call[p].at # "idle" /\ call[p].seq \in Nat
  BY DEF Procs, TypeOK, Write, Calls
<1>1. CASE Rollback(p)
  BY <1>0, <1>1, RollbackType
<1>2. ASSUME NEW pos \in Copies(call[p].seq, new),
             message' = [Copied(t, pos, message) EXCEPT
                           ![k] = [ticket |-> t, seq |-> end, copy |-> FALSE]],
             last' = [last EXCEPT ![t] = end],
             acked' = acked \cup {<<k, t>>}, Commit(p), UNCHANGED <<conv, merged, problem>>
      PROVE  TypeOK'
  <2>1. new \in SUBSET History[t]
    BY <1>0, MissingIsHistory
  <2>2. Cardinality(new) \in Nat
    BY <1>0, <1>2, <2>1, CopiesNumber
  <2>3. end \in Nat
    BY <1>0, <2>2 DEF TypeOK
  <2>4. Copied(t, pos, message) \in
           [Keys -> [ticket : Tickets \cup {Nowhere}, seq : Nat, copy : BOOLEAN]]
    BY <1>0, <1>2, <2>1, CopiedType
  <2>5. message' \in [Keys -> [ticket : Tickets \cup {Nowhere}, seq : Nat, copy : BOOLEAN]]
    <3> HIDE DEF end, t, new, k
    <3> QED BY <1>0, <1>2, <2>3, <2>4
  <2> HIDE DEF end, t, new, k
  <2> QED BY <1>0, <1>2, <2>3, <2>5, CommitType DEF TypeOK
<1> QED BY <1>1, <1>2 DEF Write

LEMMA BackfillCopiesType ==
  ASSUME TypeOK, NEW p \in Backfills, BackfillCopies(p) PROVE TypeOK'
<1> DEFINE t == call[p].ticket
           new == Missing(t, History[t])
<1>0. p \in Procs /\ t \in Tickets /\ call[p].at # "idle"
  BY DEF Procs, TypeOK, BackfillCopies
<1>1. CASE Rollback(p)
  BY <1>0, <1>1, RollbackType
<1>2. ASSUME NEW pos \in Copies(last[t], new), message' = Copied(t, pos, message),
             last' = [last EXCEPT ![t] = @ + Cardinality(new)], Commit(p),
             UNCHANGED <<conv, merged, problem, acked>>
      PROVE  TypeOK'
  <2>1. new \in SUBSET History[t] /\ last[t] \in Nat
    BY <1>0, MissingIsHistory DEF TypeOK
  <2>2. Cardinality(new) \in Nat
    BY <1>0, <1>2, <2>1, CopiesNumber
  <2>3. message' \in [Keys -> [ticket : Tickets \cup {Nowhere}, seq : Nat, copy : BOOLEAN]]
    BY <1>0, <1>2, <2>1, CopiedType
  <2> HIDE DEF t, new
  <2> QED BY <1>0, <1>2, <2>1, <2>2, <2>3, CommitType DEF TypeOK
<1> QED BY <1>1, <1>2 DEF BackfillCopies

LEMMA TypeStep == TypeOK /\ [Next]_vars => TypeOK'
<1> SUFFICES ASSUME TypeOK, [Next]_vars PROVE TypeOK'
  OBVIOUS
<1>1. ASSUME NEW p \in Writers, NEW t \in Tickets, NEW k \in Keys, OpenPrimary(p, t, k)
      PROVE  TypeOK'
  <2>1. [Idle EXCEPT !.at = "locking", !.ticket = t, !.key = k] \in Calls
    BY DEF Idle, Calls
  <2> QED BY <1>1, <2>1, EnsureType DEF OpenPrimary, Procs, Idle
<1>2. ASSUME NEW p \in Writers, WriterStep(p) PROVE TypeOK'
  BY <1>2, LockPrimaryType, WriteType DEF WriterStep
<1>3. ASSUME NEW p \in Backfills, BackfillOpens(p) PROVE TypeOK'
  <2>1. p \in Procs /\ call[p] \in Calls /\ call[p].ticket \in Tickets
    BY <1>3 DEF Procs, TypeOK, BackfillOpens
  <2>2. /\ [call[p] EXCEPT !.at = "copying"] \in Calls
        /\ [call[p] EXCEPT !.at = "copying"].at = "copying"
        /\ [call[p] EXCEPT !.at = "copying"].ticket = call[p].ticket
    BY <2>1 DEF Calls
  <2> QED BY <1>3, <2>1, <2>2, EnsureType DEF BackfillOpens
<1>4. ASSUME NEW p \in Backfills, NEW t \in Tickets, BackfillReads(p, t) PROVE TypeOK'
  <2> DEFINE m == t \in merged
  <2>1. m \in BOOLEAN
    OBVIOUS
  <2> HIDE DEF m
  <2>2. /\ [Idle EXCEPT !.at = "opening", !.ticket = t, !.merged = m] \in Calls
        /\ [Idle EXCEPT !.at = "opening", !.ticket = t, !.merged = m].ticket = t
        /\ [Idle EXCEPT !.at = "opening", !.ticket = t, !.merged = m].at = "opening"
    BY <2>1 DEF Idle, Calls
  <2>3. call' = [call EXCEPT ![p] = [Idle EXCEPT !.at = "opening", !.ticket = t, !.merged = m]]
    BY <1>4 DEF BackfillReads, m
  <2> QED BY <1>4, <2>2, <2>3, MovesType DEF BackfillReads, rows, Procs, TypeOK
<1>5. ASSUME NEW p \in Mergers, MergeStep(p) PROVE TypeOK'
  <2>1. CASE LockConversation(p)
    <3>1. p \in Procs /\ call[p] \in Calls /\ call[p].ticket \in Tickets
      BY <2>1 DEF LockConversation, Procs, TypeOK
    <3>2. conv[call[p].ticket] \in {"same", "none", "open", "locked"}
      BY <3>1 DEF TypeOK
    <3>3. [call[p] EXCEPT !.at = "marking", !.was = conv[call[p].ticket]] \in Calls
      BY <3>1, <3>2 DEF Calls
    <3>4. call' = [call EXCEPT ![p] =
                     [call[p] EXCEPT !.at = "marking", !.was = conv[call[p].ticket]]]
      BY <2>1, <3>1 DEF LockConversation, TypeOK
    <3>5. /\ call[p].key \in Keys \cup {Nowhere}
          /\ [call[p] EXCEPT !.at = "marking", !.was = conv[call[p].ticket]].at = "marking"
          /\ [call[p] EXCEPT !.at = "marking", !.was = conv[call[p].ticket]].ticket = call[p].ticket
      BY <3>1 DEF Calls
    <3> QED BY <2>1, <3>1, <3>3, <3>4, <3>5, MovesType DEF LockConversation, TypeOK
  <2>2. CASE MergeMarks(p)
    <3>1. p \in Procs /\ call[p].ticket \in Tickets
      BY <2>2 DEF MergeMarks, Procs, TypeOK
    <3> QED BY <2>2, <3>1, CommitType DEF MergeMarks, TypeOK
  <2> QED BY <1>5, <2>1, <2>2 DEF MergeStep
<1>6. ASSUME NEW p \in Mergers, NEW s \in Tickets, MergeReads(p, s) PROVE TypeOK'
  BY <1>6 DEF MergeReads, rows, Procs, Idle, TypeOK, Calls
<1>7. ASSUME NEW p \in Procs, Abort(p) PROVE TypeOK'
  BY <1>7, RollbackType DEF Abort
<1>8. ASSUME NEW t \in Tickets, Repair(t) PROVE TypeOK'
  BY <1>8 DEF Repair, rows, TypeOK
<1>9. CASE UNCHANGED vars
  BY <1>9 DEF vars, TypeOK
<1> QED
  BY <1>1, <1>2, <1>3, <1>4, <1>5, <1>6, <1>7, <1>8, <1>9, BackfillCopiesType
  DEF Next, BackfillStep

LEMMA TypeInit == Init => TypeOK
BY ConstantsAssumption DEF Init, TypeOK, Unwritten, Idle, Calls

\* The conversation is always well typed.
THEOREM TypeCorrect == Spec => []TypeOK
BY TypeInit, TypeStep, PTL DEF Spec

-----------------------------------------------------------------------------
(* Who keeps which row.                                                    *)

\* A transaction that ends, and lets go of its row.
LEMMA Ends ==
  ASSUME TypeOK, RowsAreKept, NEW p \in Procs, call[p].at # "idle", Commit(p),
         NEW t \in Tickets, t = call[p].ticket,
         \A u \in Tickets \ {t} : UNCHANGED <<conv[u], last[u]>> /\ (u \in merged' <=> u \in merged),
         \/ UNCHANGED <<conv[t], last[t]>> /\ (t \in merged' <=> t \in merged)
         \/ /\ holder[t] \in {Nobody, p}
            /\ t \in merged' => \/ conv'[t] = "locked"
                                \/ t \in merged /\ conv'[t] = conv[t]
                                \/ t \in merged /\ call[p].was = "none" /\ conv'[t] # "open",
         merged' \subseteq Tickets
  PROVE  RowsAreKept'
<1>0. /\ Nobody \notin Procs
      /\ \A u \in Tickets : holder'[u] = IF holder[u] = p THEN Nobody ELSE holder[u]
      /\ \A q \in Procs : call'[q] = IF q = p THEN Idle ELSE call[q]
      /\ \A u \in Tickets \ {t} : holder[u] # p
  BY ConstantsAssumption DEF TypeOK, Commit, Released, RowsAreKept, KeepsItsOwn
<1>1. \A u \in Tickets : Inserting(u)' => Inserting(u) /\ holder[u] # p
  BY <1>0 DEF Inserting, Idle
<1>2. ASSUME NEW u \in Tickets, NEW q \in Procs PROVE KeepsItsOwn(u, q)'
  BY <1>0 DEF RowsAreKept, KeepsItsOwn
<1>3. ASSUME NEW q \in Procs PROVE KnowsItsRow(q)'
  <2>1. CASE q = p
    BY <1>0, <2>1 DEF KnowsItsRow, Idle
  <2>2. CASE q # p /\ call[q].at = "idle"
    BY <1>0, <2>2 DEF KnowsItsRow, RowsAreKept
  <2>3. CASE q # p /\ call[q].at # "idle"
    <3>1. call[q].ticket \in Tickets /\ KnowsItsRow(q)
      BY <2>3 DEF TypeOK, RowsAreKept
    <3>2. call'[q] = call[q]
      BY <1>0, <2>3
    <3>3. CASE call[q].ticket = t
      BY <1>0, <1>1, <2>3, <3>1, <3>2, <3>3 DEF KnowsItsRow, Inserting, RowsAreKept
    <3>4. CASE call[q].ticket # t
      BY <1>0, <1>1, <2>3, <3>1, <3>2, <3>4 DEF KnowsItsRow
    <3> QED BY <3>3, <3>4
  <2> QED BY <2>1, <2>2, <2>3
<1>4. \A u \in merged' : conv'[u] # "open"
  BY <1>0 DEF RowsAreKept, TypeOK
<1> QED BY <1>2, <1>3, <1>4 DEF RowsAreKept

LEMMA RollbackRows ==
  ASSUME TypeOK, RowsAreKept, NEW p \in Procs, call[p].at # "idle", Rollback(p)
  PROVE  RowsAreKept'
<1> DEFINE t == call[p].ticket
<1>1. /\ t \in Tickets /\ merged' \subseteq Tickets
      /\ \A u \in Tickets \ {t} : UNCHANGED <<conv[u], last[u]>>
  BY DEF TypeOK, Rollback
<1>2. CASE call[p].was = "same"
  BY <1>1, <1>2, Ends DEF Rollback
<1>3. CASE call[p].was # "same"
  <2>1. holder[t] = p /\ conv'[t] = call[p].was /\ call[p].was \in {"none", "open", "locked"}
    BY <1>1, <1>3 DEF RowsAreKept, KnowsItsRow, Rollback, TypeOK, Calls
  <2>2. call[p].was = "open" => t \notin merged
    BY DEF RowsAreKept, KnowsItsRow
  <2> HIDE DEF t
  <2>3. t \in merged' => \/ conv'[t] = "locked"
                         \/ t \in merged /\ call[p].was = "none" /\ conv'[t] # "open"
    BY <2>1, <2>2 DEF Rollback
  <2> QED BY <1>1, <2>1, <2>3, Ends DEF Rollback, t
<1> QED BY <1>2, <1>3

\* An insert that finds no row makes one and keeps it; the transaction that tried
\* had changed nothing before.
LEMMA EnsureRows ==
  ASSUME TypeOK, RowsAreKept, NEW p \in Procs, NEW t \in Tickets, NEW label,
         NEW s \in {"none", "open", "locked"},
         call[p].at \in {"idle", "opening"}, label.was = "same",
         label.at \in {"locking", "copying"}, label.ticket = t,
         [label EXCEPT !.was = "none"].at = label.at,
         [label EXCEPT !.was = "none"].ticket = t,
         [label EXCEPT !.was = "none"].was = "none",
         ~Inserting(t), EnsureRow(p, t, s, label),
         t \in merged /\ s = "open" => conv[t] # "none",
         UNCHANGED <<last, merged>>
  PROVE  RowsAreKept'
<1> DEFINE label1 == [label EXCEPT !.was = "none"]
<1>a. \/ /\ call' = [call EXCEPT ![p] = label1]
         /\ conv' = [conv EXCEPT ![t] = s] /\ holder' = [holder EXCEPT ![t] = p]
      \/ call' = [call EXCEPT ![p] = label] /\ UNCHANGED <<conv, holder>>
  BY DEF EnsureRow
<1>b. label1.at = label.at /\ label1.ticket = t /\ label1.was = "none"
  OBVIOUS
<1> HIDE DEF label1
<1>c. /\ \A q \in Procs \ {p} : call'[q] = call[q]
      /\ call'[p] \in {label, label1}
      /\ \A u \in Tickets \ {t} : UNCHANGED <<conv[u], holder[u]>>
  BY <1>a DEF TypeOK
<1>0. /\ Nobody \notin Procs
      /\ \A q \in Procs \ {p} : call'[q] = call[q]
      /\ \A u \in Tickets : holder[u] # p
      /\ call'[p].at = label.at /\ call'[p].ticket = t /\ call'[p].was \in {"same", "none"}
      /\ \A u \in Tickets \ {t} : UNCHANGED <<conv[u], holder[u]>>
  BY <1>b, <1>c, ConstantsAssumption DEF RowsAreKept, KeepsItsOwn
<1>1. \/ conv[t] = "none" /\ conv'[t] = s /\ s # "none" /\ holder'[t] = p /\ call'[p].was = "none"
      \/ UNCHANGED <<conv[t], holder[t]>> /\ call'[p].was = "same"
  BY DEF TypeOK, EnsureRow
<1>2. conv[t] = "none" => holder[t] \notin Procs
  BY DEF RowsAreKept, KeepsItsOwn
<1>3. \A u \in Tickets : Inserting(u)' =>
        Inserting(u) \/ (u = t /\ conv[t] = "none" /\ s # "none")
  BY <1>0, <1>1 DEF Inserting
<1>4. ASSUME NEW u \in Tickets, NEW q \in Procs PROVE KeepsItsOwn(u, q)'
  BY <1>0, <1>1, <1>2 DEF RowsAreKept, KeepsItsOwn
<1>5. ASSUME NEW q \in Procs PROVE KnowsItsRow(q)'
  <2>1. CASE q = p
    BY <1>0, <1>1, <2>1 DEF KnowsItsRow
  <2>2. CASE q # p /\ call[q].at = "idle"
    BY <1>0, <2>2 DEF KnowsItsRow, RowsAreKept
  <2>3. CASE q # p /\ call[q].at # "idle"
    <3>1. call[q].ticket \in Tickets /\ KnowsItsRow(q) /\ call'[q] = call[q]
      BY <1>0, <2>3 DEF TypeOK, RowsAreKept
    <3> QED BY <1>0, <1>1, <1>2, <1>3, <2>3, <3>1 DEF KnowsItsRow
  <2> QED BY <2>1, <2>2, <2>3
<1>6. \A u \in merged' : conv'[u] # "open"
  BY <1>0, <1>1 DEF RowsAreKept, TypeOK
<1> QED BY <1>4, <1>5, <1>6 DEF RowsAreKept

\* A statement that locks the row takes it from nobody.
LEMMA Locks ==
  ASSUME TypeOK, RowsAreKept, NEW p \in Procs, NEW t \in Tickets, NEW s \in {"open", "locked"},
         call[p].at \in {"locking", "merging"}, call[p].ticket = t, Available(p, t),
         conv' = [conv EXCEPT ![t] = s], holder' = [holder EXCEPT ![t] = p],
         \A q \in Procs \ {p} : call'[q] = call[q],
         call'[p].ticket = t,
         \/ /\ call'[p].at = "writing" /\ s = "open" /\ conv[t] = "open"
            /\ call'[p].was = call[p].was /\ call'[p].seq = last[t]
         \/ /\ call[p].at = "merging" /\ call'[p].at = "marking" /\ s = "locked"
            /\ call'[p].was = conv[t],
         UNCHANGED <<last, merged>>
  PROVE  RowsAreKept'
<1>0. /\ Nobody \notin Procs
      /\ holder[t] \in {Nobody, p}
      /\ \A u \in Tickets \ {t} : UNCHANGED <<conv[u], holder[u]>>
      /\ conv'[t] = s /\ holder'[t] = p
  BY ConstantsAssumption DEF Available, TypeOK
<1>a. call[p].was = "none" => holder[t] = p
  BY DEF RowsAreKept, KnowsItsRow
<1>b. call'[p].was = "none" => Inserting(t) \/ conv[t] = "none"
  BY <1>a DEF Inserting
<1>1. \A u \in Tickets : Inserting(u)' => Inserting(u) \/ (u = t /\ conv[t] = "none")
  <2> SUFFICES ASSUME NEW u \in Tickets, NEW q \in Procs, holder'[u] = q, call'[q].was = "none"
               PROVE  Inserting(u) \/ (u = t /\ conv[t] = "none")
    BY DEF Inserting
  <2>1. CASE q = p
    <3>1. u = t \/ (holder[u] = p /\ u # t)
      BY <1>0, <2>1
    <3>2. \A w \in Tickets : holder[w] = p => w = t
      BY DEF RowsAreKept, KeepsItsOwn
    <3> QED BY <1>b, <2>1, <3>1, <3>2
  <2>2. CASE q # p
    BY <1>0, <2>2 DEF Inserting
  <2> QED BY <2>1, <2>2
<1>2. ASSUME NEW u \in Tickets, NEW q \in Procs PROVE KeepsItsOwn(u, q)'
  BY <1>0 DEF RowsAreKept, KeepsItsOwn
<1>3. ASSUME NEW q \in Procs PROVE KnowsItsRow(q)'
  <2>1. CASE q = p
    BY <1>0, <2>1 DEF KnowsItsRow, RowsAreKept
  <2>2. CASE q # p /\ call[q].at = "idle"
    BY <1>0, <2>2 DEF KnowsItsRow, RowsAreKept
  <2>3. CASE q # p /\ call[q].at # "idle"
    <3>1. call[q].ticket \in Tickets /\ KnowsItsRow(q) /\ call'[q] = call[q]
      BY <1>0, <2>3 DEF TypeOK, RowsAreKept
    <3> QED BY <1>0, <1>1, <2>3, <3>1 DEF KnowsItsRow
  <2> QED BY <2>1, <2>2, <2>3
<1>4. \A u \in merged' : conv'[u] # "open"
  BY <1>0 DEF RowsAreKept, TypeOK
<1> QED BY <1>2, <1>3, <1>4 DEF RowsAreKept

\* A transaction that has read, and changed nothing yet.
LEMMA Begins ==
  ASSUME TypeOK, RowsAreKept, NEW p \in Procs, call[p].at = "idle",
         \A q \in Procs \ {p} : call'[q] = call[q],
         call'[p].at \in {"opening", "merging"}, call'[p].was = "same",
         call'[p].at = "opening" => (call'[p].merged <=> call'[p].ticket \in merged),
         UNCHANGED <<conv, last, holder, merged>>
  PROVE  RowsAreKept'
<1>1. \A u \in Tickets : holder[u] # p
  BY DEF RowsAreKept, KeepsItsOwn
<1>2. ASSUME NEW u \in Tickets, NEW q \in Procs PROVE KeepsItsOwn(u, q)'
  BY <1>1 DEF RowsAreKept, KeepsItsOwn
<1>3. ASSUME NEW q \in Procs PROVE KnowsItsRow(q)'
  BY <1>1 DEF RowsAreKept, KnowsItsRow, Inserting
<1> QED BY <1>2, <1>3 DEF RowsAreKept

LEMMA WriteRows ==
  ASSUME TypeOK, RowsAreKept, NEW p \in Writers, Write(p) PROVE RowsAreKept'
<1> DEFINE t == call[p].ticket
<1>0. p \in Procs /\ t \in Tickets /\ call[p].at = "writing"
  BY DEF Procs, TypeOK, Write
<1>1. holder[t] = p /\ conv[t] = "open" /\ t \notin merged
  BY <1>0 DEF RowsAreKept, KnowsItsRow
<1>2. CASE Rollback(p)
  BY <1>0, <1>2, RollbackRows
<1>3. CASE /\ \E end : last' = [last EXCEPT ![t] = end]
           /\ Commit(p)
           /\ UNCHANGED <<conv, merged, problem>>
  <2>1. \A u \in Tickets \ {t} : UNCHANGED <<conv[u], last[u]>>
    BY <1>3 DEF TypeOK
  <2> HIDE DEF t
  <2> QED BY <1>0, <1>1, <1>3, <2>1, Ends DEF TypeOK, t
<1> QED BY <1>2, <1>3 DEF Write

LEMMA BackfillCopiesRows ==
  ASSUME TypeOK, RowsAreKept, NEW p \in Backfills, BackfillCopies(p) PROVE RowsAreKept'
<1> DEFINE t == call[p].ticket
<1>0. p \in Procs /\ t \in Tickets /\ call[p].at = "copying" /\ holder[t] \in {Nobody, p}
  BY DEF Procs, TypeOK, BackfillCopies, Available
<1>1. CASE Rollback(p)
  BY <1>0, <1>1, RollbackRows
<1>2. CASE /\ \E n : last' = [last EXCEPT ![t] = @ + n]
           /\ Commit(p)
           /\ UNCHANGED <<conv, merged, problem, acked>>
  <2>1. \A u \in Tickets \ {t} : UNCHANGED <<conv[u], last[u]>>
    BY <1>2 DEF TypeOK
  <2> HIDE DEF t
  <2> QED BY <1>0, <1>2, <2>1, Ends DEF TypeOK, t
<1> QED BY <1>1, <1>2 DEF BackfillCopies

LEMMA LockPrimaryRows ==
  ASSUME TypeOK, RowsAreKept, NEW p \in Writers, LockPrimary(p) PROVE RowsAreKept'
<1> DEFINE t == call[p].ticket
<1>0. p \in Procs /\ t \in Tickets /\ call[p].at = "locking" /\ Available(p, t)
  BY DEF Procs, TypeOK, LockPrimary
<1>1. CASE Commit(p) /\ UNCHANGED <<conv, last, merged>>
  <2> HIDE DEF t
  <2> QED BY <1>0, <1>1, Ends DEF TypeOK, t
<1>2. CASE Rollback(p)
  BY <1>0, <1>2, RollbackRows
<1>3. CASE /\ conv[t] = "open"
           /\ holder' = [holder EXCEPT ![t] = p]
           /\ call' = [call EXCEPT ![p].at = "writing", ![p].seq = last[t]]
           /\ UNCHANGED <<conv, last, merged>>
  <2>1. /\ conv' = [conv EXCEPT ![t] = "open"]
        /\ \A q \in Procs \ {p} : call'[q] = call[q]
        /\ call'[p].ticket = t /\ call'[p].at = "writing"
        /\ call'[p].was = call[p].was /\ call'[p].seq = last[t]
    BY <1>0, <1>3 DEF TypeOK, Calls
  <2> HIDE DEF t
  <2> QED BY <1>0, <1>3, <2>1, Locks DEF t
<1> QED BY <1>1, <1>2, <1>3 DEF LockPrimary

LEMMA RowsStep == TypeOK /\ RowsAreKept /\ [Next]_vars => RowsAreKept'
<1> SUFFICES ASSUME TypeOK, RowsAreKept, [Next]_vars PROVE RowsAreKept'
  OBVIOUS
<1>1. ASSUME NEW p \in Writers, NEW t \in Tickets, NEW k \in Keys, OpenPrimary(p, t, k)
      PROVE  RowsAreKept'
  <2> DEFINE label == [Idle EXCEPT !.at = "locking", !.ticket = t, !.key = k]
             s == IF t \in merged THEN "none" ELSE "open"
  <2>1. /\ label.was = "same" /\ label.at = "locking" /\ label.ticket = t
        /\ [label EXCEPT !.was = "none"].at = label.at
        /\ [label EXCEPT !.was = "none"].ticket = t
        /\ [label EXCEPT !.was = "none"].was = "none"
        /\ s \in {"none", "open", "locked"} /\ (t \in merged => s # "open")
    BY DEF Idle
  <2>2. /\ p \in Procs /\ call[p].at = "idle" /\ ~Inserting(t) /\ EnsureRow(p, t, s, label)
        /\ UNCHANGED <<last, merged>>
    BY <1>1 DEF OpenPrimary, Procs
  <2> HIDE DEF label, s
  <2> QED BY <2>1, <2>2, EnsureRows
<1>2. ASSUME NEW p \in Backfills, BackfillOpens(p) PROVE RowsAreKept'
  <2> DEFINE label == [call[p] EXCEPT !.at = "copying"]
             t == call[p].ticket
             s == IF call[p].merged THEN "locked" ELSE "open"
  <2>1. /\ p \in Procs /\ t \in Tickets /\ call[p].at = "opening" /\ call[p] \in Calls
        /\ ~Inserting(t) /\ EnsureRow(p, t, s, label) /\ UNCHANGED <<last, merged>>
    BY <1>2 DEF BackfillOpens, Procs, TypeOK
  <2>2. call[p].was = "same"
    BY <2>1 DEF RowsAreKept, KnowsItsRow, KeepsItsOwn
  <2>3. /\ label.was = "same" /\ label.at = "copying" /\ label.ticket = t
        /\ [label EXCEPT !.was = "none"].at = label.at
        /\ [label EXCEPT !.was = "none"].ticket = t
        /\ [label EXCEPT !.was = "none"].was = "none"
        /\ s \in {"none", "open", "locked"}
    BY <2>1, <2>2 DEF Calls
  <2>4. t \in merged /\ s = "open" => conv[t] # "none"
    BY <2>1 DEF RowsAreKept, KnowsItsRow
  <2> HIDE DEF label, s, t
  <2> QED BY <2>1, <2>3, <2>4, EnsureRows
<1>3. ASSUME NEW p \in Backfills, NEW t \in Tickets, BackfillReads(p, t) PROVE RowsAreKept'
  <2>1. /\ p \in Procs /\ call[p].at = "idle"
        /\ \A q \in Procs \ {p} : call'[q] = call[q]
        /\ call'[p].at = "opening" /\ call'[p].was = "same" /\ call'[p].ticket = t
        /\ call'[p].merged = (t \in merged)
    BY <1>3 DEF BackfillReads, Procs, TypeOK, Idle
  <2> QED BY <1>3, <2>1, Begins DEF BackfillReads, rows
<1>4. ASSUME NEW p \in Mergers, NEW s \in Tickets, MergeReads(p, s) PROVE RowsAreKept'
  <2>1. /\ p \in Procs /\ call[p].at = "idle"
        /\ \A q \in Procs \ {p} : call'[q] = call[q]
        /\ call'[p].at = "merging" /\ call'[p].was = "same"
    BY <1>4 DEF MergeReads, Procs, TypeOK, Idle
  <2> QED BY <1>4, <2>1, Begins DEF MergeReads, rows
<1>5. ASSUME NEW p \in Mergers, LockConversation(p) PROVE RowsAreKept'
  <2> DEFINE t == call[p].ticket
  <2>1. /\ p \in Procs /\ t \in Tickets /\ call[p].at = "merging" /\ Available(p, t)
        /\ conv' = [conv EXCEPT ![t] = "locked"] /\ holder' = [holder EXCEPT ![t] = p]
        /\ \A q \in Procs \ {p} : call'[q] = call[q]
        /\ call'[p].ticket = t /\ call'[p].at = "marking" /\ call'[p].was = conv[t]
        /\ UNCHANGED <<last, merged>>
    BY <1>5 DEF LockConversation, Procs, TypeOK, Calls
  <2> HIDE DEF t
  <2> QED BY <2>1, Locks DEF t
<1>6. ASSUME NEW p \in Mergers, MergeMarks(p) PROVE RowsAreKept'
  <2> DEFINE t == call[p].ticket
  <2>1. p \in Procs /\ t \in Tickets /\ call[p].at = "marking"
    BY <1>6 DEF MergeMarks, Procs, TypeOK
  <2>2. holder[t] = p /\ conv[t] = "locked"
    BY <2>1 DEF RowsAreKept, KnowsItsRow
  <2> HIDE DEF t
  <2> QED BY <1>6, <2>1, <2>2, Ends DEF MergeMarks, TypeOK, t
<1>7. ASSUME NEW p \in Procs, Abort(p) PROVE RowsAreKept'
  BY <1>7, RollbackRows DEF Abort
<1>8. ASSUME NEW t \in Tickets, Repair(t) PROVE RowsAreKept'
  BY <1>8 DEF Repair, rows, RowsAreKept, KnowsItsRow, KeepsItsOwn, Inserting
<1>9. CASE UNCHANGED vars
  BY <1>9 DEF vars, RowsAreKept, KnowsItsRow, KeepsItsOwn, Inserting
<1> QED
  BY <1>1, <1>2, <1>3, <1>4, <1>5, <1>6, <1>7, <1>8, <1>9,
     LockPrimaryRows, WriteRows, BackfillCopiesRows
  DEF Next, WriterStep, BackfillStep, MergeStep

LEMMA RowsInit == Init => RowsAreKept
BY ConstantsAssumption DEF Init, RowsAreKept, KeepsItsOwn, KnowsItsRow, Procs, Idle

-----------------------------------------------------------------------------
(* What is put on a thread.                                                *)

\* The history new, numbered by pos, and after it the words own, which is the
\* message of a write or nothing at all.
Puts(t, new, pos, own) ==
  /\ new \in SUBSET History[t] /\ \A h \in new : ~Written(h)
  /\ pos \in Copies(last[t], new)
  /\ own \in SUBSET Keys /\ own \cap new = {} /\ \A j, k \in own : j = k
  /\ \A k \in own : ~Written(k)
  /\ last' = [last EXCEPT ![t] = @ + Cardinality(new) + (IF own = {} THEN 0 ELSE 1)]
  /\ message' = [k \in Keys |->
       IF k \in own THEN [ticket |-> t, seq |-> last'[t], copy |-> FALSE]
       ELSE IF k \in new THEN [ticket |-> t, seq |-> pos[k], copy |-> TRUE]
       ELSE message[k]]
  /\ UNCHANGED <<merged, problem>>

\* A backfill puts what is missing, of a history that it does not refuse.
BackfillPuts(t, new) ==
  /\ ~Refused(t, History[t]) /\ new = Missing(t, History[t])
  /\ UNCHANGED acked

\* A write puts its message on an open thread, behind what it copies.
WritePuts(t, new, k) ==
  /\ new = FirstCopies(t, last[t], k)
  /\ t \notin merged
  /\ acked' = acked \cup {<<k, t>>}
  /\ HistoryStaysHome => (k \in HistoryKeys => t \in Fresh /\ k = Opening[t])

LEMMA WritesPut ==
  ASSUME TypeOK, RowsAreKept, NEW p \in Writers, Write(p)
  PROVE  \/ UNCHANGED <<last, message, merged, acked, problem>>
         \/ \E t \in Tickets, k \in Keys : \E new \in SUBSET History[t] : \E pos \in Copies(last[t], new) :
              Puts(t, new, pos, {k}) /\ WritePuts(t, new, k)
<1> DEFINE t == call[p].ticket
           k == call[p].key
           new == FirstCopies(t, call[p].seq, k)
           end == (IF new = {} THEN last[t] ELSE call[p].seq + Cardinality(new)) + 1
<1>0. /\ p \in Procs /\ t \in Tickets /\ k \in Keys /\ call[p].at = "writing"
      /\ last[t] \in Nat
  BY DEF Procs, TypeOK, Write
<1>1. call[p].seq = last[t] /\ t \notin merged
  BY <1>0 DEF RowsAreKept, KnowsItsRow
<1>2. CASE Rollback(p)
  BY <1>2 DEF Rollback
<1>3. ASSUME NEW pos \in Copies(call[p].seq, new),
             ~Written(k),
             message' = [Copied(t, pos, message) EXCEPT
                           ![k] = [ticket |-> t, seq |-> end, copy |-> FALSE]],
             last' = [last EXCEPT ![t] = end],
             acked' = acked \cup {<<k, t>>}, UNCHANGED <<conv, merged, problem>>
      PROVE  new \in SUBSET History[t] /\ Puts(t, new, pos, {k}) /\ WritePuts(t, new, k)
  <2>1. new \in SUBSET History[t]
    BY <1>0, MissingIsHistory
  <2>2. /\ Cardinality(new) \in Nat /\ (new = {} => Cardinality(new) = 0)
        /\ DOMAIN pos = new
    BY <1>0, <1>1, <1>3, <2>1, CopiesNumber
  <2>3. end = last[t] + Cardinality(new) + 1
    BY <1>0, <1>1, <2>2
  <2>4. k \notin new /\ \A h \in new : ~Written(h)
    BY DEF FirstCopies, Missing
  <2>5. HistoryStaysHome => (k \in HistoryKeys => t \in Fresh /\ k = Opening[t])
    BY <1>0 DEF HistoryStaysHome
  <2>6. last'[t] = end
    BY <1>0, <1>3 DEF TypeOK
  <2>7. message' = [j \in Keys |->
          IF j \in {k} THEN [ticket |-> t, seq |-> last'[t], copy |-> FALSE]
          ELSE IF j \in new THEN [ticket |-> t, seq |-> pos[j], copy |-> TRUE]
          ELSE message[j]]
    <3> HIDE DEF end, t, k, new
    <3>1. message' = [[j \in Keys |-> IF j \in new THEN [ticket |-> t, seq |-> pos[j], copy |-> TRUE]
                                      ELSE message[j]]
                        EXCEPT ![k] = [ticket |-> t, seq |-> last'[t], copy |-> FALSE]]
      BY <1>3, <2>2, <2>6 DEF Copied
    <3> QED BY <1>0, <3>1
  <2>8. new = FirstCopies(t, last[t], k)
    BY <1>1
  <2> HIDE DEF end, t, k, new
  <2>9. last' = [last EXCEPT ![t] = @ + Cardinality(new) + (IF {k} = {} THEN 0 ELSE 1)]
    BY <1>0, <1>3, <2>3
  <2>10. Puts(t, new, pos, {k})
    BY <1>0, <1>1, <1>3, <2>1, <2>4, <2>7, <2>9 DEF Puts
  <2> QED BY <1>1, <1>3, <2>1, <2>5, <2>8, <2>10 DEF WritePuts
<1>4. \/ Rollback(p)
      \/ \E pos \in Copies(call[p].seq, new) :
             /\ ~Written(k)
             /\ message' = [Copied(t, pos, message) EXCEPT
                           ![k] = [ticket |-> t, seq |-> end, copy |-> FALSE]]
             /\ last' = [last EXCEPT ![t] = end]
             /\ acked' = acked \cup {<<k, t>>} /\ UNCHANGED <<conv, merged, problem>>
  BY DEF Write
<1> HIDE DEF end, t, k, new
<1>5. ASSUME NEW pos \in Copies(call[p].seq, new), new \in SUBSET History[t],
             Puts(t, new, pos, {k}), WritePuts(t, new, k)
      PROVE  \E u \in Tickets, j \in Keys : \E w \in SUBSET History[u] : \E q \in Copies(last[u], w) :
              Puts(u, w, q, {j}) /\ WritePuts(u, w, j)
  BY <1>0, <1>1, <1>5
<1> QED BY <1>2, <1>3, <1>4, <1>5

LEMMA BackfillsPut ==
  ASSUME TypeOK, NEW p \in Backfills, BackfillCopies(p)
  PROVE  \/ UNCHANGED <<last, message, merged, acked, problem>>
         \/ \E t \in Tickets : \E new \in SUBSET History[t] : \E pos \in Copies(last[t], new) :
              Puts(t, new, pos, {}) /\ BackfillPuts(t, new)
<1> DEFINE t == call[p].ticket
           new == Missing(t, History[t])
<1>0. t \in Tickets /\ last[t] \in Nat
  BY DEF Procs, TypeOK, BackfillCopies
<1>1. CASE Rollback(p)
  BY <1>1 DEF Rollback
<1>2. ASSUME NEW pos \in Copies(last[t], new), ~Refused(t, History[t]),
             message' = Copied(t, pos, message),
             last' = [last EXCEPT ![t] = @ + Cardinality(new)],
             UNCHANGED <<conv, merged, problem, acked>>
      PROVE  new \in SUBSET History[t] /\ Puts(t, new, pos, {}) /\ BackfillPuts(t, new)
  <2>1. new \in SUBSET History[t] /\ \A h \in new : ~Written(h)
    BY <1>0, MissingIsHistory DEF Missing
  <2>2. Cardinality(new) \in Nat /\ DOMAIN pos = new
    BY <1>0, <1>2, <2>1, CopiesNumber
  <2>3. BackfillPuts(t, new)
    BY <1>2 DEF BackfillPuts
  <2> HIDE DEF t, new
  <2> DEFINE one == IF {} = {} THEN 0 ELSE 1
  <2>a. one = 0
    OBVIOUS
  <2> HIDE DEF one
  <2>b. last[t] + Cardinality(new) + one = last[t] + Cardinality(new)
    BY <1>0, <2>2, <2>a
  <2>c. last' = [last EXCEPT ![t] = @ + Cardinality(new) + one]
    BY <1>2, <2>b
  <2>4. last' = [last EXCEPT ![t] = @ + Cardinality(new) + (IF {} = {} THEN 0 ELSE 1)]
    BY <2>c DEF one
  <2>5. Puts(t, new, pos, {})
    BY <1>0, <1>2, <2>1, <2>2, <2>4 DEF Puts, Copied
  <2> QED BY <2>1, <2>3, <2>5
<1>3. \/ Rollback(p)
      \/ /\ ~Refused(t, History[t])
         /\ \E pos \in Copies(last[t], new) : message' = Copied(t, pos, message)
         /\ last' = [last EXCEPT ![t] = @ + Cardinality(new)]
         /\ UNCHANGED <<conv, merged, problem, acked>>
  BY DEF BackfillCopies
<1> HIDE DEF t, new
<1> QED BY <1>0, <1>1, <1>2, <1>3

\* A step that puts nothing on a thread.
Silent ==
  /\ UNCHANGED <<last, message>>
  /\ problem' \subseteq problem
  /\ \A a \in acked' : a \in acked \/ On(a[1], a[2])
  /\ UNCHANGED merged \/ \E t \in Tickets : merged' = merged \cup {t}

AWritePuts == \E t \in Tickets, k \in Keys : \E new \in SUBSET History[t] : \E pos \in Copies(last[t], new) :
                Puts(t, new, pos, {k}) /\ WritePuts(t, new, k)

ABackfillPuts == \E t \in Tickets : \E new \in SUBSET History[t] : \E pos \in Copies(last[t], new) :
                   Puts(t, new, pos, {}) /\ BackfillPuts(t, new)

LEMMA Steps ==
  TypeOK /\ RowsAreKept /\ [Next]_vars => Silent \/ AWritePuts \/ ABackfillPuts
<1> SUFFICES ASSUME TypeOK, RowsAreKept, [Next]_vars
             PROVE  Silent \/ AWritePuts \/ ABackfillPuts
  OBVIOUS
<1>0. ASSUME UNCHANGED <<last, message, merged, acked>>, problem' \subseteq problem PROVE Silent
  BY <1>0 DEF Silent
<1>1. ASSUME NEW p \in Writers, NEW t \in Tickets, NEW k \in Keys, OpenPrimary(p, t, k)
      PROVE  Silent
  BY <1>0, <1>1 DEF OpenPrimary
<1>2. ASSUME NEW p \in Writers, LockPrimary(p) PROVE Silent
  <2>1. CASE /\ SameMessage(p)
             /\ acked' = acked \cup {<<call[p].key, call[p].ticket>>}
             /\ UNCHANGED <<last, message, merged, problem>>
    BY <2>1 DEF Silent, SameMessage
  <2>2. CASE UNCHANGED <<last, message, merged, acked, problem>>
    BY <2>2 DEF Silent
  <2> QED BY <1>2, <2>1, <2>2 DEF LockPrimary, Rollback
<1>3. ASSUME NEW p \in Writers, Write(p) PROVE Silent \/ AWritePuts
  BY <1>0, <1>3, WritesPut DEF AWritePuts
<1>4. ASSUME NEW p \in Backfills, NEW t \in Tickets, BackfillReads(p, t) PROVE Silent
  BY <1>0, <1>4 DEF BackfillReads, rows
<1>5. ASSUME NEW p \in Backfills, BackfillOpens(p) PROVE Silent
  BY <1>0, <1>5 DEF BackfillOpens
<1>6. ASSUME NEW p \in Backfills, BackfillCopies(p) PROVE Silent \/ ABackfillPuts
  BY <1>0, <1>6, BackfillsPut DEF ABackfillPuts
<1>7. ASSUME NEW p \in Mergers, NEW s \in Tickets, MergeReads(p, s) PROVE Silent
  BY <1>0, <1>7 DEF MergeReads, rows
<1>8. ASSUME NEW p \in Mergers, LockConversation(p) PROVE Silent
  BY <1>0, <1>8 DEF LockConversation
<1>9. ASSUME NEW p \in Mergers, MergeMarks(p) PROVE Silent
  <2>1. call[p].ticket \in Tickets
    BY <1>9 DEF MergeMarks, TypeOK, Procs
  <2> QED BY <1>9, <2>1 DEF MergeMarks, Silent
<1>10. ASSUME NEW p \in Procs, Abort(p) PROVE Silent
  BY <1>0, <1>10 DEF Abort, Rollback
<1>11. ASSUME NEW t \in Tickets, Repair(t) PROVE Silent
  BY <1>0, <1>11 DEF Repair, rows
<1>12. CASE UNCHANGED vars
  BY <1>0, <1>12 DEF vars
<1> QED
  BY <1>1, <1>2, <1>3, <1>4, <1>5, <1>6, <1>7, <1>8, <1>9, <1>10, <1>11, <1>12
  DEF Next, WriterStep, BackfillStep, MergeStep

\* What is put on a thread comes after what is there, one message to a number.
Grown(t, new, own) ==
  /\ last[t] \in Nat /\ last'[t] \in Nat /\ last'[t] >= last[t]
  /\ own # {} => last'[t] > last[t]
  /\ \A u \in Tickets \ {t} : last'[u] = last[u]
  /\ \A k \in Keys \ (new \cup own) : message'[k] = message[k]
  /\ \A k \in new \cup own : /\ k \in Keys /\ ~Written(k)
                             /\ message'[k].ticket = t
                             /\ message'[k].seq \in last[t] + 1 .. last'[t]
  /\ \A k \in new : message'[k].copy /\ k \notin own
  /\ \A k \in own : ~message'[k].copy
  /\ \A i \in last[t] + 1 .. last'[t] : \E k \in new \cup own : message'[k].seq = i
  /\ \A j, k \in new \cup own : message'[j].seq = message'[k].seq => j = k
  /\ \A j, k \in new \cup own : message'[j].seq < message'[k].seq =>
       j \in new /\ (k \in new => Said[j] < Said[k])

LEMMA PutsGrow ==
  ASSUME TypeOK, NEW t \in Tickets, NEW new \in SUBSET History[t],
         NEW pos \in Copies(last[t], new), NEW own \in SUBSET Keys, Puts(t, new, pos, own)
  PROVE  Grown(t, new, own)
<1>1. /\ Cardinality(new) \in Nat /\ DOMAIN pos = new
      /\ \A k \in new : pos[k] \in last[t] + 1 .. last[t] + Cardinality(new)
      /\ \A i \in last[t] + 1 .. last[t] + Cardinality(new) : \E k \in new : pos[k] = i
      /\ \A j, k \in new : pos[j] = pos[k] => j = k
      /\ \A j, k \in new : pos[j] < pos[k] => Said[j] < Said[k]
      /\ last[t] \in Nat
  <2>1. last[t] \in Nat
    BY DEF TypeOK
  <2> QED BY <2>1, CopiesNumber
<1>2. /\ last' = [last EXCEPT ![t] = last[t] + Cardinality(new) + (IF own = {} THEN 0 ELSE 1)]
      /\ \A j, k \in own : j = k
      /\ own \cap new = {} /\ new \subseteq Keys
      /\ \A k \in new \cup own : ~Written(k)
  BY MissingIsHistory DEF Puts
<1>3. /\ last'[t] = last[t] + Cardinality(new) + (IF own = {} THEN 0 ELSE 1)
      /\ \A u \in Tickets \ {t} : last'[u] = last[u]
  BY <1>2 DEF TypeOK
<1>4. /\ last'[t] \in Nat /\ last'[t] >= last[t] /\ last'[t] >= last[t] + Cardinality(new)
      /\ own # {} => last'[t] = last[t] + Cardinality(new) + 1
      /\ own = {} => last'[t] = last[t] + Cardinality(new)
  BY <1>1, <1>3
<1>5. \A k \in Keys : message'[k] =
        IF k \in own THEN [ticket |-> t, seq |-> last'[t], copy |-> FALSE]
        ELSE IF k \in new THEN [ticket |-> t, seq |-> pos[k], copy |-> TRUE]
        ELSE message[k]
  BY DEF Puts
<1>6. \A k \in own : message'[k].ticket = t /\ message'[k].seq = last'[t] /\ ~message'[k].copy
  <2> SUFFICES ASSUME NEW k \in own
               PROVE  message'[k].ticket = t /\ message'[k].seq = last'[t] /\ ~message'[k].copy
    OBVIOUS
  <2>1. message'[k] = [ticket |-> t, seq |-> last'[t], copy |-> FALSE]
    BY <1>5
  <2> QED BY <2>1
<1>7. \A k \in new : /\ message'[k].ticket = t /\ message'[k].seq = pos[k]
                     /\ message'[k].copy /\ k \notin own
  <2> SUFFICES ASSUME NEW k \in new
               PROVE  /\ message'[k].ticket = t /\ message'[k].seq = pos[k]
                      /\ message'[k].copy /\ k \notin own
    OBVIOUS
  <2>1. message'[k] = [ticket |-> t, seq |-> pos[k], copy |-> TRUE] /\ k \notin own
    BY <1>2, <1>5
  <2> QED BY <2>1
<1>8. \A k \in Keys \ (new \cup own) : message'[k] = message[k]
  BY <1>5
<1>9. \A k \in new \cup own : message'[k].seq \in last[t] + 1 .. last'[t]
  <2>1. \A k \in new : message'[k].seq \in last[t] + 1 .. last'[t]
    BY <1>1, <1>4, <1>7
  <2>2. \A k \in own : message'[k].seq \in last[t] + 1 .. last'[t]
    BY <1>1, <1>4, <1>6
  <2> QED BY <2>1, <2>2
<1>10. ASSUME NEW i \in last[t] + 1 .. last'[t]
       PROVE  \E k \in new \cup own : message'[k].seq = i
  <2>1. CASE i \in last[t] + 1 .. last[t] + Cardinality(new)
    BY <1>1, <1>7, <2>1
  <2>2. CASE i \notin last[t] + 1 .. last[t] + Cardinality(new)
    <3>1. i = last'[t] /\ own # {}
      BY <1>1, <1>4, <2>2
    <3> QED BY <1>6, <3>1
  <2> QED BY <2>1, <2>2
<1>11. \A j \in new, k \in own : message'[j].seq < message'[k].seq
  BY <1>1, <1>4, <1>6, <1>7
<1>12. \A k \in new \cup own : message'[k].seq \in Nat
  BY <1>1, <1>4, <1>9
<1>13. \A j, k \in new \cup own : message'[j].seq = message'[k].seq => j = k
  BY <1>1, <1>2, <1>7, <1>11, <1>12
<1>14. \A j, k \in new \cup own : message'[j].seq < message'[k].seq =>
         j \in new /\ (k \in new => Said[j] < Said[k])
  BY <1>1, <1>2, <1>7, <1>11, <1>12
<1> QED
  BY <1>1, <1>2, <1>3, <1>4, <1>6, <1>7, <1>8, <1>9, <1>10, <1>13, <1>14 DEF Grown

\* The same, whoever puts it.
LEMMA Growth ==
  ASSUME TypeOK, RowsAreKept, [Next]_vars, ~Silent
  PROVE  \E t \in Tickets : \E new \in SUBSET History[t] : \E own \in SUBSET Keys :
           /\ Grown(t, new, own)
           /\ UNCHANGED <<merged, problem>>
           /\ \/ own = {} /\ BackfillPuts(t, new)
              \/ \E k \in Keys : own = {k} /\ WritePuts(t, new, k)
<1>1. ASSUME AWritePuts
      PROVE  \E t \in Tickets, k \in Keys : \E new \in SUBSET History[t] :
               Grown(t, new, {k}) /\ WritePuts(t, new, k) /\ UNCHANGED <<merged, problem>>
  <2>1. PICK t \in Tickets, k \in Keys : \E new \in SUBSET History[t] : \E pos \in Copies(last[t], new) :
               Puts(t, new, pos, {k}) /\ WritePuts(t, new, k)
    BY <1>1 DEF AWritePuts
  <2>2. PICK new \in SUBSET History[t] : \E pos \in Copies(last[t], new) :
               Puts(t, new, pos, {k}) /\ WritePuts(t, new, k)
    BY <2>1
  <2>3. PICK pos \in Copies(last[t], new) : Puts(t, new, pos, {k}) /\ WritePuts(t, new, k)
    BY <2>2
  <2>4. {k} \in SUBSET Keys
    OBVIOUS
  <2>5. Grown(t, new, {k})
    BY <2>3, <2>4, PutsGrow
  <2> QED BY <2>3, <2>5 DEF Puts
<1>2. ASSUME ABackfillPuts
      PROVE  \E t \in Tickets : \E new \in SUBSET History[t] :
               Grown(t, new, {}) /\ BackfillPuts(t, new) /\ UNCHANGED <<merged, problem>>
  <2>1. PICK t \in Tickets : \E new \in SUBSET History[t] : \E pos \in Copies(last[t], new) :
               Puts(t, new, pos, {}) /\ BackfillPuts(t, new)
    BY <1>2 DEF ABackfillPuts
  <2>2. PICK new \in SUBSET History[t] : \E pos \in Copies(last[t], new) :
               Puts(t, new, pos, {}) /\ BackfillPuts(t, new)
    BY <2>1
  <2>3. PICK pos \in Copies(last[t], new) : Puts(t, new, pos, {}) /\ BackfillPuts(t, new)
    BY <2>2
  <2>4. {} \in SUBSET Keys
    OBVIOUS
  <2>5. Grown(t, new, {})
    BY <2>3, <2>4, PutsGrow
  <2> QED BY <2>3, <2>5 DEF Puts
<1> QED BY <1>1, <1>2, Steps

-----------------------------------------------------------------------------
(* The numbers of a thread.                                                *)

LEMMA DenseStep == TypeOK /\ RowsAreKept /\ SeqsAreDense /\ [Next]_vars => SeqsAreDense'
<1> SUFFICES ASSUME TypeOK, RowsAreKept, SeqsAreDense, [Next]_vars PROVE SeqsAreDense'
  OBVIOUS
<1>1. CASE Silent
  BY <1>1 DEF Silent, SeqsAreDense, On
<1>2. CASE ~Silent
  <2>1. PICK t \in Tickets : \E new \in SUBSET History[t] : \E own \in SUBSET Keys : Grown(t, new, own)
    BY <1>2, Growth
  <2>2. PICK new \in SUBSET History[t], own \in SUBSET Keys : Grown(t, new, own)
    BY <2>1
  <2> DEFINE put == new \cup own
  <2>3. /\ last[t] \in Nat /\ last'[t] \in Nat /\ last'[t] >= last[t]
        /\ \A u \in Tickets \ {t} : last'[u] = last[u]
        /\ \A k \in Keys \ put : message'[k] = message[k]
        /\ \A k \in put : /\ k \in Keys /\ ~Written(k)
                          /\ message'[k].ticket = t
                          /\ message'[k].seq \in last[t] + 1 .. last'[t]
        /\ \A i \in last[t] + 1 .. last'[t] : \E k \in put : message'[k].seq = i
        /\ \A j, k \in put : message'[j].seq = message'[k].seq => j = k
    BY <2>2 DEF Grown
  <2> HIDE DEF put
  <2>4. \A k \in Keys, u \in Tickets : On(k, u) => message'[k] = message[k] /\ k \notin put
    BY <2>3, ConstantsAssumption DEF On, Written
  <2>5. \A k \in Keys : message'[k].ticket = t => On(k, t) \/ k \in put
    BY <2>3 DEF On
  <2>6. ASSUME NEW u \in Tickets \ {t}
        PROVE  /\ \A k \in Keys : On(k, u)' <=> On(k, u)
               /\ \A k \in Keys : On(k, u) => message'[k] = message[k]
               /\ last'[u] = last[u]
    BY <2>3, <2>4 DEF On
  <2>7. \A i \in 1 .. last'[t] : \E k \in Keys : message'[k].ticket = t /\ message'[k].seq = i
    <3> SUFFICES ASSUME NEW i \in 1 .. last'[t]
                 PROVE  \E k \in Keys : message'[k].ticket = t /\ message'[k].seq = i
      OBVIOUS
    <3>1. CASE i \in 1 .. last[t]
      <4>1. PICK k \in Keys : On(k, t) /\ message[k].seq = i
        BY <3>1 DEF SeqsAreDense
      <4> QED BY <2>4, <4>1 DEF On
    <3>2. CASE i \in last[t] + 1 .. last'[t]
      BY <2>3, <3>2
    <3> QED BY <2>3, <3>1, <3>2
  <2>8. \A k \in Keys : message'[k].ticket = t => message'[k].seq \in 1 .. last'[t]
    <3> SUFFICES ASSUME NEW k \in Keys, message'[k].ticket = t PROVE message'[k].seq \in 1 .. last'[t]
      OBVIOUS
    <3>1. CASE On(k, t)
      <4>1. message[k].seq \in 1 .. last[t]
        BY <3>1 DEF SeqsAreDense
      <4> QED BY <2>3, <2>4, <3>1, <4>1
    <3>2. CASE k \in put
      BY <2>3, <3>2
    <3> QED BY <2>5, <3>1, <3>2
  <2>9. ASSUME NEW j \in Keys, NEW k \in Keys, message'[j].ticket = t, message'[k].ticket = t,
               message'[j].seq = message'[k].seq
        PROVE  j = k
    <3>1. \A i \in Keys : On(i, t) => message'[i].seq \in 1 .. last[t]
      BY <2>4 DEF SeqsAreDense
    <3>2. CASE On(j, t) /\ On(k, t)
      BY <2>4, <2>9, <3>2 DEF SeqsAreDense
    <3>3. CASE j \in put /\ k \in put
      BY <2>3, <2>9, <3>3
    <3>4. CASE (On(j, t) /\ k \in put) \/ (On(k, t) /\ j \in put)
      <4>1. \A i \in put : message'[i].seq \in last[t] + 1 .. last'[t]
        BY <2>3
      <4> QED BY <2>3, <2>9, <3>1, <3>4, <4>1
    <3> QED BY <2>5, <2>9, <3>2, <3>3, <3>4
  <2>10. ASSUME NEW u \in Tickets
         PROVE  /\ \A i \in 1 .. last'[u] : \E k \in Keys : On(k, u)' /\ message'[k].seq = i
                /\ \A k \in Keys : On(k, u)' => message'[k].seq \in 1 .. last'[u]
                /\ \A j, k \in Keys : On(j, u)' /\ On(k, u)' /\ message'[j].seq = message'[k].seq => j = k
    <3>1. CASE u = t
      BY <2>7, <2>8, <2>9, <3>1 DEF On
    <3>2. CASE u # t
      BY <2>6, <3>2 DEF SeqsAreDense
    <3> QED BY <3>1, <3>2
  <2> QED BY <2>10 DEF SeqsAreDense
<1> QED BY <1>1, <1>2

\* C2, for any number of writers, backfills and merges at once.
THEOREM NumbersStayDense == Spec => []SeqsAreDense
<1>1. Init => TypeOK /\ RowsAreKept /\ SeqsAreDense
  <2>1. Init => SeqsAreDense
    BY ConstantsAssumption DEF Init, SeqsAreDense, On, Unwritten
  <2> QED BY <2>1, TypeInit, RowsInit
<1>2. TypeOK /\ RowsAreKept /\ SeqsAreDense /\ [Next]_vars => (TypeOK /\ RowsAreKept /\ SeqsAreDense)'
  BY TypeStep, RowsStep, DenseStep
<1> QED BY <1>1, <1>2, PTL DEF Spec

-----------------------------------------------------------------------------
(* History and what comes after it.                                        *)

\* What a write sets out to write stays the same until it ends.
Errand(q) ==
  call[q].at \in {"locking", "writing"} /\ call[q].key \in HistoryKeys =>
    call[q].ticket \in Fresh /\ call[q].key = Opening[call[q].ticket]

LEMMA ErrandStep == TypeOK /\ (\A q \in Procs : Errand(q)) /\ [Next]_vars => \A q \in Procs : Errand(q)'
<1> SUFFICES ASSUME TypeOK, \A q \in Procs : Errand(q), [Next]_vars, NEW q \in Procs
             PROVE  Errand(q)'
  OBVIOUS
<1>0. ASSUME \/ call'[q] = call[q]
             \/ call'[q].at \notin {"locking", "writing"}
             \/ /\ call[q].at \in {"locking", "writing"}
                /\ call'[q].key = call[q].key /\ call'[q].ticket = call[q].ticket
      PROVE  Errand(q)'
  BY <1>0 DEF Errand
<1>1. ASSUME NEW p \in Procs, Commit(p) PROVE Errand(q)'
  <2>1. call'[q] = call[q] \/ call'[q] = Idle
    BY <1>1 DEF Commit, TypeOK
  <2> QED BY <1>0, <2>1 DEF Idle
<1>2. ASSUME NEW p \in Procs, NEW label, label.at \notin {"locking", "writing"},
             call' = [call EXCEPT ![p] = label]
      PROVE  Errand(q)'
  BY <1>0, <1>2 DEF TypeOK
<1>3. ASSUME NEW p \in Writers, NEW t \in Tickets, NEW k \in Keys, OpenPrimary(p, t, k) PROVE Errand(q)'
  <2> DEFINE label == [Idle EXCEPT !.at = "locking", !.ticket = t, !.key = k]
             label1 == [label EXCEPT !.was = "none"]
  <2>1. label.key = k /\ label.ticket = t /\ label1.key = k /\ label1.ticket = t
    BY DEF Idle
  <2>2. call' = [call EXCEPT ![p] = label] \/ call' = [call EXCEPT ![p] = label1]
    BY <1>3 DEF OpenPrimary, EnsureRow
  <2>3. k \in HistoryKeys => t \in Fresh /\ k = Opening[t]
    BY <1>3 DEF OpenPrimary
  <2> HIDE DEF label, label1
  <2>4. call'[q] \in {call[q], label, label1}
    BY <2>2 DEF TypeOK
  <2> QED BY <1>0, <2>1, <2>3, <2>4 DEF Errand
<1>4. ASSUME NEW p \in Writers, LockPrimary(p) PROVE Errand(q)'
  <2>1. p \in Procs /\ call[p].at = "locking"
    BY <1>4 DEF Procs, LockPrimary
  <2>2. CASE call' = [call EXCEPT ![p].at = "writing", ![p].seq = last[call[p].ticket]]
    <3>1. CASE q = p
      <4>1. call'[q].key = call[q].key /\ call'[q].ticket = call[q].ticket
        BY <2>1, <2>2, <3>1 DEF TypeOK, Calls
      <4> QED BY <1>0, <2>1, <3>1, <4>1
    <3>2. CASE q # p
      BY <1>0, <2>2, <3>2 DEF TypeOK
    <3> QED BY <3>1, <3>2
  <2> QED BY <1>1, <1>4, <2>1, <2>2 DEF LockPrimary, Rollback
<1>5. ASSUME NEW p \in Backfills, NEW t \in Tickets, BackfillReads(p, t) PROVE Errand(q)'
  <2>1. [Idle EXCEPT !.at = "opening", !.ticket = t, !.merged = t \in merged].at = "opening"
    BY DEF Idle
  <2> QED BY <1>2, <1>5, <2>1 DEF BackfillReads, Procs
<1>6. ASSUME NEW p \in Backfills, BackfillOpens(p) PROVE Errand(q)'
  <2> DEFINE label == [call[p] EXCEPT !.at = "copying"]
             label1 == [label EXCEPT !.was = "none"]
  <2>1. p \in Procs /\ call[p] \in Calls
    BY <1>6 DEF Procs, TypeOK
  <2>2. label.at = "copying" /\ label1.at = "copying"
    BY <2>1 DEF Calls
  <2>3. call' = [call EXCEPT ![p] = label] \/ call' = [call EXCEPT ![p] = label1]
    BY <1>6 DEF BackfillOpens, EnsureRow
  <2> HIDE DEF label, label1
  <2> QED BY <1>2, <2>1, <2>2, <2>3
<1>7. ASSUME NEW p \in Mergers, NEW s \in Tickets, MergeReads(p, s) PROVE Errand(q)'
  <2>1. [Idle EXCEPT !.at = "merging", !.ticket = s].at = "merging"
    BY DEF Idle
  <2> QED BY <1>2, <1>7, <2>1 DEF MergeReads, Procs
<1>8. ASSUME NEW p \in Mergers, LockConversation(p) PROVE Errand(q)'
  <2>1. p \in Procs /\ (q = p => call'[q].at = "marking") /\ (q # p => call'[q] = call[q])
    BY <1>8 DEF LockConversation, Procs, TypeOK, Calls
  <2> QED BY <1>0, <2>1
<1>9. CASE UNCHANGED call
  BY <1>0, <1>9
<1>10. ASSUME NEW p \in Writers, Write(p) PROVE Errand(q)'
  BY <1>1, <1>10 DEF Write, Rollback, Procs
<1>11. ASSUME NEW p \in Backfills, BackfillCopies(p) PROVE Errand(q)'
  BY <1>1, <1>11 DEF BackfillCopies, Rollback, Procs
<1>12. ASSUME NEW p \in Mergers, MergeMarks(p) PROVE Errand(q)'
  BY <1>1, <1>12 DEF MergeMarks, Procs
<1>13. ASSUME NEW p \in Procs, Abort(p) PROVE Errand(q)'
  BY <1>1, <1>13 DEF Abort, Rollback
<1>14. ASSUME NEW t \in Tickets, Repair(t) PROVE UNCHANGED call
  BY <1>14 DEF Repair
<1> QED
  BY <1>3, <1>4, <1>5, <1>6, <1>7, <1>8, <1>9, <1>10, <1>11, <1>12, <1>13, <1>14
  DEF Next, WriterStep, BackfillStep, MergeStep, vars

LEMMA HomeStep == TypeOK /\ ThreadInv /\ [Next]_vars => HistoryStaysHome'
<1> SUFFICES ASSUME TypeOK, RowsAreKept, HistoryStaysHome, [Next]_vars PROVE HistoryStaysHome'
  BY DEF ThreadInv
<1>1. \A p \in Procs : Errand(p)'
  <2>1. \A p \in Procs : Errand(p)
    BY DEF HistoryStaysHome, Errand
  <2> QED BY <2>1, ErrandStep
<1>2. ASSUME \/ UNCHANGED message /\ problem' \subseteq problem
             \/ UNCHANGED problem /\ \E t \in Tickets : \E put \in SUBSET Keys :
                  /\ \A k \in Keys \ put : message'[k] = message[k]
                  /\ \A k \in put : /\ message'[k].ticket = t
                                    /\ k \in HistoryKeys => k \in History[t]
                                    /\ message'[k].copy => k \in HistoryKeys
      PROVE  /\ problem' \subseteq Unclear
             /\ \A u \in Tickets : \A h \in History[u] : message'[h].ticket \in {u, Nowhere}
             /\ \A k \in Keys : message'[k].copy => message'[k].ticket # Nowhere /\ k \in HistoryKeys
             /\ \A k \in Keys : message'[k].ticket = Nowhere => message'[k].seq = 0
  <2>0. /\ problem \subseteq Unclear
        /\ \A u \in Tickets : \A h \in History[u] : h \in Keys /\ h \in HistoryKeys /\ message[h].ticket \in {u, Nowhere}
        /\ \A k \in Keys : message[k].copy => message[k].ticket # Nowhere /\ k \in HistoryKeys
        /\ \A k \in Keys : message[k].ticket = Nowhere => message[k].seq = 0
    BY MissingIsHistory DEF HistoryStaysHome, Written
  <2>1. CASE UNCHANGED message /\ problem' \subseteq problem
    BY <2>0, <2>1
  <2>2. ASSUME NEW t \in Tickets, NEW put \in SUBSET Keys, UNCHANGED problem,
               \A k \in Keys \ put : message'[k] = message[k],
               \A k \in put : /\ message'[k].ticket = t
                              /\ k \in HistoryKeys => k \in History[t]
                              /\ message'[k].copy => k \in HistoryKeys
        PROVE  /\ problem' \subseteq Unclear
               /\ \A u \in Tickets : \A h \in History[u] : message'[h].ticket \in {u, Nowhere}
               /\ \A k \in Keys : message'[k].copy => message'[k].ticket # Nowhere /\ k \in HistoryKeys
               /\ \A k \in Keys : message'[k].ticket = Nowhere => message'[k].seq = 0
    <3>1. t # Nowhere /\ \A u \in Tickets : u # t => History[u] \cap History[t] = {}
      BY ConstantsAssumption
    <3>2. \A u \in Tickets : \A h \in History[u] : message'[h].ticket \in {u, Nowhere}
      BY <2>0, <2>2, <3>1
    <3>3. \A k \in Keys : message'[k].copy => message'[k].ticket # Nowhere /\ k \in HistoryKeys
      BY <2>0, <2>2, <3>1
    <3>4. \A k \in Keys : message'[k].ticket = Nowhere => message'[k].seq = 0
      BY <2>0, <2>2, <3>1
    <3> QED BY <2>0, <2>2, <3>2, <3>3, <3>4
  <2> QED BY <1>2, <2>1, <2>2
<1>3. CASE Silent
  BY <1>1, <1>2, <1>3 DEF Silent, HistoryStaysHome, Errand, Written
<1>4. CASE ~Silent
  <2>1. PICK t \in Tickets : \E new \in SUBSET History[t] : \E own \in SUBSET Keys :
           /\ Grown(t, new, own) /\ UNCHANGED <<merged, problem>>
           /\ \/ own = {} /\ BackfillPuts(t, new)
              \/ \E k \in Keys : own = {k} /\ WritePuts(t, new, k)
    BY <1>4, Growth
  <2>2. PICK new \in SUBSET History[t], own \in SUBSET Keys :
           /\ Grown(t, new, own) /\ UNCHANGED <<merged, problem>>
           /\ \/ own = {} /\ BackfillPuts(t, new)
              \/ \E k \in Keys : own = {k} /\ WritePuts(t, new, k)
    BY <2>1
  <2>3. \A k \in own : k \in HistoryKeys => k \in History[t]
    BY <2>2, ConstantsAssumption DEF WritePuts
  <2>4. new \in SUBSET Keys /\ new \subseteq HistoryKeys
    BY MissingIsHistory
  <2>5. /\ new \cup own \in SUBSET Keys
        /\ \A k \in Keys \ (new \cup own) : message'[k] = message[k]
        /\ \A k \in new \cup own : /\ message'[k].ticket = t
                                   /\ k \in HistoryKeys => k \in History[t]
                                   /\ message'[k].copy => k \in HistoryKeys
    BY <2>2, <2>3, <2>4 DEF Grown
  <2>6. UNCHANGED problem
    BY <2>2
  <2> QED BY <1>1, <1>2, <2>5, <2>6 DEF HistoryStaysHome, Errand, Written
<1> QED BY <1>3, <1>4

LEMMA HomeInit == Init => HistoryStaysHome
BY ConstantsAssumption DEF Init, HistoryStaysHome, HistoryKeys, Unwritten, Written, Idle

\* The rows are kept by those at work on them, and history stays on its ticket.
THEOREM ThreadCorrect == Spec => []ThreadInv
<1>1. Init => TypeOK /\ ThreadInv
  BY TypeInit, RowsInit, HomeInit DEF ThreadInv
<1>2. TypeOK /\ ThreadInv /\ [Next]_vars => (TypeOK /\ ThreadInv)'
  BY TypeStep, RowsStep, HomeStep DEF ThreadInv
<1> QED BY <1>1, <1>2, PTL DEF Spec

\* Nothing on a thread that has no number yet.
LEMMA EmptyThread ==
  ASSUME TypeOK, SeqsAreDense, NEW t \in Tickets, last[t] = 0
  PROVE  \A k \in Keys : ~On(k, t)
BY DEF SeqsAreDense

\* What a step puts on a thread leaves the history before it in order.
LEMMA FirstPut ==
  ASSUME TypeOK, ThreadInv, SeqsAreDense, HistoryFirst, CopiedWhole, NEW t \in Tickets,
         NEW new \in SUBSET History[t], NEW own \in SUBSET Keys, Grown(t, new, own),
         \/ own = {} /\ BackfillPuts(t, new)
         \/ \E k \in Keys : own = {k} /\ WritePuts(t, new, k),
         UNCHANGED <<merged, problem>>
  PROVE  HistoryFirst' /\ CopiedWhole'
<1> DEFINE put == new \cup own
<1>0. /\ last[t] \in Nat /\ last'[t] \in Nat
      /\ \A k \in Keys \ put : message'[k] = message[k]
      /\ \A k \in put : /\ k \in Keys /\ ~Written(k) /\ message'[k].ticket = t
                        /\ message'[k].seq \in last[t] + 1 .. last'[t]
      /\ \A u \in Tickets \ {t} : last'[u] = last[u]
  BY DEF Grown
<1>1. \A u \in Tickets : /\ History[u] \subseteq Keys /\ History[u] \subseteq HistoryKeys
                         /\ u # t => History[u] \cap History[t] = {}
  BY MissingIsHistory, ConstantsAssumption
<1>2. /\ \A u \in Tickets : \A h \in History[u] : message[h].ticket \in {u, Nowhere}
      /\ \A k \in Keys : message[k].copy => k \in HistoryKeys /\ Written(k)
      /\ problem \subseteq Unclear /\ Nowhere \notin Tickets
  BY ConstantsAssumption DEF ThreadInv, HistoryStaysHome
<1>3. \A k \in own : k \in HistoryKeys => k \in History[t] /\ t \in Fresh /\ History[t] = {k}
  BY ConstantsAssumption DEF WritePuts, ThreadInv
<1>4. \A u \in Tickets \ {t} : put \cap History[u] = {}
  BY <1>1, <1>3
<1>5. \A k \in Keys, u \in Tickets : message'[k].ticket = u =>
        (On(k, u) /\ k \notin put /\ message'[k] = message[k]) \/ (k \in put /\ u = t)
  BY <1>0, <1>2 DEF On, Written
<1>6. \A k \in Keys : On(k, t) => message[k].seq \in 1 .. last[t]
  BY DEF SeqsAreDense
\* The first words of a fresh ticket, and a history that is not refused.
<1>7. ASSUME NEW h \in own \cap History[t] PROVE last[t] = 0 /\ new = {}
  <2>1. t \in Fresh /\ History[t] = {h}
    BY <1>1, <1>3, <1>7
  <2>2. t \notin Unclear /\ ~Written(h)
    BY <1>0, <1>7, <2>1, ConstantsAssumption
  <2>3. ~(last[t] > 0)
    BY <1>2, <2>1, <2>2 DEF CopiedWhole, On, Written
  <2>4. new = {}
    BY <1>7, <2>1 DEF Grown
  <2> QED BY <1>0, <2>3, <2>4
<1>8. ASSUME NEW h \in new, NEW k \in Keys, On(k, t)
      PROVE  k \in History[t] /\ Said[k] < Said[h]
  <2>1. CASE own # {}
    <3>1. last[t] = 0
      BY <1>8, <2>1 DEF WritePuts, FirstCopies
    <3> QED BY <1>8, <3>1, EmptyThread
  <2>2. CASE own = {}
    <3>1. ~Refused(t, History[t]) /\ h \in Missing(t, History[t])
      BY <1>8, <2>2 DEF BackfillPuts
    <3>2. ~LaterThan(k, h)
      BY <1>8, <3>1 DEF Refused
    <3>3. message[k].copy /\ ~(Said[k] > Said[h])
      BY <3>2 DEF LaterThan
    <3>4. k \in HistoryKeys /\ h \in HistoryKeys /\ k # h
      BY <1>0, <1>1, <1>2, <1>8, <3>3 DEF Grown
    <3>5. k \in History[t]
      BY <1>2, <1>8, <3>4 DEF HistoryKeys, On
    <3>6. Said[k] \in Nat /\ Said[h] \in Nat /\ Said[k] # Said[h]
      BY <1>1, <1>8, <3>4, ConstantsAssumption
    <3> QED BY <3>3, <3>5, <3>6
  <2> QED BY <2>1, <2>2
<1>9. ASSUME NEW u \in Tickets, NEW h \in History[u], NEW k \in Keys, message'[h].ticket = u,
             message'[k].ticket = u, message'[k].seq < message'[h].seq
      PROVE  k \in History[u] /\ Said[k] < Said[h]
  <2>0. h \in Keys
    BY <1>1
  <2>1. CASE h \notin put /\ k \notin put
    <3>1. On(h, u) /\ On(k, u) /\ message[k].seq < message[h].seq
      BY <1>5, <1>9, <2>0, <2>1
    <3> QED BY <3>1 DEF HistoryFirst, ShownBefore
  <2>2. CASE h \notin put /\ k \in put
    <3>1. u = t /\ On(h, t) /\ message'[h].seq \in 1 .. last[t] /\ message'[k].seq \in last[t] + 1 .. last'[t]
      BY <1>0, <1>5, <1>6, <1>9, <2>0, <2>2
    <3> QED BY <1>0, <1>9, <3>1
  <2>3. CASE h \in put /\ k \notin put
    <3>1. u = t /\ On(k, t) /\ (h \in new \/ h \in own)
      BY <1>5, <1>9, <2>0, <2>3
    <3>2. CASE h \in new
      BY <1>8, <3>1, <3>2
    <3>3. CASE h \in own
      <4>1. last[t] = 0
        BY <1>7, <3>1, <3>3
      <4> QED BY <3>1, <4>1, EmptyThread
    <3> QED BY <3>1, <3>2, <3>3
  <2>4. CASE h \in put /\ k \in put
    <3>1. u = t /\ k \in new /\ (h \in new => Said[k] < Said[h])
      BY <1>5, <1>9, <2>0, <2>4 DEF Grown
    <3>2. h \in new
      BY <1>7, <2>4, <3>1
    <3> QED BY <3>1, <3>2
  <2> QED BY <2>1, <2>2, <2>3, <2>4
<1>10. ASSUME NEW u \in Tickets, last'[u] > 0
       PROVE  \/ \A h \in History[u] : message'[h].ticket = u
              \/ u \in Unclear /\ \A h \in History[u] : message'[h].ticket = Nowhere
  <2>1. CASE u # t
    <3>1. last[u] > 0 /\ \A h \in History[u] : message'[h] = message[h]
      BY <1>0, <1>1, <1>4, <1>10, <2>1
    <3> QED BY <3>1 DEF CopiedWhole, On, Written
  <2>2. CASE u = t /\ own = {}
    <3>1. \A h \in History[t] : h \in new \/ Written(h)
      BY <2>2 DEF BackfillPuts, Missing
    <3>2. \A h \in History[t] : message'[h].ticket = t
      BY <1>0, <1>1, <1>2, <3>1 DEF Written
    <3> QED BY <2>2, <3>2
  <2>3. ASSUME u = t, NEW k \in Keys, own = {k}, WritePuts(t, new, k)
        PROVE  \/ \A h \in History[t] : message'[h].ticket = t
               \/ t \in Unclear /\ \A h \in History[t] : message'[h].ticket = Nowhere
    <3>1. CASE \A h \in History[t] : h \in put \/ On(h, t)
      BY <1>0, <1>1, <3>1 DEF On
    <3>2. CASE last[t] > 0 /\ ~(\A h \in History[t] : On(h, t))
      <4>1. t \in Unclear /\ \A h \in History[t] : ~Written(h)
        BY <3>2 DEF CopiedWhole
      <4>2. new = {}
        BY <1>0, <2>3, <3>2 DEF WritePuts, FirstCopies
      <4>3. k \notin History[t]
        BY <1>7, <2>3, <3>2
      <4> QED BY <1>0, <1>1, <2>3, <4>1, <4>2, <4>3 DEF Written
    <3>3. CASE last[t] = 0
      <4>1. \A j \in Keys : ~On(j, t)
        BY <3>3, EmptyThread
      <4>2. \A h \in History[t] : ~Written(h)
        BY <1>1, <1>2, <4>1 DEF On, Written
      <4> DEFINE wanted == History[t] \ {k}
      <4>3. CASE Refused(t, wanted)
        <5>1. t \in problem
          BY <1>1, <1>2, <4>1, <4>3 DEF Refused
        <5>2. new = {}
          BY <2>3, <4>3 DEF WritePuts, FirstCopies
        <5>3. k \notin History[t]
          BY <1>1, <1>2, <1>3, <2>3, <5>1, ConstantsAssumption
        <5> QED BY <1>0, <1>1, <1>2, <2>3, <4>2, <5>1, <5>2, <5>3 DEF Written
      <4>4. CASE ~Refused(t, wanted)
        <5>1. new = Missing(t, wanted)
          BY <2>3, <3>3, <4>4 DEF WritePuts, FirstCopies
        <5>2. \A h \in History[t] : h \in put
          BY <2>3, <4>2, <5>1 DEF Missing
        <5> QED BY <3>1, <5>2
      <4> QED BY <4>3, <4>4
    <3> QED BY <1>0, <3>1, <3>2, <3>3
  <2> QED BY <2>1, <2>2, <2>3
<1>11. HistoryFirst'
  BY <1>9 DEF HistoryFirst, ShownBefore, On
<1>12. CopiedWhole'
  BY <1>10 DEF CopiedWhole, On, Written
<1> QED BY <1>11, <1>12

LEMMA FirstStep ==
  TypeOK /\ ThreadInv /\ SeqsAreDense /\ HistoryFirst /\ CopiedWhole /\ [Next]_vars =>
    HistoryFirst' /\ CopiedWhole'
<1> SUFFICES ASSUME TypeOK, ThreadInv, SeqsAreDense, HistoryFirst, CopiedWhole, [Next]_vars
             PROVE  HistoryFirst' /\ CopiedWhole'
  OBVIOUS
<1>1. CASE Silent
  BY <1>1 DEF Silent, HistoryFirst, ShownBefore, CopiedWhole, On, Written
<1>2. CASE ~Silent
  <2>1. PICK t \in Tickets : \E new \in SUBSET History[t] : \E own \in SUBSET Keys :
           /\ Grown(t, new, own) /\ UNCHANGED <<merged, problem>>
           /\ \/ own = {} /\ BackfillPuts(t, new)
              \/ \E k \in Keys : own = {k} /\ WritePuts(t, new, k)
    BY <1>2, Growth DEF ThreadInv
  <2> QED BY <2>1, FirstPut
<1> QED BY <1>1, <1>2

\* C13 and D4: history comes first, in its order, and whole.
THEOREM HistoryComesFirst == Spec => [](HistoryFirst /\ CopiedWhole)
<1> DEFINE IInv == TypeOK /\ ThreadInv /\ SeqsAreDense /\ HistoryFirst /\ CopiedWhole
<1>1. Init => IInv
  <2>1. Init => SeqsAreDense /\ HistoryFirst /\ CopiedWhole
    BY ConstantsAssumption, MissingIsHistory
    DEF Init, SeqsAreDense, HistoryFirst, ShownBefore, CopiedWhole, On, Unwritten
  <2> QED BY <2>1, TypeInit, RowsInit, HomeInit DEF ThreadInv
<1>2. IInv /\ [Next]_vars => IInv'
  BY TypeStep, RowsStep, HomeStep, DenseStep, FirstStep DEF ThreadInv
<1> QED BY <1>1, <1>2, PTL DEF Spec

-----------------------------------------------------------------------------
(* What callers and merged tickets are promised.                           *)

LEMMA AckedStep == TypeOK /\ RowsAreKept /\ AckedIsWritten /\ [Next]_vars => AckedIsWritten'
<1> SUFFICES ASSUME TypeOK, RowsAreKept, AckedIsWritten, [Next]_vars PROVE AckedIsWritten'
  OBVIOUS
<1>1. CASE Silent
  BY <1>1 DEF Silent, AckedIsWritten, On
<1>2. CASE ~Silent
  <2>1. PICK t \in Tickets : \E new \in SUBSET History[t] : \E own \in SUBSET Keys :
           /\ Grown(t, new, own)
           /\ \/ own = {} /\ BackfillPuts(t, new)
              \/ \E k \in Keys : own = {k} /\ WritePuts(t, new, k)
    BY <1>2, Growth
  <2>2. PICK new \in SUBSET History[t], own \in SUBSET Keys :
           /\ Grown(t, new, own)
           /\ \/ own = {} /\ BackfillPuts(t, new)
              \/ \E k \in Keys : own = {k} /\ WritePuts(t, new, k)
    BY <2>1
  <2>3. \A a \in acked' : a \in acked \/ \E k \in own : a = <<k, t>>
    BY <2>2 DEF BackfillPuts, WritePuts
  <2>4. \A a \in acked : a[1] \in Keys /\ a[2] \in Tickets /\ On(a[1], a[2])
    BY DEF TypeOK, AckedIsWritten
  <2>5. \A k \in Keys, u \in Tickets : On(k, u) => message'[k] = message[k]
    BY <2>2, ConstantsAssumption DEF Grown, On, Written
  <2>6. \A a \in acked : message'[a[1]].ticket = a[2]
    BY <2>4, <2>5 DEF On
  <2>7. \A k \in own : message'[k].ticket = t
    BY <2>2 DEF Grown
  <2> QED BY <2>3, <2>6, <2>7 DEF AckedIsWritten, On
<1> QED BY <1>1, <1>2

\* C8: what a call returned stays where it said.
THEOREM AckedStaysWritten == Spec => []AckedIsWritten
<1>1. Init => TypeOK /\ RowsAreKept /\ AckedIsWritten
  BY TypeInit, RowsInit DEF Init, AckedIsWritten
<1>2. TypeOK /\ RowsAreKept /\ AckedIsWritten /\ [Next]_vars => (TypeOK /\ RowsAreKept /\ AckedIsWritten)'
  BY TypeStep, RowsStep, AckedStep
<1> QED BY <1>1, <1>2, PTL DEF Spec

\* C10: a merged ticket takes no more messages, whatever races with the merge.
THEOREM MergedIsClosed == Spec => MergedTakesNothing
<1> DEFINE IInv == TypeOK /\ RowsAreKept
           A == \A k \in Keys : ~Written(k) /\ Written(k)' /\ ~message'[k].copy =>
                  message'[k].ticket \notin merged
<1>1. Init => IInv
  BY TypeInit, RowsInit
<1>2. IInv /\ [Next]_vars => IInv'
  BY TypeStep, RowsStep
<1>3. IInv /\ [Next]_vars => [A]_vars
  <2> SUFFICES ASSUME TypeOK, RowsAreKept, [Next]_vars PROVE A
    OBVIOUS
  <2>1. CASE Silent
    BY <2>1 DEF Silent, Written
  <2>2. CASE ~Silent
    <3>1. PICK t \in Tickets : \E new \in SUBSET History[t] : \E own \in SUBSET Keys :
             /\ Grown(t, new, own)
             /\ \/ own = {} /\ BackfillPuts(t, new)
                \/ \E k \in Keys : own = {k} /\ WritePuts(t, new, k)
      BY <2>2, Growth
    <3>2. PICK new \in SUBSET History[t], own \in SUBSET Keys :
             /\ Grown(t, new, own)
             /\ \/ own = {} /\ BackfillPuts(t, new)
                \/ \E k \in Keys : own = {k} /\ WritePuts(t, new, k)
      BY <3>1
    <3>3. own # {} => t \notin merged
      BY <3>2 DEF WritePuts
    <3>4. \A k \in Keys : message'[k] = message[k] \/ k \in new \/ k \in own
      BY <3>2 DEF Grown
    <3>5. ASSUME NEW k \in Keys, ~Written(k), Written(k)', ~message'[k].copy
          PROVE  message'[k].ticket \notin merged
      <4>1. message'[k] # message[k] /\ k \notin new
        BY <3>2, <3>5 DEF Grown, Written
      <4>2. k \in own
        BY <3>4, <4>1
      <4> QED BY <3>2, <3>3, <4>2 DEF Grown
    <3> QED BY <3>5
  <2> QED BY <2>1, <2>2
<1> QED BY <1>1, <1>2, <1>3, PTL DEF Spec, MergedTakesNothing

-----------------------------------------------------------------------------
(* The conversation is the log its readers are promised.                   *)

LEMMA LogStep ==
  TypeOK /\ ThreadInv /\ SeqsAreDense /\ [Next]_vars =>
    \/ UNCHANGED <<last, message, merged>>
    \/ Log!Next
<1> SUFFICES ASSUME TypeOK, ThreadInv, SeqsAreDense, [Next]_vars, ~(UNCHANGED <<last, message, merged>>)
             PROVE  Log!Next
  OBVIOUS
<1>1. CASE Silent
  <2>1. PICK t \in Tickets : merged' = merged \cup {t}
    BY <1>1 DEF Silent
  <2>2. Log!Close(t)
    BY <1>1, <2>1 DEF Silent, Log!Close
  <2> QED BY <2>2 DEF Log!Next
<1>2. CASE ~Silent
  <2>1. PICK t \in Tickets : \E new \in SUBSET History[t] : \E own \in SUBSET Keys :
           /\ Grown(t, new, own) /\ UNCHANGED <<merged, problem>>
           /\ \/ own = {} /\ BackfillPuts(t, new)
              \/ \E k \in Keys : own = {k} /\ WritePuts(t, new, k)
    BY <1>2, Growth DEF ThreadInv
  <2>2. PICK new \in SUBSET History[t], own \in SUBSET Keys :
           /\ Grown(t, new, own) /\ UNCHANGED <<merged, problem>>
           /\ \/ own = {} /\ BackfillPuts(t, new)
              \/ \E k \in Keys : own = {k} /\ WritePuts(t, new, k)
    BY <2>1
  <2> DEFINE put == new \cup own
             place == [k \in Keys |-> <<message[k].ticket, message[k].seq>>]
  <2>3. /\ last[t] \in Nat /\ last'[t] \in Nat /\ last'[t] >= last[t]
        /\ \A u \in Tickets \ {t} : last'[u] = last[u]
        /\ \A k \in Keys \ put : message'[k] = message[k]
        /\ \A k \in put : /\ k \in Keys /\ ~Written(k)
                          /\ message'[k].ticket = t
                          /\ message'[k].seq \in last[t] + 1 .. last'[t]
        /\ \A i \in last[t] + 1 .. last'[t] : \E k \in put : message'[k].seq = i
        /\ \A j, k \in put : message'[j].seq = message'[k].seq => j = k
    BY <2>2 DEF Grown
  <2>4. \A k \in put : t \in merged => k \in History[t]
    BY <2>2 DEF WritePuts
  <2> HIDE DEF put
  <2>5. \A k \in Keys : /\ place[k] = <<message[k].ticket, message[k].seq>>
                        /\ place'[k] = <<message'[k].ticket, message'[k].seq>>
    OBVIOUS
  <2> HIDE DEF place
  <2>6. \A k \in put : /\ place[k] = <<Nowhere, 0>>
                       /\ place'[k] = <<t, message'[k].seq>>
    BY <2>3, <2>5 DEF Written, ThreadInv, HistoryStaysHome
  <2>7. \A k \in Keys \ put : place'[k] = place[k]
    BY <2>3, <2>5
  <2>8. \A k \in Keys : place'[k] # place[k] =>
          /\ place[k] = <<Nowhere, 0>>
          /\ \E i \in last[t] + 1 .. last'[t] : place'[k] = <<t, i>>
          /\ t \in merged => k \in History[t]
    BY <2>3, <2>4, <2>6, <2>7
  <2>9. \A i \in last[t] + 1 .. last'[t] : \E k \in Keys : place'[k] = <<t, i>>
    BY <2>3, <2>6
  <2>10. \A j, k \in Keys : place'[j] # place[j] /\ place'[k] = place'[j] => j = k
    <3> SUFFICES ASSUME NEW j \in Keys, NEW k \in Keys, place'[j] # place[j], place'[k] = place'[j]
                 PROVE  j = k
      OBVIOUS
    <3>1. j \in put /\ place'[j] = <<t, message'[j].seq>> /\ message'[j].seq \in last[t] + 1 .. last'[t]
      BY <2>3, <2>6, <2>7
    <3>2. message'[k].ticket = t /\ message'[k].seq = message'[j].seq
      BY <2>5, <3>1
    <3>3. k \in put
      <4> SUFFICES ASSUME k \notin put PROVE FALSE
        OBVIOUS
      <4>1. On(k, t) /\ message[k].seq = message'[j].seq
        BY <2>3, <3>2 DEF On
      <4>2. message[k].seq \in 1 .. last[t]
        BY <4>1 DEF SeqsAreDense
      <4> QED BY <2>3, <3>1, <4>1, <4>2
    <3> QED BY <2>3, <3>1, <3>2, <3>3
  <2>11. Log!Grow(t)
    BY <2>2, <2>3, <2>8, <2>9, <2>10 DEF Log!Grow, place
  <2> QED BY <2>11 DEF Log!Next
<1> QED BY <1>1, <1>2

\* The writers, with their locks and their transactions, implement ThreadLog.
THEOREM KeepsItsPromise == Spec => ImplementsThreadLog
<1> DEFINE IInv == TypeOK /\ ThreadInv /\ SeqsAreDense
<1>1. Init => IInv
  <2>1. Init => SeqsAreDense
    BY ConstantsAssumption DEF Init, SeqsAreDense, On, Unwritten
  <2> QED BY <2>1, TypeInit, RowsInit, HomeInit DEF ThreadInv
<1>2. IInv /\ [Next]_vars => IInv'
  BY TypeStep, RowsStep, HomeStep, DenseStep DEF ThreadInv
<1>3. Init => Log!Init
  BY ConstantsAssumption DEF Init, Log!Init, Unwritten
<1>4. IInv /\ [Next]_vars => [Log!Next]_(Log!logVars)
  <2>1. UNCHANGED <<last, message, merged>> => UNCHANGED Log!logVars
    BY DEF Log!logVars
  <2> QED BY <2>1, LogStep
<1> QED BY <1>1, <1>2, <1>3, <1>4, PTL DEF Spec, ImplementsThreadLog, Log!Spec
=============================================================================
