---------------------------- MODULE Conversation ----------------------------
(***************************************************************************)
(* The ticket conversation: the rows of conversations and                  *)
(* conversation_messages, and their only writers (repos/conversations.ts): *)
(* appendMessage, backfillConversation, and the lock a merge puts on the   *)
(* thread of the ticket it closes (repos/threading.ts).                    *)
(*                                                                         *)
(* Each of the three is a transaction of several statements.  A statement  *)
(* that inserts or updates a row keeps the row until the transaction ends, *)
(* and one that meets a row kept by another waits; statements that only    *)
(* read do not wait and may read what is changed a moment later.  An       *)
(* idempotency key stands for the message first written under it; whether  *)
(* a later call under it has the same words and author is left open.       *)
(***************************************************************************)
EXTENDS Naturals, FiniteSets

CONSTANTS
  Tickets,
  Keys,
  History,    \* of each ticket: the keys planLegacyThread gives its record
  Opening,    \* of each ticket: the key of its opening message
  Said,       \* when the record of a history key was made: a number, the order
  Fresh,      \* tickets intake opened: intake may write their opening message
  Absorbed,   \* tickets that may have been merged before there were conversations
  Unclear,    \* tickets whose record may lack what cannot be guessed
  Writers,    \* processes inside appendMessage
  Backfills,  \* processes inside backfillConversation
  Mergers,    \* processes inside mergeTicket
  Nobody,     \* holds no row
  Nowhere     \* the ticket of a message that is not written

Procs == Writers \cup Backfills \cup Mergers
HistoryKeys == UNION {History[t] : t \in Tickets}

ASSUME ConstantsAssumption ==
  /\ History \in [Tickets -> SUBSET Keys]
  /\ \A t \in Tickets : IsFiniteSet(History[t])
  /\ Opening \in [Tickets -> Keys]
  /\ \A t \in Tickets : Opening[t] \in History[t]
  /\ \A t, u \in Tickets : t # u => History[t] \cap History[u] = {}
  /\ Said \in [Keys -> Nat]
  /\ \A j, k \in HistoryKeys : Said[j] = Said[k] => j = k
  /\ Fresh \subseteq Tickets
  /\ \A t \in Fresh : History[t] = {Opening[t]}
  /\ Absorbed \subseteq Tickets \ Fresh
  /\ Unclear \subseteq Tickets \ Fresh
  /\ Writers \cap Backfills = {}
  /\ Mergers \cap (Writers \cup Backfills) = {}
  /\ Nobody \notin Procs
  /\ Nowhere \notin Tickets

VARIABLES
  conv,     \* conversations.status of each ticket, "none" without a row
  last,     \* conversations.last_seq
  message,  \* conversation_messages by key: the thread, the seq, is it a copy
  holder,   \* the transaction that keeps the conversation row
  merged,   \* tickets with a merged_into_id
  problem,  \* tickets whose record planLegacyThread still refuses
  call,     \* where each transaction is, and what it has read
  acked     \* <<key, ticket>>: calls that returned a message to their caller

rows == <<conv, last, message, holder>>
vars == <<conv, last, message, holder, merged, problem, call, acked>>

Unwritten == [ticket |-> Nowhere, seq |-> 0, copy |-> FALSE]
Idle == [at |-> "idle", ticket |-> Nowhere, key |-> Nowhere, was |-> "same",
         merged |-> FALSE, seq |-> 0]

\* "was" is the row a rollback restores: "same" when the transaction has not
\* changed it, "none" when it inserted it.
Calls == [at : {"idle", "locking", "writing", "opening", "copying", "merging", "marking"},
          ticket : Tickets \cup {Nowhere},
          key : Keys \cup {Nowhere},
          was : {"same", "none", "open", "locked"},
          merged : BOOLEAN,   \* merged_into_id, as the backfill read it
          seq : Nat]          \* last_seq, as the append read it

TypeOK ==
  /\ conv \in [Tickets -> {"none", "open", "locked"}]
  /\ last \in [Tickets -> Nat]
  /\ message \in [Keys -> [ticket : Tickets \cup {Nowhere}, seq : Nat, copy : BOOLEAN]]
  /\ holder \in [Tickets -> Procs \cup {Nobody}]
  /\ merged \subseteq Tickets
  /\ problem \subseteq Tickets
  /\ call \in [Procs -> Calls]
  /\ \A p \in Procs : call[p].at # "idle" => call[p].ticket \in Tickets
  /\ \A p \in Procs : call[p].at \in {"locking", "writing"} => call[p].key \in Keys
  /\ acked \subseteq Keys \X Tickets

Init ==
  /\ conv = [t \in Tickets |-> "none"]
  /\ last = [t \in Tickets |-> 0]
  /\ message = [k \in Keys |-> Unwritten]
  /\ holder = [t \in Tickets |-> Nobody]
  /\ merged \in SUBSET Absorbed
  /\ problem \in SUBSET Unclear
  /\ call = [p \in Procs |-> Idle]
  /\ acked = {}

On(k, t) == message[k].ticket = t
Written(k) == message[k].ticket # Nowhere

\* threadFor and messagesFor: a ticket's messages by seq, copies like any other.
ShownBefore(j, k, t) == On(j, t) /\ On(k, t) /\ message[j].seq < message[k].seq

-----------------------------------------------------------------------------
(* Transactions and the conversation row.                                  *)

\* An insert or an upsert waits for the transaction that inserted the row.
Inserting(t) == \E p \in Procs : holder[t] = p /\ call[p].was = "none"

\* A statement that locks the row waits for whoever keeps it.
Available(p, t) == holder[t] \in {Nobody, p}

\* Broken: the connection goes back to the pool inside its transaction.
ReleasedNothing(p) == holder

Released(p) == [t \in Tickets |-> IF holder[t] = p THEN Nobody ELSE holder[t]]

Commit(p) ==
  /\ holder' = Released(p)
  /\ call' = [call EXCEPT ![p] = Idle]

\* The call throws: what it wrote is undone, the row it inserted included.
Rollback(p) ==
  /\ conv' = IF call[p].was = "same" THEN conv
             ELSE [conv EXCEPT ![call[p].ticket] = call[p].was]
  /\ Commit(p)
  /\ UNCHANGED <<last, message, merged, problem, acked>>

\* A statement fails, or the process dies, before the commit.
Abort(p) == call[p].at # "idle" /\ Rollback(p)

\* insert ... on conflict do nothing, as status s when there is no row.
EnsureRow(p, t, s, label) ==
  IF conv[t] = "none" /\ s # "none"
    THEN /\ conv' = [conv EXCEPT ![t] = s]
         /\ holder' = [holder EXCEPT ![t] = p]
         /\ call' = [call EXCEPT ![p] = [label EXCEPT !.was = "none"]]
    ELSE /\ call' = [call EXCEPT ![p] = label]
         /\ UNCHANGED <<conv, holder>>

-----------------------------------------------------------------------------
(* copyLegacy.                                                             *)

Missing(t, wanted) == {h \in wanted : ~Written(h)}

\* What is on a thread is later than a record when it is no copy, or is the copy
\* of a later record.
LaterThan(k, h) == message[k].copy => Said[k] > Said[h]

\* Broken: a copy may land after words that came after it.
RefusedUnordered(t, wanted) ==
  \/ t \in problem
  \/ \E h \in wanted : message[h].ticket \notin {t, Nowhere}

Refused(t, wanted) ==
  \/ t \in problem
  \/ \E h \in wanted : message[h].ticket \notin {t, Nowhere}
  \/ \E k \in Keys, h \in Missing(t, wanted) : On(k, t) /\ LaterThan(k, h)

\* The seqs after n of the messages in new, in the order of their records.
Numbering(new, n, pos) ==
  /\ \A i \in n + 1 .. n + Cardinality(new) : \E k \in new : pos[k] = i
  /\ \A j, k \in new : Said[j] < Said[k] => pos[j] < pos[k]

Copies(n, new) ==
  {pos \in [new -> n + 1 .. n + Cardinality(new)] : Numbering(new, n, pos)}

Copied(t, pos, m) ==
  [k \in Keys |-> IF k \in DOMAIN pos
                    THEN [ticket |-> t, seq |-> pos[k], copy |-> TRUE]
                    ELSE m[k]]

-----------------------------------------------------------------------------
(* appendMessage.                                                          *)

\* lockPrimary's insert.  The caller has resolved the ticket on its own, before
\* and outside this transaction.
OpenPrimary(p, t, k) ==
  /\ call[p].at = "idle"
  /\ k \in HistoryKeys => t \in Fresh /\ k = Opening[t]
  /\ ~Inserting(t)
  /\ EnsureRow(p, t, IF t \in merged THEN "none" ELSE "open",
               [Idle EXCEPT !.at = "locking", !.ticket = t, !.key = k])
  /\ UNCHANGED <<last, message, merged, problem, acked>>

\* Broken: a key already used is taken for a retry, whatever thread it is on.
SameMessageAnywhere(p) == Written(call[p].key)

\* The key names a message of this thread, which may be this one.
SameMessage(p) == On(call[p].key, call[p].ticket)

\* Broken: the status of the row is not looked at.
LockPrimaryRegardless(p) ==
  LET c == call[p] IN
  /\ c.at = "locking"
  /\ Available(p, c.ticket)
  /\ ~Written(c.key) /\ conv[c.ticket] # "none"
  /\ holder' = [holder EXCEPT ![c.ticket] = p]
  /\ call' = [call EXCEPT ![p].at = "writing", ![p].seq = last[c.ticket]]
  /\ UNCHANGED <<conv, last, message, merged, problem, acked>>

\* select ... for update, and the lookup of the key under that lock.  A message
\* under the key may be this one; one of another thread, with other words or by
\* another author is a conflict.
LockPrimary(p) ==
  LET c == call[p]
      t == c.ticket
  IN
  /\ c.at = "locking"
  /\ Available(p, t)
  /\ \/ /\ SameMessage(p)
        /\ acked' = acked \cup {<<c.key, t>>}
        /\ Commit(p)
        /\ UNCHANGED <<conv, last, message, merged, problem>>
     \/ /\ Written(c.key) \/ conv[t] # "open"
        /\ Rollback(p)
     \/ /\ ~Written(c.key) /\ conv[t] = "open"
        /\ holder' = [holder EXCEPT ![t] = p]
        /\ call' = [call EXCEPT ![p].at = "writing", ![p].seq = last[t]]
        /\ UNCHANGED <<conv, last, message, merged, problem, acked>>

\* What a write copies before itself: the history, when it is the first.
FirstCopies(t, seq, k) ==
  LET wanted == History[t] \ {k} IN
  IF seq = 0 /\ ~Refused(t, wanted) THEN Missing(t, wanted) ELSE {}

\* The history, then the message.  A refused history stops neither; a key that
\* another thread took meanwhile meets the unique index.
Write(p) ==
  LET c == call[p]
      t == c.ticket
      new == FirstCopies(t, c.seq, c.key)
      end == (IF new = {} THEN last[t] ELSE c.seq + Cardinality(new)) + 1
  IN
  /\ c.at = "writing"
  /\ \/ Written(c.key) /\ Rollback(p)
     \/ /\ ~Written(c.key)
        /\ \E pos \in Copies(c.seq, new) :
             message' = [Copied(t, pos, message) EXCEPT
                           ![c.key] = [ticket |-> t, seq |-> end, copy |-> FALSE]]
        /\ last' = [last EXCEPT ![t] = end]
        /\ acked' = acked \cup {<<c.key, t>>}
        /\ Commit(p)
        /\ UNCHANGED <<conv, merged, problem>>

-----------------------------------------------------------------------------
(* backfillConversation.                                                   *)

BackfillReads(p, t) ==
  /\ call[p].at = "idle"
  /\ call' = [call EXCEPT ![p] = [Idle EXCEPT !.at = "opening", !.ticket = t,
                                              !.merged = t \in merged]]
  /\ UNCHANGED <<rows, merged, problem, acked>>

BackfillOpens(p) ==
  LET c == call[p] IN
  /\ c.at = "opening"
  /\ ~Inserting(c.ticket)
  /\ EnsureRow(p, c.ticket, IF c.merged THEN "locked" ELSE "open",
               [c EXCEPT !.at = "copying"])
  /\ UNCHANGED <<last, message, merged, problem, acked>>

\* Broken: the copies are not counted in last_seq.
BackfillCopiesUncounted(p) ==
  LET t == call[p].ticket
      new == Missing(t, History[t])
  IN
  /\ call[p].at = "copying"
  /\ Available(p, t)
  /\ ~Refused(t, History[t])
  /\ \E pos \in Copies(last[t], new) : message' = Copied(t, pos, message)
  /\ Commit(p)
  /\ UNCHANGED <<conv, last, merged, problem, acked>>

\* select ... for update, then copyLegacy.  Only holders of this row write its
\* history, so nothing comes in between.
BackfillCopies(p) ==
  LET t == call[p].ticket
      new == Missing(t, History[t])
  IN
  /\ call[p].at = "copying"
  /\ Available(p, t)
  /\ IF Refused(t, History[t])
       THEN Rollback(p)
       ELSE /\ \E pos \in Copies(last[t], new) : message' = Copied(t, pos, message)
            /\ last' = [last EXCEPT ![t] = @ + Cardinality(new)]
            /\ Commit(p)
            /\ UNCHANGED <<conv, merged, problem, acked>>

-----------------------------------------------------------------------------
(* mergeTicket, as far as the source's conversation is concerned.          *)

\* Both tickets are read without a lock, and only the target must be unmerged.
MergeReads(p, s) ==
  /\ call[p].at = "idle"
  /\ \E t \in Tickets \ {s} : t \notin merged
  /\ call' = [call EXCEPT ![p] = [Idle EXCEPT !.at = "merging", !.ticket = s]]
  /\ UNCHANGED <<rows, merged, problem, acked>>

\* Broken: the merge only marks the ticket.
LockConversationNot(p) ==
  /\ call[p].at = "merging"
  /\ call' = [call EXCEPT ![p].at = "marking"]
  /\ UNCHANGED <<rows, merged, problem, acked>>

\* lockConversation: an upsert, so that a first append waits for the row too.
LockConversation(p) ==
  LET s == call[p].ticket IN
  /\ call[p].at = "merging"
  /\ Available(p, s)
  /\ conv' = [conv EXCEPT ![s] = "locked"]
  /\ holder' = [holder EXCEPT ![s] = p]
  /\ call' = [call EXCEPT ![p].at = "marking", ![p].was = conv[s]]
  /\ UNCHANGED <<last, message, merged, problem, acked>>

MergeMarks(p) ==
  /\ call[p].at = "marking"
  /\ merged' = merged \cup {call[p].ticket}
  /\ Commit(p)
  /\ UNCHANGED <<conv, last, message, problem, acked>>

\* A person completes a record that planLegacyThread refused.
Repair(t) ==
  /\ t \in problem
  /\ problem' = problem \ {t}
  /\ UNCHANGED <<rows, merged, call, acked>>

-----------------------------------------------------------------------------
WriterStep(p) == LockPrimary(p) \/ Write(p)
BackfillStep(p) == BackfillOpens(p) \/ BackfillCopies(p)
MergeStep(p) == LockConversation(p) \/ MergeMarks(p)

Next ==
  \/ \E p \in Writers :
       \/ \E t \in Tickets, k \in Keys : OpenPrimary(p, t, k)
       \/ WriterStep(p)
  \/ \E p \in Backfills : BackfillStep(p) \/ \E t \in Tickets : BackfillReads(p, t)
  \/ \E p \in Mergers : MergeStep(p) \/ \E s \in Tickets : MergeReads(p, s)
  \/ \E p \in Procs : Abort(p)
  \/ \E t \in Tickets : Repair(t)

Spec == Init /\ [][Next]_vars

\* A statement returns once the row it waits for is let go.  Nobody has to start
\* anything.
Fairness ==
  /\ \A p \in Writers : SF_vars(LockPrimary(p)) /\ WF_vars(Write(p))
  /\ \A p \in Backfills : SF_vars(BackfillStep(p))
  /\ \A p \in Mergers : SF_vars(MergeStep(p))

FairSpec == Spec /\ Fairness

-----------------------------------------------------------------------------
(* Properties.                                                             *)

\* What the transactions rely on: a row that is kept is there, and its keeper is at
\* work on it; a write keeps an open one and has read its last_seq; a merged
\* ticket's row is not open, and neither a rollback nor a backfill that looked too
\* early opens it.
KeepsItsOwn(t, p) ==
  holder[t] = p =>
    /\ call[p].ticket = t
    /\ call[p].at \in {"locking", "writing", "copying", "marking"}
    /\ conv[t] # "none"

KnowsItsRow(p) ==
  LET c == call[p] IN
  /\ c.was # "same" => c.at # "idle" /\ holder[c.ticket] = p
  /\ c.was \in {"open", "locked"} => c.at = "marking"
  /\ c.at = "marking" => holder[c.ticket] = p /\ conv[c.ticket] = "locked"
  /\ c.at = "marking" /\ c.was = "open" => c.ticket \notin merged
  /\ c.at = "writing" => /\ holder[c.ticket] = p /\ conv[c.ticket] = "open"
                         /\ c.seq = last[c.ticket]
  /\ c.at = "opening" /\ ~c.merged /\ c.ticket \in merged =>
       conv[c.ticket] # "none" /\ ~Inserting(c.ticket)

RowsAreKept ==
  /\ \A t \in Tickets, p \in Procs : KeepsItsOwn(t, p)
  /\ \A p \in Procs : KnowsItsRow(p)
  /\ \A t \in merged : conv[t] # "open"

\* Which messages there can be: a history key is on its ticket or nowhere, a copy
\* is of history, and only a fresh ticket's opening is written as itself.
HistoryStaysHome ==
  /\ problem \subseteq Unclear
  /\ \A t \in Tickets : \A h \in History[t] : message[h].ticket \in {t, Nowhere}
  /\ \A k \in Keys : message[k].copy => Written(k) /\ k \in HistoryKeys
  /\ \A k \in Keys : ~Written(k) => message[k].seq = 0
  /\ \A p \in Procs : call[p].at \in {"locking", "writing"} /\ call[p].key \in HistoryKeys =>
       call[p].ticket \in Fresh /\ call[p].key = Opening[call[p].ticket]

ThreadInv == RowsAreKept /\ HistoryStaysHome

\* C2: the messages of a thread are numbered 1 to last_seq, with no gap and no
\* repeat, whatever appends, copies, merges and rollbacks interleave.
SeqsAreDense ==
  \A t \in Tickets :
    /\ \A i \in 1 .. last[t] : \E k \in Keys : On(k, t) /\ message[k].seq = i
    /\ \A k \in Keys : On(k, t) => message[k].seq \in 1 .. last[t]
    /\ \A j, k \in Keys : On(j, t) /\ On(k, t) /\ message[j].seq = message[k].seq => j = k

\* C13: what a ticket's record holds comes first in its thread, in the record's
\* order, also when traffic reaches the ticket before the backfill does.
HistoryFirst ==
  \A t \in Tickets : \A h \in History[t], k \in Keys :
    ShownBefore(k, h, t) => k \in History[t] /\ Said[k] < Said[h]

\* D4: a thread with anything in it has the whole history of its ticket, or none
\* of it because the record could not be read when the first words were written.
CopiedWhole ==
  \A t \in Tickets : last[t] > 0 =>
    \/ \A h \in History[t] : On(h, t)
    \/ t \in Unclear /\ \A h \in History[t] : ~Written(h)

\* C8: a caller that was given a message finds it where it was told, for good.
AckedIsWritten == \A a \in acked : On(a[1], a[2])

\* C10: a merged ticket takes no more messages, and the merge wins any race with
\* an append that found the thread open.  Only history is still copied.
MergedTakesNothing ==
  [][\A k \in Keys : ~Written(k) /\ Written(k)' /\ ~message'[k].copy =>
       message'[k].ticket \notin merged]_vars

\* The conversation is the log its readers are promised.
Log == INSTANCE ThreadLog WITH
  place <- [k \in Keys |-> <<message[k].ticket, message[k].seq>>],
  size <- last,
  closed <- merged,
  Nowhere <- <<Nowhere, 0>>

ImplementsThreadLog == Log!Spec

\* No transaction waits for ever: the rows they keep make no circle.
CallsReturn == \A p \in Procs : call[p].at # "idle" ~> call[p].at = "idle"
=============================================================================
