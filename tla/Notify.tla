------------------------------- MODULE Notify -------------------------------
(***************************************************************************)
(* Who is told of what: packages/core/src/notify with the directory and    *)
(* consent it reads (repos/notifications.ts), from the moment something is *)
(* worth telling to the row in the outbound queue.  Outbound takes over    *)
(* from that row.                                                          *)
(*                                                                         *)
(* A sender is a console request, a sweep, or a run of the agent (Pipeline *)
(* adds those).  It reads whom to tell once, then works through the list:  *)
(* policy and consent in one step, suppression and the insert under the    *)
(* idempotency key in the next, so anything may happen in between.         *)
(***************************************************************************)
EXTENDS Naturals, FiniteSets, Sequences

CONSTANTS
  Tickets, People, Nobody,
  Watching,      \* queue -> the active staff on it
  RequesterOf,   \* ticket -> the person who opened it
  Requests,      \* console requests and sweeps
  Runs,          \* runs of the agent: Pipeline's, senders like the others
  DigestAbove,   \* more tickets than this assigned at once are one message
  PrefixOf,      \* ticket -> the first eight characters of its id, in their order
  PrefixesKept,  \* prefixes of eight characters that fit in the key of a digest
  Scenarios      \* what may happen in a behaviour: each is one initial state

Clocks == {1, 2}   \* first_response, resolution
Statuses == {"new", "triaged", "awaiting_user", "awaiting_approval", "in_progress",
             "resolved", "closed", "reopened"}

ASSUME NotifyAssumption ==
  /\ Nobody \notin People
  /\ RequesterOf \in [Tickets -> People]
  /\ \A queue \in DOMAIN Watching : Watching[queue] \subseteq People
  /\ Requests \cap Runs = {}
  /\ IsFiniteSet(Tickets)
  /\ {DigestAbove, PrefixesKept} \subseteq Nat \ {0}
  /\ PrefixOf \in [Tickets -> Nat]
  /\ \A s \in Scenarios :
       /\ s.requests \subseteq Requests /\ s.runs \subseteq Runs
       /\ s.status \in Statuses /\ {s.words, s.faults} \subseteq Nat
       /\ s.assigns \cup s.resolves \subseteq SUBSET Tickets
       /\ s.clocks \subseteq Tickets \X Clocks

VARIABLES
  scene,       \* the scenario: never changes
  versions,    \* the settings of every version; the last is in force
  ticket,      \* ticket -> status, assignee, whether merged, who set the status
  near,        \* ticket -> its clocks past their warning point and not breached
  mail,        \* the rows of the outbound queue
  optedOut,    \* <<person, kind>>: kind may be "all"
  suppressed,  \* people whose address bounced
  hour,        \* the hour of the clock on the wall
  errand,      \* sender -> what it has still to do
  faults       \* crashes so far

notifyVars == <<scene, versions, ticket, near, mail, optedOut, suppressed, hour, errand, faults>>

Senders == Requests \cup Runs
Staff == UNION {Watching[queue] : queue \in DOMAIN Watching}
NotificationKind == {"assignment", "sla_warning", "escalation", "resolution"}

\* The kinds this tenant sends, the master switch, and where a notice goes that
\* has nobody to go to.
IsNotificationPolicy(policy) ==
  /\ policy.enabled \in BOOLEAN
  /\ policy.kinds \subseteq NotificationKind
  /\ policy.ops_address \in People \cup {Nobody}

Current == versions[Len(versions)]

\* One message to one person: fact is the clock of a warning, 0 otherwise.
Notice(kind, tickets, to, fact) ==
  [kind |-> kind, tickets |-> tickets, to |-> to, fact |-> fact]

\* What a sender holds: tickets to move to resolved, tickets moved whose
\* requester is to be told, notices to look at, and the one being sent.
NoErrand == [moving |-> {}, moved |-> {}, todo |-> {}, now |-> {}]

NotifyStart(s) ==
  /\ versions = << s.settings >>
  /\ ticket = [t \in Tickets |-> [status |-> s.status, assigned |-> Nobody,
                                  merged |-> FALSE, by |-> "system"]]
  /\ near = [t \in Tickets |-> {}]
  /\ mail = {} /\ optedOut = {} /\ suppressed = {}
  /\ hour = 1 /\ faults = 0
  /\ errand = [s1 \in Senders |-> NoErrand]

(***************************************************************************)
(* The row in the queue                                                    *)
(***************************************************************************)

\* digestFingerprint: the prefixes in order, cut to what fits.  <<i, p>>: the
\* i-th is p.
LowestPrefixes(ts) ==
  {ip \in (1 .. PrefixesKept) \X {PrefixOf[t] : t \in ts} :
     /\ Cardinality({t \in ts : PrefixOf[t] < ip[2]}) < ip[1]
     /\ ip[1] <= Cardinality({t \in ts : PrefixOf[t] <= ip[2]})}

IsDigest(n) == n.kind = "assignment" /\ Cardinality(n.tickets) > 1

\* The key of a digest names no ticket: their number, and the lowest prefixes.
DigestKey(n) ==
  [kind |-> "digest", tickets |-> {}, prefixes |-> LowestPrefixes(n.tickets), to |-> n.to,
   number |-> Cardinality(n.tickets)]

\* One key for everybody told of the same thing.
KeyOfTheFact(n) ==
  [kind |-> n.kind, tickets |-> n.tickets, prefixes |-> {}, to |-> Nobody, number |-> n.fact + hour]

\* One per person, ticket and hour; a digest for ever; a warning once per clock
\* for ever, whoever it is to.
KeyOf(n) ==
  LET Key(to, number) ==
        [kind |-> n.kind, tickets |-> n.tickets, prefixes |-> {}, to |-> to, number |-> number]
  IN CASE n.kind = "sla_warning" -> Key(Nobody, n.fact)
       [] IsDigest(n) -> DigestKey(n)
       [] OTHER -> Key(n.to, hour)

RowsWith(key) == {row \in mail : row.key = key}

\* queueOutbound: one row per key; to a suppressed address it is a dead one.
QueueOutbound(n, key) ==
  mail' = IF RowsWith(key) # {} THEN mail
          ELSE mail \cup {[key |-> key, to |-> n.to, suppressed |-> n.to \in suppressed,
                           kind |-> n.kind, tickets |-> n.tickets, hour |-> hour,
                           fact |-> n.fact]}

IsOptedOut(p, kind) == <<p, kind>> \in optedOut \/ <<p, "all">> \in optedOut

Sends(kind) == Current.notifications.enabled /\ kind \in Current.notifications.kinds

\* notify, as far as the queue: does this tenant send this, does the person
\* want it?
CheckNotice(s) ==
  /\ errand[s].now = {}
  /\ \E n \in errand[s].todo :
       errand' = [errand EXCEPT ![s].todo = @ \ {n},
                    ![s].now = IF Sends(n.kind) /\ ~IsOptedOut(n.to, n.kind) THEN {n} ELSE {}]
  /\ UNCHANGED <<scene, versions, ticket, near, mail, optedOut, suppressed, hour, faults>>

QueueNotice(s) ==
  /\ \E n \in errand[s].now : QueueOutbound(n, KeyOf(n))
  /\ errand' = [errand EXCEPT ![s].now = {}]
  /\ UNCHANGED <<scene, versions, ticket, near, optedOut, suppressed, hour, faults>>

(***************************************************************************)
(* The moments worth telling                                               *)
(***************************************************************************)

\* bulkAssign: one update, then one message per ticket, or one for them all.
AssignmentNotices(ts, p) ==
  CASE p = Nobody -> {}
    [] p # Nobody /\ Cardinality(ts) > DigestAbove -> {Notice("assignment", ts, p, 0)}
    [] OTHER -> {Notice("assignment", {t}, p, 0) : t \in ts}

\* assignTicket and bulkUpdateTickets: whoever had them has not any more.
Assigned(ts, p) ==
  [t \in Tickets |-> IF t \in ts THEN [ticket[t] EXCEPT !.assigned = p] ELSE ticket[t]]

AssignTickets(q, ts, p) ==
  /\ errand[q] = NoErrand
  /\ ticket' = Assigned(ts, p)
  /\ errand' = [errand EXCEPT ![q].todo = AssignmentNotices(ts, p)]
  /\ UNCHANGED <<scene, versions, near, mail, optedOut, suppressed, hour, faults>>

\* changeStatus and bulkStatus, to resolved: every ticket is moved, then every
\* requester is looked at.
AskResolve(q, ts) ==
  /\ errand[q] = NoErrand
  /\ errand' = [errand EXCEPT ![q].moving = ts]
  /\ UNCHANGED <<scene, versions, ticket, near, mail, optedOut, suppressed, hour, faults>>

MoveTicket(q, t) ==
  /\ t \in errand[q].moving
  /\ ticket' = [ticket EXCEPT ![t].status = "resolved", ![t].by = "person"]
  /\ errand' = [errand EXCEPT ![q].moving = @ \ {t}, ![q].moved = @ \cup {t}]
  /\ UNCHANGED <<scene, versions, near, mail, optedOut, suppressed, hour, faults>>

\* A reply of the last quarter of an hour makes the notice redundant: any reply
\* may be that recent.
RecentReplyMayExist(t) ==
  \E row \in mail : row.kind \notin NotificationKind /\ row.tickets = {t} /\ ~row.suppressed

ResolutionNotice(q, t) ==
  /\ errand[q].moving = {} /\ errand[q].todo = {} /\ errand[q].now = {}
  /\ t \in errand[q].moved
  /\ \/ errand' = [errand EXCEPT ![q].moved = @ \ {t},
                     ![q].todo = {Notice("resolution", {t}, RequesterOf[t], 0)}]
     \/ RecentReplyMayExist(t) /\ errand' = [errand EXCEPT ![q].moved = @ \ {t}]
  /\ UNCHANGED <<scene, versions, ticket, near, mail, optedOut, suppressed, hour, faults>>

\* Everybody on the queue; when nobody is, the ops address; when there is none
\* either, the ticket's note says so.
QueueOrOps(queue, s) ==
  CASE Watching[queue] # {} -> Watching[queue]
    [] Watching[queue] = {} /\ s.notifications.ops_address # Nobody -> {s.notifications.ops_address}
    [] OTHER -> {}

EscalationNotices(t, queue) ==
  {Notice("escalation", {t}, p, 0) : p \in QueueOrOps(queue, Current)}

\* The assignee, or the default queue.
WarningTargets(t) ==
  IF ticket[t].assigned # Nobody THEN {ticket[t].assigned}
  ELSE QueueOrOps(Current.routing.default_queue, Current)

TicketsNearingSla ==
  {t \in Tickets : ~ticket[t].merged
                   /\ ticket[t].status \notin {"resolved", "closed", "awaiting_user"}}

\* A message for each clock to each of its targets.
WarningsOf(t) == {Notice("sla_warning", {t}, p, c) : c \in near[t], p \in WarningTargets(t)}

\* warnNearingSla: one look at the tickets, then what is due on each.
Sweep(q) ==
  /\ errand[q] = NoErrand
  /\ Sends("sla_warning")
  /\ errand' = [errand EXCEPT ![q].todo = UNION {WarningsOf(t) : t \in TicketsNearingSla}]
  /\ UNCHANGED <<scene, versions, ticket, near, mail, optedOut, suppressed, hour, faults>>

(***************************************************************************)
(* What happens around them                                                *)
(***************************************************************************)

OptOut(p, kind) ==
  /\ optedOut' = optedOut \cup {<<p, kind>>}
  /\ UNCHANGED <<scene, versions, ticket, near, mail, suppressed, hour, errand, faults>>

OptIn(p, kind) ==
  /\ optedOut' = optedOut \ {<<p, kind>>}
  /\ UNCHANGED <<scene, versions, ticket, near, mail, suppressed, hour, errand, faults>>

\* A hard bounce or a complaint; an operator may lift the suppression.
Bounces(p) ==
  /\ suppressed' = (suppressed \ {p}) \cup ({p} \ suppressed)
  /\ UNCHANGED <<scene, versions, ticket, near, mail, optedOut, hour, errand, faults>>

\* A clock comes within its warning window, or leaves it: breached, met or
\* stamped anew (TicketSla says which).
ClockMoves(t, c) ==
  /\ near' = [near EXCEPT ![t] = (@ \ {c}) \cup ({c} \ @)]
  /\ UNCHANGED <<scene, versions, ticket, mail, optedOut, suppressed, hour, errand, faults>>

\* The process a request or a sweep runs in stops.
CrashRequest(q) ==
  /\ faults < scene.faults
  /\ errand[q] # NoErrand
  /\ faults' = faults + 1
  /\ errand' = [errand EXCEPT ![q] = NoErrand]
  /\ UNCHANGED <<scene, versions, ticket, near, mail, optedOut, suppressed, hour>>

NotifyNext ==
  \/ \E q \in scene.requests :
       \/ \E ts \in scene.assigns, p \in Staff \cup {Nobody} : AssignTickets(q, ts, p)
       \/ \E ts \in scene.resolves : AskResolve(q, ts)
       \/ \E t \in Tickets : MoveTicket(q, t) \/ ResolutionNotice(q, t)
       \/ scene.sweeps /\ Sweep(q)
       \/ CheckNotice(q)
       \/ QueueNotice(q)
       \/ CrashRequest(q)
  \/ \E consent \in scene.consents :
       OptOut(consent[1], consent[2]) \/ OptIn(consent[1], consent[2])
  \/ \E p \in scene.bounces : Bounces(p)
  \/ \E clock \in scene.clocks : ClockMoves(clock[1], clock[2])

(***************************************************************************)
(* Properties                                                              *)
(***************************************************************************)

Held(s) == errand[s].todo \cup errand[s].now

IsAbout(row, n) == row.kind = n.kind /\ row.tickets = n.tickets /\ row.fact = n.fact

\* A warning and a digest are once for ever, everything else once an hour.
StillCounts(row) == row.kind = "sla_warning" \/ IsDigest(row) \/ row.hour = hour

WasTold(n) == \E row \in mail' : row.to = n.to /\ IsAbout(row, n) /\ StillCounts(row)

DeclinedOrOff(n) == ~Sends(n.kind) \/ IsOptedOut(n.to, n.kind)

\* The code has two excuses beside the tenant's policy and the person's wish.  A
\* warning has one key for everybody it is to, so somebody else's row stands for
\* all of them (notify/sla.ts:141).
SomeoneElseWarned(n) == n.kind = "sla_warning" /\ \E row \in mail : IsAbout(row, n)

OnePrefixTwice(ts) == \E t, u \in ts : t # u /\ PrefixOf[t] = PrefixOf[u]

\* And a digest is known for ever by its size and the prefixes that fit in its
\* key, so another batch stands for one that is larger than what fits, or that
\* has a ticket whose prefix is another's (notify/events.ts:113).
AnotherBatchTold(n) ==
  /\ IsDigest(n)
  /\ \E row \in mail :
       /\ IsDigest(row) /\ row.to = n.to
       /\ Cardinality(row.tickets) = Cardinality(n.tickets)
       /\ LowestPrefixes(row.tickets) = LowestPrefixes(n.tickets)
       /\ Cardinality(n.tickets) > PrefixesKept \/ OnePrefixTwice(row.tickets \cup n.tickets)

\* Unless its process stops, a sender drops nobody from its list who has not
\* been told (a row to them is in the queue, dead if their address is), has not
\* declined, and is not covered by the key of a warning or of another batch; and
\* nobody is told the same thing twice within the hour, however many senders and
\* sweeps overlap (notify.ts:161 notifyAll and defaultKey, notify/events.ts,
\* notify/sla.ts).
NoticesReach ==
  [][/\ faults' = faults =>
          \A s \in Senders : \A n \in Held(s) \ (Held(s))' :
            WasTold(n) \/ DeclinedOrOff(n) \/ SomeoneElseWarned(n) \/ AnotherBatchTold(n)
     /\ \A row \in mail' \ mail : row.kind \in NotificationKind =>
          ~\E other \in mail : other.to = row.to /\ IsAbout(other, row) /\ other.hour = row.hour]_notifyVars

\* Everybody an SLA warning is for is told of it: with nobody assigned it goes
\* to the staff on the default queue (packages/core/src/notify/sla.ts:26).
WarningsReachTheQueue ==
  [][faults' = faults =>
       \A s \in Senders : \A n \in Held(s) \ (Held(s))' :
         n.kind = "sla_warning" => WasTold(n) \/ DeclinedOrOff(n)]_notifyVars
=============================================================================
