----------------------------- MODULE TicketSla -----------------------------
(***************************************************************************)
(* The two clocks of a ticket, first response and resolution: the writers  *)
(* of packages/core/src/repos/tickets.ts, the arithmetic of                *)
(* packages/core/src/sla.ts, the breach sweep of                           *)
(* packages/core/src/notify/sla.ts and the merge of                        *)
(* packages/core/src/repos/threading.ts.                                   *)
(*                                                                         *)
(* A writer reads the row "for update" and writes it in one transaction,   *)
(* so it is one step.  What takes two transactions, a retriage that ends   *)
(* a pause and a sweep that selects before it locks, is two steps.  Time   *)
(* is counted in minutes from a midnight.                                  *)
(***************************************************************************)
EXTENDS Integers

CONSTANTS
  Priorities,
  Calendar,       \* settings.sla.calendar_priorities: they run at all hours
  Window,         \* settings.sla: minutes allowed, per clock and priority
  DayLength,      \* minutes of a day
  Opens, Closes,  \* settings.business_hours; every day is a working day
  Created,        \* tickets.created_at
  Triages,        \* pipeline runs
  NoPriority,     \* priority is null: the ticket has not been triaged
  NoTime,         \* a timestamp column is null
  MaxTime         \* bound: the last minute the model reaches

Clocks == {"first_response", "resolution"}

\* "open" is every status that is none of the others: new, triaged, in_progress,
\* awaiting_approval and reopened differ in nothing a clock can tell.
TicketStatus == {"open", "awaiting_user", "resolved", "closed"}
PAUSED_STATUS == "awaiting_user"
Over == {"resolved", "closed"}

\* statusFor of what a run may decide.
TriageStatus == {"open", "awaiting_user", "resolved"}

ASSUME SlaAssumption ==
  /\ Calendar \subseteq Priorities
  /\ NoPriority \notin Priorities
  /\ NoTime \notin Int
  /\ Window \in [Clocks -> [Priorities -> Nat \ {0}]]
  /\ Opens \in Nat /\ Closes \in Nat /\ DayLength \in Nat
  /\ Opens < Closes /\ Closes < DayLength
  /\ Created \in Nat
  /\ MaxTime \in Nat

VARIABLES
  now,
  row,        \* the ticket's row of tickets, as far as a clock reads it
  resume,     \* per pipeline run: the status a paused ticket is to be moved to
  candidate   \* whether the breach sweep has selected the ticket

vars == <<now, row, resume, candidate>>

Timestamps == Int \cup {NoTime}

Rows == [status : TicketStatus,
         priority : Priorities \cup {NoPriority},
         due : [Clocks -> Timestamps],      \* *_due_at
         outcome : [Clocks -> Timestamps],  \* first_response_at, resolved_at
         breached : [Clocks -> BOOLEAN],    \* first_response_breached_at is set,
                                            \* resolution_clock_breached
         pausedAt : Timestamps,             \* sla_paused_at
         pausedMinutes : Int,               \* sla_paused_minutes
         resolvedMinutes : Int,             \* sla_resolved_minutes
         merged : BOOLEAN]                  \* merged_into_id is set

TypeOK ==
  /\ now \in Nat
  /\ row \in Rows
  /\ resume \in [Triages -> TriageStatus \cup {"none"}]
  /\ candidate \in BOOLEAN

Init ==
  /\ now = Created
  /\ row = [status |-> "open", priority |-> NoPriority,
            due |-> [c \in Clocks |-> NoTime], outcome |-> [c \in Clocks |-> NoTime],
            breached |-> [c \in Clocks |-> FALSE], pausedAt |-> NoTime,
            pausedMinutes |-> 0, resolvedMinutes |-> 0, merged |-> FALSE]
  /\ resume = [w \in Triages |-> "none"]
  /\ candidate = FALSE

----------------------------------------------------------------------------
(* Two ways to count minutes.                                              *)

OnCalendar(p) == p \in Calendar \cup {NoPriority}

\* Working minutes before t, and the first instant that has w of them.
Worked(t) ==
  LET minute == t % DayLength
      today == IF minute <= Opens THEN 0
               ELSE IF minute >= Closes THEN Closes - Opens ELSE minute - Opens IN
  (t \div DayLength) * (Closes - Opens) + today

InstantOf(w) ==
  LET days == (w - 1) \div (Closes - Opens)
      rest == (w - 1) % (Closes - Opens) IN
  days * DayLength + Opens + rest + 1

\* stoppedMinutes.
Between(from, to, p) ==
  IF OnCalendar(p) THEN to - from ELSE Worked(to) - Worked(from)

\* The instant a number of minutes later.  No minutes leave it where it is, also
\* in the middle of the night.
Later(from, minutes, p) ==
  IF OnCalendar(p) \/ minutes = 0 THEN from + minutes
                                  ELSE InstantOf(Worked(from) + minutes)

\* computeSla: both deadlines from the creation.  A pause is credited to both
\* clocks, time spent resolved to the resolution only.
Stamp(r) == [c \in Clocks |->
  LET credit == IF c = "resolution" THEN r.pausedMinutes + r.resolvedMinutes
                                    ELSE r.pausedMinutes IN
  Later(Created, Window[c][r.priority] + credit, r.priority)]

----------------------------------------------------------------------------
(* What a clock reads, and what is remembered of it.                       *)

Known(time) == time # NoTime

\* A clock is read at its outcome, or where it stopped, or now.
ReadAt(r, c, t) ==
  IF Known(r.outcome[c]) THEN r.outcome[c]
  ELSE IF Known(r.pausedAt) THEN r.pausedAt ELSE t

\* slaStatus says breached, and slaStatus says met.
Breached(r, c, t) == Known(r.due[c]) /\ (r.breached[c] \/ r.due[c] < ReadAt(r, c, t))
Met(r, c, t) == Known(r.due[c]) /\ Known(r.outcome[c]) /\ ~Breached(r, c, t)

\* unrecordedBreaches.
UnrecordedBreaches(r, t) == {c \in Clocks : Breached(r, c, t) /\ ~r.breached[c]}

\* recordBreaches.
Recorded(r, t) ==
  [r EXCEPT !.breached = [c \in Clocks |-> r.breached[c] \/ c \in UnrecordedBreaches(r, t)]]

\* Mutant: a clock that was met takes a new deadline.
SettledIfBreached(r, c) == Known(r.due[c]) /\ r.breached[c]

\* SETTLED_CLOCKS: a clock that has its result keeps its deadline, and a clock
\* without a deadline takes the stamp whatever it has.
Settled(r, c) == Known(r.due[c]) /\ (Known(r.outcome[c]) \/ r.breached[c])

Restamped(r) ==
  [r EXCEPT !.due = [c \in Clocks |-> IF Settled(r, c) THEN r.due[c] ELSE Stamp(r)[c]]]

----------------------------------------------------------------------------
(* setStatus.                                                              *)

\* Mutant: the wait is counted at all hours.
ResumedAtAllHours(r, t) ==
  [r EXCEPT !.pausedAt = NoTime,
            !.pausedMinutes = @ + (t - r.pausedAt),
            !.due = [c \in Clocks |-> IF Known(r.due[c]) /\ ~Known(r.outcome[c])
                                        THEN Later(r.due[c], t - r.pausedAt, r.priority)
                                        ELSE r.due[c]]]

\* shiftForPause: the wait moves every deadline that has no outcome yet.
Resumed(r, t) ==
  LET wait == Between(r.pausedAt, t, r.priority) IN
  [r EXCEPT !.pausedAt = NoTime,
            !.pausedMinutes = @ + wait,
            !.due = [c \in Clocks |-> IF Known(r.due[c]) /\ ~Known(r.outcome[c])
                                        THEN Later(r.due[c], wait, r.priority)
                                        ELSE r.due[c]]]

\* Mutant: the new clock is stamped without the time spent resolved.
ReopenedUncredited(r, t) ==
  LET credited == [r EXCEPT !.resolvedMinutes = @ + Between(r.outcome["resolution"], t, r.priority)]
  IN [credited EXCEPT !.outcome["resolution"] = NoTime,
                      !.breached["resolution"] = FALSE,
                      !.due["resolution"] = IF Known(@) /\ r.priority # NoPriority
                                              THEN Stamp(r)["resolution"] ELSE @]

\* stampForReopen and the outcome columns: the time since the resolution is
\* credited, and the resolution gets a new clock.
Reopened(r, t) ==
  LET credited == [r EXCEPT !.resolvedMinutes = @ + Between(r.outcome["resolution"], t, r.priority)]
  IN [credited EXCEPT !.outcome["resolution"] = NoTime,
                      !.breached["resolution"] = FALSE,
                      !.due["resolution"] =
                        IF Known(@) /\ r.priority # NoPriority /\ ~Known(r.pausedAt)
                          THEN Stamp(credited)["resolution"] ELSE @]

Reopens(r, s) == Known(r.outcome["resolution"]) /\ s \notin Over

\* Entering a status stops the clocks or gives the resolution its outcome.
Entered(r, s, t) ==
  [r EXCEPT
     !.status = s,
     !.pausedAt = IF s = PAUSED_STATUS /\ ~Known(@) THEN t ELSE @,
     !.outcome["resolution"] = IF s \in Over /\ ~Known(@) THEN t ELSE @]

\* The change setStatus makes to a row it has recorded the breaches of.
Moved(r, s, t) ==
  LET unsettled == IF Reopens(r, s) THEN Reopened(r, t) ELSE r
      running == IF Known(r.pausedAt) /\ s # PAUSED_STATUS THEN Resumed(unsettled, t)
                                                         ELSE unsettled
  IN Entered(running, s, t)

StatusSet(r, s, t) == Recorded(Moved(Recorded(r, t), s, t), t)

SetStatus(s) ==
  /\ row' = StatusSet(row, s, now)
  /\ UNCHANGED <<now, resume, candidate>>

----------------------------------------------------------------------------
(* The other writers.                                                      *)

\* A triage or a correction by hand: the breaches of the old deadlines are recorded
\* before the restamp, and those it causes with it.
Relabelled(r, p, s, t) ==
  Recorded(Restamped([Recorded(r, t) EXCEPT !.priority = p, !.status = s]), t)

\* applyTriage, first transaction: on a paused ticket the new status waits.
ApplyTriage(w, p, s) ==
  LET waits == Known(row.pausedAt) /\ s # PAUSED_STATUS IN
  /\ resume[w] = "none"
  /\ row' = Relabelled(row, p, IF waits THEN row.status ELSE s, now)
  /\ resume' = [resume EXCEPT ![w] = IF waits THEN s ELSE "none"]
  /\ UNCHANGED <<now, candidate>>

\* applyTriage, second transaction.
ResumeAfterTriage(w) ==
  /\ resume[w] # "none"
  /\ row' = StatusSet(row, resume[w], now)
  /\ resume' = [resume EXCEPT ![w] = "none"]
  /\ UNCHANGED <<now, candidate>>

\* The worker dies between the two.
CrashTriage(w) ==
  /\ resume[w] # "none"
  /\ resume' = [resume EXCEPT ![w] = "none"]
  /\ UNCHANGED <<now, row, candidate>>

\* shiftForFirstResponse: a response during a pause settles the clock where it
\* stopped, with the wait so far credited unless it stopped late.
Responded(r, t) ==
  LET wait == IF Breached(r, "first_response", t) THEN 0
              ELSE Between(r.pausedAt, t, r.priority) IN
  [r EXCEPT !.outcome["first_response"] = t,
            !.due["first_response"] = IF Known(r.pausedAt) /\ Known(@)
                                        THEN Later(@, wait, r.priority) ELSE @]

MarkFirstResponse ==
  /\ ~Known(row.outcome["first_response"])
  /\ row' = Recorded(Responded(Recorded(row, now), now), now)
  /\ UNCHANGED <<now, resume, candidate>>

\* Mutant: the deadlines are replaced before the breach of the old ones is recorded.
OverrideClassificationUnrecorded(p) ==
  /\ p # row.priority
  /\ row' = Recorded(Restamped([row EXCEPT !.priority = p]), now)
  /\ UNCHANGED <<now, resume, candidate>>

\* overrideClassification, when the priority changes.  A ticket nobody has
\* triaged can be given one by hand.
OverrideClassification(p) ==
  /\ p # row.priority
  /\ row' = Relabelled(row, p, row.status, now)
  /\ UNCHANGED <<now, resume, candidate>>

\* mergeTicket, of the ticket merged away.  It writes the status itself.
MergeTicket ==
  /\ row' = [row EXCEPT !.merged = TRUE, !.status = "closed"]
  /\ UNCHANGED <<now, resume, candidate>>

----------------------------------------------------------------------------
(* The breach sweep, and time.                                             *)

\* Mutant: a ticket that has one breach on record is passed over.
OverdueOnce(r, t) ==
  /\ ~r.merged
  /\ \A c \in Clocks : ~r.breached[c]
  /\ \E c \in Clocks : Known(r.due[c]) /\ r.due[c] < ReadAt(r, c, t)

\* ticketsWithUnrecordedBreaches.
Overdue(r, t) ==
  /\ ~r.merged
  /\ \E c \in Clocks : ~r.breached[c] /\ Known(r.due[c]) /\ r.due[c] < ReadAt(r, c, t)

SelectOverdue ==
  /\ ~candidate
  /\ Overdue(row, now)
  /\ candidate' = TRUE
  /\ UNCHANGED <<now, row, resume>>

\* recordSlaBreaches judges the row again, under the lock.
RecordSlaBreaches ==
  /\ candidate
  /\ row' = Recorded(row, now)
  /\ candidate' = FALSE
  /\ UNCHANGED <<now, resume>>

\* The transaction fails, or the worker dies: the ticket is for the next sweep.
SweepFails ==
  /\ candidate
  /\ candidate' = FALSE
  /\ UNCHANGED <<now, row, resume>>

Tick ==
  /\ now < MaxTime
  /\ now' = now + 1
  /\ UNCHANGED <<row, resume, candidate>>

Next ==
  \/ \E s \in TicketStatus : SetStatus(s)
  \/ \E w \in Triages, p \in Priorities, s \in TriageStatus : ApplyTriage(w, p, s)
  \/ \E w \in Triages : ResumeAfterTriage(w) \/ CrashTriage(w)
  \/ MarkFirstResponse
  \/ \E p \in Priorities : OverrideClassification(p)
  \/ MergeTicket
  \/ SelectOverdue \/ RecordSlaBreaches \/ SweepFails
  \/ Tick

Spec == Init /\ [][Next]_vars

\* The sweep runs every minute, and one that keeps coming succeeds in the end.
Fairness == WF_vars(SelectOverdue) /\ SF_vars(RecordSlaBreaches)

FairSpec == Spec /\ Fairness

----------------------------------------------------------------------------
(* Properties.                                                             *)

\* What a step does to a clock.
Restarts(c) == c = "resolution" /\ Known(row.outcome[c]) /\ ~Known(row'.outcome[c])
Resumes == Known(row.pausedAt) /\ ~Known(row'.pausedAt)

\* Minutes left on a clock, in the units it runs in.
Margin(r, c, t) == Between(t, r.due[c], r.priority)

\* Only a ticket that waits for its requester is paused, unless it was merged
\* away while it waited.
PausedAwaitsUser ==
  Known(row.pausedAt) => row.status = PAUSED_STATUS \/ row.merged

\* I5 of docs/sla.md: whatever pauses, retriages, relabellings and reopens a
\* ticket has been through, a clock without a result has the deadline a fresh
\* stamp would give it, with the credits on the row.
UnsettledClocksAreStamped ==
  \A c \in Clocks : Known(row.due[c]) /\ ~Settled(row, c) => row.due[c] = Stamp(row)[c]

\* I2, I3, I9, I10: a breach the console has shown is never taken back, by any
\* writer, a pause, a downgrade or a late answer, recorded before or not.
BreachesStand ==
  [][\A c \in Clocks :
       Breached(row, c, now) /\ ~Restarts(c) => Breached(row, c, now)']_vars

\* I4: and neither is a target that was met.
MetTargetsStand ==
  [][\A c \in Clocks : Met(row, c, now) /\ ~Restarts(c) => Met(row, c, now)']_vars

\* T7, T8: ending a pause leaves a clock without an outcome exactly the margin
\* it had, or the lateness, when it stopped.
PausesKeepMargins ==
  [][\A c \in Clocks : Resumes /\ Known(row.due[c]) /\ ~Known(row.outcome[c]) =>
       Margin(row, c, row.pausedAt) = Margin(row', c, now)]_vars

\* I11: a reopen gives the new clock the margin the old one was resolved with,
\* if that clock was on the priority's own window.
ReopensKeepMargins ==
  [][/\ Restarts("resolution") /\ Known(row.due["resolution"])
     /\ row.due["resolution"] = Stamp(row)["resolution"]
     => Margin(row, "resolution", row.outcome["resolution"]) =
        Margin(row', "resolution", now)]_vars

\* I8: a first response during a pause is late exactly when the clock was late
\* when it stopped, unless the clock stopped with no working minute left.
PausedResponsesAreJudgedWherePaused ==
  [][LET c == "first_response" IN
     /\ Known(row.pausedAt) /\ Known(row.due[c])
     /\ ~Known(row.outcome[c]) /\ Known(row'.outcome[c])
     /\ OnCalendar(row.priority) \/ Margin(row, c, row.pausedAt) # 0
     => (Breached(row, c, now) <=> Breached(row', c, now))]_vars

\* I10: the sweep records what no writer did.
BreachesAreRecorded ==
  \A c \in Clocks :
    Breached(row, c, now) ~> row.breached[c] \/ ~Breached(row, c, now) \/ row.merged

\* tickets.ts, OUTCOME_COLUMNS: "`resolved_at` means "resolved, and still
\* resolved"".
ResolvedIsStillResolved == Known(row.outcome["resolution"]) => row.status \in Over
=============================================================================
