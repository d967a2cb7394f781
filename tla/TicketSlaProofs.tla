-------------------------- MODULE TicketSlaProofs --------------------------
(* Theorems of TicketSla, for every opening hour, window, priority and      *)
(* number of runs.                                                          *)
EXTENDS TicketSla, TLAPS

----------------------------------------------------------------------------
(* Counting minutes.                                                       *)

\* The minutes of a working day are a positive number.
LEMMA DayIsPositive ==
  /\ DayLength \in Int /\ Opens \in Int /\ Closes \in Int /\ Created \in Int
  /\ 0 <= Opens /\ Opens < Closes /\ Closes < DayLength
  /\ Closes - Opens \in Int /\ 0 < Closes - Opens /\ Closes - Opens < DayLength
BY SlaAssumption

\* Working minutes and instants are integers.
LEMMA WorkedInt == ASSUME NEW t \in Int PROVE Worked(t) \in Int
<1> DEFINE q == t \div DayLength
           m == t % DayLength
           n == Closes - Opens
<1>1. q \in Int /\ m \in Int /\ n \in Int
  BY DayIsPositive
<1>2. q * n \in Int
  BY <1>1
<1> QED BY <1>1, <1>2, DayIsPositive DEF Worked

LEMMA InstantInt == ASSUME NEW w \in Int PROVE InstantOf(w) \in Int
<1> DEFINE n == Closes - Opens
           q == (w - 1) \div n
           m == (w - 1) % n
<1>1. q \in Int /\ m \in Int
  BY DayIsPositive
<1>2. q * DayLength \in Int
  BY <1>1, DayIsPositive
<1> QED BY <1>1, <1>2, DayIsPositive DEF InstantOf

LEMMA LaterInt == ASSUME NEW f \in Int, NEW k \in Int, NEW p PROVE Later(f, k, p) \in Int
<1>1. Worked(f) + k \in Int
  BY WorkedInt
<1> QED BY <1>1, InstantInt DEF Later

LEMMA BetweenInt == ASSUME NEW f \in Int, NEW t \in Int, NEW p PROVE Between(f, t, p) \in Int
<1>1. Worked(f) \in Int /\ Worked(t) \in Int
  BY WorkedInt
<1> QED BY <1>1 DEF Between

\* Division with remainder is unique.
LEMMA DivisionUnique ==
  ASSUME NEW q \in Int, NEW m \in Int, NEW d \in Int, 0 <= m, m < d
  PROVE  (q * d + m) \div d = q /\ (q * d + m) % d = m
<1> DEFINE x == q * d + m
           k == x \div d
           r == x % d
<1>1. x \in Int /\ k \in Int /\ r \in Int
  OBVIOUS
<1>2. x = d * k + r /\ 0 <= r /\ r < d
  BY <1>1
<1>3. d * (k - q) = m - r
  BY <1>1, <1>2
<1>4. -d < d * (k - q) /\ d * (k - q) < d
  BY <1>1, <1>2, <1>3
<1>5. k - q = 0
  <2>1. CASE k - q >= 1
    <3>1. d * (k - q) >= d
      BY <1>1, <2>1
    <3> QED BY <3>1, <1>4
  <2>2. CASE k - q <= -1
    <3>1. d * (k - q) <= -d
      BY <1>1, <2>2
    <3> QED BY <3>1, <1>4
  <2> QED BY <2>1, <2>2, <1>1
<1> QED BY <1>1, <1>3, <1>5

\* The first instant that has w working minutes has w working minutes.
LEMMA WorkedInstant == ASSUME NEW w \in Int PROVE Worked(InstantOf(w)) = w
<1> DEFINE n == Closes - Opens
           q == (w - 1) \div n
           r == (w - 1) % n
           m == Opens + r + 1
<1>1. q \in Int /\ r \in Int /\ 0 <= r /\ r < n /\ w - 1 = n * q + r
  BY DayIsPositive
<1>2. m \in Int /\ Opens < m /\ m <= Closes /\ m < DayLength
  BY <1>1, DayIsPositive
<1>3. InstantOf(w) = q * DayLength + m
  <2>1. q * DayLength \in Int
    BY <1>1, DayIsPositive
  <2> QED BY <1>1, <2>1, DayIsPositive DEF InstantOf
<1>4. InstantOf(w) \div DayLength = q /\ InstantOf(w) % DayLength = m
  <2> HIDE DEF q, m
  <2> QED BY <1>1, <1>2, <1>3, DivisionUnique, DayIsPositive
<1>5. Worked(InstantOf(w)) = q * n + (m - Opens)
  <2> HIDE DEF q, m
  <2>1. q * (Closes - Opens) \in Int
    BY <1>1, DayIsPositive
  <2> QED BY <1>2, <1>4, <2>1, DayIsPositive DEF Worked
<1>6. q * n = n * q /\ q * n \in Int
  <2> HIDE DEF q
  <2> QED BY <1>1, DayIsPositive
<1> QED
  <2> HIDE DEF q, r
  <2> QED BY <1>1, <1>5, <1>6, DayIsPositive

\* Working minutes never decrease.
LEMMA WorkedMonotone ==
  ASSUME NEW a \in Int, NEW b \in Int, a <= b PROVE Worked(a) <= Worked(b)
<1> DEFINE n == Closes - Opens
           Today(m) == IF m <= Opens THEN 0 ELSE IF m >= Closes THEN n ELSE m - Opens
           qa == a \div DayLength
           ma == a % DayLength
           qb == b \div DayLength
           mb == b % DayLength
<1>1. /\ qa \in Int /\ ma \in Int /\ 0 <= ma /\ ma < DayLength /\ a = DayLength * qa + ma
      /\ qb \in Int /\ mb \in Int /\ 0 <= mb /\ mb < DayLength /\ b = DayLength * qb + mb
  BY DayIsPositive
<1>2. Worked(a) = qa * n + Today(ma) /\ Worked(b) = qb * n + Today(mb)
  BY DEF Worked
<1>3. \A m \in Int : Today(m) \in Int /\ 0 <= Today(m) /\ Today(m) <= n
  BY DayIsPositive
<1>4. qa <= qb
  <2> HIDE DEF qa, qb, ma, mb
  <2>1. SUFFICES ASSUME qa >= qb + 1 PROVE FALSE
    BY <1>1
  <2>2. DayLength * qa >= DayLength * (qb + 1)
    BY <1>1, <2>1, DayIsPositive
  <2>3. DayLength * (qb + 1) = DayLength * qb + DayLength
    BY <1>1, DayIsPositive
  <2>4. DayLength * qa \in Int /\ DayLength * qb \in Int
    BY <1>1, DayIsPositive
  <2> QED BY <1>1, <2>2, <2>3, <2>4, DayIsPositive
<1>5. CASE qa = qb
  <2> HIDE DEF qa, qb, ma, mb
  <2>1. DayLength * qa \in Int /\ DayLength * qa = DayLength * qb
    BY <1>1, <1>5, DayIsPositive
  <2>2. ma <= mb
    BY <1>1, <2>1
  <2>3. Today(ma) <= Today(mb)
    BY <1>1, <2>2, DayIsPositive
  <2>4. qa * n \in Int /\ qa * n = qb * n
    BY <1>1, <1>5, DayIsPositive
  <2> HIDE DEF Today
  <2> QED BY <1>1, <1>2, <1>3, <2>3, <2>4
<1>6. CASE qa < qb
  <2> HIDE DEF qa, qb, ma, mb, Today
  <2>1. qb * n >= (qa + 1) * n
    BY <1>1, <1>6, DayIsPositive
  <2>2. (qa + 1) * n = qa * n + n
    BY <1>1, DayIsPositive
  <2>3. qa * n \in Int /\ qb * n \in Int
    BY <1>1, DayIsPositive
  <2> HIDE DEF n
  <2> QED BY <1>1, <1>2, <1>3, <2>1, <2>2, <2>3, DayIsPositive DEF n
<1> QED BY <1>1, <1>4, <1>5, <1>6

\* A deadline moved by k minutes is k minutes farther from any instant.
LEMMA LaterIsFarther ==
  ASSUME NEW x \in Int, NEW f \in Int, NEW k \in Int, NEW p
  PROVE  Between(x, Later(f, k, p), p) = Between(x, f, p) + k
<1>1. Worked(f) \in Int /\ Worked(x) \in Int
  BY WorkedInt
<1>2. Worked(InstantOf(Worked(f) + k)) = Worked(f) + k
  BY <1>1, WorkedInstant
<1> QED BY <1>1, <1>2 DEF Later, Between

\* Moving a deadline twice is moving it once by the sum, if it has moved at all.
LEMMA LaterAdds ==
  ASSUME NEW f \in Int, NEW j \in Int, NEW k \in Int, NEW p, 0 < j, 0 <= k
  PROVE  Later(Later(f, j, p), k, p) = Later(f, j + k, p)
<1>1. Worked(f) \in Int
  BY WorkedInt
<1>2. Worked(InstantOf(Worked(f) + j)) = Worked(f) + j /\ InstantOf(Worked(f) + j) \in Int
  BY <1>1, WorkedInstant, InstantInt
<1>3. CASE OnCalendar(p)
  BY <1>3 DEF Later
<1>4. CASE ~OnCalendar(p) /\ k = 0
  BY <1>2, <1>4 DEF Later
<1>5. CASE ~OnCalendar(p) /\ k # 0
  <2>1. Later(f, j, p) = InstantOf(Worked(f) + j)
    BY <1>5 DEF Later
  <2>2. Later(Later(f, j, p), k, p) = InstantOf(Worked(f) + j + k)
    BY <1>2, <1>5, <2>1 DEF Later
  <2>3. Later(f, j + k, p) = InstantOf(Worked(f) + (j + k))
    BY <1>5 DEF Later
  <2> QED BY <1>1, <2>2, <2>3
<1> QED BY <1>3, <1>4, <1>5

\* Time never runs backwards.
LEMMA BetweenNat ==
  ASSUME NEW f \in Int, NEW t \in Int, f <= t, NEW p PROVE Between(f, t, p) >= 0
<1>1. Worked(f) \in Int /\ Worked(t) \in Int /\ Worked(f) <= Worked(t)
  BY WorkedInt, WorkedMonotone
<1> QED BY <1>1 DEF Between

----------------------------------------------------------------------------
(* What the writers do to a row.                                           *)

\* A stamp needs a priority.
LEMMA StampInt ==
  ASSUME NEW r \in Rows, r.priority \in Priorities, NEW c \in Clocks
  PROVE  Stamp(r)[c] \in Int
<1>1. Window[c][r.priority] \in Int
  BY SlaAssumption
<1>2. r.pausedMinutes \in Int /\ r.resolvedMinutes \in Int
  BY DEF Rows
<1>3. PICK k \in Int : Stamp(r)[c] = Later(Created, k, r.priority)
  BY <1>1, <1>2 DEF Stamp
<1> QED BY <1>3, LaterInt, DayIsPositive

\* Recording the breaches changes the flags alone.
LEMMA RecordedRow ==
  ASSUME NEW r \in Rows, NEW t \in Int
  PROVE  /\ Recorded(r, t) \in Rows
         /\ Recorded(r, t).status = r.status /\ Recorded(r, t).priority = r.priority
         /\ Recorded(r, t).due = r.due /\ Recorded(r, t).outcome = r.outcome
         /\ Recorded(r, t).pausedAt = r.pausedAt /\ Recorded(r, t).merged = r.merged
         /\ Recorded(r, t).pausedMinutes = r.pausedMinutes
         /\ Recorded(r, t).resolvedMinutes = r.resolvedMinutes
         /\ Recorded(r, t).breached \in [Clocks -> BOOLEAN]
         /\ \A c \in Clocks : Recorded(r, t).breached[c] <=> r.breached[c] \/ Breached(r, c, t)
<1>1. \A c \in Clocks : (r.breached[c] \/ Breached(r, c, t)) \in BOOLEAN
  BY DEF Rows, Breached
<1>2. [c \in Clocks |-> r.breached[c] \/ Breached(r, c, t)] \in [Clocks -> BOOLEAN]
  BY <1>1
<1>3. \A c \in Clocks : (r.breached[c] \/ c \in UnrecordedBreaches(r, t))
                         = (r.breached[c] \/ Breached(r, c, t))
  BY DEF UnrecordedBreaches, Rows, Breached
<1>4. [c \in Clocks |-> r.breached[c] \/ c \in UnrecordedBreaches(r, t)]
        = [c \in Clocks |-> r.breached[c] \/ Breached(r, c, t)]
  BY <1>3
<1> QED BY <1>2, <1>4 DEF Recorded, Rows

\* A restamp changes the deadlines alone, and those of settled clocks not.
LEMMA RestampedRow ==
  ASSUME NEW r \in Rows, r.priority \in Priorities
  PROVE  /\ Restamped(r) \in Rows
         /\ Restamped(r).status = r.status /\ Restamped(r).priority = r.priority
         /\ Restamped(r).outcome = r.outcome /\ Restamped(r).breached = r.breached
         /\ Restamped(r).pausedAt = r.pausedAt /\ Restamped(r).merged = r.merged
         /\ Restamped(r).pausedMinutes = r.pausedMinutes
         /\ Restamped(r).resolvedMinutes = r.resolvedMinutes
         /\ \A c \in Clocks : Restamped(r).due[c] =
              IF Settled(r, c) THEN r.due[c] ELSE Stamp(r)[c]
         /\ \A c \in Clocks : Known(Restamped(r).due[c])
<1> DEFINE d == [c \in Clocks |-> IF Settled(r, c) THEN r.due[c] ELSE Stamp(r)[c]]
<1>1. \A c \in Clocks : d[c] \in Int
  BY StampInt DEF Rows, Timestamps, Settled, Known
<1>2. d \in [Clocks -> Timestamps]
  BY <1>1 DEF Timestamps
<1>3. Restamped(r) = [r EXCEPT !.due = d]
  BY DEF Restamped
<1>4. \A c \in Clocks : Known(d[c])
  BY <1>1, SlaAssumption DEF Known
<1>5. \A c \in Clocks : d[c] = IF Settled(r, c) THEN r.due[c] ELSE Stamp(r)[c]
  OBVIOUS
<1> HIDE DEF d
<1> QED BY <1>2, <1>3, <1>4, <1>5 DEF Rows

\* The end of a pause.
LEMMA ResumedRow ==
  ASSUME NEW r \in Rows, NEW t \in Int, Known(r.pausedAt)
  PROVE  LET wait == Between(r.pausedAt, t, r.priority) IN
         /\ wait \in Int
         /\ Resumed(r, t) \in Rows
         /\ Resumed(r, t).status = r.status /\ Resumed(r, t).priority = r.priority
         /\ Resumed(r, t).outcome = r.outcome /\ Resumed(r, t).breached = r.breached
         /\ Resumed(r, t).pausedAt = NoTime /\ Resumed(r, t).merged = r.merged
         /\ Resumed(r, t).pausedMinutes = r.pausedMinutes + wait
         /\ Resumed(r, t).resolvedMinutes = r.resolvedMinutes
         /\ \A c \in Clocks : Resumed(r, t).due[c] =
              IF Known(r.due[c]) /\ ~Known(r.outcome[c])
                THEN Later(r.due[c], wait, r.priority) ELSE r.due[c]
<1> DEFINE wait == Between(r.pausedAt, t, r.priority)
           d == [c \in Clocks |-> IF Known(r.due[c]) /\ ~Known(r.outcome[c])
                                    THEN Later(r.due[c], wait, r.priority) ELSE r.due[c]]
<1>1. wait \in Int
  BY BetweenInt DEF Rows, Timestamps, Known
<1>2. \A c \in Clocks : d[c] \in Timestamps
  <2> HIDE DEF wait
  <2> QED BY <1>1, LaterInt DEF Rows, Timestamps, Known
<1>3. d \in [Clocks -> Timestamps]
  BY <1>2
<1>4. \A c \in Clocks : d[c] = IF Known(r.due[c]) /\ ~Known(r.outcome[c])
                                 THEN Later(r.due[c], wait, r.priority) ELSE r.due[c]
  OBVIOUS
<1>5. Resumed(r, t) = [r EXCEPT !.pausedAt = NoTime, !.pausedMinutes = @ + wait, !.due = d]
  BY DEF Resumed
<1> HIDE DEF d, wait
<1>6. r.pausedMinutes + wait \in Int /\ NoTime \in Timestamps
  BY <1>1 DEF Rows, Timestamps
<1>7. Resumed(r, t) \in Rows
  BY <1>3, <1>5, <1>6 DEF Rows
<1>8. /\ Resumed(r, t).status = r.status /\ Resumed(r, t).priority = r.priority
      /\ Resumed(r, t).outcome = r.outcome /\ Resumed(r, t).breached = r.breached
      /\ Resumed(r, t).pausedAt = NoTime /\ Resumed(r, t).merged = r.merged
      /\ Resumed(r, t).pausedMinutes = r.pausedMinutes + wait
      /\ Resumed(r, t).resolvedMinutes = r.resolvedMinutes
      /\ Resumed(r, t).due = d
  BY <1>5 DEF Rows
<1> QED BY <1>1, <1>4, <1>7, <1>8 DEF wait

\* A reopen.
LEMMA ReopenedRow ==
  ASSUME NEW r \in Rows, NEW t \in Int, Known(r.outcome["resolution"])
  PROVE  LET spent == Between(r.outcome["resolution"], t, r.priority)
             credited == [r EXCEPT !.resolvedMinutes = @ + spent] IN
         /\ spent \in Int /\ credited \in Rows
         /\ Reopened(r, t) \in Rows
         /\ Reopened(r, t).status = r.status /\ Reopened(r, t).priority = r.priority
         /\ Reopened(r, t).pausedAt = r.pausedAt /\ Reopened(r, t).merged = r.merged
         /\ Reopened(r, t).pausedMinutes = r.pausedMinutes
         /\ Reopened(r, t).resolvedMinutes = r.resolvedMinutes + spent
         /\ Reopened(r, t).outcome["resolution"] = NoTime
         /\ Reopened(r, t).breached["resolution"] = FALSE
         /\ Reopened(r, t).outcome["first_response"] = r.outcome["first_response"]
         /\ Reopened(r, t).breached["first_response"] = r.breached["first_response"]
         /\ Reopened(r, t).due["first_response"] = r.due["first_response"]
         /\ Reopened(r, t).due["resolution"] =
              IF Known(r.due["resolution"]) /\ r.priority # NoPriority /\ ~Known(r.pausedAt)
                THEN Stamp(credited)["resolution"] ELSE r.due["resolution"]
<1> DEFINE spent == Between(r.outcome["resolution"], t, r.priority)
           credited == [r EXCEPT !.resolvedMinutes = @ + spent]
           d == IF Known(r.due["resolution"]) /\ r.priority # NoPriority /\ ~Known(r.pausedAt)
                  THEN Stamp(credited)["resolution"] ELSE r.due["resolution"]
<1>1. spent \in Int
  BY BetweenInt DEF Rows, Timestamps, Known, Clocks
<1>2. /\ credited \in Rows /\ credited.priority = r.priority /\ credited.pausedAt = r.pausedAt
      /\ credited.status = r.status /\ credited.merged = r.merged /\ credited.due = r.due
      /\ credited.outcome = r.outcome /\ credited.breached = r.breached
      /\ credited.pausedMinutes = r.pausedMinutes
      /\ credited.resolvedMinutes = r.resolvedMinutes + spent
  <2> HIDE DEF spent
  <2> QED BY <1>1 DEF Rows
<1>3. d \in Timestamps
  <2> HIDE DEF credited, spent
  <2> QED BY <1>2, StampInt DEF Rows, Timestamps, Clocks
<1>4. Reopened(r, t) = [credited EXCEPT !.outcome["resolution"] = NoTime,
                                        !.breached["resolution"] = FALSE,
                                        !.due["resolution"] = d]
  BY <1>2 DEF Reopened
<1> HIDE DEF d, credited, spent
<1>5. Reopened(r, t) = [credited EXCEPT
        !.outcome = [credited.outcome EXCEPT !["resolution"] = NoTime],
        !.breached = [credited.breached EXCEPT !["resolution"] = FALSE],
        !.due = [credited.due EXCEPT !["resolution"] = d]]
  BY <1>2, <1>4 DEF Rows
<1>6. Reopened(r, t) \in Rows
  <2>1. /\ [credited.outcome EXCEPT !["resolution"] = NoTime] \in [Clocks -> Timestamps]
        /\ [credited.due EXCEPT !["resolution"] = d] \in [Clocks -> Timestamps]
    BY <1>2, <1>3 DEF Rows, Timestamps
  <2>2. [credited.breached EXCEPT !["resolution"] = FALSE] \in [Clocks -> BOOLEAN]
    BY <1>2 DEF Rows
  <2> QED BY <1>2, <1>5, <2>1, <2>2 DEF Rows
<1>7. /\ Reopened(r, t).status = r.status /\ Reopened(r, t).priority = r.priority
      /\ Reopened(r, t).pausedAt = r.pausedAt /\ Reopened(r, t).merged = r.merged
      /\ Reopened(r, t).pausedMinutes = r.pausedMinutes
      /\ Reopened(r, t).resolvedMinutes = r.resolvedMinutes + spent
      /\ Reopened(r, t).outcome = [r.outcome EXCEPT !["resolution"] = NoTime]
      /\ Reopened(r, t).breached = [r.breached EXCEPT !["resolution"] = FALSE]
      /\ Reopened(r, t).due = [r.due EXCEPT !["resolution"] = d]
  <2>1. /\ Reopened(r, t).status = credited.status
        /\ Reopened(r, t).priority = credited.priority
        /\ Reopened(r, t).pausedAt = credited.pausedAt
        /\ Reopened(r, t).merged = credited.merged
        /\ Reopened(r, t).pausedMinutes = credited.pausedMinutes
        /\ Reopened(r, t).resolvedMinutes = credited.resolvedMinutes
    BY <1>2, <1>5 DEF Rows
  <2>2. /\ Reopened(r, t).outcome = [credited.outcome EXCEPT !["resolution"] = NoTime]
        /\ Reopened(r, t).breached = [credited.breached EXCEPT !["resolution"] = FALSE]
        /\ Reopened(r, t).due = [credited.due EXCEPT !["resolution"] = d]
    BY <1>2, <1>5 DEF Rows
  <2> QED BY <1>2, <2>1, <2>2
<1>8. /\ Reopened(r, t).outcome["resolution"] = NoTime
      /\ Reopened(r, t).breached["resolution"] = FALSE
      /\ Reopened(r, t).outcome["first_response"] = r.outcome["first_response"]
      /\ Reopened(r, t).breached["first_response"] = r.breached["first_response"]
      /\ Reopened(r, t).due["first_response"] = r.due["first_response"]
      /\ Reopened(r, t).due["resolution"] = d
  BY <1>7 DEF Rows, Clocks
<1> QED BY <1>1, <1>2, <1>7, <1>8, <1>6 DEF d, credited, spent

\* A new status.
LEMMA EnteredRow ==
  ASSUME NEW r \in Rows, NEW s \in TicketStatus, NEW t \in Int
  PROVE  /\ Entered(r, s, t) \in Rows
         /\ Entered(r, s, t).status = s /\ Entered(r, s, t).priority = r.priority
         /\ Entered(r, s, t).due = r.due /\ Entered(r, s, t).breached = r.breached
         /\ Entered(r, s, t).merged = r.merged
         /\ Entered(r, s, t).pausedMinutes = r.pausedMinutes
         /\ Entered(r, s, t).resolvedMinutes = r.resolvedMinutes
         /\ Entered(r, s, t).pausedAt =
              IF s = PAUSED_STATUS /\ ~Known(r.pausedAt) THEN t ELSE r.pausedAt
         /\ Entered(r, s, t).outcome["first_response"] = r.outcome["first_response"]
         /\ Entered(r, s, t).outcome["resolution"] =
              IF s \in Over /\ ~Known(r.outcome["resolution"]) THEN t
              ELSE r.outcome["resolution"]
<1> DEFINE at == IF s = PAUSED_STATUS /\ ~Known(r.pausedAt) THEN t ELSE r.pausedAt
           out == IF s \in Over /\ ~Known(r.outcome["resolution"]) THEN t
                  ELSE r.outcome["resolution"]
<1>1. at \in Timestamps /\ out \in Timestamps
  BY DEF Rows, Timestamps, Clocks
<1>2. Entered(r, s, t) = [r EXCEPT !.status = s, !.pausedAt = at,
                                   !.outcome = [r.outcome EXCEPT !["resolution"] = out]]
  BY DEF Entered, Rows
<1> HIDE DEF at, out
<1>3. [r.outcome EXCEPT !["resolution"] = out] \in [Clocks -> Timestamps]
  BY <1>1 DEF Rows
<1>4. /\ [r.outcome EXCEPT !["resolution"] = out]["resolution"] = out
      /\ [r.outcome EXCEPT !["resolution"] = out]["first_response"] = r.outcome["first_response"]
  BY DEF Rows, Clocks
<1>5. Entered(r, s, t) \in Rows
  BY <1>1, <1>2, <1>3 DEF Rows
<1>6. /\ Entered(r, s, t).status = s /\ Entered(r, s, t).priority = r.priority
      /\ Entered(r, s, t).due = r.due /\ Entered(r, s, t).breached = r.breached
      /\ Entered(r, s, t).merged = r.merged
      /\ Entered(r, s, t).pausedMinutes = r.pausedMinutes
      /\ Entered(r, s, t).resolvedMinutes = r.resolvedMinutes
      /\ Entered(r, s, t).pausedAt = at
      /\ Entered(r, s, t).outcome = [r.outcome EXCEPT !["resolution"] = out]
  BY <1>2 DEF Rows
<1> QED BY <1>4, <1>5, <1>6 DEF at, out

\* A first response.
LEMMA RespondedRow ==
  ASSUME NEW r \in Rows, NEW t \in Int
  PROVE  LET c == "first_response"
             wait == IF Breached(r, c, t) THEN 0 ELSE Between(r.pausedAt, t, r.priority) IN
         /\ Responded(r, t) \in Rows
         /\ Responded(r, t).status = r.status /\ Responded(r, t).priority = r.priority
         /\ Responded(r, t).breached = r.breached /\ Responded(r, t).merged = r.merged
         /\ Responded(r, t).pausedAt = r.pausedAt
         /\ Responded(r, t).pausedMinutes = r.pausedMinutes
         /\ Responded(r, t).resolvedMinutes = r.resolvedMinutes
         /\ Responded(r, t).outcome[c] = t
         /\ Responded(r, t).outcome["resolution"] = r.outcome["resolution"]
         /\ Responded(r, t).due["resolution"] = r.due["resolution"]
         /\ Responded(r, t).due[c] = IF Known(r.pausedAt) /\ Known(r.due[c])
                                       THEN Later(r.due[c], wait, r.priority) ELSE r.due[c]
<1> DEFINE c == "first_response"
           wait == IF Breached(r, c, t) THEN 0 ELSE Between(r.pausedAt, t, r.priority)
           d == IF Known(r.pausedAt) /\ Known(r.due[c])
                  THEN Later(r.due[c], wait, r.priority) ELSE r.due[c]
<1>1. Known(r.pausedAt) => wait \in Int
  BY BetweenInt DEF Rows, Timestamps, Known
<1>2. d \in Timestamps
  <2> HIDE DEF wait
  <2> QED BY <1>1, LaterInt DEF Rows, Timestamps, Known, Clocks
<1>3. Responded(r, t) = [r EXCEPT !.outcome = [r.outcome EXCEPT ![c] = t],
                                  !.due = [r.due EXCEPT ![c] = d]]
  BY DEF Responded, Rows
<1> HIDE DEF wait, d
<1>4. /\ [r.outcome EXCEPT ![c] = t] \in [Clocks -> Timestamps]
      /\ [r.due EXCEPT ![c] = d] \in [Clocks -> Timestamps]
  BY <1>2 DEF Rows, Timestamps
<1>5. Responded(r, t) \in Rows
  BY <1>3, <1>4 DEF Rows
<1>6. /\ Responded(r, t).status = r.status /\ Responded(r, t).priority = r.priority
      /\ Responded(r, t).breached = r.breached /\ Responded(r, t).merged = r.merged
      /\ Responded(r, t).pausedAt = r.pausedAt
      /\ Responded(r, t).pausedMinutes = r.pausedMinutes
      /\ Responded(r, t).resolvedMinutes = r.resolvedMinutes
      /\ Responded(r, t).outcome = [r.outcome EXCEPT ![c] = t]
      /\ Responded(r, t).due = [r.due EXCEPT ![c] = d]
  BY <1>3 DEF Rows
<1>7. /\ [r.outcome EXCEPT ![c] = t][c] = t
      /\ [r.outcome EXCEPT ![c] = t]["resolution"] = r.outcome["resolution"]
      /\ [r.due EXCEPT ![c] = d][c] = d
      /\ [r.due EXCEPT ![c] = d]["resolution"] = r.due["resolution"]
  BY DEF Rows, Clocks
<1> QED BY <1>5, <1>6, <1>7 DEF wait, d

----------------------------------------------------------------------------
(* The inductive invariant.                                                *)

\* A row as the writers leave it.  The order of the timestamps is what makes the
\* credits grow only; a pause and a resolution exclude each other, which is why
\* setStatus never ends both in one step.
RowInv(r, t) ==
  /\ r \in Rows
  /\ Known(r.pausedAt) => r.pausedAt <= t /\ ~Known(r.outcome["resolution"])
  /\ \A c \in Clocks : Known(r.outcome[c]) => r.outcome[c] <= t
  /\ \A c \in Clocks : Known(r.due[c]) => r.priority \in Priorities
  /\ r.pausedMinutes >= 0 /\ r.resolvedMinutes >= 0
  /\ \A c \in Clocks : Known(r.due[c]) /\ ~Settled(r, c) => r.due[c] = Stamp(r)[c]

ClockInv == TypeOK /\ RowInv(row, now) /\ PausedAwaitsUser

\* Recording keeps it.
LEMMA RecordedInv ==
  ASSUME NEW r, NEW t \in Int, RowInv(r, t) PROVE RowInv(Recorded(r, t), t)
<1> DEFINE x == Recorded(r, t)
<1> SUFFICES RowInv(x, t)
  OBVIOUS
<1>1. /\ x \in Rows /\ x.priority = r.priority /\ x.due = r.due /\ x.outcome = r.outcome
      /\ x.pausedAt = r.pausedAt /\ x.pausedMinutes = r.pausedMinutes
      /\ x.resolvedMinutes = r.resolvedMinutes
      /\ \A c \in Clocks : r.breached[c] => x.breached[c]
  BY RecordedRow DEF RowInv
<1>2. Stamp(x) = Stamp(r)
  BY <1>1 DEF Stamp
<1>3. \A c \in Clocks : Settled(r, c) => Settled(x, c)
  BY <1>1 DEF Settled
<1> HIDE DEF x
<1> QED BY <1>1, <1>2, <1>3 DEF RowInv

\* A retriage or a new label keeps it.
LEMMA RestampedInv ==
  ASSUME NEW r, NEW t \in Int, RowInv(r, t), NEW p \in Priorities, NEW s \in TicketStatus
  PROVE  RowInv(Restamped([r EXCEPT !.priority = p, !.status = s]), t)
<1> DEFINE y == [r EXCEPT !.priority = p, !.status = s]
           x == Restamped(y)
<1> SUFFICES RowInv(x, t)
  OBVIOUS
<1>1. /\ y \in Rows /\ y.priority = p /\ y.due = r.due /\ y.outcome = r.outcome
      /\ y.pausedAt = r.pausedAt /\ y.pausedMinutes = r.pausedMinutes
      /\ y.resolvedMinutes = r.resolvedMinutes /\ y.breached = r.breached
  BY DEF RowInv, Rows
<1> HIDE DEF y
<1>2. /\ x \in Rows /\ x.priority = p /\ x.outcome = r.outcome /\ x.breached = r.breached
      /\ x.pausedAt = r.pausedAt /\ x.pausedMinutes = r.pausedMinutes
      /\ x.resolvedMinutes = r.resolvedMinutes
      /\ \A c \in Clocks : x.due[c] = IF Settled(y, c) THEN y.due[c] ELSE Stamp(y)[c]
  BY <1>1, RestampedRow
<1>3. Stamp(x) = Stamp(y)
  BY <1>1, <1>2 DEF Stamp
<1>4. \A c \in Clocks : Settled(y, c) => Settled(x, c)
  BY <1>1, <1>2 DEF Settled
<1> HIDE DEF x
<1>5. Known(x.pausedAt) => x.pausedAt <= t /\ ~Known(x.outcome["resolution"])
  BY <1>2 DEF RowInv
<1>6. \A c \in Clocks : Known(x.outcome[c]) => x.outcome[c] <= t
  BY <1>2 DEF RowInv
<1>7. \A c \in Clocks : Known(x.due[c]) => x.priority \in Priorities
  BY <1>2
<1>8. x.pausedMinutes >= 0 /\ x.resolvedMinutes >= 0
  BY <1>2 DEF RowInv
<1>9. \A c \in Clocks : Known(x.due[c]) /\ ~Settled(x, c) => x.due[c] = Stamp(x)[c]
  BY <1>2, <1>3, <1>4
<1> QED BY <1>2, <1>5, <1>6, <1>7, <1>8, <1>9 DEF RowInv

\* The end of a pause keeps it: the deadline moves by what the stamp gains.
LEMMA ResumedInv ==
  ASSUME NEW r, NEW t \in Int, RowInv(r, t), Known(r.pausedAt)
  PROVE  RowInv(Resumed(r, t), t)
<1> DEFINE x == Resumed(r, t)
           wait == Between(r.pausedAt, t, r.priority)
<1> SUFFICES RowInv(x, t)
  OBVIOUS
<1>1. /\ wait \in Int
      /\ x \in Rows /\ x.priority = r.priority /\ x.outcome = r.outcome
      /\ x.breached = r.breached /\ x.pausedAt = NoTime
      /\ x.pausedMinutes = r.pausedMinutes + wait
      /\ x.resolvedMinutes = r.resolvedMinutes
      /\ \A c \in Clocks : x.due[c] = IF Known(r.due[c]) /\ ~Known(r.outcome[c])
                                        THEN Later(r.due[c], wait, r.priority) ELSE r.due[c]
  BY ResumedRow DEF RowInv
<1>2. wait >= 0
  BY BetweenNat DEF RowInv, Rows, Timestamps, Known
<1> HIDE DEF x, wait
<1>3. ASSUME NEW c \in Clocks, Known(x.due[c]), ~Settled(x, c) PROVE x.due[c] = Stamp(x)[c]
  <2>1. Known(r.due[c]) /\ ~Known(r.outcome[c]) /\ ~Settled(r, c)
    BY <1>1, <1>3 DEF Settled
  <2>2. r.due[c] = Stamp(r)[c] /\ r.priority \in Priorities
    BY <2>1 DEF RowInv
  <2> DEFINE k == Window[c][r.priority] +
                  (IF c = "resolution" THEN r.pausedMinutes + r.resolvedMinutes
                                       ELSE r.pausedMinutes)
  <2>3. k \in Int /\ 0 < k
    <3>1. Window[c][r.priority] \in Nat \ {0}
      BY <2>2, SlaAssumption
    <3> QED BY <3>1 DEF RowInv, Rows
  <2>4. Stamp(r)[c] = Later(Created, k, r.priority)
    BY DEF Stamp
  <2>5. Stamp(x)[c] = Later(Created, k + wait, r.priority)
    <3>1. Stamp(x)[c] = Later(Created, Window[c][r.priority] +
            (IF c = "resolution" THEN r.pausedMinutes + wait + r.resolvedMinutes
                                 ELSE r.pausedMinutes + wait), r.priority)
      BY <1>1 DEF Stamp
    <3>2. Window[c][r.priority] \in Int
      BY <2>2, SlaAssumption
    <3>3. Window[c][r.priority] +
            (IF c = "resolution" THEN r.pausedMinutes + wait + r.resolvedMinutes
                                 ELSE r.pausedMinutes + wait) = k + wait
      BY <1>1, <3>2 DEF RowInv, Rows
    <3> QED BY <3>1, <3>3
  <2> HIDE DEF k
  <2>6. x.due[c] = Later(r.due[c], wait, r.priority)
    BY <1>1, <2>1
  <2> QED BY <1>1, <1>2, <2>2, <2>3, <2>4, <2>5, <2>6, LaterAdds, DayIsPositive
<1>4. x.pausedMinutes >= 0
  BY <1>1, <1>2 DEF RowInv, Rows
<1>5. \A c \in Clocks : Known(x.due[c]) => x.priority \in Priorities
  BY <1>1 DEF RowInv
<1>6. ~Known(x.pausedAt)
  BY <1>1 DEF Known
<1>7. \A c \in Clocks : Known(x.outcome[c]) => x.outcome[c] <= t
  BY <1>1 DEF RowInv
<1>8. x.resolvedMinutes >= 0
  BY <1>1 DEF RowInv
<1> QED BY <1>1, <1>3, <1>4, <1>5, <1>6, <1>7, <1>8 DEF RowInv

\* A reopen keeps it.
LEMMA ReopenedInv ==
  ASSUME NEW r, NEW t \in Int, RowInv(r, t), Known(r.outcome["resolution"])
  PROVE  RowInv(Reopened(r, t), t)
<1> DEFINE x == Reopened(r, t)
           spent == Between(r.outcome["resolution"], t, r.priority)
           credited == [r EXCEPT !.resolvedMinutes = @ + spent]
<1> SUFFICES RowInv(x, t)
  OBVIOUS
<1>1. /\ spent \in Int
      /\ x \in Rows /\ x.priority = r.priority /\ x.pausedAt = r.pausedAt
      /\ x.pausedMinutes = r.pausedMinutes
      /\ x.resolvedMinutes = r.resolvedMinutes + spent
      /\ x.outcome["resolution"] = NoTime /\ x.breached["resolution"] = FALSE
      /\ x.outcome["first_response"] = r.outcome["first_response"]
      /\ x.breached["first_response"] = r.breached["first_response"]
      /\ x.due["first_response"] = r.due["first_response"]
      /\ x.due["resolution"] =
           IF Known(r.due["resolution"]) /\ r.priority # NoPriority /\ ~Known(r.pausedAt)
             THEN Stamp(credited)["resolution"] ELSE r.due["resolution"]
  BY ReopenedRow DEF RowInv
<1>2. spent >= 0
  BY BetweenNat DEF RowInv, Rows, Timestamps, Known, Clocks
<1>3. /\ credited.priority = r.priority /\ credited.pausedMinutes = r.pausedMinutes
      /\ credited.resolvedMinutes = r.resolvedMinutes + spent
  BY DEF RowInv, Rows
<1>4. Stamp(x) = Stamp(credited)
  BY <1>1, <1>3 DEF Stamp
<1>5. Stamp(x)["first_response"] = Stamp(r)["first_response"]
  BY <1>1 DEF Stamp, Clocks
<1> HIDE DEF x, spent, credited
<1>6. r.priority \in Priorities => r.priority # NoPriority
  BY SlaAssumption
<1>7. ~Known(r.pausedAt)
  BY DEF RowInv
<1>8. ASSUME NEW c \in Clocks PROVE Known(x.due[c]) => x.priority \in Priorities
  BY <1>1 DEF RowInv, Clocks
<1>9. ASSUME NEW c \in Clocks, Known(x.due[c]), ~Settled(x, c) PROVE x.due[c] = Stamp(x)[c]
  <2>1. CASE c = "first_response"
    BY <1>1, <1>5, <1>9, <2>1 DEF RowInv, Settled
  <2>2. CASE c = "resolution"
    BY <1>1, <1>4, <1>6, <1>7, <1>8, <1>9, <2>2 DEF RowInv
  <2> QED BY <2>1, <2>2 DEF Clocks
<1>10. ASSUME NEW c \in Clocks, Known(x.outcome[c]) PROVE x.outcome[c] <= t
  BY <1>1, <1>10 DEF RowInv, Clocks, Known
<1>11. x.resolvedMinutes >= 0 /\ x.pausedMinutes >= 0
  BY <1>1, <1>2 DEF RowInv, Rows
<1>12. ~Known(x.pausedAt)
  BY <1>1, <1>7
<1> QED BY <1>1, <1>8, <1>9, <1>10, <1>11, <1>12 DEF RowInv

\* A new status keeps it, once the pause and the resolution it ends are ended.
LEMMA EnteredInv ==
  ASSUME NEW r, NEW s \in TicketStatus, NEW t \in Int, RowInv(r, t),
         Known(r.pausedAt) => s = PAUSED_STATUS,
         Known(r.outcome["resolution"]) => s \in Over
  PROVE  RowInv(Entered(r, s, t), t)
<1> DEFINE x == Entered(r, s, t)
<1> SUFFICES RowInv(x, t)
  OBVIOUS
<1>1. /\ x \in Rows /\ x.priority = r.priority /\ x.due = r.due /\ x.breached = r.breached
      /\ x.pausedMinutes = r.pausedMinutes /\ x.resolvedMinutes = r.resolvedMinutes
      /\ x.pausedAt = IF s = PAUSED_STATUS /\ ~Known(r.pausedAt) THEN t ELSE r.pausedAt
      /\ x.outcome["first_response"] = r.outcome["first_response"]
      /\ x.outcome["resolution"] = IF s \in Over /\ ~Known(r.outcome["resolution"]) THEN t
                                   ELSE r.outcome["resolution"]
  BY EnteredRow DEF RowInv
<1>2. Stamp(x) = Stamp(r)
  BY <1>1 DEF Stamp
<1> HIDE DEF x
<1>3. Known(x.pausedAt) => x.pausedAt <= t /\ ~Known(x.outcome["resolution"])
  BY <1>1 DEF RowInv, Over, PAUSED_STATUS
<1>4. ASSUME NEW c \in Clocks, Known(x.outcome[c]) PROVE x.outcome[c] <= t
  BY <1>1, <1>4 DEF RowInv, Clocks
<1>5. ASSUME NEW c \in Clocks, Settled(r, c) PROVE Settled(x, c)
  BY <1>1, <1>5, SlaAssumption DEF Settled, Known, Clocks
<1>6. \A c \in Clocks : Known(x.due[c]) => x.priority \in Priorities
  BY <1>1 DEF RowInv
<1>7. x.pausedMinutes >= 0 /\ x.resolvedMinutes >= 0
  BY <1>1 DEF RowInv
<1>8. \A c \in Clocks : Known(x.due[c]) /\ ~Settled(x, c) => x.due[c] = Stamp(x)[c]
  BY <1>1, <1>2, <1>5 DEF RowInv
<1> QED BY <1>1, <1>3, <1>4, <1>6, <1>7, <1>8 DEF RowInv

\* So does a first response.
LEMMA RespondedInv ==
  ASSUME NEW r, NEW t \in Int, RowInv(r, t) PROVE RowInv(Responded(r, t), t)
<1> DEFINE x == Responded(r, t)
<1> SUFFICES RowInv(x, t)
  OBVIOUS
<1>1. /\ x \in Rows /\ x.priority = r.priority /\ x.breached = r.breached
      /\ x.pausedMinutes = r.pausedMinutes /\ x.resolvedMinutes = r.resolvedMinutes
      /\ x.pausedAt = r.pausedAt
      /\ x.outcome["first_response"] = t
      /\ x.outcome["resolution"] = r.outcome["resolution"]
      /\ x.due["resolution"] = r.due["resolution"]
      /\ Known(x.due["first_response"]) => Known(r.due["first_response"])
  BY RespondedRow DEF RowInv
<1>2. Stamp(x) = Stamp(r)
  BY <1>1 DEF Stamp
<1> HIDE DEF x
<1>3. Known(t)
  BY SlaAssumption DEF Known
<1>4. ASSUME NEW c \in Clocks, Known(x.due[c]), ~Settled(x, c) PROVE x.due[c] = Stamp(x)[c]
  BY <1>1, <1>2, <1>3, <1>4 DEF RowInv, Settled, Clocks
<1>5. ASSUME NEW c \in Clocks, Known(x.outcome[c]) PROVE x.outcome[c] <= t
  BY <1>1, <1>5 DEF RowInv, Clocks
<1>6. ASSUME NEW c \in Clocks, Known(x.due[c]) PROVE x.priority \in Priorities
  BY <1>1, <1>6 DEF RowInv, Clocks
<1>7. Known(x.pausedAt) => x.pausedAt <= t /\ ~Known(x.outcome["resolution"])
  BY <1>1 DEF RowInv
<1>8. x.pausedMinutes >= 0 /\ x.resolvedMinutes >= 0
  BY <1>1 DEF RowInv
<1> QED BY <1>1, <1>4, <1>5, <1>6, <1>7, <1>8 DEF RowInv

\* setStatus ends the pause or the resolution, never both, and enters the status.
LEMMA MovedCases ==
  ASSUME NEW r, NEW s \in TicketStatus, NEW t \in Int, RowInv(r, t)
  PROVE  \/ /\ Reopens(r, s) /\ ~Known(r.pausedAt)
            /\ Moved(r, s, t) = Entered(Reopened(r, t), s, t)
         \/ /\ ~Reopens(r, s) /\ Known(r.pausedAt) /\ s # PAUSED_STATUS
            /\ Moved(r, s, t) = Entered(Resumed(r, t), s, t)
         \/ /\ ~Reopens(r, s) /\ ~(Known(r.pausedAt) /\ s # PAUSED_STATUS)
            /\ Moved(r, s, t) = Entered(r, s, t)
<1>1. Reopens(r, s) => ~Known(r.pausedAt)
  BY DEF Reopens, RowInv
<1>2. CASE Reopens(r, s)
  BY <1>1, <1>2 DEF Moved
<1>3. CASE ~Reopens(r, s)
  BY <1>3 DEF Moved
<1> QED BY <1>2, <1>3

LEMMA MovedInv ==
  ASSUME NEW r, NEW s \in TicketStatus, NEW t \in Int, RowInv(r, t)
  PROVE  /\ RowInv(Moved(r, s, t), t)
         /\ Moved(r, s, t).status = s /\ Moved(r, s, t).merged = r.merged
         /\ Known(Moved(r, s, t).pausedAt) => s = PAUSED_STATUS
<1>1. CASE Reopens(r, s) /\ ~Known(r.pausedAt)
           /\ Moved(r, s, t) = Entered(Reopened(r, t), s, t)
  <2> DEFINE u == Reopened(r, t)
  <2>1. r \in Rows /\ Known(r.outcome["resolution"])
    BY <1>1 DEF Reopens, RowInv
  <2>2. u.pausedAt = r.pausedAt /\ u.merged = r.merged /\ u.outcome["resolution"] = NoTime
    BY <2>1, ReopenedRow
  <2>3. RowInv(u, t)
    BY <2>1, ReopenedInv
  <2>4. /\ RowInv(u, t) /\ u \in Rows /\ u.pausedAt = r.pausedAt /\ u.merged = r.merged
        /\ u.outcome["resolution"] = NoTime
    BY <2>2, <2>3 DEF RowInv
  <2> HIDE DEF u
  <2>5. Moved(r, s, t) = Entered(u, s, t)
    BY <1>1 DEF u
  <2>6. RowInv(Entered(u, s, t), t)
    BY <1>1, <2>4, EnteredInv DEF Known
  <2> QED BY <1>1, <2>4, <2>5, <2>6, EnteredRow
<1>2. CASE ~Reopens(r, s) /\ Known(r.pausedAt) /\ s # PAUSED_STATUS
           /\ Moved(r, s, t) = Entered(Resumed(r, t), s, t)
  <2> DEFINE u == Resumed(r, t)
  <2>1. r \in Rows
    BY DEF RowInv
  <2>2. u.pausedAt = NoTime /\ u.merged = r.merged /\ u.outcome = r.outcome
    BY <1>2, <2>1, ResumedRow
  <2>3. RowInv(u, t)
    BY <1>2, ResumedInv
  <2>4. /\ RowInv(u, t) /\ u \in Rows /\ u.pausedAt = NoTime /\ u.merged = r.merged
        /\ u.outcome = r.outcome
    BY <2>2, <2>3 DEF RowInv
  <2> HIDE DEF u
  <2>5. Moved(r, s, t) = Entered(u, s, t)
    BY <1>2 DEF u
  <2>6. RowInv(Entered(u, s, t), t)
    BY <1>2, <2>4, EnteredInv DEF Known, Reopens
  <2> QED BY <1>2, <2>4, <2>5, <2>6, EnteredRow DEF Known
<1>3. CASE ~Reopens(r, s) /\ ~(Known(r.pausedAt) /\ s # PAUSED_STATUS)
           /\ Moved(r, s, t) = Entered(r, s, t)
  <2>1. RowInv(Entered(r, s, t), t)
    BY <1>3, EnteredInv DEF Reopens
  <2> QED BY <1>3, <2>1, EnteredRow DEF RowInv
<1> QED BY <1>1, <1>2, <1>3, MovedCases

LEMMA StatusSetInv ==
  ASSUME NEW r, NEW s \in TicketStatus, NEW t \in Int, RowInv(r, t)
  PROVE  /\ RowInv(StatusSet(r, s, t), t)
         /\ StatusSet(r, s, t).status = s /\ StatusSet(r, s, t).merged = r.merged
         /\ Known(StatusSet(r, s, t).pausedAt) => s = PAUSED_STATUS
<1>1. RowInv(Recorded(r, t), t) /\ Recorded(r, t).merged = r.merged
  <2>1. r \in Rows
    BY DEF RowInv
  <2>2. RowInv(Recorded(r, t), t)
    BY RecordedInv
  <2> QED BY <2>1, <2>2, RecordedRow
<1> DEFINE m == Moved(Recorded(r, t), s, t)
<1>2. /\ RowInv(m, t) /\ m.status = s /\ m.merged = r.merged
      /\ Known(m.pausedAt) => s = PAUSED_STATUS
  BY <1>1, MovedInv
<1>3. StatusSet(r, s, t) = Recorded(m, t)
  BY DEF StatusSet
<1> HIDE DEF m
<1>4. RowInv(Recorded(m, t), t)
  BY <1>2, RecordedInv
<1> QED BY <1>2, <1>3, <1>4, RecordedRow DEF RowInv

\* A triage.
LEMMA RelabelledInv ==
  ASSUME NEW r, NEW t \in Int, RowInv(r, t), NEW p \in Priorities, NEW s \in TicketStatus
  PROVE  /\ RowInv(Relabelled(r, p, s, t), t)
         /\ Relabelled(r, p, s, t).status = s /\ Relabelled(r, p, s, t).merged = r.merged
         /\ Relabelled(r, p, s, t).pausedAt = r.pausedAt
<1> DEFINE b == Recorded(r, t)
           l == [b EXCEPT !.priority = p, !.status = s]
           y == Restamped(l)
<1>1. RowInv(b, t) /\ b \in Rows /\ b.merged = r.merged /\ b.pausedAt = r.pausedAt
  <2>1. r \in Rows
    BY DEF RowInv
  <2>2. RowInv(Recorded(r, t), t)
    BY RecordedInv
  <2> QED BY <2>1, <2>2, RecordedRow
<1> HIDE DEF b
<1>2. l \in Rows /\ l.priority = p /\ l.status = s /\ l.merged = b.merged /\ l.pausedAt = b.pausedAt
  BY <1>1 DEF Rows
<1>3. RowInv(y, t)
  BY <1>1, RestampedInv
<1> HIDE DEF l
<1>4. y \in Rows /\ y.status = s /\ y.merged = b.merged /\ y.pausedAt = b.pausedAt
  BY <1>2, RestampedRow
<1> HIDE DEF y
<1>5. RowInv(Recorded(y, t), t)
  BY <1>3, RecordedInv
<1>6. /\ Recorded(y, t).status = y.status /\ Recorded(y, t).merged = y.merged
      /\ Recorded(y, t).pausedAt = y.pausedAt
  BY <1>4, RecordedRow
<1> QED BY <1>1, <1>2, <1>4, <1>5, <1>6 DEF y, l, b, Relabelled

----------------------------------------------------------------------------
(* Every step keeps the invariant.                                         *)

LEMMA InitInv == Init => ClockInv
<1> SUFFICES ASSUME Init PROVE ClockInv
  OBVIOUS
<1>1. row \in Rows
  BY DEF Init, Rows, TicketStatus, Timestamps
<1>2. /\ row.pausedAt = NoTime /\ row.pausedMinutes = 0 /\ row.resolvedMinutes = 0
      /\ \A c \in Clocks : row.due[c] = NoTime /\ row.outcome[c] = NoTime
  BY DEF Init
<1>3. RowInv(row, now)
  BY <1>1, <1>2 DEF RowInv, Known
<1>4. TypeOK
  BY <1>1, SlaAssumption DEF Init, TypeOK
<1> QED BY <1>2, <1>3, <1>4 DEF ClockInv, PausedAwaitsUser, Known

LEMMA NextInv == ClockInv /\ [Next]_vars => ClockInv'
<1> SUFFICES ASSUME ClockInv, [Next]_vars PROVE ClockInv'
  OBVIOUS
<1>1. now \in Nat /\ now \in Int /\ RowInv(row, now) /\ TypeOK /\ PausedAwaitsUser
  BY DEF ClockInv, TypeOK
<1>2. TriageStatus \subseteq TicketStatus
  BY DEF TriageStatus, TicketStatus
<1>3. ASSUME NEW s \in TicketStatus, SetStatus(s) PROVE ClockInv'
  <2>1. RowInv(row', now) /\ row'.status = s /\ (Known(row'.pausedAt) => s = PAUSED_STATUS)
    BY <1>1, <1>3, StatusSetInv DEF SetStatus
  <2> QED BY <1>1, <1>3, <2>1 DEF SetStatus, ClockInv, TypeOK, PausedAwaitsUser, RowInv
<1>4. ASSUME NEW w \in Triages, NEW p \in Priorities, NEW s \in TriageStatus,
             ApplyTriage(w, p, s)
      PROVE  ClockInv'
  <2> DEFINE waits == Known(row.pausedAt) /\ s # PAUSED_STATUS
             to == IF waits THEN row.status ELSE s
  <2>1. to \in TicketStatus
    BY <1>1, <1>2 DEF TypeOK, Rows
  <2>3. row' = Relabelled(row, p, to, now)
    BY <1>4 DEF ApplyTriage
  <2> HIDE DEF to
  <2>4. /\ RowInv(row', now) /\ row'.status = to /\ row'.merged = row.merged
        /\ row'.pausedAt = row.pausedAt
    BY <1>1, <2>1, <2>3, RelabelledInv
  <2>5. PausedAwaitsUser'
    BY <1>1, <2>4 DEF PausedAwaitsUser, to
  <2>6. resume' \in [Triages -> TriageStatus \cup {"none"}]
    BY <1>1, <1>4 DEF ApplyTriage, TypeOK
  <2> QED BY <1>1, <1>4, <2>4, <2>5, <2>6 DEF ApplyTriage, ClockInv, TypeOK, RowInv
<1>5. ASSUME NEW w \in Triages, ResumeAfterTriage(w) PROVE ClockInv'
  <2>1. resume[w] \in TicketStatus
    BY <1>1, <1>2, <1>5 DEF ResumeAfterTriage, TypeOK
  <2>2. /\ RowInv(row', now) /\ row'.status = resume[w]
        /\ Known(row'.pausedAt) => resume[w] = PAUSED_STATUS
    BY <1>1, <1>5, <2>1, StatusSetInv DEF ResumeAfterTriage
  <2>3. resume' \in [Triages -> TriageStatus \cup {"none"}]
    BY <1>1, <1>5 DEF ResumeAfterTriage, TypeOK
  <2> QED BY <1>1, <1>5, <2>2, <2>3
          DEF ResumeAfterTriage, ClockInv, TypeOK, PausedAwaitsUser, RowInv
<1>6. ASSUME NEW w \in Triages, CrashTriage(w) PROVE ClockInv'
  BY <1>1, <1>6 DEF CrashTriage, ClockInv, TypeOK, PausedAwaitsUser
<1>7. ASSUME MarkFirstResponse PROVE ClockInv'
  <2> DEFINE b == Recorded(row, now)
             x == Responded(b, now)
  <2>1. /\ RowInv(b, now) /\ b \in Rows /\ b.status = row.status /\ b.merged = row.merged
        /\ b.pausedAt = row.pausedAt
    BY <1>1, RecordedInv, RecordedRow DEF TypeOK
  <2> HIDE DEF b
  <2>2. /\ RowInv(x, now) /\ x \in Rows /\ x.status = b.status /\ x.merged = b.merged
        /\ x.pausedAt = b.pausedAt
    BY <1>1, <2>1, RespondedInv, RespondedRow
  <2>3. row' = Recorded(x, now)
    BY <1>7 DEF MarkFirstResponse, b
  <2> HIDE DEF x
  <2>4. /\ RowInv(row', now) /\ row'.status = x.status /\ row'.merged = x.merged
        /\ row'.pausedAt = x.pausedAt
    BY <1>1, <2>2, <2>3, RecordedInv, RecordedRow
  <2> QED BY <1>1, <1>7, <2>1, <2>2, <2>4
          DEF MarkFirstResponse, ClockInv, TypeOK, PausedAwaitsUser, RowInv
<1>8. ASSUME NEW p \in Priorities, OverrideClassification(p) PROVE ClockInv'
  <2>3. row' = Relabelled(row, p, row.status, now)
    BY <1>8 DEF OverrideClassification
  <2>4. row.status \in TicketStatus
    BY <1>1 DEF TypeOK, Rows
  <2>5. /\ RowInv(row', now) /\ row'.status = row.status /\ row'.merged = row.merged
        /\ row'.pausedAt = row.pausedAt
    BY <1>1, <2>3, <2>4, RelabelledInv
  <2> QED BY <1>1, <1>8, <2>5
          DEF OverrideClassification, ClockInv, TypeOK, PausedAwaitsUser, RowInv
<1>9. ASSUME MergeTicket PROVE ClockInv'
  <2>1. /\ row' \in Rows /\ row'.merged = TRUE
        /\ row'.priority = row.priority /\ row'.due = row.due /\ row'.outcome = row.outcome
        /\ row'.breached = row.breached /\ row'.pausedAt = row.pausedAt
        /\ row'.pausedMinutes = row.pausedMinutes
        /\ row'.resolvedMinutes = row.resolvedMinutes
    BY <1>1, <1>9 DEF MergeTicket, TypeOK, Rows, TicketStatus
  <2>2. Stamp(row') = Stamp(row) /\ \A c \in Clocks : Settled(row', c) <=> Settled(row, c)
    BY <2>1 DEF Stamp, Settled
  <2>3. RowInv(row', now)
    BY <1>1, <2>1, <2>2 DEF RowInv
  <2> QED BY <1>1, <1>9, <2>1, <2>3 DEF MergeTicket, ClockInv, TypeOK, PausedAwaitsUser
<1>10. ASSUME SelectOverdue \/ SweepFails PROVE ClockInv'
  BY <1>1, <1>10 DEF SelectOverdue, SweepFails, ClockInv, TypeOK, PausedAwaitsUser
<1>11. ASSUME RecordSlaBreaches PROVE ClockInv'
  <2>1. /\ RowInv(row', now) /\ row' \in Rows /\ row'.status = row.status
        /\ row'.merged = row.merged /\ row'.pausedAt = row.pausedAt
    BY <1>1, <1>11, RecordedInv, RecordedRow DEF RecordSlaBreaches, TypeOK
  <2> QED BY <1>1, <1>11, <2>1 DEF RecordSlaBreaches, ClockInv, TypeOK, PausedAwaitsUser
<1>12. ASSUME Tick PROVE ClockInv'
  <2>1. RowInv(row, now + 1)
    BY <1>1 DEF RowInv, Rows, Timestamps, Known
  <2> QED BY <1>1, <1>12, <2>1 DEF Tick, ClockInv, TypeOK, PausedAwaitsUser
<1>13. CASE UNCHANGED vars
  BY <1>1, <1>13 DEF vars, ClockInv, TypeOK, PausedAwaitsUser
<1> QED BY <1>3, <1>4, <1>5, <1>6, <1>7, <1>8, <1>9, <1>10, <1>11, <1>12, <1>13 DEF Next

LEMMA SpecInv == Spec => []ClockInv
BY InitInv, NextInv, PTL DEF Spec

\* Every reachable row of tickets is well typed, whatever the settings.
THEOREM TypeCorrect == Spec => []TypeOK
BY SpecInv, PTL DEF ClockInv

\* A clock stands still only while the ticket waits for its requester.
THEOREM PauseIsAwaited == Spec => []PausedAwaitsUser
BY SpecInv, PTL DEF ClockInv

\* I5 of docs/sla.md for every calendar: no order of pauses, retriages, overrides
\* and reopens parts an unsettled clock from the stamp of its credits.
THEOREM ClocksAreStamped == Spec => []UnsettledClocksAreStamped
<1>1. ClockInv => UnsettledClocksAreStamped
  BY DEF ClockInv, RowInv, UnsettledClocksAreStamped
<1> QED BY <1>1, SpecInv, PTL

----------------------------------------------------------------------------
(* A result, once shown, stands.                                           *)

\* What a change between two recordings may do to a clock: it keeps the flag, keeps a
\* deadline, and moves neither an outcome nor the deadline of a clock that has one.
Kept(r, x, c) ==
  /\ Known(r.due[c]) => Known(x.due[c])
  /\ x.breached[c] <=> r.breached[c]
  /\ Known(r.outcome[c]) => /\ x.outcome[c] = r.outcome[c]
                            /\ Known(r.due[c]) => x.due[c] = r.due[c]

Stands(r, x, c, t) ==
  /\ Breached(r, c, t) => Breached(x, c, t)
  /\ Met(r, c, t) => Met(x, c, t)

LEMMA JudgedTwice ==
  ASSUME NEW r \in Rows, NEW x \in Rows, NEW t \in Int, NEW c \in Clocks,
         Kept(Recorded(r, t), x, c)
  PROVE  Stands(r, Recorded(x, t), c, t)
<1> DEFINE b == Recorded(r, t)
           z == Recorded(x, t)
<1>1. /\ b.due = r.due /\ b.outcome = r.outcome
      /\ b.breached[c] <=> r.breached[c] \/ Breached(r, c, t)
      /\ z.due = x.due /\ z.outcome = x.outcome
      /\ z.breached[c] <=> x.breached[c] \/ Breached(x, c, t)
  BY RecordedRow
<1>2. Kept(b, x, c)
  OBVIOUS
<1> HIDE DEF b, z
<1>3. ASSUME Breached(r, c, t) PROVE Breached(z, c, t)
  <2>1. Known(r.due[c]) /\ b.breached[c]
    BY <1>1, <1>3 DEF Breached
  <2>2. Known(z.due[c]) /\ z.breached[c]
    BY <1>1, <1>2, <2>1 DEF Kept
  <2> QED BY <2>2 DEF Breached
<1>4. ASSUME Met(r, c, t) PROVE Met(z, c, t)
  <2>1. Known(r.due[c]) /\ Known(r.outcome[c]) /\ ~Breached(r, c, t)
    BY <1>4 DEF Met
  <2>2. ~r.breached[c] /\ ~(r.due[c] < r.outcome[c])
    BY <2>1 DEF Breached, ReadAt
  <2>3. x.outcome[c] = r.outcome[c] /\ x.due[c] = r.due[c] /\ ~x.breached[c]
    BY <1>1, <1>2, <2>1, <2>2 DEF Kept
  <2>4. ~Breached(x, c, t)
    BY <2>1, <2>2, <2>3 DEF Breached, ReadAt
  <2>5. z.outcome[c] = r.outcome[c] /\ z.due[c] = r.due[c] /\ ~z.breached[c]
    BY <1>1, <2>3, <2>4
  <2>6. ~Breached(z, c, t)
    BY <2>1, <2>2, <2>5 DEF Breached, ReadAt
  <2> QED BY <2>1, <2>5, <2>6 DEF Met
<1>5. Stands(r, z, c, t)
  BY <1>3, <1>4 DEF Stands
<1> QED BY <1>5 DEF z

\* setStatus touches a result only by the reopen.
LEMMA MovedKept ==
  ASSUME NEW r, NEW s \in TicketStatus, NEW t \in Int, RowInv(r, t), NEW c \in Clocks
  PROVE  \/ Kept(r, Moved(r, s, t), c)
         \/ /\ c = "resolution" /\ Known(r.outcome[c])
            /\ ~Known(Moved(r, s, t).outcome[c])
<1>1. r \in Rows /\ c \in {"first_response", "resolution"}
  BY DEF RowInv, Clocks
<1>2. CASE Reopens(r, s) /\ ~Known(r.pausedAt)
           /\ Moved(r, s, t) = Entered(Reopened(r, t), s, t)
  <2> DEFINE u == Reopened(r, t)
  <2>1. Known(r.outcome["resolution"]) /\ s \notin Over
    BY <1>2 DEF Reopens
  <2>2. /\ u \in Rows /\ u.outcome["resolution"] = NoTime
        /\ u.outcome["first_response"] = r.outcome["first_response"]
        /\ u.breached["first_response"] = r.breached["first_response"]
        /\ u.due["first_response"] = r.due["first_response"]
    BY <1>1, <2>1, ReopenedRow
  <2> HIDE DEF u
  <2>3. Moved(r, s, t) = Entered(u, s, t)
    BY <1>2 DEF u
  <2>4. /\ Entered(u, s, t).due = u.due /\ Entered(u, s, t).breached = u.breached
        /\ Entered(u, s, t).outcome["first_response"] = u.outcome["first_response"]
        /\ Entered(u, s, t).outcome["resolution"] = NoTime
    BY <2>1, <2>2, EnteredRow
  <2>5. CASE c = "resolution"
    BY <2>1, <2>3, <2>4, <2>5 DEF Known
  <2>6. CASE c = "first_response"
    BY <2>2, <2>3, <2>4, <2>6 DEF Kept
  <2> QED BY <1>1, <2>5, <2>6
<1>3. CASE ~Reopens(r, s) /\ Known(r.pausedAt) /\ s # PAUSED_STATUS
           /\ Moved(r, s, t) = Entered(Resumed(r, t), s, t)
  <2> DEFINE u == Resumed(r, t)
             wait == Between(r.pausedAt, t, r.priority)
  <2>1. /\ wait \in Int /\ u \in Rows /\ u.outcome = r.outcome /\ u.breached = r.breached
        /\ u.due[c] = IF Known(r.due[c]) /\ ~Known(r.outcome[c])
                        THEN Later(r.due[c], wait, r.priority) ELSE r.due[c]
    BY <1>1, <1>3, ResumedRow
  <2> HIDE DEF u, wait
  <2>2. Known(r.due[c]) => Known(u.due[c])
    BY <1>1, <2>1, LaterInt, SlaAssumption DEF Rows, Timestamps, Known
  <2>3. Moved(r, s, t) = Entered(u, s, t)
    BY <1>3 DEF u
  <2>4. /\ Entered(u, s, t).due = u.due /\ Entered(u, s, t).breached = u.breached
        /\ Known(u.outcome[c]) => Entered(u, s, t).outcome[c] = u.outcome[c]
    BY <1>1, <2>1, EnteredRow
  <2> QED BY <2>1, <2>2, <2>3, <2>4 DEF Kept
<1>4. CASE ~Reopens(r, s) /\ ~(Known(r.pausedAt) /\ s # PAUSED_STATUS)
           /\ Moved(r, s, t) = Entered(r, s, t)
  <2>1. /\ Entered(r, s, t).due = r.due /\ Entered(r, s, t).breached = r.breached
        /\ Known(r.outcome[c]) => Entered(r, s, t).outcome[c] = r.outcome[c]
    BY <1>1, EnteredRow
  <2> QED BY <1>4, <2>1 DEF Kept
<1> QED BY <1>2, <1>3, <1>4, MovedCases

LEMMA StatusSetStands ==
  ASSUME NEW r, NEW s \in TicketStatus, NEW t \in Int, RowInv(r, t), NEW c \in Clocks
  PROVE  \/ Stands(r, StatusSet(r, s, t), c, t)
         \/ /\ c = "resolution" /\ Known(r.outcome[c])
            /\ ~Known(StatusSet(r, s, t).outcome[c])
<1> DEFINE b == Recorded(r, t)
           m == Moved(b, s, t)
<1>1. r \in Rows /\ b \in Rows /\ RowInv(b, t) /\ b.outcome = r.outcome
  <2>1. r \in Rows
    BY DEF RowInv
  <2>2. RowInv(Recorded(r, t), t)
    BY RecordedInv
  <2> QED BY <2>1, <2>2, RecordedRow
<1> HIDE DEF b
<1>2. m \in Rows
  BY <1>1, MovedInv DEF RowInv
<1>3. Kept(b, m, c) \/ (c = "resolution" /\ Known(b.outcome[c]) /\ ~Known(m.outcome[c]))
  BY <1>1, MovedKept
<1>4. StatusSet(r, s, t) = Recorded(m, t)
  BY DEF StatusSet, b
<1> HIDE DEF m
<1>5. Recorded(m, t).outcome = m.outcome
  BY <1>2, RecordedRow
<1>6. Kept(b, m, c) => Stands(r, Recorded(m, t), c, t)
  BY <1>1, <1>2, JudgedTwice DEF b
<1> QED BY <1>1, <1>3, <1>4, <1>5, <1>6

LEMMA RelabelledStands ==
  ASSUME NEW r \in Rows, NEW t \in Int, NEW p \in Priorities, NEW s \in TicketStatus,
         NEW c \in Clocks
  PROVE  Stands(r, Relabelled(r, p, s, t), c, t)
<1> DEFINE b == Recorded(r, t)
           l == [b EXCEPT !.priority = p, !.status = s]
           y == Restamped(l)
<1>1. b \in Rows
  BY RecordedRow
<1> HIDE DEF b
<1>2. /\ l \in Rows /\ l.priority = p /\ l.due = b.due /\ l.outcome = b.outcome
      /\ l.breached = b.breached
  BY <1>1 DEF Rows
<1> HIDE DEF l
<1>3. /\ y \in Rows /\ y.outcome = l.outcome /\ y.breached = l.breached /\ Known(y.due[c])
      /\ y.due[c] = IF Settled(l, c) THEN l.due[c] ELSE Stamp(l)[c]
  BY <1>2, RestampedRow
<1> HIDE DEF y
<1>4. Kept(b, y, c)
  BY <1>2, <1>3 DEF Kept, Settled
<1>5. Stands(r, Recorded(y, t), c, t)
  BY <1>3, <1>4, JudgedTwice DEF b
<1> QED BY <1>5 DEF y, l, b, Relabelled

\* Only a reopen takes a result back.
LEMMA StepStands ==
  ASSUME ClockInv, [Next]_vars, NEW c \in Clocks, ~Restarts(c)
  PROVE  /\ Breached(row, c, now) => Breached(row, c, now)'
         /\ Met(row, c, now) => Met(row, c, now)'
<1>1. now \in Int /\ RowInv(row, now) /\ row \in Rows
  BY DEF ClockInv, TypeOK
<1>2. TriageStatus \subseteq TicketStatus
  BY DEF TriageStatus, TicketStatus
<1> DEFINE Goal == /\ Breached(row, c, now) => Breached(row, c, now)'
                   /\ Met(row, c, now) => Met(row, c, now)'
<1>3. ASSUME now' = now, Stands(row, row', c, now) PROVE Goal
  BY <1>3 DEF Stands, Breached, Met, ReadAt
<1>4. ASSUME NEW s \in TicketStatus, row' = StatusSet(row, s, now), now' = now PROVE Goal
  <2>1. Stands(row, row', c, now)
    BY <1>1, <1>4, StatusSetStands DEF Restarts
  <2> QED BY <1>3, <1>4, <2>1
<1>5. ASSUME NEW p \in Priorities, NEW s \in TicketStatus,
             row' = Relabelled(row, p, s, now), now' = now
      PROVE  Goal
  <2>1. Stands(row, row', c, now)
    BY <1>1, <1>5, RelabelledStands
  <2> QED BY <1>3, <1>5, <2>1
<1>6. ASSUME MarkFirstResponse PROVE Goal
  <2> DEFINE b == Recorded(row, now)
             x == Responded(b, now)
  <2>1. b \in Rows /\ b.outcome = row.outcome
    BY <1>1, RecordedRow
  <2>2. ~Known(row.outcome["first_response"]) /\ row' = Recorded(x, now) /\ now' = now
    BY <1>6 DEF MarkFirstResponse
  <2> HIDE DEF b
  <2> DEFINE wait == IF Breached(b, "first_response", now) THEN 0
                     ELSE Between(b.pausedAt, now, b.priority)
  <2>3. /\ x \in Rows /\ x.breached = b.breached
        /\ x.outcome["resolution"] = b.outcome["resolution"]
        /\ x.due["resolution"] = b.due["resolution"]
        /\ x.due["first_response"] = IF Known(b.pausedAt) /\ Known(b.due["first_response"])
             THEN Later(b.due["first_response"], wait, b.priority)
             ELSE b.due["first_response"]
    BY <1>1, <2>1, RespondedRow
  <2>4. Known(b.pausedAt) => wait \in Int
    BY <1>1, <2>1, BetweenInt DEF Rows, Timestamps, Known
  <2> HIDE DEF x, wait
  <2>5. Known(b.due["first_response"]) => Known(x.due["first_response"])
    BY <2>1, <2>3, <2>4, LaterInt, SlaAssumption DEF Rows, Timestamps, Known, Clocks
  <2>6. Kept(b, x, c)
    BY <2>1, <2>2, <2>3, <2>5 DEF Kept, Clocks
  <2>7. Stands(row, row', c, now)
    BY <1>1, <2>2, <2>3, <2>6, JudgedTwice DEF b
  <2> QED BY <1>3, <2>2, <2>7
<1>7. ASSUME RecordSlaBreaches PROVE Goal
  <2>1. row' = Recorded(row, now) /\ now' = now
    BY <1>7 DEF RecordSlaBreaches
  <2>2. /\ row'.due = row.due /\ row'.outcome = row.outcome
        /\ row'.pausedAt = row.pausedAt
        /\ row'.breached[c] <=> row.breached[c] \/ Breached(row, c, now)
    BY <1>1, <2>1, RecordedRow
  <2> QED BY <2>1, <2>2 DEF Breached, Met, ReadAt
<1>8. ASSUME MergeTicket PROVE Goal
  <2>1. /\ row'.due = row.due /\ row'.outcome = row.outcome /\ now' = now
        /\ row'.pausedAt = row.pausedAt /\ row'.breached = row.breached
    BY <1>1, <1>8 DEF MergeTicket, Rows
  <2> QED BY <2>1 DEF Breached, Met, ReadAt
<1>9. ASSUME Tick PROVE Goal
  <2>1. row' = row /\ now' = now + 1
    BY <1>9 DEF Tick
  <2>2. row.due[c] \in Timestamps /\ row.outcome[c] \in Timestamps /\ row.pausedAt \in Timestamps
    BY <1>1 DEF Rows
  <2> QED BY <1>1, <2>1, <2>2 DEF Breached, Met, ReadAt, Known, Timestamps
<1>10. ASSUME UNCHANGED <<row, now>> PROVE Goal
  BY <1>10 DEF Breached, Met, ReadAt
<1>11. ASSUME NEW w \in Triages, NEW p \in Priorities, NEW s \in TriageStatus,
              ApplyTriage(w, p, s)
       PROVE  Goal
  <2>1. PICK q \in TicketStatus : row' = Relabelled(row, p, q, now)
    BY <1>1, <1>2, <1>11 DEF ApplyTriage, Rows
  <2> QED BY <1>5, <1>11, <2>1 DEF ApplyTriage
<1>12. ASSUME NEW p \in Priorities, OverrideClassification(p) PROVE Goal
  <2>1. row.status \in TicketStatus
    BY <1>1 DEF Rows
  <2> QED BY <1>5, <1>12, <2>1 DEF OverrideClassification
<1>13. ASSUME NEW w \in Triages, ResumeAfterTriage(w) PROVE Goal
  <2>1. resume[w] \in TicketStatus
    BY <1>2, <1>13 DEF ResumeAfterTriage, ClockInv, TypeOK
  <2> QED BY <1>4, <1>13, <2>1 DEF ResumeAfterTriage
<1>14. ASSUME NEW s \in TicketStatus, SetStatus(s) PROVE Goal
  BY <1>4, <1>14 DEF SetStatus
<1>15. ASSUME \/ SelectOverdue \/ SweepFails \/ \E w \in Triages : CrashTriage(w)
              \/ UNCHANGED vars
       PROVE  Goal
  BY <1>10, <1>15 DEF SelectOverdue, SweepFails, CrashTriage, vars
<1> QED BY <1>6, <1>7, <1>8, <1>9, <1>11, <1>12, <1>13, <1>14, <1>15 DEF Next

\* I2, I3, I9, I10: no writer takes back a breach that has been shown, for every
\* calendar and every order of the writers.
THEOREM BreachStands == Spec => BreachesStand
<1>1. ClockInv /\ [Next]_vars =>
        [\A c \in Clocks :
           Breached(row, c, now) /\ ~Restarts(c) => Breached(row, c, now)']_vars
  BY StepStands
<1> QED BY <1>1, SpecInv, PTL DEF Spec, BreachesStand

\* I4: and none takes back a target that was met.
THEOREM TargetStands == Spec => MetTargetsStand
<1>1. ClockInv /\ [Next]_vars =>
        [\A c \in Clocks :
           Met(row, c, now) /\ ~Restarts(c) => Met(row, c, now)']_vars
  BY StepStands
<1> QED BY <1>1, SpecInv, PTL DEF Spec, MetTargetsStand

----------------------------------------------------------------------------
(* Margins.                                                                *)

LEMMA BetweenSplits ==
  ASSUME NEW a \in Int, NEW b \in Int, NEW c \in Int, NEW p
  PROVE  Between(a, c, p) = Between(a, b, p) + Between(b, c, p)
<1>1. Worked(a) \in Int /\ Worked(b) \in Int /\ Worked(c) \in Int
  BY WorkedInt
<1> QED BY <1>1 DEF Between

\* The end of a pause moves a running deadline as far as the clock has run since.
LEMMA ResumeMargin ==
  ASSUME NEW r, NEW s \in TicketStatus, NEW t \in Int, RowInv(r, t), NEW c \in Clocks,
         Known(r.pausedAt), ~Known(StatusSet(r, s, t).pausedAt),
         Known(r.due[c]), ~Known(r.outcome[c])
  PROVE  Margin(r, c, r.pausedAt) = Margin(StatusSet(r, s, t), c, t)
<1> DEFINE b == Recorded(r, t)
           u == Resumed(b, t)
           m == Entered(u, s, t)
           wait == Between(r.pausedAt, t, r.priority)
<1>1. /\ r \in Rows /\ b \in Rows /\ RowInv(b, t) /\ b.outcome = r.outcome /\ b.due = r.due
      /\ b.pausedAt = r.pausedAt /\ b.priority = r.priority
  <2>1. r \in Rows
    BY DEF RowInv
  <2>2. RowInv(Recorded(r, t), t)
    BY RecordedInv
  <2> QED BY <2>1, <2>2, RecordedRow
<1> HIDE DEF b
<1>2. Moved(b, s, t) \in Rows
  BY <1>1, MovedInv DEF RowInv
<1>3. StatusSet(r, s, t) = Recorded(Moved(b, s, t), t)
  BY DEF StatusSet, b
<1>4. Recorded(Moved(b, s, t), t).pausedAt = Moved(b, s, t).pausedAt
  BY <1>2, RecordedRow
<1>5. s # PAUSED_STATUS
  <2>1. SUFFICES ASSUME s = PAUSED_STATUS PROVE FALSE
    OBVIOUS
  <2>2. Moved(b, s, t) = Entered(b, s, t)
    BY <1>1, <2>1, MovedCases
  <2>3. Entered(b, s, t).pausedAt = b.pausedAt
    BY <1>1, EnteredRow
  <2> QED BY <1>1, <1>3, <1>4, <2>2, <2>3
<1>6. Moved(b, s, t) = m
  BY <1>1, <1>5, MovedCases
<1>7. /\ wait \in Int /\ u \in Rows /\ u.priority = b.priority
      /\ u.due[c] = Later(b.due[c], wait, b.priority)
  BY <1>1, ResumedRow
<1> HIDE DEF u, wait
<1>8. m \in Rows /\ m.due = u.due /\ m.priority = u.priority
  BY <1>7, EnteredRow
<1> HIDE DEF m
<1>9. Recorded(m, t).due = m.due /\ Recorded(m, t).priority = m.priority
  BY <1>8, RecordedRow
<1>10. Margin(StatusSet(r, s, t), c, t) =
       Between(t, Later(r.due[c], wait, r.priority), r.priority)
  BY <1>1, <1>3, <1>6, <1>7, <1>8, <1>9 DEF Margin
<1>11. r.due[c] \in Int /\ r.pausedAt \in Int
  BY <1>1 DEF Rows, Timestamps, Known
<1>12. Between(t, Later(r.due[c], wait, r.priority), r.priority) =
       Between(t, r.due[c], r.priority) + wait
  BY <1>7, <1>11, LaterIsFarther
<1>13. Between(r.pausedAt, r.due[c], r.priority) =
       wait + Between(t, r.due[c], r.priority)
  BY <1>11, BetweenSplits DEF wait
<1>14. Between(t, r.due[c], r.priority) \in Int
  BY <1>11, BetweenInt
<1> QED BY <1>7, <1>10, <1>12, <1>13, <1>14 DEF Margin

\* A reopen moves the deadline of the priority's own window as far as the clock would
\* have run since the resolution.
LEMMA ReopenMargin ==
  ASSUME NEW r, NEW s \in TicketStatus, NEW t \in Int, RowInv(r, t),
         Known(r.outcome["resolution"]), ~Known(StatusSet(r, s, t).outcome["resolution"]),
         Known(r.due["resolution"]), r.due["resolution"] = Stamp(r)["resolution"]
  PROVE  Margin(r, "resolution", r.outcome["resolution"]) =
         Margin(StatusSet(r, s, t), "resolution", t)
<1> DEFINE b == Recorded(r, t)
           u == Reopened(b, t)
           m == Entered(u, s, t)
           from == r.outcome["resolution"]
           spent == Between(b.outcome["resolution"], t, b.priority)
           credited == [b EXCEPT !.resolvedMinutes = @ + spent]
           k == Window["resolution"][r.priority] + (r.pausedMinutes + r.resolvedMinutes)
<1>1. /\ r \in Rows /\ b \in Rows /\ RowInv(b, t) /\ b.outcome = r.outcome /\ b.due = r.due
      /\ b.pausedAt = r.pausedAt /\ b.priority = r.priority
      /\ b.pausedMinutes = r.pausedMinutes /\ b.resolvedMinutes = r.resolvedMinutes
  <2>1. r \in Rows
    BY DEF RowInv
  <2>2. RowInv(b, t)
    BY RecordedInv
  <2> QED BY <2>1, <2>2, RecordedRow
<1>2. "resolution" \in Clocks /\ ~Known(r.pausedAt)
  BY DEF RowInv, Clocks
<1> HIDE DEF b
<1>3. Moved(b, s, t) \in Rows
  BY <1>1, MovedInv DEF RowInv
<1>4. StatusSet(r, s, t) = Recorded(Moved(b, s, t), t)
  BY DEF StatusSet, b
<1>5. Recorded(Moved(b, s, t), t).outcome = Moved(b, s, t).outcome
  BY <1>3, RecordedRow
<1>6. Reopens(b, s)
  <2>1. SUFFICES ASSUME ~Reopens(b, s) PROVE FALSE
    OBVIOUS
  <2>2. Moved(b, s, t) = Entered(b, s, t)
    BY <1>1, <1>2, <2>1, MovedCases
  <2>3. Known(Entered(b, s, t).outcome["resolution"])
    BY <1>1, EnteredRow
  <2> QED BY <1>4, <1>5, <2>2, <2>3
<1>7. Moved(b, s, t) = m
  BY <1>1, <1>6, MovedCases
<1>8. r.priority \in Priorities /\ r.priority # NoPriority
  BY <1>2, SlaAssumption DEF RowInv
<1>9. /\ spent \in Int /\ u \in Rows /\ u.priority = b.priority
      /\ u.due["resolution"] = Stamp(credited)["resolution"]
  <2>1. b.priority # NoPriority /\ Known(b.outcome["resolution"])
        /\ Known(b.due["resolution"]) /\ ~Known(b.pausedAt)
    BY <1>1, <1>2, <1>8
  <2> QED BY <1>1, <2>1, ReopenedRow
<1>10. /\ credited.priority = r.priority /\ credited.pausedMinutes = r.pausedMinutes
       /\ credited.resolvedMinutes = r.resolvedMinutes + spent
  BY <1>1 DEF Rows
<1>11. Window["resolution"][r.priority] \in Int
  BY <1>2, <1>8, SlaAssumption
<1> HIDE DEF u, spent, credited
<1>12. k \in Int /\ r.pausedMinutes \in Int /\ r.resolvedMinutes \in Int
  BY <1>1, <1>11 DEF Rows
<1>13. Stamp(r)["resolution"] = Later(Created, k, r.priority)
  BY <1>2 DEF Stamp
<1>14. Stamp(credited)["resolution"] = Later(Created, k + spent, r.priority)
  <2>1. Stamp(credited)["resolution"] =
        Later(Created, Window["resolution"][r.priority] +
                       (r.pausedMinutes + (r.resolvedMinutes + spent)), r.priority)
    BY <1>2, <1>10 DEF Stamp
  <2>2. Window["resolution"][r.priority] + (r.pausedMinutes + (r.resolvedMinutes + spent))
        = k + spent
    BY <1>9, <1>11, <1>12
  <2> QED BY <2>1, <2>2
<1> HIDE DEF k
<1>15. m \in Rows /\ m.due = u.due /\ m.priority = u.priority
  BY <1>9, EnteredRow
<1> HIDE DEF m
<1>16. Recorded(m, t).due = m.due /\ Recorded(m, t).priority = m.priority
  BY <1>15, RecordedRow
<1>17. Margin(StatusSet(r, s, t), "resolution", t) =
       Between(t, Later(Created, k + spent, r.priority), r.priority)
  BY <1>1, <1>4, <1>7, <1>9, <1>14, <1>15, <1>16 DEF Margin
<1>18. Margin(r, "resolution", from) = Between(from, Later(Created, k, r.priority), r.priority)
  BY <1>13 DEF Margin
<1>19. from \in Int
  BY <1>1, <1>2 DEF Rows, Timestamps, Known
<1> HIDE DEF from
<1>20. /\ Between(t, Later(Created, k + spent, r.priority), r.priority) =
          Between(t, Created, r.priority) + (k + spent)
       /\ Between(from, Later(Created, k, r.priority), r.priority) =
          Between(from, Created, r.priority) + k
  BY <1>9, <1>12, <1>19, LaterIsFarther, DayIsPositive
<1>21. Between(from, Created, r.priority) = spent + Between(t, Created, r.priority)
  BY <1>1, <1>19, BetweenSplits, DayIsPositive DEF spent, from
<1>22. Between(t, Created, r.priority) \in Int
  BY BetweenInt, DayIsPositive
<1> QED BY <1>9, <1>12, <1>17, <1>18, <1>20, <1>21, <1>22 DEF from

\* Which writers touch a pause or an outcome.
LEMMA OnlySetStatus ==
  ASSUME ClockInv, [Next]_vars
  PROVE  \/ \E s \in TicketStatus : row' = StatusSet(row, s, now)
         \/ /\ MarkFirstResponse
            /\ row'.pausedAt = row.pausedAt
            /\ row'.outcome["resolution"] = row.outcome["resolution"]
         \/ row'.pausedAt = row.pausedAt /\ row'.outcome = row.outcome
<1> DEFINE Goal == \/ \E s \in TicketStatus : row' = StatusSet(row, s, now)
                   \/ /\ MarkFirstResponse
                      /\ row'.pausedAt = row.pausedAt
                      /\ row'.outcome["resolution"] = row.outcome["resolution"]
                   \/ row'.pausedAt = row.pausedAt /\ row'.outcome = row.outcome
<1>1. now \in Int /\ RowInv(row, now) /\ row \in Rows
  BY DEF ClockInv, TypeOK
<1>2. TriageStatus \subseteq TicketStatus
  BY DEF TriageStatus, TicketStatus
<1>3. ASSUME NEW p \in Priorities, NEW s \in TicketStatus, row' = Relabelled(row, p, s, now)
      PROVE  Goal
  <2> DEFINE b == Recorded(row, now)
             l == [b EXCEPT !.priority = p, !.status = s]
             y == Restamped(l)
  <2>1. b \in Rows /\ b.outcome = row.outcome /\ b.pausedAt = row.pausedAt
    BY <1>1, RecordedRow
  <2> HIDE DEF b
  <2>2. /\ l \in Rows /\ l.priority = p /\ l.outcome = b.outcome /\ l.pausedAt = b.pausedAt
    BY <2>1 DEF Rows
  <2> HIDE DEF l
  <2>3. y \in Rows /\ y.outcome = l.outcome /\ y.pausedAt = l.pausedAt
    BY <2>2, RestampedRow
  <2> HIDE DEF y
  <2>4. Recorded(y, now).outcome = y.outcome /\ Recorded(y, now).pausedAt = y.pausedAt
    BY <1>1, <2>3, RecordedRow
  <2>5. row' = Recorded(y, now)
    BY <1>3 DEF y, l, b, Relabelled
  <2> QED BY <2>1, <2>2, <2>3, <2>4, <2>5
<1>4. ASSUME MarkFirstResponse PROVE Goal
  <2> DEFINE b == Recorded(row, now)
             x == Responded(b, now)
  <2>1. b \in Rows /\ b.outcome = row.outcome /\ b.pausedAt = row.pausedAt
    BY <1>1, RecordedRow
  <2>2. row' = Recorded(x, now)
    BY <1>4 DEF MarkFirstResponse
  <2> HIDE DEF b
  <2>3. /\ x \in Rows /\ x.outcome["resolution"] = b.outcome["resolution"]
        /\ x.pausedAt = b.pausedAt
    BY <1>1, <2>1, RespondedRow
  <2> HIDE DEF x
  <2>4. Recorded(x, now).outcome = x.outcome /\ Recorded(x, now).pausedAt = x.pausedAt
    BY <1>1, <2>3, RecordedRow
  <2> QED BY <1>4, <2>1, <2>2, <2>3, <2>4
<1>5. ASSUME RecordSlaBreaches PROVE Goal
  BY <1>1, <1>5, RecordedRow DEF RecordSlaBreaches
<1>6. ASSUME MergeTicket PROVE Goal
  BY <1>1, <1>6 DEF MergeTicket, Rows
<1>7. ASSUME NEW w \in Triages, NEW p \in Priorities, NEW s \in TriageStatus,
             ApplyTriage(w, p, s)
      PROVE  Goal
  <2>1. PICK q \in TicketStatus : row' = Relabelled(row, p, q, now)
    BY <1>1, <1>2, <1>7 DEF ApplyTriage, Rows
  <2> QED BY <1>3, <2>1
<1>8. ASSUME NEW p \in Priorities, OverrideClassification(p) PROVE Goal
  <2>1. row.status \in TicketStatus
    BY <1>1 DEF Rows
  <2> QED BY <1>3, <1>8, <2>1 DEF OverrideClassification
<1>9. ASSUME NEW w \in Triages, ResumeAfterTriage(w) PROVE Goal
  <2>1. resume[w] \in TicketStatus
    BY <1>2, <1>9 DEF ResumeAfterTriage, ClockInv, TypeOK
  <2> QED BY <1>9, <2>1 DEF ResumeAfterTriage
<1>10. ASSUME NEW s \in TicketStatus, SetStatus(s) PROVE Goal
  BY <1>10 DEF SetStatus
<1>11. ASSUME \/ SelectOverdue \/ SweepFails \/ Tick \/ \E w \in Triages : CrashTriage(w)
              \/ UNCHANGED vars
       PROVE  Goal
  BY <1>11 DEF SelectOverdue, SweepFails, CrashTriage, Tick, vars
<1> QED BY <1>4, <1>5, <1>6, <1>7, <1>8, <1>9, <1>10, <1>11 DEF Next

\* T7, T8: for every calendar, the end of a pause leaves a running clock the margin it
\* had when it stopped.
THEOREM PauseMargins == Spec => PausesKeepMargins
<1>1. ASSUME ClockInv, [Next]_vars, NEW c \in Clocks,
             Resumes, Known(row.due[c]), ~Known(row.outcome[c])
      PROVE  Margin(row, c, row.pausedAt) = Margin(row', c, now)
  <2>1. PICK s \in TicketStatus : row' = StatusSet(row, s, now)
    BY <1>1, OnlySetStatus DEF Resumes
  <2> QED BY <1>1, <2>1, ResumeMargin DEF Resumes, ClockInv, TypeOK
<1>2. ClockInv /\ [Next]_vars =>
        [\A c \in Clocks : Resumes /\ Known(row.due[c]) /\ ~Known(row.outcome[c]) =>
           Margin(row, c, row.pausedAt) = Margin(row', c, now)]_vars
  <2>1. SUFFICES ASSUME ClockInv, [Next]_vars, NEW c \in Clocks,
                        Resumes, Known(row.due[c]), ~Known(row.outcome[c])
                 PROVE  Margin(row, c, row.pausedAt) = Margin(row', c, now)
    OBVIOUS
  <2> QED BY <1>1, <2>1
<1> QED BY <1>2, SpecInv, PTL DEF Spec, PausesKeepMargins

\* I11: for every calendar, a reopen gives the new clock the margin the old one was
\* resolved with.
THEOREM ReopenMargins == Spec => ReopensKeepMargins
<1>1. ASSUME ClockInv, [Next]_vars, Restarts("resolution"), Known(row.due["resolution"]),
             row.due["resolution"] = Stamp(row)["resolution"]
      PROVE  Margin(row, "resolution", row.outcome["resolution"]) =
             Margin(row', "resolution", now)
  <2>1. PICK s \in TicketStatus : row' = StatusSet(row, s, now)
    BY <1>1, OnlySetStatus DEF Restarts
  <2> QED BY <1>1, <2>1, ReopenMargin DEF Restarts, ClockInv, TypeOK
<1>2. ClockInv /\ [Next]_vars =>
        [/\ Restarts("resolution") /\ Known(row.due["resolution"])
         /\ row.due["resolution"] = Stamp(row)["resolution"]
         => Margin(row, "resolution", row.outcome["resolution"]) =
            Margin(row', "resolution", now)]_vars
  <2>1. SUFFICES ASSUME ClockInv, [Next]_vars, Restarts("resolution"),
                        Known(row.due["resolution"]),
                        row.due["resolution"] = Stamp(row)["resolution"]
                 PROVE  Margin(row, "resolution", row.outcome["resolution"]) =
                        Margin(row', "resolution", now)
    OBVIOUS
  <2> QED BY <1>1, <2>1
<1> QED BY <1>2, SpecInv, PTL DEF Spec, ReopensKeepMargins

LEMMA StatusSetResponse ==
  ASSUME NEW r, NEW s \in TicketStatus, NEW t \in Int, RowInv(r, t)
  PROVE  StatusSet(r, s, t).outcome["first_response"] = r.outcome["first_response"]
<1> DEFINE b == Recorded(r, t)
           m == Moved(b, s, t)
<1>1. b \in Rows /\ RowInv(b, t) /\ b.outcome = r.outcome
  <2>1. r \in Rows
    BY DEF RowInv
  <2>2. RowInv(Recorded(r, t), t)
    BY RecordedInv
  <2> QED BY <2>1, <2>2, RecordedRow
<1> HIDE DEF b
<1>2. m \in Rows
  BY <1>1, MovedInv DEF RowInv
<1>3. m.outcome["first_response"] = b.outcome["first_response"]
  <2>1. CASE Reopens(b, s) /\ m = Entered(Reopened(b, t), s, t)
    <3>1. /\ Reopened(b, t) \in Rows
          /\ Reopened(b, t).outcome["first_response"] = b.outcome["first_response"]
      BY <1>1, <2>1, ReopenedRow DEF Reopens
    <3> QED BY <2>1, <3>1, EnteredRow
  <2>2. CASE Known(b.pausedAt) /\ m = Entered(Resumed(b, t), s, t)
    <3>1. Resumed(b, t) \in Rows /\ Resumed(b, t).outcome = b.outcome
      BY <1>1, <2>2, ResumedRow
    <3> QED BY <2>2, <3>1, EnteredRow
  <2>3. CASE m = Entered(b, s, t)
    BY <1>1, <2>3, EnteredRow
  <2> QED BY <1>1, <2>1, <2>2, <2>3, MovedCases
<1>4. StatusSet(r, s, t) = Recorded(m, t)
  BY DEF StatusSet, b
<1> HIDE DEF m
<1> QED BY <1>1, <1>2, <1>3, <1>4, RecordedRow

\* A deadline with working minutes left when the clock stopped is still ahead once the
\* wait is credited.
LEMMA CreditIsEnough ==
  ASSUME NEW a \in Int, NEW f \in Int, NEW t \in Int, NEW p, a <= t, a <= f,
         OnCalendar(p) \/ Between(a, f, p) # 0
  PROVE  t <= Later(f, Between(a, t, p), p)
<1>1. CASE OnCalendar(p)
  BY <1>1 DEF Later, Between
<1>2. CASE ~OnCalendar(p)
  <2> DEFINE wait == Between(a, t, p)
             d == Later(f, wait, p)
  <2>1. wait \in Int /\ d \in Int
    BY BetweenInt, LaterInt
  <2>2. Between(t, d, p) = Between(t, f, p) + wait
    BY <2>1, LaterIsFarther
  <2> HIDE DEF d
  <2>3. /\ Worked(a) \in Int /\ Worked(f) \in Int /\ Worked(t) \in Int /\ Worked(d) \in Int
        /\ Worked(a) <= Worked(f)
    BY <2>1, WorkedInt, WorkedMonotone
  <2>4. Worked(t) < Worked(d)
    BY <1>2, <2>2, <2>3 DEF Between
  <2>5. ~(d <= t)
    BY <2>1, <2>3, <2>4, WorkedMonotone
  <2>6. t <= d
    BY <2>1, <2>5
  <2> QED BY <2>6 DEF d
<1> QED BY <1>1, <1>2

LEMMA ResponseJudged ==
  ASSUME NEW r, NEW t \in Int, RowInv(r, t), NEW c, c = "first_response",
         Known(r.pausedAt), Known(r.due[c]), ~Known(r.outcome[c]),
         OnCalendar(r.priority) \/ Margin(r, c, r.pausedAt) # 0
  PROVE  Breached(r, c, t) <=> Breached(Recorded(Responded(Recorded(r, t), t), t), c, t)
<1> DEFINE b == Recorded(r, t)
           x == Responded(b, t)
           z == Recorded(x, t)
           wait == IF Breached(b, c, t) THEN 0 ELSE Between(b.pausedAt, t, b.priority)
<1>1. c \in Clocks /\ r \in Rows
  BY DEF RowInv, Clocks
<1>2. /\ b \in Rows /\ b.outcome = r.outcome /\ b.due = r.due /\ b.pausedAt = r.pausedAt
      /\ b.priority = r.priority
      /\ b.breached[c] <=> r.breached[c] \/ Breached(r, c, t)
  BY <1>1, RecordedRow
<1> HIDE DEF b
<1>3. /\ x \in Rows /\ x.breached = b.breached /\ x.outcome[c] = t
      /\ x.due[c] = Later(r.due[c], wait, r.priority)
  BY <1>2, RespondedRow
<1> HIDE DEF x
<1>4. /\ z.outcome = x.outcome /\ z.due = x.due
      /\ z.breached[c] <=> x.breached[c] \/ Breached(x, c, t)
  BY <1>1, <1>3, RecordedRow
<1> HIDE DEF z
<1>5. r.due[c] \in Int /\ r.pausedAt \in Int /\ r.pausedAt <= t
  BY <1>1 DEF RowInv, Rows, Timestamps, Known
<1>6. Known(t)
  BY SlaAssumption DEF Known
<1>7. Breached(b, c, t) <=> Breached(r, c, t)
  BY <1>2 DEF Breached, ReadAt
<1>8. CASE Breached(r, c, t)
  <2>1. x.due[c] \in Int
    BY <1>3, <1>5, <1>7, <1>8, LaterInt
  <2>2. z.breached[c] /\ Known(z.due[c])
    BY <1>2, <1>3, <1>4, <1>8, <2>1, SlaAssumption DEF Known
  <2>3. Breached(z, c, t)
    BY <2>2 DEF Breached
  <2> QED BY <1>8, <2>3 DEF z, x, b
<1>9. CASE ~Breached(r, c, t)
  <2>1. ~r.breached[c] /\ r.pausedAt <= r.due[c]
    BY <1>5, <1>9 DEF Breached, ReadAt
  <2>2. wait = Between(r.pausedAt, t, r.priority)
    BY <1>2, <1>7, <1>9
  <2> HIDE DEF wait
  <2>3. t <= x.due[c] /\ x.due[c] \in Int
    BY <1>3, <1>5, <2>1, <2>2, CreditIsEnough, BetweenInt, LaterInt DEF Margin
  <2>4. ~x.breached[c] /\ ~Breached(x, c, t)
    BY <1>2, <1>3, <1>6, <1>9, <2>1, <2>3 DEF Breached, ReadAt
  <2>5. ~Breached(z, c, t)
    BY <1>3, <1>4, <1>6, <2>3, <2>4 DEF Breached, ReadAt
  <2> QED BY <1>9, <2>5 DEF z, x, b
<1> QED BY <1>8, <1>9

\* I8: for every calendar, a first response during a pause is late exactly when the clock
\* was late when it stopped, if a working minute was left.
THEOREM PausedResponse == Spec => PausedResponsesAreJudgedWherePaused
<1> DEFINE c == "first_response"
           H == /\ Known(row.pausedAt) /\ Known(row.due[c])
                /\ ~Known(row.outcome[c]) /\ Known(row'.outcome[c])
                /\ OnCalendar(row.priority) \/ Margin(row, c, row.pausedAt) # 0
           G == Breached(row, c, now) <=> Breached(row', c, now)
<1>1. ASSUME ClockInv, [Next]_vars, H PROVE G
  <2>1. now \in Int /\ RowInv(row, now)
    BY <1>1 DEF ClockInv, TypeOK
  <2>2. CASE \E s \in TicketStatus : row' = StatusSet(row, s, now)
    BY <1>1, <2>1, <2>2, StatusSetResponse
  <2>3. CASE MarkFirstResponse
    <3>1. row' = Recorded(Responded(Recorded(row, now), now), now)
      BY <2>3 DEF MarkFirstResponse
    <3> QED BY <1>1, <2>1, <3>1, ResponseJudged
  <2>4. CASE row'.outcome = row.outcome
    BY <1>1, <2>4
  <2> QED BY <1>1, <2>2, <2>3, <2>4, OnlySetStatus
<1>2. ClockInv /\ [Next]_vars => [H => G]_vars
  BY <1>1
<1> QED BY <1>2, SpecInv, PTL DEF Spec, PausedResponsesAreJudgedWherePaused

=============================================================================
