----------------------------- MODULE ShadowProofs -----------------------------
(***************************************************************************)
(* Proofs about Shadow: its types, that a label is the category its ticket *)
(* has, and that a label moves the thresholds the right way, for any       *)
(* tickets, categories, candidates and target.                             *)
(***************************************************************************)
EXTENDS Shadow, TLAPS, FiniteSetTheorems, WellFoundedInduction

-----------------------------------------------------------------------------
(* Types.                                                                  *)

AgentSide == [category : Categories \cup {NoCategory}, confidence : 0 .. 100, security : BOOLEAN]
RowType == [agent : AgentSide, human : Categories \cup {NoCategory}, security : Said]
ReviewType == [label : Categories \cup {NoCategory}, security : Said, late : BOOLEAN]

LEMMA RoundedType ==
  ASSUME NEW answer \in Answers
  PROVE  Rounded(answer) \in AgentSide /\ Rounded(answer) # Unknown
<1>1. answer.confidence \in 0 .. 1000
  BY DEF Answers
<1>2. (answer.confidence + 5) \div 10 \in 0 .. 100
  BY <1>1
<1>3. answer.category \in Categories /\ NoCategory \notin Categories
  BY ShadowAssumption DEF Answers
<1> QED
  BY <1>2, <1>3 DEF Rounded, Answers, AgentSide, Unknown

LEMMA OvertakenType ==
  ASSUME TypeOK, NEW t \in Tickets
  PROVE  Overtaken(t) \in [Reviews -> ReviewType]
<1>1. \A v \in Reviews : review[t][v] \in ReviewType
  BY DEF TypeOK, ReviewType
<1>2. NoReview \in ReviewType
  BY DEF NoReview, ReviewType, Said
<1>3. \A v \in Reviews : [review[t][v] EXCEPT !.late = TRUE] \in ReviewType
  BY <1>1 DEF ReviewType
<1> QED
  BY <1>1, <1>2, <1>3 DEF Overtaken

LEMMA TypeStep == TypeOK /\ [ShadowNext]_shadowVars => TypeOK'
<1> SUFFICES ASSUME TypeOK, [ShadowNext]_shadowVars PROVE TypeOK'
  OBVIOUS
<1>0. /\ row \in [Tickets -> RowType]
      /\ run \in [Tickets -> [Runs -> Answers \cup {Unknown}]]
      /\ review \in [Tickets -> [Reviews -> ReviewType]]
      /\ scene \in Cases /\ scene.answers \subseteq Answers /\ scene.labels \subseteq Categories
      /\ scene.flags \subseteq Said /\ scene.tickets \subseteq Tickets
  BY ShadowAssumption DEF TypeOK, RowType, AgentSide, ReviewType
<1>1. SUFFICES /\ row' \in [Tickets -> RowType]
               /\ run' \in [Tickets -> [Runs -> Answers \cup {Unknown}]]
               /\ review' \in [Tickets -> [Reviews -> ReviewType]]
               /\ category' \in [Tickets -> Categories \cup {NoCategory}]
               /\ scene' \in Cases /\ torn' \subseteq Tickets /\ answered' \subseteq Tickets
  BY DEF TypeOK, RowType, AgentSide, ReviewType
<1>2. ASSUME NEW t \in Tickets, NEW r \in Runs, ApplyTriage(t, r) PROVE <1>1!1
  <2>1. PICK answer \in Answers : /\ category' = [category EXCEPT ![t] = answer.category]
                                  /\ run' = [run EXCEPT ![t][r] = answer]
    BY <1>0, <1>2 DEF ApplyTriage
  <2>2. answer.category \in Categories
    BY DEF Answers
  <2> QED
    BY <1>0, <1>2, <2>1, <2>2, OvertakenType DEF ApplyTriage, TypeOK
<1>3. ASSUME NEW t \in Tickets, NEW r \in Runs, RecordShadow(t, r) PROVE <1>1!1
  <2>1. run[t][r] \in Answers
    BY <1>0, <1>3 DEF RecordShadow
  <2>2. [NoRow EXCEPT !.agent = Rounded(run[t][r])] \in RowType
    BY <2>1, RoundedType DEF NoRow, RowType, Said
  <2> QED
    BY <1>0, <1>3, <2>2 DEF RecordShadow, TypeOK
<1>4. ASSUME NEW t \in Tickets, NEW r \in Runs, CrashRun(t, r) PROVE <1>1!1
  BY <1>0, <1>4 DEF CrashRun, TypeOK
<1>5. ASSUME NEW t \in Tickets, NEW v \in Reviews, OverrideTriage(t, v) PROVE <1>1!1
  <2>1. PICK label \in Categories, flag \in Said :
             /\ category' = [category EXCEPT ![t] = label]
             /\ review' = [review EXCEPT ![t] = Opens(t, v, label, flag)]
    BY <1>0, <1>5 DEF OverrideTriage
  <2>2. [label |-> label, security |-> flag, late |-> FALSE] \in ReviewType
    BY DEF ReviewType
  <2>3. Opens(t, v, label, flag) \in [Reviews -> ReviewType]
    BY <2>2, OvertakenType DEF Opens
  <2> QED
    BY <1>0, <1>5, <2>1, <2>3 DEF OverrideTriage, TypeOK
<1>6. ASSUME NEW t \in Tickets, NEW v \in Reviews, ConfirmTriage(t, v) PROVE <1>1!1
  <2>1. [NoReview EXCEPT !.label = category[t]] \in ReviewType
    BY DEF NoReview, ReviewType, Said, TypeOK
  <2> QED
    BY <1>0, <1>6, <2>1 DEF ConfirmTriage, TypeOK
<1>7. ASSUME NEW t \in Tickets, NEW v \in Reviews, ReconcileShadow(t, v) PROVE <1>1!1
  <2>1. NoReview \in ReviewType
    BY DEF NoReview, ReviewType, Said
  <2>2. \A h \in Categories \cup {NoCategory}, s \in Said :
          [row EXCEPT ![t].human = h, ![t].security = s] \in [Tickets -> RowType]
    BY <1>0 DEF RowType
  <2>3. review[t][v].label \in Categories \cup {NoCategory} /\ review[t][v].security \in Said
        /\ row[t].security \in Said
    BY <1>0 DEF ReviewType, RowType
  <2>4. row' \in [Tickets -> RowType]
    BY <1>0, <1>7, <2>2, <2>3 DEF ReconcileShadow
  <2> QED
    BY <1>0, <1>7, <2>1, <2>4 DEF ReconcileShadow, TypeOK
<1>8. ASSUME NEW t \in Tickets, NEW v \in Reviews, CrashReview(t, v) PROVE <1>1!1
  <2>1. NoReview \in ReviewType
    BY DEF NoReview, ReviewType, Said
  <2> QED
    BY <1>0, <1>8, <2>1 DEF CrashReview, TypeOK
<1>9. CASE UNCHANGED shadowVars
  BY <1>0, <1>9 DEF shadowVars, TypeOK
<1> QED
  BY <1>0, <1>2, <1>3, <1>4, <1>5, <1>6, <1>7, <1>8, <1>9 DEF ShadowNext

LEMMA TypeInit == ShadowInit => TypeOK
  BY ShadowAssumption DEF ShadowInit, TypeOK, NoRow, NoReview, Unknown, Said

\* Every reachable state is well typed.
THEOREM ShadowTypeCorrect == ShadowSpec => []TypeOK
  BY TypeInit, TypeStep, PTL DEF ShadowSpec
-----------------------------------------------------------------------------
(* Labels.                                                                 *)

\* A label on its way that nothing overtook is the category the ticket has; what
\* has no agent's side has no person's either; an answered flag was asked about.
OnTheirWay == \A t \in Tickets, v \in Reviews :
                Pending(t, v) /\ ~review[t][v].late => review[t][v].label = category[t]
NoneUnrecorded == \A t \in Tickets : row[t].agent = Unknown => row[t].human = NoCategory
FlagsAnswered == \A t \in Tickets : row[t].security # "unsaid" => t \in answered
LabelsInv == TypeOK /\ GroundTruth /\ OnTheirWay /\ NoneUnrecorded /\ FlagsAnswered

Labels(t) ==
  row[t].human # NoCategory =>
    \/ row[t].human = category[t]
    \/ t \in torn
    \/ \E r \in Runs : run[t][r] # Unknown
    \/ \E v \in Reviews : Pending(t, v)

\* What holds of one ticket.
OneTicket(t) ==
  /\ Labels(t)
  /\ \A v \in Reviews : Pending(t, v) /\ ~review[t][v].late => review[t][v].label = category[t]
  /\ row[t].agent = Unknown => row[t].human = NoCategory
  /\ row[t].security # "unsaid" => t \in answered

LEMMA TicketByTicket == TypeOK => (LabelsInv <=> \A t \in Tickets : OneTicket(t))
  BY DEF LabelsInv, GroundTruth, OnTheirWay, NoneUnrecorded, FlagsAnswered, OneTicket, Labels,
         Comparable

\* A step is about one ticket, and what it does not touch stays as it is.
LEMMA OthersStay ==
  ASSUME TypeOK, NEW t \in Tickets, NEW u \in Tickets, u # t, OneTicket(u),
         \/ \E r \in Runs : ApplyTriage(t, r) \/ RecordShadow(t, r) \/ CrashRun(t, r)
         \/ \E v \in Reviews : \/ OverrideTriage(t, v) \/ ConfirmTriage(t, v)
                               \/ ReconcileShadow(t, v) \/ CrashReview(t, v)
  PROVE  OneTicket(u)'
<1>1. /\ row'[u] = row[u] /\ category'[u] = category[u]
      /\ run'[u] = run[u] /\ review'[u] = review[u]
      /\ u \in torn => u \in torn'
      /\ u \in answered => u \in answered'
  BY DEF ApplyTriage, RecordShadow, CrashRun, OverrideTriage, ConfirmTriage, ReconcileShadow,
         CrashReview, TypeOK
<1> QED
  BY <1>1 DEF OneTicket, Labels, Pending

LEMMA ThisOneKeeps ==
  ASSUME TypeOK, TypeOK', NEW t \in Tickets, OneTicket(t),
         \/ \E r \in Runs : ApplyTriage(t, r) \/ RecordShadow(t, r) \/ CrashRun(t, r)
         \/ \E v \in Reviews : \/ OverrideTriage(t, v) \/ ConfirmTriage(t, v)
                               \/ ReconcileShadow(t, v) \/ CrashReview(t, v)
  PROVE  OneTicket(t)'
<1>0. /\ run[t] \in [Runs -> Answers \cup {Unknown}] /\ review[t] \in [Reviews -> ReviewType]
      /\ row[t] \in RowType
      /\ scene.answers \subseteq Answers /\ scene.labels \subseteq Categories
      /\ NoCategory \notin Categories
  BY ShadowAssumption DEF TypeOK, RowType, AgentSide, ReviewType
<1>1. ASSUME NEW r \in Runs, ApplyTriage(t, r) PROVE OneTicket(t)'
  <2>1. PICK answer \in Answers : run' = [run EXCEPT ![t][r] = answer]
    BY <1>0, <1>1 DEF ApplyTriage
  <2>2. run'[t][r] # Unknown
    <3>1. run'[t][r] = answer
      BY <1>0, <2>1 DEF TypeOK
    <3>2. answer.category # NoCategory
      BY <1>0 DEF Answers
    <3> QED
      BY <3>1, <3>2 DEF Unknown
  <2>3. \A v \in Reviews : ~(Pending(t, v)' /\ ~review'[t][v].late)
    <3>1. review'[t] = Overtaken(t)
      BY <1>1 DEF ApplyTriage, TypeOK
    <3>2. \A v \in Reviews : [review[t][v] EXCEPT !.late = TRUE].late
      BY <1>0 DEF ReviewType
    <3> QED
      BY <3>1, <3>2 DEF Overtaken, Pending
  <2> QED
    BY <1>1, <2>2, <2>3 DEF ApplyTriage, OneTicket, Labels
<1>2. ASSUME NEW r \in Runs, RecordShadow(t, r) PROVE OneTicket(t)'
  <2>1. run[t][r] \in Answers
    BY <1>0, <1>2 DEF RecordShadow
  <2>2. row'[t] = [NoRow EXCEPT !.agent = Rounded(run[t][r])]
    BY <1>2 DEF RecordShadow, TypeOK
  <2>3. row'[t].human = NoCategory /\ row'[t].security = "unsaid" /\ row'[t].agent # Unknown
    BY <2>1, <2>2, RoundedType DEF NoRow
  <2> QED
    BY <1>2, <2>3 DEF RecordShadow, OneTicket, Labels, Pending
<1>3. ASSUME NEW r \in Runs, CrashRun(t, r) PROVE OneTicket(t)'
  BY <1>3 DEF CrashRun, OneTicket, Labels, Pending
<1>4. ASSUME NEW v \in Reviews, OverrideTriage(t, v) PROVE OneTicket(t)'
  <2>1. PICK label \in Categories, flag \in scene.flags :
             /\ category' = [category EXCEPT ![t] = label]
             /\ review' = [review EXCEPT ![t] = Opens(t, v, label, flag)]
    BY <1>0, <1>4 DEF OverrideTriage
  <2>2. /\ category'[t] = label
        /\ review'[t] = [Overtaken(t) EXCEPT ![v] = [label |-> label, security |-> flag, late |-> FALSE]]
    BY <2>1 DEF TypeOK, Opens
  <2>3. Overtaken(t) \in [Reviews -> ReviewType]
    BY OvertakenType
  <2>4. review'[t][v] = [label |-> label, security |-> flag, late |-> FALSE]
    BY <2>2, <2>3
  <2>5. Pending(t, v)' /\ review'[t][v].label = category'[t]
    BY <1>0, <2>2, <2>4 DEF Pending, NoReview
  <2>6. \A w \in Reviews \ {v} : ~(Pending(t, w)' /\ ~review'[t][w].late)
    <3>1. \A w \in Reviews : [review[t][w] EXCEPT !.late = TRUE].late
      BY <1>0 DEF ReviewType
    <3>2. \A w \in Reviews \ {v} : review'[t][w] = Overtaken(t)[w]
      BY <2>2, <2>3
    <3> QED
      BY <3>1, <3>2 DEF Overtaken, Pending
  <2> QED
    BY <1>4, <2>5, <2>6 DEF OverrideTriage, OneTicket, Labels
<1>5. ASSUME NEW v \in Reviews, ConfirmTriage(t, v) PROVE OneTicket(t)'
  <2>1. /\ \A w \in Reviews \ {v} : review'[t][w] = review[t][w]
        /\ review'[t][v] = [NoReview EXCEPT !.label = category[t]]
    BY <1>0, <1>5 DEF ConfirmTriage, TypeOK
  <2>2. review'[t][v].label = category[t] /\ category[t] # NoCategory
    BY <1>5, <2>1 DEF ConfirmTriage, NoReview
  <2>3. Pending(t, v)'
    BY <2>2 DEF Pending, NoReview
  <2>4. UNCHANGED <<row, category, run, torn, answered>>
    BY <1>5 DEF ConfirmTriage
  <2>5. \A w \in Reviews : Pending(t, w)' /\ ~review'[t][w].late => review'[t][w].label = category'[t]
    BY <2>1, <2>2, <2>4 DEF OneTicket, Pending
  <2> QED
    BY <2>3, <2>4, <2>5 DEF OneTicket, Labels
<1>6. ASSUME NEW v \in Reviews, ReconcileShadow(t, v) PROVE OneTicket(t)'
  <2> DEFINE k == review[t][v]
             said == IF k.security = "unsaid" THEN row[t].security ELSE k.security
  <2>0. /\ Pending(t, v) /\ UNCHANGED <<category, run>>
        /\ review' = [review EXCEPT ![t][v] = NoReview]
        /\ torn' = IF k.late THEN torn \cup {t} ELSE torn \ {t}
    BY <1>6 DEF ReconcileShadow
  <2>1. \A w \in Reviews : Pending(t, w)' => review'[t][w] = review[t][w] /\ Pending(t, w)
    BY <1>0, <2>0 DEF Pending, TypeOK
  <2>2. CASE row[t].agent = Unknown
    <3>1. row' = row /\ answered' = answered
      BY <1>6, <2>2 DEF ReconcileShadow
    <3> QED
      BY <2>0, <2>1, <2>2, <3>1 DEF OneTicket, Labels
  <2>3. CASE row[t].agent # Unknown
    <3>1. /\ row' = [row EXCEPT ![t].human = k.label, ![t].security = said]
          /\ answered' = IF k.security # "unsaid" THEN answered \cup {t} ELSE answered
      BY <1>6, <2>3 DEF ReconcileShadow
    <3>2. row'[t].human = k.label /\ row'[t].security = said /\ row'[t].agent = row[t].agent
      BY <1>0, <3>1 DEF RowType, TypeOK
    <3>3. k.late \in BOOLEAN
      BY <1>0 DEF ReviewType
    <3>4. row'[t].human = category'[t] \/ t \in torn'
      BY <2>0, <3>2, <3>3 DEF OneTicket
    <3>5. row'[t].security # "unsaid" => t \in answered'
      BY <3>1, <3>2 DEF OneTicket
    <3> QED
      BY <2>0, <2>1, <2>3, <3>2, <3>4, <3>5 DEF OneTicket, Labels
  <2> QED
    BY <2>2, <2>3
<1>7. ASSUME NEW v \in Reviews, CrashReview(t, v) PROVE OneTicket(t)'
  <2>1. \A w \in Reviews : Pending(t, w)' => review'[t][w] = review[t][w] /\ Pending(t, w)
    BY <1>0, <1>7 DEF CrashReview, Pending, TypeOK
  <2> QED
    BY <1>7, <2>1 DEF CrashReview, OneTicket, Labels
<1> QED
  BY <1>1, <1>2, <1>3, <1>4, <1>5, <1>6, <1>7

\* Every label is of the category its ticket has, and every flag that is counted was
\* asked about, except where two writes were overtaken or cut off.
THEOREM LabelsAreTrue == ShadowSpec => []GroundTruth
<1>1. ShadowInit => LabelsInv
  <2>1. ShadowInit => \A t \in Tickets : OneTicket(t)
    BY DEF ShadowInit, OneTicket, Labels, NoRow, NoReview, Pending, Unknown
  <2> QED
    BY <2>1, TypeInit, TicketByTicket
<1>2. LabelsInv /\ [ShadowNext]_shadowVars => LabelsInv'
  <2> SUFFICES ASSUME LabelsInv, [ShadowNext]_shadowVars PROVE LabelsInv'
    OBVIOUS
  <2>1. TypeOK /\ TypeOK' /\ \A u \in Tickets : OneTicket(u)
    BY TypeStep, TicketByTicket DEF LabelsInv
  <2>2. ASSUME NEW t \in scene.tickets, NEW u \in Tickets,
               \/ \E r \in Runs : ApplyTriage(t, r) \/ RecordShadow(t, r) \/ CrashRun(t, r)
               \/ \E v \in Reviews : \/ OverrideTriage(t, v) \/ ConfirmTriage(t, v)
                                     \/ ReconcileShadow(t, v) \/ CrashReview(t, v)
        PROVE  OneTicket(u)'
    <3>1. t \in Tickets
      BY <2>1, ShadowAssumption DEF TypeOK
    <3> QED
      BY <2>1, <2>2, <3>1, OthersStay, ThisOneKeeps
  <2>3. ASSUME UNCHANGED shadowVars, NEW u \in Tickets PROVE OneTicket(u)'
    BY <2>1, <2>3 DEF shadowVars, OneTicket, Labels, Pending
  <2>4. \A u \in Tickets : OneTicket(u)'
    BY <2>2, <2>3 DEF ShadowNext
  <2> QED
    BY <2>1, <2>4 DEF LabelsInv, GroundTruth, OnTheirWay, NoneUnrecorded, FlagsAnswered,
                      OneTicket, Labels, Comparable
<1>3. LabelsInv => GroundTruth
  BY DEF LabelsInv
<1> QED
  BY <1>1, <1>2, <1>3, PTL DEF ShadowSpec
-----------------------------------------------------------------------------
(* The Wilson bound.                                                       *)

LEMMA TimesGrows ==
  ASSUME NEW a \in Nat, NEW b \in Nat, NEW c \in Nat, a <= b
  PROVE  a * c <= b * c
<1>1. (b - a) * c >= 0
  OBVIOUS
<1> QED
  BY <1>1

LEMMA SquareGrows ==
  ASSUME NEW a \in Nat, NEW b \in Nat, a <= b
  PROVE  a * a <= b * b
<1>1. a * a <= b * a /\ a * b <= b * b
  BY TimesGrows
<1> QED
  BY <1>1

\* The bound with the excess over the target and what it is measured against.
LEMMA WilsonExcess ==
  ASSUME NEW s \in Nat, NEW n \in Nat
  PROVE  WilsonAtLeast(s, n) <=>
           /\ n > 0 /\ s * Scale - n * Target >= 0
           /\ Ten4 * ((s * Scale - n * Target) * (s * Scale - n * Target))
                >= (Z2 * (Target * (Scale - Target))) * n
<1>1. Scale \in Nat /\ Target \in Nat /\ Scale - Target \in Nat
  BY ShadowAssumption
<1> DEFINE d == s * Scale - n * Target
           e == Scale - Target
<1>2. d \in Int /\ e \in Int /\ s * Scale \in Int /\ n * Target \in Int
  BY <1>1
<1>3. Ten4 * d * d = Ten4 * (d * d)
  BY <1>2 DEF Ten4
<1>4. Z2 * n * Target * e = (Z2 * (Target * e)) * n
  BY <1>1, <1>2 DEF Z2
<1>5. s * Scale >= n * Target <=> d >= 0
  BY <1>2
<1> HIDE DEF d
<1>6. WilsonAtLeast(s, n) <=> n > 0 /\ d >= 0 /\ Ten4 * d * d >= Z2 * n * Target * e
  BY <1>5 DEF WilsonAtLeast, d
<1> QED
  BY <1>3, <1>4, <1>6 DEF d

\* A ticket that turns out right never lowers the bound below the target.
LEMMA WilsonCorrected ==
  ASSUME NEW s \in Nat, NEW r \in Nat, NEW n \in Nat, s <= r, WilsonAtLeast(s, n)
  PROVE  WilsonAtLeast(r, n)
<1>1. Scale \in Nat /\ Target \in Nat
  BY ShadowAssumption
<1> DEFINE d == s * Scale - n * Target
           c == r * Scale - n * Target
           m == (Z2 * (Target * (Scale - Target))) * n
<1>2. s * Scale <= r * Scale
  BY <1>1, TimesGrows
<1>3. n > 0 /\ d >= 0 /\ Ten4 * (d * d) >= m
  BY WilsonExcess
<1>4. d \in Nat /\ c \in Nat /\ d <= c /\ m \in Int
  BY <1>1, <1>2, <1>3 DEF Z2
<1>5. WilsonAtLeast(r, n) <=> n > 0 /\ c >= 0 /\ Ten4 * (c * c) >= m
  BY WilsonExcess
<1> HIDE DEF c, d, m
<1>6. d * d <= c * c /\ d * d \in Int /\ c * c \in Int
  BY <1>4, SquareGrows
<1> QED
  BY <1>3, <1>4, <1>5, <1>6 DEF Ten4

\* One more wrong ticket never raises it to the target.
LEMMA WilsonWrong ==
  ASSUME NEW s \in Nat, NEW n \in Nat, n > 0, WilsonAtLeast(s, n + 1)
  PROVE  WilsonAtLeast(s, n)
<1>1. Scale \in Nat /\ Target \in Nat /\ Scale - Target \in Nat
  BY ShadowAssumption
<1> DEFINE d == s * Scale - n * Target
           c == s * Scale - (n + 1) * Target
           k == Z2 * (Target * (Scale - Target))
<1>2. c >= 0 /\ Ten4 * (c * c) >= k * (n + 1)
  BY WilsonExcess
<1>3. WilsonAtLeast(s, n) <=> d >= 0 /\ Ten4 * (d * d) >= k * n
  BY WilsonExcess
<1>4. k \in Nat
  BY <1>1 DEF Z2
<1>5. d = c + Target /\ c \in Nat /\ d \in Nat
  BY <1>1, <1>2
<1> HIDE DEF c, d, k
<1>6. k * n <= k * (n + 1) /\ k * n \in Int /\ k * (n + 1) \in Int
  BY <1>4
<1>7. c * c <= d * d /\ c * c \in Int /\ d * d \in Int
  BY <1>1, <1>5, SquareGrows
<1> QED
  BY <1>2, <1>3, <1>5, <1>6, <1>7 DEF Ten4

\* One more right ticket never takes it below: with at most n of n right the
\* excess is at most n times what one ticket can add, so it is worth more than
\* what one more ticket is measured against.
LEMMA WilsonRight ==
  ASSUME NEW s \in Nat, NEW n \in Nat, s <= n, WilsonAtLeast(s, n)
  PROVE  WilsonAtLeast(s + 1, n + 1)
<1> DEFINE e == Scale - Target
           d == s * Scale - n * Target
           c == (s + 1) * Scale - (n + 1) * Target
<1>1. Scale \in Nat /\ Target \in Nat /\ Target > 0 /\ e \in Nat /\ e > 0
  BY ShadowAssumption
<1>2. n > 0 /\ d >= 0 /\ Ten4 * (d * d) >= (Z2 * (Target * e)) * n
  BY WilsonExcess
<1>3. WilsonAtLeast(s + 1, n + 1) <=> c >= 0 /\ Ten4 * (c * c) >= (Z2 * (Target * e)) * (n + 1)
  BY WilsonExcess
<1>4. d \in Nat /\ c = d + e
  BY <1>1, <1>2
<1>5. d <= n * e
  <2>1. s * Scale <= n * Scale
    BY <1>1, TimesGrows
  <2> QED
    BY <1>1, <2>1
<1> HIDE DEF c, d, e
<1>6. d * d \in Nat /\ Target * e \in Nat /\ (Target * e) * n \in Nat /\ Target * d \in Nat
      /\ e * e \in Nat /\ d * e \in Nat
  BY <1>1, <1>4
<1>7. (Target * e) * n >= Target * d
  <2>1. d * Target <= (n * e) * Target
    BY <1>1, <1>4, <1>5, TimesGrows
  <2> QED
    BY <1>1, <1>4, <2>1
<1>8. Ten4 * (d * d) >= Z2 * (Target * d)
  BY <1>2, <1>6, <1>7 DEF Ten4, Z2
<1>9. d > 0
  <2>1. Target * e > 0
    BY <1>1
  <2>2. (Target * e) * n > 0
    BY <1>2, <1>6, <2>1
  <2> QED
    BY <1>2, <1>4, <1>6, <2>2 DEF Ten4, Z2
<1>10. Ten4 * d >= Z2 * Target
  <2>1. (Ten4 * d) * d >= (Z2 * Target) * d
    BY <1>1, <1>4, <1>8 DEF Ten4, Z2
  <2> QED
    BY <1>1, <1>4, <1>9, <2>1 DEF Ten4, Z2
<1>11. Ten4 * (d * e) >= Z2 * (Target * e)
  <2>1. (Z2 * Target) * e <= (Ten4 * d) * e
    BY <1>1, <1>4, <1>10, TimesGrows DEF Ten4, Z2
  <2> QED
    BY <1>1, <1>4, <2>1 DEF Ten4, Z2
<1>12. c * c = d * d + 2 * (d * e) + e * e
  BY <1>1, <1>4
<1>13. (Z2 * (Target * e)) * (n + 1) = (Z2 * (Target * e)) * n + Z2 * (Target * e)
  BY <1>1, <1>2, <1>6 DEF Z2
<1>14. (Z2 * (Target * e)) * n \in Int
  BY <1>6 DEF Z2
<1>15. c >= 0 /\ c * c \in Int
  BY <1>1, <1>4
<1> QED
  BY <1>2, <1>3, <1>6, <1>11, <1>12, <1>13, <1>14, <1>15 DEF Ten4, Z2
-----------------------------------------------------------------------------
(* Thresholds.                                                             *)

LEMMA LeastExists ==
  ASSUME NEW S \in SUBSET Nat, S # {}
  PROVE  \E x \in S : \A y \in S : x <= y
<1>1. PICK x \in S : \A y \in S : ~(<<y, x>> \in OpToRel(<, Nat))
  BY NatLessThanWellFounded, WFMin
<1>2. \A y \in S : ~(y < x)
  BY <1>1 DEF OpToRel
<1> QED
  BY <1>2

LEMMA PassingType ==
  ASSUME NEW rows, NEW c
  PROVE  Passing(rows, c) \subseteq 0 .. 100
<1>1. Passing(rows, c) \subseteq Candidates
  BY DEF Passing
<1> QED
  BY <1>1, ShadowAssumption

\* A category with a candidate that passes is offered one of them, the lowest.
LEMMA OfferedIsLeast ==
  ASSUME NEW rows, NEW c, Passing(rows, c) # {}
  PROVE  /\ OperatingThreshold(rows, c) \in Passing(rows, c)
         /\ \A o \in Passing(rows, c) : OperatingThreshold(rows, c) <= o
<1>1. Passing(rows, c) \in SUBSET Nat
  <2>1. \A x \in 0 .. 100 : x \in Nat
    OBVIOUS
  <2> QED
    BY <2>1, PassingType
<1>2. \E x \in Passing(rows, c) : \A y \in Passing(rows, c) : x <= y
  BY <1>1, LeastExists
<1> QED
  BY <1>2 DEF OperatingThreshold

\* Where more candidates pass, the one offered is no higher.
LEMMA MorePassLower ==
  ASSUME NEW rows, NEW more, NEW c, Passing(rows, c) \subseteq Passing(more, c)
  PROVE  OperatingThreshold(more, c) <= OperatingThreshold(rows, c)
<1>1. /\ Passing(more, c) \subseteq 0 .. 100 /\ Passing(rows, c) \subseteq 0 .. 100
  BY PassingType
<1>2. CASE Passing(rows, c) # {}
  <2>1. /\ OperatingThreshold(rows, c) \in Passing(more, c)
        /\ \A o \in Passing(more, c) : OperatingThreshold(more, c) <= o
    BY <1>2, OfferedIsLeast
  <2> QED
    BY <2>1
<1>3. CASE Passing(rows, c) = {} /\ Passing(more, c) # {}
  <2>1. OperatingThreshold(more, c) \in 0 .. 100
    BY <1>1, <1>3, OfferedIsLeast
  <2>2. OperatingThreshold(rows, c) = 101
    BY <1>3 DEF OperatingThreshold, NoThreshold
  <2> QED
    BY <2>1, <2>2
<1>4. CASE Passing(rows, c) = {} /\ Passing(more, c) = {}
  BY <1>4 DEF OperatingThreshold, NoThreshold
<1> QED
  BY <1>2, <1>3, <1>4

LEMMA OfferedInt ==
  ASSUME NEW rows, NEW c
  PROVE  OperatingThreshold(rows, c) \in 0 .. 101
<1>1. CASE Passing(rows, c) # {}
  <2>1. OperatingThreshold(rows, c) \in Passing(rows, c)
    BY <1>1, OfferedIsLeast
  <2>2. OperatingThreshold(rows, c) \in 0 .. 100
    BY <2>1, PassingType
  <2> QED
    BY <2>2
<1>2. CASE Passing(rows, c) = {}
  BY <1>2 DEF OperatingThreshold, NoThreshold
<1> QED
  BY <1>1, <1>2

\* Where the evidence of a category supports every threshold it did, the offer is no
\* higher and no configured threshold that held ceases to hold.
LEMMA SupportMoves ==
  ASSUME NEW rows, NEW more, NEW c, \A th : Meets(rows, c, th) => Meets(more, c, th)
  PROVE  /\ OperatingThreshold(more, c) <= OperatingThreshold(rows, c)
         /\ \A th \in Configured : Holds(rows, c, th) => Holds(more, c, th)
<1>1. Passing(rows, c) \subseteq Passing(more, c)
  BY DEF Passing
<1>2. OperatingThreshold(more, c) <= OperatingThreshold(rows, c)
  BY <1>1, MorePassLower
<1>3. ASSUME NEW th \in Configured, Holds(rows, c, th) PROVE Holds(more, c, th)
  <2>1. /\ th \in 0 .. 100 /\ OperatingThreshold(rows, c) \in 0 .. 101
        /\ OperatingThreshold(more, c) \in 0 .. 101
    BY ShadowAssumption, OfferedInt
  <2> QED
    BY <1>2, <1>3, <2>1 DEF Holds
<1> QED
  BY <1>2, <1>3

\* What the evidence of one threshold consists of.
LEMMA Evidence ==
  ASSUME NEW rows, NEW c, NEW th
  PROVE  LET A == Above(rows, c, th)
             R == Right(rows, A)
         IN /\ A \subseteq Tickets /\ R \subseteq A /\ IsFiniteSet(A) /\ IsFiniteSet(R)
            /\ Cardinality(A) \in Nat /\ Cardinality(R) \in Nat
            /\ Cardinality(R) <= Cardinality(A)
<1> DEFINE A == Above(rows, c, th)
           R == Right(rows, A)
<1>1. A \in SUBSET Tickets /\ R \in SUBSET A
  BY DEF Above, Samples, Right
<1>2. IsFiniteSet(A)
  BY <1>1, ShadowAssumption, FS_Subset
<1>3. IsFiniteSet(R) /\ Cardinality(R) <= Cardinality(A)
  BY <1>1, <1>2, FS_Subset
<1> QED
  BY <1>1, <1>2, <1>3, FS_CardinalityType

\* before and after differ in the person's side of one ticket, labelled after.
Relabelled(before, after, t) ==
  /\ \A u \in Tickets \ {t} : after[u] = before[u]
  /\ after[t].agent = before[t].agent
  /\ after[t].human # NoCategory

\* A category that is judged goes on being judged.
LEMMA LabelledStays ==
  ASSUME NEW before, NEW after, NEW t \in Tickets, Relabelled(before, after, t), NEW c
  PROVE  Samples(before, c) \subseteq Samples(after, c)
BY DEF Relabelled, Samples

LEMMA SameEvidence ==
  ASSUME NEW before, NEW after, NEW t \in Tickets, Relabelled(before, after, t), NEW c, NEW th,
         ~(before[t].agent.category = c /\ before[t].agent.confidence >= th)
  PROVE  Meets(after, c, th) <=> Meets(before, c, th)
<1>1. Above(after, c, th) = Above(before, c, th) /\ t \notin Above(before, c, th)
  BY DEF Above, Samples, Relabelled
<1>2. Right(after, Above(after, c, th)) = Right(before, Above(before, c, th))
  BY <1>1 DEF Right, Relabelled, Above, Samples
<1> QED
  BY <1>1, <1>2 DEF Meets

LEMMA RightSupports ==
  ASSUME NEW before, NEW after, NEW t \in Tickets, Relabelled(before, after, t), NEW c, NEW th,
         Agrees(after, t), ~(Judged(before, t) /\ Agrees(before, t)), Meets(before, c, th)
  PROVE  Meets(after, c, th)
<1> DEFINE A == Above(before, c, th)
           B == Above(after, c, th)
           R == Right(before, A)
           Q == Right(after, B)
<1>1. CASE ~(before[t].agent.category = c /\ before[t].agent.confidence >= th)
  BY <1>1, SameEvidence
<1>2. CASE before[t].agent.category = c /\ before[t].agent.confidence >= th
  <2>1. B = A \cup {t} /\ Q = R \cup {t} /\ t \notin R
    <3>1. B = A \cup {t}
      BY <1>2 DEF Above, Samples, Relabelled
    <3>2. t \notin R
      BY DEF Right, Above, Samples, Judged, Agrees
    <3>3. Q = R \cup {t}
      BY <1>2, <3>1 DEF Right, Agrees, Relabelled, Above, Samples
    <3> QED
      BY <3>1, <3>2, <3>3
  <2> DEFINE n == Cardinality(A)
             s == Cardinality(R)
  <2>2. /\ n \in Nat /\ s \in Nat /\ s <= n
        /\ Cardinality(Q) = s + 1 /\ Cardinality(B) = IF t \in A THEN n ELSE n + 1
    <3>1. IsFiniteSet(A) /\ IsFiniteSet(R) /\ n \in Nat /\ s \in Nat /\ s <= n
      BY Evidence
    <3>2. Cardinality(A \cup {t}) = IF t \in A THEN n ELSE n + 1
      BY <3>1, FS_AddElement
    <3>3. Cardinality(R \cup {t}) = IF t \in R THEN s ELSE s + 1
      BY <3>1, FS_AddElement
    <3> QED
      BY <2>1, <3>1, <3>2, <3>3
  <2>3. n >= MinSamples /\ WilsonAtLeast(s, n)
    BY DEF Meets
  <2> HIDE DEF n, s
  <2>4. CASE t \in A
    <3>1. WilsonAtLeast(s + 1, n)
      BY <2>2, <2>3, WilsonCorrected
    <3> QED
      BY <2>2, <2>3, <2>4, <3>1 DEF Meets
  <2>5. CASE t \notin A
    <3>1. WilsonAtLeast(s + 1, n + 1)
      BY <2>2, <2>3, WilsonRight
    <3>2. n + 1 >= MinSamples
      BY <2>2, <2>3, ShadowAssumption
    <3> QED
      BY <2>2, <2>5, <3>1, <3>2 DEF Meets
  <2> QED
    BY <2>4, <2>5
<1> QED
  BY <1>1, <1>2

LEMMA WrongSupportsNothing ==
  ASSUME NEW before, NEW after, NEW t \in Tickets, Relabelled(before, after, t), NEW c, NEW th,
         ~Agrees(after, t), ~(Judged(before, t) /\ ~Agrees(before, t)), Meets(after, c, th)
  PROVE  Meets(before, c, th)
<1> DEFINE A == Above(before, c, th)
           B == Above(after, c, th)
           R == Right(before, A)
           Q == Right(after, B)
<1>1. CASE ~(before[t].agent.category = c /\ before[t].agent.confidence >= th)
  BY <1>1, SameEvidence
<1>2. CASE before[t].agent.category = c /\ before[t].agent.confidence >= th
  <2>1. B = A \cup {t} /\ Q = R \ {t} /\ (t \in R <=> t \in A)
    <3>1. B = A \cup {t}
      BY <1>2 DEF Above, Samples, Relabelled
    <3>2. t \in R <=> t \in A
      BY DEF Right, Above, Samples, Judged, Agrees
    <3>3. Q = R \ {t}
      BY <1>2, <3>1 DEF Right, Agrees, Relabelled, Above, Samples
    <3> QED
      BY <3>1, <3>2, <3>3
  <2> DEFINE n == Cardinality(A)
             s == Cardinality(R)
  <2>2. /\ n \in Nat /\ s \in Nat /\ s <= n
        /\ Cardinality(Q) = IF t \in A THEN s - 1 ELSE s
        /\ Cardinality(B) = IF t \in A THEN n ELSE n + 1
    <3>1. IsFiniteSet(A) /\ IsFiniteSet(R) /\ n \in Nat /\ s \in Nat /\ s <= n
      BY Evidence
    <3>2. Cardinality(A \cup {t}) = IF t \in A THEN n ELSE n + 1
      BY <3>1, FS_AddElement
    <3>3. Cardinality(R \ {t}) = IF t \in R THEN s - 1 ELSE s
      BY <3>1, FS_RemoveElement
    <3> QED
      BY <2>1, <3>1, <3>2, <3>3
  <2>3. Cardinality(B) >= MinSamples /\ WilsonAtLeast(Cardinality(Q), Cardinality(B))
    BY DEF Meets
  <2>4. Cardinality(Q) \in Nat
    BY Evidence
  <2> HIDE DEF n, s, Q, B
  <2>5. CASE t \in A
    <3>1. WilsonAtLeast(s, n)
      BY <2>2, <2>3, <2>4, <2>5, WilsonCorrected
    <3> QED
      BY <2>2, <2>3, <2>5, <3>1 DEF Meets, n, s
  <2>6. CASE t \notin A
    <3>1. WilsonAtLeast(s, n + 1) /\ n + 1 >= MinSamples /\ MinSamples \in Nat \ {0}
      BY <2>2, <2>3, <2>6, ShadowAssumption
    <3>2. n + 1 # MinSamples
      <4>1. SUFFICES ASSUME n + 1 = MinSamples PROVE FALSE
        OBVIOUS
      <4>2. WilsonAtLeast(n, n + 1)
        BY <2>2, <3>1, WilsonCorrected
      <4> QED
        BY <2>2, <4>1, <4>2, ShadowAssumption
    <3>3. n >= MinSamples /\ n > 0
      BY <2>2, <3>1, <3>2
    <3>4. WilsonAtLeast(s, n)
      BY <2>2, <3>1, <3>3, WilsonWrong
    <3> QED
      BY <3>3, <3>4 DEF Meets, n, s
  <2> QED
    BY <2>5, <2>6
<1> QED
  BY <1>1, <1>2

\* No step labels two tickets.
LEMMA OneRow ==
  ASSUME TypeOK, [ShadowNext]_shadowVars, NEW t \in Tickets, row'[t] # row[t]
  PROVE  \A u \in Tickets \ {t} : row'[u] = row[u]
<1>1. ASSUME NEW x, NEW r, RecordShadow(x, r) PROVE \A u \in Tickets \ {x} : row'[u] = row[u]
  BY <1>1 DEF RecordShadow, TypeOK
<1>2. ASSUME NEW x, NEW v, ReconcileShadow(x, v) PROVE \A u \in Tickets \ {x} : row'[u] = row[u]
  <2>1. CASE UNCHANGED row
    BY <2>1
  <2>2. CASE ~UNCHANGED row
    BY <1>2, <2>2 DEF ReconcileShadow, TypeOK
  <2> QED
    BY <2>1, <2>2
<1>3. \/ UNCHANGED row
      \/ \E x \in scene.tickets : \/ \E r \in Runs : RecordShadow(x, r)
                                \/ \E v \in Reviews : ReconcileShadow(x, v)
  BY DEF ShadowNext, ApplyTriage, CrashRun, OverrideTriage, ConfirmTriage, CrashReview, shadowVars
<1> QED
  BY <1>1, <1>2, <1>3

\* Whatever the labels, the tickets, the candidates and the target: a label that
\* turns out right raises no threshold and makes none unjustified in a category
\* already judged, and a correction lowers and justifies none.
THEOREM LabelsMoveRightWay == ShadowSpec => LabelsMoveThresholds
<1>1. ASSUME TypeOK, [ShadowNext]_shadowVars, NEW t \in Tickets, Labelled(t), Judged(row', t),
             NEW c \in Categories
      PROVE  /\ Agrees(row', t) /\ ~(Judged(row, t) /\ Agrees(row, t))
                  => /\ OperatingThreshold(row', c) <= OperatingThreshold(row, c)
                     /\ Judgeable(row, c) => Unjustified(row', c) \subseteq Unjustified(row, c)
             /\ ~Agrees(row', t) /\ ~(Judged(row, t) /\ ~Agrees(row, t))
                  => /\ OperatingThreshold(row', c) >= OperatingThreshold(row, c)
                     /\ Unjustified(row, c) \subseteq Unjustified(row', c)
  <2>1. Relabelled(row, row', t)
    BY <1>1, OneRow DEF Relabelled, Labelled, Judged
  <2>2. CASE Agrees(row', t) /\ ~(Judged(row, t) /\ Agrees(row, t))
    <3>1. \A th : Meets(row, c, th) => Meets(row', c, th)
      BY <2>1, <2>2, RightSupports
    <3>2. \A th \in Configured : Holds(row, c, th) => Holds(row', c, th)
      BY <3>1, SupportMoves
    <3>3. Judgeable(row, c) => Unjustified(row', c) \subseteq Unjustified(row, c)
      BY <3>2 DEF Unjustified, Judgeable
    <3>4. OperatingThreshold(row', c) <= OperatingThreshold(row, c)
      BY <3>1, SupportMoves
    <3> QED
      BY <2>2, <3>3, <3>4
  <2>3. CASE ~Agrees(row', t) /\ ~(Judged(row, t) /\ ~Agrees(row, t))
    <3>1. \A th : Meets(row', c, th) => Meets(row, c, th)
      BY <2>1, <2>3, WrongSupportsNothing
    <3>2. OperatingThreshold(row, c) <= OperatingThreshold(row', c)
      BY <3>1, SupportMoves
    <3>3. OperatingThreshold(row, c) \in Int /\ OperatingThreshold(row', c) \in Int
      BY OfferedInt
    <3>4. \A th \in Configured : Holds(row', c, th) => Holds(row, c, th)
      BY <3>1, SupportMoves
    <3>5. Judgeable(row, c) => Judgeable(row', c)
      BY <2>1, LabelledStays DEF Judgeable
    <3>6. Unjustified(row, c) \subseteq Unjustified(row', c)
      BY <3>4, <3>5 DEF Unjustified
    <3> QED
      BY <2>3, <3>2, <3>3, <3>6
  <2> QED
    BY <2>2, <2>3
<1>2. TypeOK /\ [ShadowNext]_shadowVars =>
        [\A t \in Tickets : Labelled(t) /\ Judged(row', t) =>
           \A c \in Categories :
             /\ Agrees(row', t) /\ ~(Judged(row, t) /\ Agrees(row, t))
                  => /\ OperatingThreshold(row', c) <= OperatingThreshold(row, c)
                     /\ Judgeable(row, c) => Unjustified(row', c) \subseteq Unjustified(row, c)
             /\ ~Agrees(row', t) /\ ~(Judged(row, t) /\ ~Agrees(row, t))
                  => /\ OperatingThreshold(row', c) >= OperatingThreshold(row, c)
                     /\ Unjustified(row, c) \subseteq Unjustified(row', c)]_shadowVars
  BY <1>1
<1> QED
  BY <1>2, ShadowTypeCorrect, PTL DEF ShadowSpec, LabelsMoveThresholds
==============================================================================
