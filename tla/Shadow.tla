-------------------------------- MODULE Shadow --------------------------------
(***************************************************************************)
(* What the agent said of a ticket next to what a person said, and the     *)
(* thresholds set from it: the record of core/src/repos/shadow.ts, written *)
(* by the pipeline and by the review forms of tickets/[id]/actions.ts, and *)
(* the scoring of eval/src/thresholds.ts, metrics.ts and report.ts.        *)
(*                                                                         *)
(* A run writes the ticket and then the record, a review the ticket and    *)
(* then the label: each write is a step.  Of the classification the        *)
(* category and the security flag are kept; the priority and the           *)
(* destructive flag go the same ways.                                      *)
(***************************************************************************)
EXTENDS Integers, FiniteSets

CONSTANTS
  Tickets, Categories, NoCategory,
  Runs,          \* triage jobs in hand at once
  Reviews,       \* review requests in hand at once
  NeverAuto,     \* settings.never_auto_categories
  Candidates,    \* the thresholds that are swept
  Configured,    \* thresholds a category may be configured with
  MinSamples,    \* gates.threshold_min_samples
  Target, Scale, \* gates.threshold_target_accuracy is Target / Scale
  Cases          \* bound: what may happen in a behaviour

\* What a model answers, with the confidence in thousandths.
Answers == [category : Categories, confidence : 0 .. 1000, security : BOOLEAN]
Said == {"unsaid", "yes", "no"}

(***************************************************************************)
(* Thresholds                                                              *)
(***************************************************************************)

\* The square of the normal quantile 1.96, in ten thousandths.
Z2 == 38416
Ten4 == 10000

\* wilsonLowerBound(s, n) >= Target / Scale, without roots and fractions: the
\* rate is above the target by z standard deviations of the target.
WilsonAtLeast(s, n) ==
  /\ n > 0 /\ s * Scale >= n * Target
  /\ Ten4 * (s * Scale - n * Target) * (s * Scale - n * Target)
       >= Z2 * n * Target * (Scale - Target)

\* MinSamples tickets of which one was wrong prove nothing: so it is with the
\* thirty tickets and the 95 percent of DEFAULT_GATES.
ASSUME ShadowAssumption ==
  /\ NoCategory \notin Categories
  /\ IsFiniteSet(Tickets)
  /\ Candidates \subseteq 0 .. 100 /\ Configured \subseteq 0 .. 100
  /\ MinSamples \in Nat \ {0} /\ Scale \in Nat /\ Target \in 1 .. Scale - 1
  /\ ~WilsonAtLeast(MinSamples - 1, MinSamples)
  /\ \A s \in Cases : /\ s.answers \subseteq Answers /\ s.labels \subseteq Categories
                          /\ s.flags \subseteq Said /\ s.tickets \subseteq Tickets
                          /\ s.inHand \in Nat /\ s.crashes \in BOOLEAN

VARIABLES
  scene,     \* what may happen in this behaviour
  category,  \* the category each ticket has
  row,       \* triage_shadow: the agent's side of each ticket and the person's
  run,       \* each job of a ticket: the answer it has still to record
  review,    \* each request on a ticket: the label it has still to write
  torn,      \* history: tickets whose last write of a label was overtaken or cut off
  answered   \* history: tickets for which a person answered about the recorded flag

shadowVars == <<scene, category, row, run, review, torn, answered>>

Unknown == [category |-> NoCategory, confidence |-> 0, security |-> FALSE]
NoRow == [agent |-> Unknown, human |-> NoCategory, security |-> "unsaid"]
NoReview == [label |-> NoCategory, security |-> "unsaid", late |-> FALSE]

\* The rows that are scored, in the group of the agent's own label.
Samples(rows, c) == {t \in Tickets : rows[t].human # NoCategory /\ rows[t].agent.category = c}
Above(rows, c, th) == {t \in Samples(rows, c) : rows[t].agent.confidence >= th}
Right(rows, S) == {t \in S : rows[t].human = rows[t].agent.category}

\* evaluateThreshold: meets_target.
Meets(rows, c, th) ==
  LET n == Cardinality(Above(rows, c, th))
  IN n >= MinSamples /\ WilsonAtLeast(Cardinality(Right(rows, Above(rows, c, th))), n)

Passing(rows, c) == IF c \in NeverAuto THEN {} ELSE {th \in Candidates : Meets(rows, c, th)}

\* No threshold: every ticket of the category is held for a person.
NoThreshold == 101

\* Broken form: the last candidate that passes instead of the first.
OperatingThresholdLast(rows, c) ==
  LET passing == Passing(rows, c)
  IN IF passing = {} THEN NoThreshold ELSE CHOOSE th \in passing : \A o \in passing : o <= th

\* recommendThreshold, operatingThresholds: the lowest candidate that passes.
OperatingThreshold(rows, c) ==
  LET passing == Passing(rows, c)
  IN IF passing = {} THEN NoThreshold ELSE CHOOSE th \in passing : \A o \in passing : th <= o

\* holds: a configured threshold clears the target on its own evidence, or is at
\* least the one offered.
Holds(rows, c, th) == Meets(rows, c, th) \/ OperatingThreshold(rows, c) <= th

\* recommendPerCategory: a category appears with its first labelled row, and is
\* judged unless it is held for people.
Judgeable(rows, c) == Samples(rows, c) # {} /\ c \notin NeverAuto

\* The gate "Configured thresholds justified" counts these: with its first label
\* a category's threshold comes from not being looked at to not being supported.
Unjustified(rows, c) == {th \in Configured : Judgeable(rows, c) /\ ~Holds(rows, c, th)}

\* scoreSafety: the tickets whose flag a person has labelled.
Comparable(rows) == {t \in Tickets : rows[t].human # NoCategory /\ rows[t].security # "unsaid"}

(***************************************************************************)
(* The agent                                                               *)
(***************************************************************************)

ShadowInit ==
  /\ scene \in Cases
  /\ category = [t \in Tickets |-> NoCategory]
  /\ row = [t \in Tickets |-> NoRow]
  /\ run = [t \in Tickets |-> [r \in Runs |-> Unknown]]
  /\ review = [t \in Tickets |-> [v \in Reviews |-> NoReview]]
  /\ torn = {} /\ answered = {}

Pending(t, v) == review[t][v] # NoReview

\* Bound: scene.inHand of the jobs and requests have made their first write
\* and not their second.
Free ==
  Cardinality({tr \in Tickets \X Runs : run[tr[1]][tr[2]] # Unknown})
    + Cardinality({tv \in Tickets \X Reviews : Pending(tv[1], tv[2])}) < scene.inHand

\* A new category overtakes the reviews of the ticket that are on their way.
Overtaken(t) ==
  [v \in Reviews |-> IF Pending(t, v) THEN [review[t][v] EXCEPT !.late = TRUE] ELSE NoReview]

\* applyTriage, for whatever the model has answered.
ApplyTriage(t, r) ==
  /\ run[t][r] = Unknown /\ Free
  /\ \E answer \in scene.answers :
       /\ category' = [category EXCEPT ![t] = answer.category]
       /\ run' = [run EXCEPT ![t][r] = answer]
  /\ review' = [review EXCEPT ![t] = Overtaken(t)]
  /\ UNCHANGED <<scene, row, torn, answered>>

\* numeric(3,2)
Rounded(answer) == [answer EXCEPT !.confidence = (answer.confidence + 5) \div 10]

\* Broken form: the labels of the classification before stay on the record.
RecordShadowKeeps(t, r) ==
  /\ run[t][r] # Unknown
  /\ row' = [row EXCEPT ![t].agent = Rounded(run[t][r])]
  /\ run' = [run EXCEPT ![t][r] = Unknown]
  /\ torn' = torn \ {t} /\ answered' = answered \ {t}
  /\ UNCHANGED <<scene, category, review>>

\* One row per ticket; the labels were of the classification before.
RecordShadow(t, r) ==
  /\ run[t][r] # Unknown
  /\ row' = [row EXCEPT ![t] = [NoRow EXCEPT !.agent = Rounded(run[t][r])]]
  /\ run' = [run EXCEPT ![t][r] = Unknown]
  /\ torn' = torn \ {t} /\ answered' = answered \ {t}
  /\ UNCHANGED <<scene, category, review>>

\* The worker stops before the record is written.
CrashRun(t, r) ==
  /\ scene.crashes /\ run[t][r] # Unknown
  /\ run' = [run EXCEPT ![t][r] = Unknown]
  /\ torn' = torn \cup {t}
  /\ UNCHANGED <<scene, category, row, review, answered>>

(***************************************************************************)
(* The reviewers                                                           *)
(***************************************************************************)

Opens(t, v, label, flag) == [Overtaken(t) EXCEPT ![v] = [label |-> label, security |-> flag, late |-> FALSE]]

\* overrideTriage, up to overrideClassification.
OverrideTriage(t, v) ==
  /\ ~Pending(t, v) /\ Free
  /\ \E label \in scene.labels, flag \in scene.flags :
       /\ category' = [category EXCEPT ![t] = label]
       /\ review' = [review EXCEPT ![t] = Opens(t, v, label, flag)]
  /\ UNCHANGED <<scene, row, run, torn, answered>>

\* confirmTriage reads what the ticket has now, and says nothing of the flags.
ConfirmTriage(t, v) ==
  /\ ~Pending(t, v) /\ Free /\ category[t] # NoCategory
  /\ review' = [review EXCEPT ![t][v] = [NoReview EXCEPT !.label = category[t]]]
  /\ UNCHANGED <<scene, category, row, run, torn, answered>>

\* An update: where no run has recorded anything the label is lost.
ReconcileShadow(t, v) ==
  /\ Pending(t, v)
  /\ LET k == review[t][v]
         said == IF k.security = "unsaid" THEN row[t].security ELSE k.security
         recorded == row[t].agent # Unknown
     IN /\ row' = IF recorded
                  THEN [row EXCEPT ![t].human = k.label, ![t].security = said] ELSE row
        /\ torn' = IF k.late THEN torn \cup {t} ELSE torn \ {t}
        /\ answered' = IF recorded /\ k.security # "unsaid" THEN answered \cup {t} ELSE answered
  /\ review' = [review EXCEPT ![t][v] = NoReview]
  /\ UNCHANGED <<scene, category, run>>

\* The console stops between the two.
CrashReview(t, v) ==
  /\ scene.crashes /\ Pending(t, v)
  /\ review' = [review EXCEPT ![t][v] = NoReview]
  /\ torn' = torn \cup {t}
  /\ UNCHANGED <<scene, category, row, run, answered>>

ShadowNext ==
  \E t \in scene.tickets :
    \/ \E r \in Runs : ApplyTriage(t, r) \/ RecordShadow(t, r) \/ CrashRun(t, r)
    \/ \E v \in Reviews :
         OverrideTriage(t, v) \/ ConfirmTriage(t, v) \/ ReconcileShadow(t, v) \/ CrashReview(t, v)

ShadowSpec == ShadowInit /\ [][ShadowNext]_shadowVars

(***************************************************************************)
(* Properties                                                              *)
(***************************************************************************)

TypeOK ==
  /\ scene \in Cases
  /\ category \in [Tickets -> Categories \cup {NoCategory}]
  /\ row \in [Tickets -> [agent : [category : Categories \cup {NoCategory},
                                   confidence : 0 .. 100, security : BOOLEAN],
                          human : Categories \cup {NoCategory}, security : Said]]
  /\ run \in [Tickets -> [Runs -> Answers \cup {Unknown}]]
  /\ review \in [Tickets -> [Reviews -> [label : Categories \cup {NoCategory},
                                         security : Said, late : BOOLEAN]]]
  /\ torn \subseteq Tickets /\ answered \subseteq Tickets

\* The label every threshold is set from is the category the ticket has, and
\* the safety slice counts only tickets whose recorded flag a person was asked
\* about, however reviews and runs of one ticket come between each other's two
\* writes (actions.ts:183, pipeline.ts:220); except where the last of them was
\* overtaken or cut off, until the next one, or is still on its way.
GroundTruth ==
  /\ \A t \in Tickets :
       row[t].human # NoCategory =>
         \/ row[t].human = category[t]
         \/ t \in torn
         \/ \E r \in Runs : run[t][r] # Unknown
         \/ \E v \in Reviews : Pending(t, v)
  /\ Comparable(row) \subseteq answered

Judged(rows, t) == rows[t].human # NoCategory
Agrees(rows, t) == rows[t].human = rows[t].agent.category
Labelled(t) == row'[t] # row[t] /\ row'[t].agent = row[t].agent

\* A label that turns out as the agent said never takes a threshold away or
\* raises one, and makes no configured one unjustified but by being the first of
\* its category, which is not judged before; a correction never gives a threshold
\* or lowers one, nor justifies a configured one.  So it is in any order the
\* labels come in and in every category: thresholds.ts offers the lowest
\* candidate whose Wilson bound clears the target, and report.ts judges the
\* settings of the categories that have labels by it.
LabelsMoveThresholds ==
  [][\A t \in Tickets : Labelled(t) /\ Judged(row', t) =>
       \A c \in Categories :
         /\ Agrees(row', t) /\ ~(Judged(row, t) /\ Agrees(row, t))
              => /\ OperatingThreshold(row', c) <= OperatingThreshold(row, c)
                 /\ Judgeable(row, c) => Unjustified(row', c) \subseteq Unjustified(row, c)
         /\ ~Agrees(row', t) /\ ~(Judged(row, t) /\ ~Agrees(row, t))
              => /\ OperatingThreshold(row', c) >= OperatingThreshold(row, c)
                 /\ Unjustified(row, c) \subseteq Unjustified(row', c)]_shadowVars
===============================================================================
