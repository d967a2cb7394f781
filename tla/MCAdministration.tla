-------------------------- MODULE MCAdministration --------------------------
(* What the people of a small tenant decide.  For Access and ConfigVersions:  *)
(* two administrators, of whom one may lack security:update, and a stranger;  *)
(* one category beside the default policy, the kill switch, dual control and  *)
(* an ordinary field.  For Shadow: one ticket with everything that can come   *)
(* between its runs and its reviews, and three tickets with enough labels for  *)
(* a target of 30 percent and two samples to open a threshold and to close it *)
(* again.                                                                     *)
EXTENDS ConfigVersions, Shadow, TLC

CONSTANTS ann, bob, cyd, c1, c2, s1, s2, s3, k1, t1, vpn, mail

Base == <<"default_policy", "autonomy">>
Vpn == <<"category_policies", "vpn", "autonomy">>
Mode == <<"agent_mode_override">>

MCFields == {Base, Vpn, Mode, Dual}
MCSubmissions == {[f \in {Vpn} |-> v] : v \in {0, 2}} \cup {[f \in {Mode} |-> 3]}
                   \cup {[f \in {Dual} |-> FALSE]}
Start(base, dual) == [f \in MCFields |-> CASE f = Base -> base [] f = Vpn -> Unset
                                           [] f = Mode -> 0 [] f = Dual -> dual]
Staff(a, b) == [u \in Users |-> CASE u = ann -> a [] u = bob -> b [] OTHER -> Nobody]
Both == Staff("security_admin", "security_admin")
Scenario(requests, staff, start) == [expected |-> requests, role |-> staff, settings |-> start]

\* Two requests on the members; a proposal and its decision beside another
\* change; a request on the members under a change of the settings.
MCScenarios ==
  {Scenario({}, Both, Start(0, FALSE))}
  \cup {Scenario(Calls, staff, Start(0, FALSE)) :
     staff \in {Staff("admin", "admin"), Staff("admin", "security_admin"), Both}}
  \cup {Scenario(Saves, Both, Start(0, TRUE))}
  \cup {Scenario(Saves \ {s}, Staff("admin", "security_admin"), Start(2, d)) : s \in Saves, d \in BOOLEAN}
  \cup {Scenario({c, s, k1, ann}, Both, Start(2, FALSE)) : c \in Calls, s \in Saves}

Answer(c, confidence, flag) == [category |-> c, confidence |-> confidence, security |-> flag]
Quiet == [tickets |-> {}, inHand |-> 0, crashes |-> FALSE, labels |-> {}, flags |-> {}, answers |-> {}]

MCCases ==
  {[tickets |-> {t1}, inHand |-> 4, crashes |-> TRUE, labels |-> {vpn, mail}, flags |-> {"unsaid", "yes"},
    answers |-> {Answer(vpn, 900, FALSE), Answer(mail, 900, TRUE)}]}
  \cup {[tickets |-> Tickets, inHand |-> 1, crashes |-> FALSE, labels |-> {vpn, mail},
         flags |-> {"unsaid"},
         answers |-> {Answer(vpn, c, FALSE) : c \in {500, 895}}]}
  \cup {Quiet}

\* The two halves share nothing, so each is explored while the other rests.
ConsoleInit == ConfigInit /\ ShadowInit /\ (expected = {} <=> scene # Quiet)
ConsoleNext ==
  \/ AdminNext /\ UNCHANGED shadowVars
  \/ ShadowNext /\ UNCHANGED adminVars
ConsoleSpec == ConsoleInit /\ [][ConsoleNext]_<<adminVars, shadowVars>>

\* Which request is which does not matter.
MCSymmetry == Permutations(Saves) \cup Permutations(Calls)
=============================================================================
