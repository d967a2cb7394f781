SPECIFICATION ConsoleSpec
CONSTANTS
  ann = ann
  bob = bob
  cyd = cyd
  c1 = c1
  c2 = c2
  s1 = s1
  s2 = s2
  s3 = s3
  k1 = k1
  NoUser = NoUser
  Unset = Unset
  Users = {ann, bob, cyd}
  SuperAdmins = {}
  Outsiders = {cyd}
  Calls = {c1, c2}
  Saves = {s1, s2, s3}
  ApiKeys = {k1}
  Scenarios <- MCScenarios
  Offered = {"viewer", "admin", "security_admin"}
  Fields <- MCFields
  Submissions <- MCSubmissions
  MaxVersions = 3
  MaxProposals = 1
  t1 = t1
  vpn = vpn
  mail = mail
  NoCategory = NoCategory
  Tickets = {t1, t2, t3}
  Categories = {vpn, mail}
  Runs = {r1, r2}
  Reviews = {v1, v2}
  NeverAuto = {mail}
  Candidates = {50, 90}
  Configured = {40, 70}
  MinSamples = 2
  Target = 3
  Scale = 10
  Cases <- MCCases
INVARIANTS
  AdminRemains
  WideningIsGated
  HistoryExplains
  DecisionsAreTrue
  GroundTruth
PROPERTIES
  AuthorityIsNotMade
  LabelsMoveThresholds
SYMMETRY MCSymmetry
CHECK_DEADLOCK FALSE
