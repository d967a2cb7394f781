SPECIFICATION DeskSpec
CONSTANTS
  ann = ann
  vip = vip
  bob = bob
  cyd = cyd
  t1 = t1
  t2 = t2
  t3 = t3
  q1 = q1
  q2 = q2
  r1 = r1
  r2 = r2
  w1 = w1
  w2 = w2
  i1 = i1
  NoIncident = NoIncident
  NoTicket = NoTicket
  Nobody = Nobody
  Tickets = {t1, t2, t3}
  People = {ann, vip, bob, cyd}
  Watching <- MCWatching
  RequesterOf <- MCRequesterOf
  Requests = {q1, q2}
  Runs = {r1, r2}
  DigestAbove = 1
  PrefixOf <- MCPrefixOf
  PrefixesKept = 1
  Scenarios <- MCScenarios
  Directory <- MCDirectory
  CostCap = 4
  Writers = {w1, w2}
  FixOf <- MCFixOf
  Incidents = {i1}
PROPERTIES
  WarningsReachTheQueue
SYMMETRY MCSymmetry
CHECK_DEADLOCK FALSE
