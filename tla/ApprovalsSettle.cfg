SPECIFICATION FairSpec
CONSTANTS
  w1 = w1
  w2 = w2
  v1 = v1
  v2 = v2
  reset = reset
  disable = disable
  NoRun = NoRun
  Runs = {w1}
  Visits = {v1, v2}
  Sweepers = {k1}
  Tickets = {t1}
  Tools = {reset, disable}
  Tier <- MCTier
  Autonomies = {"off", "suggest", "reply", "act"}
  Expiry = TRUE
  Faults = {"crash", "tool", "log"}
INVARIANT RunsWereGranted
INVARIANT OncePerApproval
INVARIANT RecordIsTrue
PROPERTY SettledIsFinal
PROPERTY RequestsSettle
PROPERTY DecisionsMoveTheTicket
