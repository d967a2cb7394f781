\* Silence
SPECIFICATION Spec
CONSTANTS
  w1 = w1
  w2 = w2
  v1 = v1
  v2 = v2
  reset = reset
  disable = disable
  NoRun = NoRun
  Runs = {w1}
  Visits = {v1}
  Sweepers = {k1}
  Tickets = {t1}
  Tools = {disable}
  Tier <- DisableTier
  Autonomies = {"act"}
  Expiry = TRUE
  Faults = {}
INVARIANT LapsesAreTold
