CONSTANTS
  m1 = m1
  m2 = m2
  a1 = a1
  t1 = t1
  Messages <- OneMessage
  Addresses = {a1}
  Tickets = {t1}
  NoMessage = NoMessage
  NoTicket = NoTicket
  Recipient <- SameAddress
  TicketOf <- SameTicket
  AgentMessages = {m1}
  Workers = {w1, w2}
  Hooks = {h1}
  Callers = {k1}
  Consoles = {c1}
  Senders = {w1}
  MaxAttempts = 1
  Faults = {"ambiguous", "database"}
  MaxCrashes = 0
  MaxSlow = 1
  MaxRetries = 1
SPECIFICATION Spec
INVARIANTS
  ClaimsAreDistinct
  SentWasAccepted
  SuppressedNeverAttempted
  DeadLettersAreTold
  KillSwitchReachesQueue
PROPERTIES
  SettledMovesOnlyBy
CHECK_DEADLOCK FALSE
