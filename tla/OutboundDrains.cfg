CONSTANTS
  m1 = m1
  m2 = m2
  a1 = a1
  t1 = t1
  Messages <- OneMessage
  Addresses = {a1}
  Tickets = {t1}
  NoMessage = NoMessage
  NoTicket = NoTicket
  Recipient <- SameAddress
  TicketOf <- SameTicket
  AgentMessages = {m1}
  Workers = {w1, w2}
  Hooks = {}
  Callers = {k1}
  Consoles = {}
  Senders = {w1, w2}
  MaxAttempts = 2
  Faults = {"database"}
  MaxCrashes = 1
  MaxSlow = 1
  MaxRetries = 0
SPECIFICATION FairSpec
INVARIANTS
  BudgetAccounted
PROPERTIES
  QueueDrains
CHECK_DEADLOCK FALSE
