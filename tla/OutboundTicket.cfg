CONSTANTS
  m1 = m1
  m2 = m2
  a1 = a1
  t1 = t1
  Messages <- OneMessage
  Addresses = {a1}
  Tickets = {t1}
  NoMessage = NoMessage
  NoTicket = NoTicket
  Recipient <- SameAddress
  TicketOf <- SameTicket
  AgentMessages = {}
  Workers = {w1}
  Hooks = {}
  Callers = {k1}
  Consoles = {}
  Senders = {w1}
  MaxAttempts = 2
  Faults = {}
  MaxCrashes = 0
  MaxSlow = 0
  MaxRetries = 0
SPECIFICATION Spec
INVARIANTS
  UndeliveredIsNotResolved
CHECK_DEADLOCK FALSE
