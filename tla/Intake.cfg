SPECIFICATION IntakeFairSpec
CONSTANTS
  first = first
  reply = reply
  other = other
  None = None
  Messages = {first, reply}
  Refs <- MCRefs
  Tag <- MCTag
  Date <- MCDate
  Form <- MCForm
  Written = {first, reply}
  Hooks = {h1}
  Polls = {p1}
  Mailed = {first}
  Sweepers = {s1}
  Mergers = {g1}
  MaxFaults = 1
  MaxChanges = 1
INVARIANTS
  AckedIsKept
  NewIsAccountedFor
PROPERTIES
  MailGetsIn
  QueuedIsTriaged
  AnswersReopen
CHECK_DEADLOCK FALSE
