SPECIFICATION FairSpec
CONSTANTS
  oldTicket = oldTicket
  newTicket = newTicket
  o1 = o1
  r1 = r1
  o2 = o2
  k1 = k1
  Nobody = Nobody
  Nowhere = Nowhere
  Tickets = {oldTicket, newTicket}
  Keys = {o1, r1, o2, k1}
  History <- MCHistory
  Opening <- MCOpening
  Said <- MCSaid
  Fresh = {newTicket}
  Absorbed = {oldTicket}
  Unclear = {oldTicket}
  Writers = {w1, w2}
  Backfills = {b1}
  Mergers = {g1}
INVARIANTS
  SeqsAreDense
  HistoryFirst
PROPERTIES
  MergedTakesNothing
  ImplementsThreadLog
  CallsReturn
