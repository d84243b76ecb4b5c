\* Two payments share two workers; no symmetry, because of liveness.
SPECIFICATION FairSpec
CONSTANTS
  p1 = p1
  p2 = p2
  w1 = w1
  w2 = w2
  w3 = w3
  h1 = h1
  h2 = h2
  eSuccess = eSuccess
  eFailed = eFailed
  Payments = {p1, p2}
  Workers = {w1, w2}
  Hooks = {}
  Events = {}
  EventPayment <- MCEventPayment
  EventStatus <- MCEventStatus
  MaxAttempts = 2
  Disruptions <- MCAllDisruptions
  MaxDisruptions = 1
  NoWorker = NoWorker
  Orphan = Orphan
  NoPayment = NoPayment
  NoEvent = NoEvent
CHECK_DEADLOCK FALSE
PROPERTIES
  LedgerSpec
