\* The operator replays a dead letter.
SPECIFICATION FairSpec
CONSTANTS
  p1 = p1
  p2 = p2
  w1 = w1
  w2 = w2
  w3 = w3
  h1 = h1
  h2 = h2
  eSuccess = eSuccess
  eFailed = eFailed
  Payments = {p1}
  Workers = {w1}
  Hooks = {}
  Events = {}
  EventPayment <- MCEventPayment
  EventStatus <- MCEventStatus
  MaxAttempts = 1
  Disruptions = {"replay"}
  MaxDisruptions = 1
  NoWorker = NoWorker
  Orphan = Orphan
  NoPayment = NoPayment
  NoEvent = NoEvent
CHECK_DEADLOCK FALSE
PROPERTIES
  ReplayRecovers
