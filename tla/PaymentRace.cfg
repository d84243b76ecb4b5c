\* One payment, two workers, two webhooks that contradict each other, every disruption.
SPECIFICATION Spec
CONSTANTS
  p1 = p1
  p2 = p2
  w1 = w1
  w2 = w2
  w3 = w3
  h1 = h1
  h2 = h2
  eSuccess = eSuccess
  eFailed = eFailed
  Payments = {p1}
  Workers = {w1, w2}
  Hooks = {h1, h2}
  Events = {eSuccess, eFailed}
  EventPayment <- MCEventPayment
  EventStatus <- MCEventStatus
  MaxAttempts = 2
  Disruptions <- MCAllDisruptions
  MaxDisruptions = 2
  NoWorker = NoWorker
  Orphan = Orphan
  NoPayment = NoPayment
  NoEvent = NoEvent
SYMMETRY Symmetry
CHECK_DEADLOCK FALSE
INVARIANTS
  IInv
  AnnouncementsMatchStatus
  NeverStranded
  MutualExclusion
  ChargedAtMostOnce
  GatewayCallsBounded
  OutcomeJustified
PROPERTIES
  AcknowledgedWebhookSettles
  LedgerSafe
  LockUsedAsKept
