\* Two publishers, three rows, two to a batch, one row refused for good.
SPECIFICATION FairSpec
CONSTANTS
  a = a
  b = b
  Rows = {1, 2, 3}
  Publishers = {a, b}
  Limit = 2
  Refused = {1}
  Disruptions = {"throw", "crash", "outage"}
  MaxDisruptions = 2
CHECK_DEADLOCK FALSE
INVARIANTS
  IInv
  DuplicatesBounded
PROPERTIES
  OutboxDelivers
  EventuallyPublished
