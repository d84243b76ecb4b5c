\* Two consumers, two messages, delays of up to two sessions, two
\* disruptions.
SPECIFICATION FairSpec
CONSTANTS
  a = a
  b = b
  Consumers = {a, b}
  Nobody = Nobody
  Last = 2
  SessionTimeout = 3
  BaseDelay = 3
  MaxDelay = 6
  MaxJitter = 2
  Retries = {1}
  Disruptions = {"throw", "rebalance", "crash"}
  MaxDisruptions = 2
CHECK_DEADLOCK FALSE
INVARIANTS
  GroupInv
  RecordsAgree
  RepeatsBounded
PROPERTIES
  GroupDelivers
  NeverEarly
  BacklogDrains
  StopCompletes
