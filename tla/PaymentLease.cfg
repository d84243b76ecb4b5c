\* Two executions, a lease of five ticks and a heartbeat every second one.
SPECIFICATION FairSpec
CONSTANTS
  a = a
  b = b
  t1 = t1
  t2 = t2
  t3 = t3
  t4 = t4
  Workers = {a, b}
  Tokens = {t1, t2, t3, t4}
  Nobody = Nobody
  TTL = 5
  MaxDelay = 1
  Disruptions = {"lose", "hold", "crash"}
  MaxDisruptions = 2
CHECK_DEADLOCK FALSE
INVARIANTS
  IInv
  Exclusion
PROPERTIES
  LostByExpiryOnly
  ContractKept
  OrphansExpire
