\* Three requests with one key, one of them invalid, and every disruption.
SPECIFICATION FairSpec
CONSTANTS
  r1 = r1
  r2 = r2
  rInvalid = rInvalid
  kShared = kShared
  Requests = {r1, r2, rInvalid}
  Keys = {kShared}
  KeyOf <- MCKeyOf
  Valid <- MCValid
  Disruptions = {"expire", "throw", "crash"}
  MaxDisruptions = 3
  NoPayment = NoPayment
CHECK_DEADLOCK FALSE
INVARIANTS
  IInv
  AnswersAgree
  ResponsesTruthful
PROPERTIES
  KeyWrittenOnce
  RetryAnswered
