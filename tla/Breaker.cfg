\* Two charges at a time, opening at two failures, probes after one tick.
SPECIFICATION Spec
CONSTANTS
  a = a
  b = b
  Slots = {a, b}
  Threshold = 2
  ResetTimeout = 1
  MaxTime = 5
  MaxAnswers = 5
SYMMETRY Symmetry
INVARIANTS
  TypeOK
  OpenForCause
  ProbesSpaced
PROPERTIES
  AnswersTrue
