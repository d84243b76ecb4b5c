\* Two requests at a time, two in a window of three ticks, delays of a tick.
SPECIFICATION Spec
CONSTANTS
  a = a
  b = b
  Slots = {a, b}
  Limit = 2
  Window = 3
  Margin = 1
  MaxDelay = 1
  MaxTime = 6
SYMMETRY Symmetry
INVARIANTS
  IInv
  StoredBounded
  WindowBounded
PROPERTIES
  HintSuffices
