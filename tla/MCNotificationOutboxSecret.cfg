SPECIFICATION Spec
CONSTANTS
  d1 = d1
  d2 = d2
  p1 = p1
  p2 = p2
  NoOne = NoOne
  Dispatchers = {d1}
  Processors = {p1, p2}
  MaxAttempts = 2
  MaxChanges = 3
  MaxFaults = 0
SYMMETRY Symmetry
INVARIANTS
  OpenEventHasSecret
CHECK_DEADLOCK FALSE
