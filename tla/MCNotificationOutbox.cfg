SPECIFICATION Spec
CONSTANTS
  d1 = d1
  d2 = d2
  p1 = p1
  p2 = p2
  NoOne = NoOne
  Dispatchers = {d1}
  Processors = {p1, p2}
  MaxAttempts = 1
  MaxChanges = 2
  MaxFaults = 1
SYMMETRY Symmetry
INVARIANTS
  TypeOK
  SummaryReplacesDown
  OpenDownHasSecret
  ConfirmedAttemptWins
PROPERTIES
  ImplementsContract
CHECK_DEADLOCK FALSE
