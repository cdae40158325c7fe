SPECIFICATION SpecInTurns
CONSTANTS
  d1 = d1
  d2 = d2
  p1 = p1
  p2 = p2
  NoOne = NoOne
  Dispatchers = {d1, d2}
  Processors = {p1, p2}
  MaxAttempts = 2
  MaxChanges = 0
  MaxFaults = 1
SYMMETRY Symmetry
INVARIANTS
  RecoveryAfterDown
  OneAttemptUnderWay
  SenderExclusive
CHECK_DEADLOCK FALSE
