SPECIFICATION Spec
CONSTANTS
  m1 = m1
  c1 = c1
  c2 = c2
  s1 = s1
  s2 = s2
  w1 = w1
  w2 = w2
  NoOne = NoOne
  Monitors = {m1}
  Checks = {c1, c2}
  Schedulers = {s1}
  Workers = {w1, w2}
  FailureThreshold = 1
  RecoveryThreshold = 1
  MaxVersion = 1
  MaxFaults = 0
SYMMETRY Symmetry
INVARIANTS
  ChecksDoNotOverlap
CHECK_DEADLOCK FALSE
