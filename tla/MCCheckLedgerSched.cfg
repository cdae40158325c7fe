SPECIFICATION Spec
CONSTANTS
  m1 = m1
  c1 = c1
  c2 = c2
  s1 = s1
  s2 = s2
  w1 = w1
  w2 = w2
  NoOne = NoOne
  Monitors = {m1}
  Checks = {c1, c2}
  Schedulers = {s1, s2}
  Workers = {w1}
  FailureThreshold = 1
  RecoveryThreshold = 2
  MaxVersion = 2
  MaxFaults = 1
SYMMETRY Symmetry
INVARIANTS
  OneActiveCheck
  ActiveCheckIsCurrent
  HealthAgrees
CHECK_DEADLOCK FALSE
