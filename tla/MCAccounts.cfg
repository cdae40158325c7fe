SPECIFICATION AccountsSpec
CONSTANTS
  ann = ann
  bob = bob
  s1 = s1
  r1 = r1
  r2 = r2
  People = {ann, bob}
  FirstAdmin = ann
  Sessions = {s1}
  Calls = {r1, r2}
  MaxPassword = 2
INVARIANT AnAdministratorIsActive
CHECK_DEADLOCK FALSE
