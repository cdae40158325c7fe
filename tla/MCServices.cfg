SPECIFICATION Spec
CONSTANTS
  n1 = n1
  k1 = k1
  k2 = k2
  u1 = u1
  u2 = u2
  host = host
  address = address
  w1 = w1
  w2 = w2
  w3 = w3
  m1 = m1
  ann = ann
  bob = bob
  s1 = s1
  r1 = r1
  r2 = r2
  SlotMonitors = {n1}
  Intervals = {2, 3}
  Jitter <- MCJitter
  StaleGrace = 5
  MaxClock = 7
  Checks = {k1, k2}
  Urls = {u1, u2}
  FirstUrl <- MCFirstUrl
  Subjects = {host, address}
  SubjectsOf <- MCSubjectsOf
  MaxRedirects = 1
  MaxConcurrent = 1
  MaxPerWindow = 1
  LeaseTime = 2
  Window = 1
  CheckTimeout = 1
  NetWorkers = {w1, w2, w3}
  NetCheckers = {w1}
  NetMonitors = {m1}
  MaxOutages = 2
  MaxSettings = 2
  MaxConfig = 2
  NetClock = 3
  FreshTicks = 1
  People = {ann, bob}
  FirstAdmin = ann
  Sessions = {s1}
  Calls = {r1, r2}
  MaxPassword = 2
  Rows = {"result", "check", "attempt", "down", "recovery", "incident", "channel", "audit"}
  Kind <- MCKind
  Parent <- MCParent
  NONE = "none"
  BatchSize = 1
  MaxBatches = 1
  MaxFaults = 1
  MaxToggles = 1
  PollStaleAfter = 2
  PipelineStale = 2
  FailureThreshold = 2
  ProbeTimeout = 1
  Concurrency = 1
INVARIANTS
  ServicesTypeOK
  RefusalHeals
  StaleViewsAgree
  RequestsWithinLimit
  LimiterFaultDecidesNothing
  CountedResultHoldsNoSlot
  UnresolvedOutageIsActive
  EvidenceFollowsFailure
  LastAdministratorStays
  SessionMatchesPassword
  HistoryIsWhole
  RecoveryHasSecret
  QuietAfterStop
PROPERTIES
  LatestDueThenFirstFuture
  ChecksAndSlotsEnd
  SummaryIsFinal
  RecoveryIsSummarized
  BacklogIsCleared
  HealthyIsCurrent
  HungPollIsHarmless
CHECK_DEADLOCK FALSE
