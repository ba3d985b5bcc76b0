CONSTANTS
  None = None
  alice = alice  bob = bob
  Sessions = {s1, s2, s3}
  Users = {alice, bob}
  Ips = {i1, i2}
  MaxIps <- OneForAlice
  MaxTcp <- TwoForAlice
  Quota = {alice}
  HotTelemetry = TRUE
  Keys = {1, 2, 3}
  Capacity = 2
  Window = 1
  MaxTime = 4
  MaxChecks = 5
  Peers = {p1, p2}
  Ttls = {1, 2}
  CleanupInterval = 2
  DedupWindow = 2
  MaxTries = 3
  ByteBase = 8
  LongBytes = 1
  CbcPadding = 16
  MaxFrame = 15
  MAX_MSG_LEN = 40
  Lengths <- TheLengths
  Ends <- TheEnds
  MaxSent = 2
SPECIFICATION MCSpec
INVARIANTS SafetyTypesOK LimitsKept FramesRight
PROPERTIES ReplayDetected ReportsRight
SYMMETRY Symmetry
CHECK_DEADLOCK FALSE
