CONSTANTS
  alice = alice
  None = None
  Sessions = {s1, s2, s3}
  Users = {alice}
  Ips = {i1, i2}
  MaxIps <- OneForAlice
  MaxTcp <- Unlimited
  Quota = {}
  HotTelemetry = FALSE
SPECIFICATION Spec
INVARIANT UniqueIpLimit
SYMMETRY Symmetry
CHECK_DEADLOCK FALSE
