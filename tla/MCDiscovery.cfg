CONSTANTS
  a = a  b = b  s1 = s1  s2 = s2
  Published <- ThePublished
  Startup <- TheStartup
  Secrets = {s1, s2}
  Required = 2
  MinLines = 0
  RejectEmpty = TRUE
  QueueCap = 1
  Modes <- TheModes
  MaxFlaps = 1
  FirstSecret = s1
  None = None
  Tasks = {t1, t2}
  BoundSets = {{}, {t2}}
  Configured <- Servers
  InOrder = FALSE
  Worlds <- TheWorlds
  Ttl = 2
  MaxExponent = 1
  AttemptWrap = 3
  NumDcs = 2
  MinHealthyGroups = 2
  RetryAttempts = 2
  FailThreshold = 2
  Fleets <- TheFleets
  Requests <- TheRequests
  Reaches <- TheReaches
  MaxChanges = 1
SPECIFICATION MCSpec
INVARIANTS DiscoveryTypesOK ChangeSeen
PROPERTIES PublishedFollowed ReflectionRight UpstreamsFollowed
CHECK_DEADLOCK FALSE
