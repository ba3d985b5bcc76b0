CONSTANTS
  Fronts <- SilentFront
  MaxAge = 2
  DefaultLen = 5
  RealSizes <- TheRealSizes
  CertLen = 13
  SplitAt = 8
  CompactLen = 4
  MinApp = 4
  MaxApp = 8
  Overhead = 2
  Jitter <- TheJitter
SPECIFICATION FrontSpec
PROPERTY RefreshAlwaysPeriodic
