CONSTANTS
  c1 = c1  c2 = c2  c3 = c3
  Conns = {c1, c2, c3}
  Workloads <- TheWorkloads
  Listener <- TheListeners
  ProxyProtocol = TRUE
  Modes = {"secure", "tls"}
  Masks = {TRUE, FALSE}
  Permits = 2
  Addresses <- TheAddresses
  DefaultPeer <- ThePeer
  Foreign <- TheForeign
  Sig1 = 2
  Sig2 = 3
  Len4 = 3
  Len6 = 4
  MaxLine = 6
  Payload = 6
  Fronts <- TheFronts
  MaxAge = 2
  DefaultLen = 5
  RealSizes <- TheRealSizes
  CertLen = 13
  SplitAt = 8
  CompactLen = 4
  MinApp = 4
  MaxApp = 8
  Overhead = 2
  Jitter <- TheJitter
  Hot = {1, 2}
  Dns = {1, 2, 3}
  Cold = {0}
  BadDns = {3}
  Loaded <- TheLoaded
  NotifyCap = 1
  Consumers = {"policy", "updater"}
  Ticking = {"updater"}
  MaxEdits = 2
SPECIFICATION MCSpec
INVARIANTS FrontTypesOK ReplayOnce MaskSeesClient
PROPERTIES PermitReturned HeaderRight FrontRight FileFollowed
CHECK_DEADLOCK FALSE
