CONSTANTS
  MaxFrames = 2
  MaxAnswers = 3
  Workloads <- TheWorkloads
  C2MeCap = 1
  RouteCap = 1
  PendingCap = 1
  None = None
  ActivityTimeout = 3
  WatchdogInterval = 2
  MaxChunks = 2
  HeaderSize = 2
  MaxTlsPayload = 2
  MaxBytes = 7
  Offers <- TheOffers
  MaxPendingWrite = 3
  Records <- TheRecords
  MaxRecords = 3
  ReadSizes <- TheReadSizes
  Setups <- TheSetups
  BlockWords = 4
  MaxReplies = 2
  MaxRead = 8
SPECIFICATION MCSpec
INVARIANTS RelayTypesOK BytesInOrder
PROPERTIES SessionEnds DirectRight ReadsRight WritesRight LinkRight
CHECK_DEADLOCK FALSE
