SPECIFICATION LinkSpec
CONSTANTS
  WINDOW = 2
  NofSdus = 3
  SduLen <- Lengths
  Discardable = {2}
  QueueLen = 2
  Grants = {1, 2}
  PollPdu = 0
  PollByte = 0
  PollPeriod = 8
  MaxRetx = 2
  MaxInFlight = 2
  DataPdus = {}
  StatusGrants = {1, 3}
  StatusProhibit = FALSE
  MaxFaults = 2
  FaultKinds <- AllFaults
  MaxStatus = 1
VIEW LinkView
INVARIANTS
  TxTypeOK
  WindowsAgree
  MissingIsKept
  SegmentListsAgree
  NoProtocolFailure
PROPERTIES
  NotifiedWasReceived
  ImplementsService
CHECK_DEADLOCK FALSE
