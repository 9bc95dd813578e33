SPECIFICATION LinkLiveSpec
CONSTANTS
  WINDOW = 3
  NofSdus = 2
  SduLen <- Lengths
  Discardable = {}
  QueueLen = 2
  Grants = {1, 2}
  PollPdu = 1
  PollByte = 0
  PollPeriod = 8
  MaxRetx = 0
  MaxInFlight = 2
  DataPdus = {}
  StatusGrants = {4}
  StatusProhibit = TRUE
  MaxFaults = 1
  FaultKinds <- MacFaults
  MaxStatus = 1
PROPERTY DeliveredUnlessStuck
CHECK_DEADLOCK FALSE
