CONSTANTS
    NofSns = 8
    RlcCapacity = 3
    CrossWrap = TRUE
    MaxSdus = 18
    MaxDiscards = 0
    MaxHandovers = 1
SPECIFICATION Spec
INVARIANTS KeptUntilReceived
CHECK_DEADLOCK FALSE
