CONSTANTS
    NofSns = 8
    RlcCapacity = 3
    CrossWrap = FALSE
    MaxSdus = 18
    MaxDiscards = 1
    MaxHandovers = 2
SPECIFICATION Spec
INVARIANTS DecipheredRight KeptUntilReceived FirstMissingIsTrue InOrderOnce
CHECK_DEADLOCK FALSE
