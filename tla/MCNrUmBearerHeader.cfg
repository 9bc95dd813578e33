CONSTANTS
    UmMod = 8
    UM_Window_Size = 4
    Sn12Bits = TRUE
    TxQueueLen = 1
    SnMod = 8
    HfnMod = 4
    Integrity = FALSE
    SduLen = 6
    Grants = {5, 6}
    Processes = 2
    MaxSdus = 3
    MaxFaults = 0
    MaxReest = 0
SPECIFICATION Spec
INVARIANT SegmentsDescribeData
CHECK_DEADLOCK FALSE
