CONSTANTS
    UmMod = 4
    UM_Window_Size = 2
    Sn12Bits = FALSE
    TxQueueLen = 1
    SnMod = 8
    HfnMod = 4
    Integrity = FALSE
    SduLen = 6
    Grants <- MCGrants
    Processes = 2
    MaxSdus = 9
    MaxFaults = 1
    MaxReest = 1
SPECIFICATION Spec
INVARIANTS SegmentsDescribeData DeliveredIntact HeldBackIsTimed
PROPERTIES DeliveredInOrder
CHECK_DEADLOCK FALSE
