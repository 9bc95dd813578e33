CONSTANTS
  NofThreads = 2
  MaxTti = 2
  MaxCmds = 1
  LosesSyncWithNr = FALSE
SPECIFICATION PhySpec
INVARIANT SentInSequence
INVARIANT ConfiguredAtRest
PROPERTY StartedIsSent
PROPERTY PhyStopReturns
CHECK_DEADLOCK FALSE
