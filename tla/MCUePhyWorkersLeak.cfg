CONSTANTS
  NofThreads = 2
  MaxTti = 3
  MaxCmds = 0
  LosesSyncWithNr = TRUE
SPECIFICATION PhySpec
PROPERTY PhyStopReturns
CHECK_DEADLOCK FALSE
