CONSTANTS
  Phy = {"phy1", "phy2"}
  Lcids <- MCLcids
  Srbs <- MCSrbs
  HasBsr = TRUE
  MaxTasks = 2
SPECIFICATION MuxSpec
INVARIANT NoCircularWait
INVARIANT NoUseAfterFree
