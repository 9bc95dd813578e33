SPECIFICATION RxSpec
CONSTANTS
  WINDOW = 3
  DataPdus <- MCDataPdus
  StatusGrants = {0, 1, 2, 3, 4}
  StatusProhibit = TRUE
VIEW RxView
INVARIANTS
  RxTypeOK
  RxWindowOrder
  RxWindowContents
  ReorderingTimerRange
  GapIsTimed
PROPERTIES
  HorizonMonotonic
  StatusIsTrue
