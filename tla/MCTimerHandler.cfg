SPECIFICATION TimerSpec
CONSTANTS
  MaxTimers = 3
  CAPACITY = 2
  WHEEL_SIZE = 2
  TICKS = 6
  Durations = {0, 3}
VIEW TimerView
INVARIANTS
  TimerTypeOK
  WheelHoldsRunning
  FreeListIsUnallocated
  NoOverdue
PROPERTIES
  StoppedStaysSilent
