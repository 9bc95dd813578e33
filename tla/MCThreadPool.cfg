CONSTANTS
  u1 = u1
  u2 = u2
  u3 = u3
  NofWorkers = 2
  Users <- MCUsers
SPECIFICATION FairPoolSpec
INVARIANT NoLostWakeup
INVARIANT OneOwner
PROPERTY StopIsFinal
PROPERTY StopReturns
\* A pool that is stopped before its first worker has nothing left to do.
CHECK_DEADLOCK FALSE
