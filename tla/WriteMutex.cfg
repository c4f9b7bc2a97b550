CONSTANTS
  Callers = {w1, w2, w3}
  NoCaller = NoCaller
  MaxNest = 1
SPECIFICATION MutexSpec
INVARIANTS
  MutualExclusion
  DepthIsPending
  WorkingKeepsBackend
PROPERTIES
  ImplementsFifoLock
  EveryCallerServed
