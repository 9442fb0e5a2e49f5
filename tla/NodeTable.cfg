SPECIFICATION LiveTableSpec
CONSTANTS
  Threads = {network, timer}
  Network = network
  Built = 1
  MaxPtrs = 4
  SessionIds = {11, 12, 13}
  Free = Free
  None = None
INVARIANTS
  TableSound
  NeverMissed
  NodeInUseKept
PROPERTIES
  LookupsRefineSet
  CallsEnd
CHECK_DEADLOCK FALSE
