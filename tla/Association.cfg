SPECIFICATION AssocSpec
CONSTANTS
  Network = network
  Timer = timer
  MaxChannels = 2
  Free = Free
  None = None
INVARIANTS
  TableCompact
  LinksFollowChannels
PROPERTIES
  ThreadsGetOn
CHECK_DEADLOCK FALSE
