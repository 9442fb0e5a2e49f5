SPECIFICATION CallSpec
CONSTANTS
  top = top
  mid = mid
  low = low
  side = side
  db = db
  other = other
  connect = connect
  disconnect = disconnect
  typed = typed
  stub = stub
  one = one
  NoNode = NoNode
  UnknownId = UnknownId
  NullId = NullId
  Nodes <- MCNodes
  Space <- MCSpace
  Registrable <- MCRegistrable
  Counts = {0, 1, 2}
INVARIANTS
  RunsOnlyEntitled
  EntitledRuns
CHECK_DEADLOCK FALSE
