SPECIFICATION RWSpec
CONSTANTS
  Instances = {{"bytes", "text"}, {"doubles", "boolean"}, {"integer", "maxQuery", "status", "currentTime"}}
  Elems = {0, 1}
  ArrayLength = 2
  MaxSupplied = 3
  IntMax = 7
  Numbers = {0, 1, 2, 17}
  MaxTime = 2
  NoRange = NoRange
  Malformed = Malformed
  Blank = Blank
  Junk = Junk
  NoNode = NoNode
INVARIANTS
  ValueHasType
  ReadsLatest
  ClocksAgree
PROPERTY FailedWriteKeeps
CHECK_DEADLOCK FALSE
