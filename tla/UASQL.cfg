SPECIFICATION SqlSpec
CONSTANTS
    Ids = {h1, h2}
    MaxMarker = 2
    MaxBuffers = 2
    MaxRows = 2
INVARIANTS
    HandlesFit
    OneStatementPerId
    MemorySafe
    BoundBuffersLive
CHECK_DEADLOCK FALSE
