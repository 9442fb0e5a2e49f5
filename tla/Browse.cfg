SPECIFICATION BrowseSpec
CONSTANTS
    n1 = n1
    n2 = n2
    organizes = organizes
    property = property
    Nodes = {n1, n2}
    NoNode = NoNode
    References <- MCReferences
    Filters = {property}
    Covers <- MCCovers
    Batches = {0, 2, 7}
    Directions = {"inverse", "both"}
    Half = 4
    NoFilter = NoFilter
    Tokens = {t1, t2}
    Counters = {9}
    MaxAdded = 2
INVARIANTS OneAliasPerNode LifoAliasesResolve PagesComplete OffsetSeparates ClosedHasNoPoints MutexReleased
PROPERTY PagingAdvances
SYMMETRY Symmetry
CHECK_DEADLOCK FALSE
