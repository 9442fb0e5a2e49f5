SPECIFICATION LiveSpaceSpec
CONSTANTS
  Standard = {1, 2, 3}
  Reserved = {3}
  Indices <- MCIndices
  Names = {"A"}
  TableRules <- MCTwoRules
  TableLinks = {"HasComponent", "Other"}
  BuildTypes = {"Object", "ObjectType"}
  OptionalProps <- MCOptionalProps
  MaxNodes = 9
  MaxSessions = 1
  MaxRemoved = 1
INVARIANTS
  UniqueNodeIds
  ReferencesReciprocal
  InheritedOnce
PROPERTY OperationsEnd
