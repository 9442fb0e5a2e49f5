SPECIFICATION TranslateSpec
CONSTANTS
  n1 = n1
  n2 = n2
  n3 = n3
  references = references
  component = component
  same = same
  different = different
  NoNode = NoNode
  NoName = NoName
  UnknownStart = UnknownStart
  Nodes <- MCNodes
  Name <- MCName
  Supertype <- MCSupertype
  MayRegister <- MCMayRegister
  Wanted = {same, different, NoName}
  MaxEdges = 2
  MaxPath = 2
INVARIANT TargetsAreWalks
