CONSTANTS
  fa = fa
  fb = fb
  empty = empty
  small = small
  large = large
  Names <- MCNames
  NoName = NoName
  Trunc <- MCTrunc
  Blobs <- MCBlobs
  Parts <- MCParts
  FTypes = {text}
  NoType = NoType
  NBlocks = 6
  FirstBlock = 1
  NSlots = 3
  Erased = Erased
  Directory = Directory
  Missing = Missing
SPECIFICATION Spec
INVARIANT DirectorySurvives
