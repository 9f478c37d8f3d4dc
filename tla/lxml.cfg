CONSTANTS
  MaxNodes = 3
  MaxDepth = 2
  Contents = {0, 3}
  Short = 4
  Octet = 8
  MaxCount = 2
SPECIFICATION Spec
INVARIANTS
  IInv
  TreeTrue
  TreeWritten
