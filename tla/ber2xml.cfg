CONSTANTS
  MaxNodes = 3
  MaxDepth = 2
  Contents = {0, 3}
  Short = 4
  Octet = 8
  Tags = {"a", "b"}
  MaxPath = 2
  Ranges <- MCRanges
  Block = 16
SPECIFICATION Spec
INVARIANTS
  Inv
  DocumentTrue
  RefusesUnbalanced
  SearchTrue
  LinesTrue
