CONSTANTS
  MaxNodes = 3
  MaxDepth = 2
  Contents = {3}
  Short = 4
  Octet = 8
  Backends = {"file", "memory", "none"}
  Inc = 11
  Word = 256
  ReaderInc = 11
SPECIFICATION Spec
INVARIANTS
  IInv
  TagTrue
  SameForest
  RefusesUnbalanced
PROPERTIES
  Terminates
