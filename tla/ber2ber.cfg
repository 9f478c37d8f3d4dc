CONSTANTS
  MaxNodes = 4
  MaxDepth = 3
  Contents = {0, 3}
  Short = 4
  Octet = 8
  Targets = {"identity", "indefinite", "definite"}
SPECIFICATION Spec
INVARIANTS
  IInv
  SameForest
  RefusesUnbalanced
