CONSTANTS
  MaxNodes = 4
  MaxDepth = 3
  Contents = {2}
  Short = 4
  Octet = 8
  Block = 8
  Word = 1024
  Tags = {"a", "b"}
  MaxPath = 2
  Records <- MCRecords
  MaxRecords = 2
  Offsets <- MCOffsets
SPECIFICATION Spec
INVARIANTS
  Inv
  RefusesBroken
  MatchesTrue
  AciTrue
  AciReplaced
