CONSTANTS
  Backends = {"file", "memory", "none"}
  Inc = 5
  Word = 16
  Shapes <- MCShapes
  MaxUnits = 3
  Peek = 3
SPECIFICATION LoopSpec
INVARIANTS
  LoopIInv
PROPERTIES
  ImplementsUnitStream
  Terminates
