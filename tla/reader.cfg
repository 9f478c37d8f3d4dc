CONSTANTS
  Backends = {"file", "memory", "none"}
  Inc = 3
  Word = 64
  MaxSize = 10
  MaxWant = 7
  MaxForget = 5
  MaxPos = 2
SPECIFICATION Spec
INVARIANTS
  IInv
  NextDelivers
  ResultTrue
PROPERTIES
  ImplementsWindow
