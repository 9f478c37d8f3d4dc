CONSTANTS
  Kind = "file"
  Inc = 3
  Capacity = 0
  ThroughInc = 3
  MaxWrite = 7
  MaxReserve = 5
  MaxBytes = 10
  MaxPad = 100
  MayFail = TRUE
SPECIFICATION Spec
INVARIANTS
  IInv
  StreamIntact
  BufferBounded
PROPERTIES
  FlushDelivers
  ImplementsByteSink
