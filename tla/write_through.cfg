CONSTANTS
  Kind = "file"
  Inc = 3
  Capacity = 0
  ThroughInc = 3
  MaxWrite = 4
  MaxReserve = 0
  MaxBytes = 7
  MaxPad = 100
  MayFail = FALSE
SPECIFICATION Spec
INVARIANTS
  WritesThrough
