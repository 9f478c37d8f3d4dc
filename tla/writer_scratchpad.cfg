CONSTANTS
  Kind = "scratchpad"
  Inc = 3
  Capacity = 0
  ThroughInc = 5
  MaxWrite = 7
  MaxReserve = 4
  MaxBytes = 7
  MaxPad = 10
  MayFail = FALSE
SPECIFICATION Spec
INVARIANTS
  WindowValid
  DestructorDelivers
