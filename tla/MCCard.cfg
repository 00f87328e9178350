CONSTANTS
  Blocks = {b1, b2}
  Contents = {v1, v2}
  None = None
  Address = Address
  MaxNoise = 2
SPECIFICATION Spec
CHECK_DEADLOCK FALSE
INVARIANTS
  TypeOK
  StatusIsFresh
PROPERTIES
  ImplementsBlockStore
  StartAndCallsEnd
