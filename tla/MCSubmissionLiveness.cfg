CONSTANTS
  Buffer = {b1, b2}
  Contents = {old, new}
  Chunks = 2
  MaxPending = 3
SPECIFICATION Spec
PROPERTIES
  CallsReturn
