CONSTANTS
  FragBytes = 3
  MaxBytes = 10
SPECIFICATION Spec
INVARIANTS
  SuccessIsComplete
CHECK_DEADLOCK FALSE
