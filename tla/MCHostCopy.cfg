CONSTANTS
  FragBytes = 3
  MaxBytes = 10
SPECIFICATION Spec
INVARIANTS
  MovesWhatFits
  FailureLeavesPrefix
CHECK_DEADLOCK FALSE
