\* The last bytes of an asynchronous copy.
CONSTANTS
  MaxCalls = 1
  ScalarRegisters = {12, 127}
  Vgprs = {1, 254}
  ScalarSources <- MCScalarSources
  VectorSources <- MCVectorSources
  CompareVgprs = {0}
  BranchOffsets <- MCBackward
  JumpOffsets = {3}
  Addresses <- MCAddresses
  Launches <- MCLaunches
  States <- MCStates
  CopyAddresses <- MCCopyAddresses
  CopySizes <- MCCopySizes
SPECIFICATION Spec
INVARIANT CopyMovesAll
CHECK_DEADLOCK FALSE
