CONSTANTS
  MaxCalls = 1
  ScalarRegisters = {12, 127}
  Vgprs = {1, 254}
  ScalarSources <- MCScalarSources
  VectorSources <- MCVectorSources
  CompareVgprs = {0}
  BranchOffsets <- MCBackward
  JumpOffsets <- MCJumps
  Addresses <- MCAddresses
  Launches <- MCLaunches
  States <- MCStates
  CopyAddresses <- MCCopyAddresses
  CopySizes <- MCCopySizes
SPECIFICATION Spec
INVARIANT ReadsBack
CHECK_DEADLOCK FALSE
