CONSTANTS
  MaxCalls = 1
  ScalarRegisters = {12, 127}
  Vgprs = {1, 254}
  ScalarSources <- MCScalarSources
  VectorSources <- MCVectorSources
  CompareVgprs = {0}
  BranchOffsets <- MCBackward
  JumpOffsets = {3}
  Addresses <- MCAddresses
  Launches <- MCLaunches
  States <- MCStates
  CopyAddresses <- MCCopyAddresses
  CopySizes <- MCCopySizes
SPECIFICATION Spec
INVARIANTS
  ReadsBack
  DescriptorReadsBack
  DispatchReadsBack
  CopyReadsBack
\* The program ends when its bound of calls is reached.
CHECK_DEADLOCK FALSE
