CONSTANTS
  Programs = {"mandelbrot", "main", "read_test", "write_test", "divide_1", "divide_2", "divide_4", "divide_8"}
  Unroll = 2
  Iterations = 3
  Lanes = {0, 1}
SPECIFICATION Spec
INVARIANTS
  FetchesInstructions
  ReadsOnlyWritten
  WaitsForMemory
  WithinAllocation
  StoresByTheRightLanes
  IndexIsComputed
PROPERTY Terminates
