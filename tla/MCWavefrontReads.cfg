\* The loop count read_test.cpp multiplies into its report.
CONSTANTS
  Programs = {"read_test"}
  Unroll = 2
  Iterations = 3
  Lanes = {0, 1}
SPECIFICATION Spec
INVARIANT RunsAsReported
