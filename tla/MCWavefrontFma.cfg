\* The loop of fma_test.cpp, whose body begins with an instruction of two words.
CONSTANTS
  Programs = {"fma_test"}
  Unroll = 2
  Iterations = 3
  Lanes = {0, 1}
SPECIFICATION Spec
INVARIANT FetchesInstructions
