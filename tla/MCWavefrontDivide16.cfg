\* The code divide_precision.cpp generates for types of 16 bytes.
CONSTANTS
  Programs = {"divide_16"}
  Unroll = 2
  Iterations = 3
  Lanes = {0, 1}
SPECIFICATION Spec
INVARIANT IndexIsComputed
