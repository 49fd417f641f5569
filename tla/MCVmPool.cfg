CONSTANTS
  Bo = {b1, b2, b3}
  NullBo = NullBo
  FragPages = 2
  Reserved = 1
  MaxPages = 5
  VaBound = 12
  Residues = {NullBo, b1}
SPECIFICATION PoolSpec
INVARIANTS
  PoolTypeOK
  Disjoint
  FragmentsContiguous
  FirstIsMain
PROPERTIES
  ImplementsVaSpace
\* After an access through NULL the program is gone.
CHECK_DEADLOCK FALSE
