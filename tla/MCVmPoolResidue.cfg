CONSTANTS
  Bo = {b1, b2, b3}
  NullBo = NullBo
  FragPages = 2
  Reserved = 1
  MaxPages = 5
  VaBound = 12
  Residues = {NullBo, b1}
SPECIFICATION PoolSpec
INVARIANTS
  ParentIsMain
CHECK_DEADLOCK FALSE
