CONSTANTS
  Bo = {b1, b2, b3}
  NullBo = NullBo
  FragPages = 2
  Reserved = 0
  MaxPages = 3
  VaBound = 9
  Residues = {NullBo, b1}
  Addr = {p1, p2, p3, p4}
  Origin = Origin
  Null = Null
SPECIFICATION Spec
INVARIANTS
  DoublyLinked
  NothingLost
PROPERTIES
  ImplementsVmPool
\* After an access through NULL the program is gone.
CHECK_DEADLOCK FALSE
