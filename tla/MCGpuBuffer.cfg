CONSTANTS
  Bo = {b1, b2}
  NullBo = NullBo
  FragPages = 1
  Reserved = 0
  MaxPages = 3
  VmPages = 6
  VaBound = 9
  MaxHandle = 5
  Residues = {NullBo}
SPECIFICATION Spec
INVARIANTS
  TypeOK
  MappedWhereSaid
  PoolMatchesObjects
  OnlyTailsLeak
  HandlesNotShared
  OnlyTailsDoubleMap
PROPERTIES
  DrainEnds
