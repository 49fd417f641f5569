CONSTANTS
  IterNum = 4
  MaxPending = 4
SPECIFICATION Spec
INVARIANTS
  ShowsPreviousFrame
  CodeIsNotOverwrittenInUse
  FreesWhenIdle
PROPERTIES
  AnimationEnds
