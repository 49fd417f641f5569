CONSTANTS
  Buffer = {b1, b2, b3}
  Contents = {old, new}
  Chunks = 2
  MaxPending = 3
SPECIFICATION Spec
INVARIANTS
  IdleIsSequential
  SyncCopyLeavesIdle
  SyncCopyIsComplete
  WaitBufferIsBarrier
