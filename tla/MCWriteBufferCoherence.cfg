SPECIFICATION Spec
CONSTANTS
  TopBlock = 2
  TopOffset = 0
  Value = {0, 2}
  ResetValue = 0
  Capacity = 3
  Chunk = 2
  GenMod = 4
  OptRange <- TinyRange
  Policies <- TinyPolicies
  ZPStack = {1}
  UnderIO = {2}
  Low = {0}
  UnderIOAccessible = FALSE
  PointerRow <- Pointer1
  Bank3Row <- Pointer1
  Drains <- TwoDrains
  MaxBytes = {1, 2}
  HotSets <- NoHot
  WorkingSets <- Shown01
  NoBlock = NoBlock
INVARIANTS
  CleanBytesEqual
  NothingQueuedForHDMI
