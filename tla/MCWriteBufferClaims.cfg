SPECIFICATION FairSpec
CONSTANTS
  TopBlock = 2
  TopOffset = 0
  Value = {0, 1}
  ResetValue = 0
  Capacity = 3
  Chunk = 2
  GenMod = 4
  OptRange <- TinyRange
  Policies <- OnOff
  ZPStack = {}
  UnderIO = {}
  Low = {}
  UnderIOAccessible = FALSE
  PointerRow <- Pointer2
  Bank3Row <- NoRow
  Drains <- AllDrains
  MaxBytes = {1}
  HotSets <- SomeHot
  WorkingSets <- Shown01
  NoBlock = NoBlock
INVARIANT DeliveredMeansEqual
PROPERTIES
  SkippedKeepOrder
  EveryByteDrains
