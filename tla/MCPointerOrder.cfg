SPECIFICATION OrderSpec
CONSTANTS
  TopBlock = 3
  TopOffset = 0
  Value = {0}
  ResetValue = 0
  Capacity = 4
  Chunk = 2
  GenMod = 5
  OptRange <- TinyRange
  Policies <- OnOff
  ZPStack = {}
  UnderIO = {}
  Low = {}
  UnderIOAccessible = FALSE
  PointerRow <- Rows12
  Bank3Row <- NoRow
  Drains <- AllDrains
  MaxBytes = {1, 2}
  HotSets <- SomeHot
  WorkingSets <- Shown12
  NoBlock = NoBlock
INVARIANTS
  RingMatchesBitmap
  CacheNeverHidesWork
  PointerFollowsItsData
PROPERTIES
  CompleteScanKeepsOrder
  TurnsComeNearer
