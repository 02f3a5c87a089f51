CONSTANTS
  LogSize = 2
  BackTags = 2
  TagCycles = 1
  CoarseCycles = 2
  CyclesPerLine = 1
  RasterLines = 2
  TopRaster = 0
  FrameRows = 2
  Attempts = 2
  Matrices = {0, 1}
  Banks = {0, 1}
  PtrValues = {1}
  ResetBank = 1
  MaxWrites = 3
  MaxClock = 4
  MaxGeneration = 2
  None = None
SPECIFICATION Spec
INVARIANTS
  ReplayNeverWrong
  PointerRowTracked
PROPERTIES
  NeverTwoEpochs
  NeverTwoEpochsAfterReset
  NextPassHeals
