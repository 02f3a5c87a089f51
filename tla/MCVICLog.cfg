CONSTANTS
  LogSize = 3
  BackTags = 2
  TagCycles = 1
  CoarseCycles = 4
  CyclesPerLine = 1
  RasterLines = 4
  TopRaster = 1
  FrameRows = 3
  Attempts = 2
  Matrices = {0, 1}
  Banks = {0}
  PtrValues = {1}
  ResetBank = 0
  MaxWrites = 4
  MaxClock = 4
  MaxGeneration = 2
  None = None
SPECIFICATION Spec
CONSTRAINT Scopes
INVARIANT ReplayTruth
PROPERTIES
  RowsShowBeamState
  MixedFramesExplained
