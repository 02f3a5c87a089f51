CONSTANTS
  LogSize = 2
  BackTags = 2
  TagCycles = 1
  CoarseCycles = 3
  CyclesPerLine = 1
  RasterLines = 3
  TopRaster = 1
  FrameRows = 2
  Attempts = 1
  Matrices = {0, 1}
  Banks = {0}
  PtrValues = {}
  ResetBank = 0
  MaxWrites = 3
  MaxClock = 3
  MaxGeneration = 1
  None = None
SPECIFICATION Spec
PROPERTY EveryRowShowsBeamState
