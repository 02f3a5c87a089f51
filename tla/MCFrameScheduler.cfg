SPECIFICATION FrameSpec
CONSTANTS
  FrameTicks = 5
  SliceTicks = 2
  Slow = 2
  Over = 1
  MaxApproach = 2
  Display = 1
  Installment = 2
  Screen = 2
  MaxChunk = 1
  MaxQueue = 2
  HoldFrames = 2
  Visits = 1
  Graphics <- TextOnly
  SpriteSets = {FALSE}
  Machine = "C64"
  Scrub = TRUE
INVARIANTS SerialUndisturbed WorkRepaid
PROPERTY FrameEnds
