SPECIFICATION FrameSpec
CONSTANTS
  FrameTicks = 5
  SliceTicks = 2
  Slow = 2
  Over = 1
  MaxApproach = 2
  Display = 1
  Installment = 2
  Screen = 2
  MaxChunk = 1
  MaxQueue = 1
  HoldFrames = 2
  Visits = 2
  Graphics <- TextOnly
  SpriteSets = {TRUE}
  Machine = "C64"
  Scrub = FALSE
INVARIANT RepairCoversPicture
