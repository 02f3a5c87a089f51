SPECIFICATION LoopSpec
CONSTANTS
  Timers = {"A"}
  Turbo = 2
  Latch = 2
  IECSpan = 4
  PollSpan = 3
  ActSpan = 2
  BatchMax = 3
  Defer = FALSE
  Instr <- AckInstr
  None = None
  NMILevels = {FALSE}
INVARIANTS FreshEdge
