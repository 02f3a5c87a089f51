SPECIFICATION Spec
CONSTANTS
  Cells = {1, 2}
  MaxFaults = 2
  Attempts = 3
INVARIANTS
  QuietOracle
  DamageAttributed
CHECK_DEADLOCK FALSE
