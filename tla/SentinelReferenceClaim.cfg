SPECIFICATION Spec
CONSTANTS
  Cells = {1, 2}
  MaxFaults = 2
  Attempts = 3
INVARIANT ReferenceAtConfigured
CHECK_DEADLOCK FALSE
