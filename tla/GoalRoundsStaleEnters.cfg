SPECIFICATION Spec
CONSTANTS
  Caps = {1, 2}
  MaxOps = 3
  MaxRuns = 4
CHECK_DEADLOCK FALSE
INVARIANT StaleNeverEnters
