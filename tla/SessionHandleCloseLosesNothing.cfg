SPECIFICATION Spec
CONSTANTS
  Flushers = {f1, f2}
  MaxEvents = 2
  MaxFailures = 1
INVARIANTS
  CloseLosesNothing
