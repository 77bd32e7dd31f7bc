SPECIFICATION Spec
CONSTANTS
  Calls = {c1, c2}
  MaxTurns = 2
  MaxSteps = 2
  MaxAsked = 2
  MaxCrashes = 2
INVARIANTS
  AnsweredOnce
  NotStartedNeverRan
  SeenSurvives
  RepairInv
