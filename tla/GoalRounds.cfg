SPECIFICATION FairSpec
CONSTANTS
  Caps = {1, 2}
  MaxOps = 3
  MaxRuns = 4
CHECK_DEADLOCK FALSE
INVARIANTS
  RequestNotLost
  RoundsInv
PROPERTIES
  PauseKeepsRoundsOut
  NoRoundWhileUnloading
  ReservesOnlyDurable
  ArmedGoalAdvances
  UnloadFinishes
