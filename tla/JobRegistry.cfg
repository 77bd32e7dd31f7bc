SPECIFICATION FairSpec
CONSTANTS
  Unowned = Unowned
  j1 = j1
  j2 = j2
  j3 = j3
  o1 = o1
  w1 = w1
  w2 = w2
  Jobs <- MCJobs
  JobOwners <- MCOwners
  JobOwner <- MCJobOwner
  Waits <- MCWaits
  WaitOn <- MCWaitOn
  MaxActive = 1
CHECK_DEADLOCK FALSE
INVARIANTS
  GoneLeavesNothing
  JobsSafe
PROPERTIES
  LoudOnlyIfUnclaimed
  FirstOutcomeStays
  WaitsReturn
  TeardownsResolve
