SPECIFICATION FairSpec
CONSTANTS
  N = 4
  maxParallelToolCalls = 2
INVARIANTS
  SettledOutcome
  ScheduleInv
PROPERTIES
  ExclusiveAlone
  StoppedStartsNothing
  LogGrammar
  Settles
