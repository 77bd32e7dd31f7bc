SPECIFICATION FairSpec
CONSTANTS
  prompt = prompt
  steering = steering
  context = context
  call = call
  Messages <- MCMessages
  Prompts <- MCPrompts
  Waking <- MCWaking
  Calls <- MCCalls
  MaxSteps = 2
  MaxAttempts = 2
  MaxTasks = 1
INVARIANTS
  LoopInv
  OnePlace
PROPERTIES
  LogGrammar
  AbortStartsNothing
  CeilingSticks
  LatchedWakeRuns
  Converges
