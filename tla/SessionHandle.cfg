SPECIFICATION FairSpec
CONSTANTS
  Flushers = {f1, f2}
  MaxEvents = 3
  MaxFailures = 2
INVARIANTS
  FlushMaterializes
  HandleInv
PROPERTIES
  CallsSettle
  BufferDrains
