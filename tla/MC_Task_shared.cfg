CONSTANTS
  t1 = t1
  t2 = t2
  t3 = t3
  a1 = a1
  a2 = a2
  a3 = a3
  None = None
  Threads <- AllThreads
  Runners <- One
  Cancelers <- Two
  Waiters <- Others
  Destroyable = TRUE
  Adaptors <- AllAdaptors
  HasSelector = TRUE
SPECIFICATION FairSpec
INVARIANTS
  TypeOK
  NoDanglingCondition
  FinishedStateIsQuiet
  NoAdaptorTriedTwice
  
  ReleasedTaskIsQuiet
PROPERTIES
  CallsReturn
  RunningEnds
  RefinesLifecycle
CHECK_DEADLOCK FALSE
