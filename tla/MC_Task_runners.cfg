CONSTANTS
  t1 = t1
  t2 = t2
  t3 = t3
  a1 = a1
  a2 = a2
  a3 = a3
  None = None
  Threads <- AllThreads
  Runners <- Two
  Cancelers <- One
  Waiters <- Others
  Destroyable = TRUE
  Adaptors <- TwoAdaptors
  HasSelector = TRUE
SPECIFICATION Spec
INVARIANTS
  JoinFindsWorker
CHECK_DEADLOCK FALSE
