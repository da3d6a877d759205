CONSTANTS
  t1 = t1
  t2 = t2
  t3 = t3
  a1 = a1
  a2 = a2
  a3 = a3
  None = None
  Threads <- Two
  Runners <- Two
  Cancelers <- One
  Waiters <- Two
  Destroyable = FALSE
  Adaptors <- TwoAdaptors
  HasSelector = TRUE
SPECIFICATION FairSpec
PROPERTIES
  RunReturns
CHECK_DEADLOCK FALSE
