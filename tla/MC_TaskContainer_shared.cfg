SPECIFICATION Spec
CONSTANTS
  Tasks = {t1, t2}
  Containers = {c1, c2}
  Calls <- AddAndWait
  Waits <- AnyForever
  MaxCopies = 1
  Nobody = Nobody
CHECK_DEADLOCK FALSE
INVARIANT
  AnyReturns
