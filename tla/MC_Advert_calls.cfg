CONSTANTS
  t1 = t1
  t2 = t2
  o1 = o1
  o2 = o2
  None = None
  Threads <- TwoThreads
  Objects <- TwoObjects
  Paths <- Tree
  OpenFlags <- SomeFlags
  MaxNodes = 3
SPECIFICATION Spec
SYMMETRY Interchangeable
INVARIANTS
  TypeOK
  HandleIsItsNode
  
