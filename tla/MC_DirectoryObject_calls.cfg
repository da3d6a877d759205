CONSTANTS
  t1 = t1
  t2 = t2
  a = a
  b = b
  x = x
  y = y
  Dir = Dir
  Empty = Empty
  None = None
  Threads <- TwoThreads
  Names <- TwoNames
  Contents <- Few
  MaxDepth = 3
  Trees <- SomeTrees
  Requests <- SomeRequests
SPECIFICATION Spec
SYMMETRY Interchangeable
INVARIANTS
  TypeOK
  CopyIsUnion
PROPERTIES
  NothingLost
CHECK_DEADLOCK FALSE
