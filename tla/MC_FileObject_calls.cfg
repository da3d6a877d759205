CONSTANTS
  t1 = t1
  t2 = t2
  f = f
  g = g
  None = None
  Sub = Sub
  Threads <- TwoThreads
  Names <- TwoNames
  Inodes <- FewInodes
  Calls <- AllCalls
  Modes <- TwoModes
  MaxSize = 1
SPECIFICATION Spec
SYMMETRY Interchangeable
INVARIANTS
  TypeOK
  RangesAdjacent
PROPERTIES
  NothingReplaced
  CopyIsSnapshot
CHECK_DEADLOCK FALSE
