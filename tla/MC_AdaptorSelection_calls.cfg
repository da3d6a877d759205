CONSTANTS
  c1 = c1
  c2 = c2
  a1 = a1
  a2 = a2
  a3 = a3
  a4 = a4
  None = None
  Callers <- BothCallers
  Async <- SecondCaller
  Adaptors <- FourAdaptors
  Implementers <- Overlapping
  Fixme <- FixmeAdaptor
  CtorErrors <- OrdinaryErrors
SPECIFICATION FairSpec
INVARIANTS
  TypeOK
  NoDuplicateInstances
  ExecutesImplementer
  FailsOnlyWhenExhausted
PROPERTIES
  CalledOnce
  CallsReturn
CHECK_DEADLOCK FALSE
