CONSTANTS
  c1 = c1
  c2 = c2
  a1 = a1
  a2 = a2
  a3 = a3
  a4 = a4
  None = None
  Callers <- OneCaller
  Async <- Nobody
  Adaptors <- ThreeAdaptors
  Implementers <- LastTwo
  Fixme <- Nobody
  CtorErrors <- Declines
SPECIFICATION Spec
INVARIANT
  FailsOnlyWhenExhausted
CHECK_DEADLOCK FALSE
