CONSTANTS
  c1 = c1
  c2 = c2
  Clients <- TwoClients
  Runners <- First
  Controllers <- First
  Cancelers <- Second
  Askers <- First
SPECIFICATION FairSpec
INVARIANTS
  TypeOK
  FinalMeansEnded
PROPERTIES
  CallsReturn
  WaitReturns
  CloseEndsIo
CHECK_DEADLOCK FALSE
