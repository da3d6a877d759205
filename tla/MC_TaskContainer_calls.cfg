SPECIFICATION FairSpec
CONSTANTS
  Tasks = {t1, t2}
  Containers = {c1}
  Calls <- AllCalls
  Waits <- AllWaits
  MaxCopies = 1
  Nobody = Nobody
INVARIANTS
  TypeOK
  
  CallbacksEndWithWait
PROPERTIES
  NoTaskIsLost
  
