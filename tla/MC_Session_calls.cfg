SPECIFICATION FairSpec
CONSTANTS
  t1 = t1
  t2 = t2
  t3 = t3
  a1 = a1
  a2 = a2
  ssh = ssh
  db = db
  Threads = {t1, t2}
  Adaptors = {a1, a2}
  Contexts = {ssh, db}
  Proto <- OneProto
  Nobody = Nobody
INVARIANTS
  TypeOK
  SelectsFromCompleteEngine
  PreferencesCoverContexts
PROPERTY
  CallsReturn
