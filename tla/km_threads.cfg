SPECIFICATION Spec
SYMMETRY ThreadSymmetry
CONSTANTS
  Threads = {t1, t2}
  Ops = {"Init", "UnInit", "CreateKey", "RemoveKey", "DeleteAllKey", "AutoUpdate", "Encrypt", "Decrypt", "GetLatestKey", "Crash"}
  Domains = {0, 1}
  KeyIds = {0, 1}
  DomainCounts = {1, 2}
  MinDomainCount = 1
  MaxKeyCount = 2
  Leads = {0}
  Validity = 1
  IntMax = 9
  TimeWrap = 9
  Faults = {"failed", "lost", "silent"}
  UnInitAnywhere = TRUE
  MaxTime = 1
  MaxGen = 2
INVARIANTS
  PickedKeyIsStable
  NewestKeyInUse
  RemovedStaysGone
  NoKeyPassesForYounger
PROPERTIES
  DeletesNameMappedKeys
  ImplementsKeyStore
