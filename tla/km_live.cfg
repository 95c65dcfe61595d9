SPECIFICATION FairSpec
CONSTANTS
  Threads = {t1, t2}
  Ops = {"Init", "UnInit", "CreateKey", "RemoveKey", "DeleteAllKey", "Encrypt", "Decrypt"}
  Domains = {0, 1}
  KeyIds = {0, 1}
  DomainCounts = {2}
  MinDomainCount = 1
  MaxKeyCount = 2
  Leads = {0}
  Validity = 1
  IntMax = 9
  TimeWrap = 9
  Faults = {}
  UnInitAnywhere = FALSE
  MaxTime = 2
  MaxGen = 3
PROPERTIES
  LockIsReleased
