SPECIFICATION FairSpec
CONSTANTS
  Threads = {t1, t2}
  Ops = {"Init", "CreateKey", "GetLatestKey", "Encrypt"}
  Domains = {0, 1}
  KeyIds = {0, 1}
  DomainCounts = {2}
  MinDomainCount = 1
  MaxKeyCount = 2
  Leads = {0}
  Validity = 1
  IntMax = 9
  TimeWrap = 9
  Faults = {}
  UnInitAnywhere = FALSE
  MaxTime = 0
  MaxGen = 2
PROPERTIES
  MissingKeyIsCreated
CHECK_DEADLOCK FALSE
