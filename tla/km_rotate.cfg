SPECIFICATION Spec
SYMMETRY ThreadSymmetry
CONSTANTS
  Threads = {t1, t2}
  Ops = {"Init", "CreateKey", "AutoUpdate", "Encrypt"}
  Domains = {0}
  KeyIds = {0, 1}
  DomainCounts = {1}
  MinDomainCount = 1
  MaxKeyCount = 2
  Leads = {0}
  Validity = 1
  IntMax = 9
  TimeWrap = 9
  Faults = {}
  UnInitAnywhere = FALSE
  MaxTime = 1
  MaxGen = 2
INVARIANTS
  UpdatedKeysAreUsable
