SPECIFICATION Spec
SYMMETRY ThreadSymmetry
CONSTANTS
  Threads = {t1, t2}
  MaxCounts = {4}
  Doms = {0}
  DefaultMax = 4
  MaxId = 5
  ValidTimes = {1}
  BeginTimes = {0}
  Callbacks = {"CREATE", "UPDATE", "DELETE"}
  Faults = {"failed"}
  OthersSetKm = {FALSE}
  Duplicates = FALSE
  Careful = TRUE
  MaxInits = 2
  MaxTime = 2
  MaxContents = 4
PROPERTIES
  OnlyExpiredAreRenewed
