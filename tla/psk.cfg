SPECIFICATION Spec
SYMMETRY ThreadSymmetry
CONSTANTS
  Threads = {t1, t2}
  MaxCounts = {2, 4}
  Doms = {0, 1}
  DefaultMax = 4
  MaxId = 5
  ValidTimes = {1}
  BeginTimes = {0}
  Callbacks = {"CREATE", "UPDATE", "DELETE"}
  Faults = {"failed"}
  OthersSetKm = {FALSE, TRUE}
  Duplicates = FALSE
  Careful = TRUE
  MaxInits = 2
  MaxTime = 2
  MaxContents = 4
INVARIANTS
  MapsAgree
  StorageMatchesMemory
  RotatedContentIsDead
  MemoryIsStored
PROPERTIES
  ImplementsPskStore
