SPECIFICATION Spec
CONSTANTS
  Clients = {c1, c2}
  Servers = {s1}
  FirstVnos <- SomeVnos
  MaxRotations = 2
  MaxInits = 2
  MaxTokens = 2
INVARIANTS
  OnlyReuseLeaks
  EntryHasKeytab
  KeytabHoldsLiveKeys
  SuccessMeansAccepted
  CredsLastUntilAuth
PROPERTIES
  NewestKeyIsTaken
CHECK_DEADLOCK FALSE
SYMMETRY Symmetry
