SPECIFICATION Spec
CONSTANTS
  Terminals = {t1, t2}
  KeyIds <- SomeIds
  MaxKeyCount = 3
  Algs = {ctr, gcm}
  Sealed = {gcm}
  Faults = {"failed", "lost"}
  MaxGen = 2
  MaxPrinted = 2
INVARIANTS
  OnlyRemovalHangs
  ReEncryptKeepsText
  EchoIsRestored
SYMMETRY Symmetric
