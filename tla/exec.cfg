SPECIFICATION FairSpec
CONSTANTS
  Threads = {t1, t2}
  NoThread = none
  Files = {stdin, f1}
  Stdin = stdin
  Fds <- SomeFds
  Capacity = 1
  MaxPrinted = 2
INVARIANTS
  NoEndIsLeft
PROPERTIES
  OnlyFilesOpenedMeanwhileAreClosed
  LockIsReleased
