SPECIFICATION FairSpec
CONSTANTS
  Threads = {t1, t2}
  NoThread = none
  Configs <- SomeConfigs
  MaxAttempts = 2
  MaxRetries = 2
INVARIANTS
  DrawsFromReadyChain
  ProvidersOutliveChain
  PwdIsStrongOrErased
PROPERTIES
  OnlyFailuresFreeUnderReader
  CallsReturn
