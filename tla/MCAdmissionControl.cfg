SPECIFICATION Spec
CONSTANTS
  RequestId <- MCRequestId
  IdemKey <- MCIdemKey
  Resource <- MCResource
  Client <- MCClient
  AskSets <- MCAskSets
  LeaseTime = 1
  Retention = 1
  QueueCapacity = 1
  MaxTime = 3
  MaxArrivals = 4
INVARIANTS
  TypeOK
  HolderKeepsLock
  CapacityRespected
  CountersMatchLocks
  PanicClearsLocks
  CompletedOnce
CHECK_DEADLOCK FALSE
