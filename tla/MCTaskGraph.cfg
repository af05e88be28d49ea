SPECIFICATION FairSpec
CONSTANTS
  Node <- MCNode
  Dags <- AllDags
  MaxCrashes = 1
  MaxResumes = 2
INVARIANTS
  TypeOK
  DepsDone
  RepeatsBoundedByCrashes
  RetryBound
  CompletedMeansDone
  SkippedBehindFailure
PROPERTIES
  StoredDoneStays
  Termination
CHECK_DEADLOCK FALSE
