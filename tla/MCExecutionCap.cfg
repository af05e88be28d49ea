SPECIFICATION Spec
CONSTANTS
  Node <- MCNode
  Dags <- CapDags
  MaxCrashes = 0
  MaxResumes = 0
INVARIANT NodeExecutionCap
CHECK_DEADLOCK FALSE
