SPECIFICATION FairSpec
CONSTANTS
  Askers = {a1}
  Revokers = {v1}
  Reporters = {}
  Requests = {q1, q2, q3}
  LeaseCount = 1
  LeaseOf <- MCLeaseOf
  Granted = 2
  MaxClock = 0
  NoLimit = NoLimit
INVARIANTS
  UseLimit
PROPERTIES
  RevokeReaches
  CallsEnd
