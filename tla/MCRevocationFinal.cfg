SPECIFICATION FairSpec
CONSTANTS
  Askers = {a1}
  Revokers = {v1}
  Reporters = {}
  Requests = {q1}
  LeaseCount = 1
  LeaseOf <- MCLeaseOf
  Granted = 2
  MaxClock = 0
  NoLimit = NoLimit
PROPERTIES
  RevocationFinal
