SPECIFICATION Spec
CONSTANTS
  Askers = {a1}
  Revokers = {v1}
  Reporters = {s1}
  Requests = {q1}
  LeaseCount = 1
  LeaseOf <- MCLeaseOf
  Granted = 1
  MaxClock = 1
  NoLimit = NoLimit
INVARIANTS
  TypeOK
  EffectsAccounted
