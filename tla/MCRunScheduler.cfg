SPECIFICATION Spec
CONSTANTS
  Event = {"e1", "e2", "e3", "s1"}
  Request = {"q1"}
  Gated = {"g1"}
  Child = {"c1", "c2"}
  Key <- MCKey
  Unrouted = {"e3"}
  Swarms = {"s1"}
  Deadline = {"s1"}
  Parent <- MCParent
  Workloads <- MCWorkloads
  Mishaps = {"crash", "raise", "cancel", "blind"}
INVARIANTS
  TypeOK
  
  OneInSight
  LeaseTracksRun
  IndexFollowsDisk
