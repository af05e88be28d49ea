SPECIFICATION Spec
CONSTANTS
  Event = {"e1"}
  Request = {"q1"}
  Gated = {"g1"}
  Child = {}
  Key <- MCKey
  Unrouted = {}
  Swarms = {}
  Deadline = {}
  Parent <- MCParent
  Workloads <- SingleWorkloads
  Mishaps = {"crash", "raise", "cancel"}
PROPERTY
  RunSettles
