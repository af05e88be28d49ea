SPECIFICATION Spec
CONSTANTS
  agent = agent
  helper = helper
  door = door
  lamp = lamp
  dark = dark
  q1 = q1
  q2 = q2
  NoLimit = NoLimit
  Policies <- MCPolicies
  Requests <- MCRequests
  ChildTerms <- MCTerms
  Reports <- MCReports
  Facts = {dark}
  Subjects = {agent, helper}
  Targets = {door, lamp}
  RequestIds = {q1, q2}
  TTL = 2
  MaxClock = 2
  MaxMono = 1
  MaxLeases = 2
INVARIANTS
  TypeOK
  UseBudget
  OnePermitPerRequest
  BoundedTail
  SupersededStaysDown
  DelegationEnvelope
PROPERTIES
  RevokedNeverActs
  AfterFactChange
  TerminalSticky
VIEW MCView
