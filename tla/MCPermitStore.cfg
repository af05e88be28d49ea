CONSTANTS
  Threads = {t1, t2, t3}
  r1 = r1
  Requests = {r1}
  Inadmissible = {}
  Approval <- MCApproval
  TTL = 1
  MaxClock = 1
  Free = Free
SPECIFICATION FairSpec
INVARIANTS TypeOK AtMostOneWin RevocationHolds SpentWhileLive
PROPERTIES Refinement LockReleased
