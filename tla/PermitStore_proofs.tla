------------------------- MODULE PermitStore_proofs -------------------------
(***************************************************************************)
(* For every set of threads and requests, every TTL and every bound on the *)
(* clock, the permit store keeps its promises: its types, at most one win  *)
(* per permit, no win by a call that began after the revocation, and all   *)
(* of these at once as the refinement of SingleUsePermits.                 *)
(***************************************************************************)
EXTENDS PermitStore, TLAPS

\* A thread is past the lock exactly when it holds it.
LockOwner == \A t \in Threads : lock = t <=> pc[t] \in {"check", "commit"}

\* A thread inside a call works on a permit id that is not in the future,
\* with a reading of the clock that is not in the future either.
CallSound ==
  \A t \in Threads :
    /\ now[t] <= clock
    /\ pc[t] # "idle" => arg[t] \in PermitId /\ arg[t][2] <= clock

\* A call that found the permit in the store still finds it there.
FoundSound ==
  \A t \in Threads :
    /\ pc[t] \in {"mark", "write"} => permits[arg[t]] # "absent"
    /\ pc[t] \in {"check", "commit"} /\ seen[t] = "granted" => permits[arg[t]] # "absent"

\* What was true of the permit when the call began is still on file.
LateSound == \A t \in Threads : pc[t] # "idle" /\ late[t] => arg[t] \in revocations

\* What the checks of consume() established lasts until the commit.
CommitSound ==
  \A t \in Threads :
    pc[t] = "commit" =>
      /\ seen[t] = "granted"
      /\ consumed[arg[t]] = NoReceipt
      /\ now[t] < Expiry(arg[t])
      /\ ~ late[t]

\* Every permit on file was issued in the past.
IssuedPast == \A p \in PermitId : permits[p] # "absent" => p[2] <= clock

\* A permit was won once if it has a receipt, and never otherwise.
WinsSound == \A p \in PermitId : wins[p] = IF consumed[p] = NoReceipt THEN 0 ELSE 1

\* The inductive invariant.
IInv ==
  /\ TypeOK
  /\ LockOwner
  /\ CallSound
  /\ FoundSound
  /\ LateSound
  /\ CommitSound
  /\ IssuedPast
  /\ WinsSound
  /\ SpentWhileLive

-----------------------------------------------------------------------------

\* No receipt of a thread is the placeholder.
LEMMA ReceiptsDiffer == \A at \in Time, t \in Threads : [at |-> at, by |-> t] # NoReceipt
  BY ConstantsAssumption DEF NoReceipt

\* A permit id carries its instant of issue, and so its expiry.
LEMMA PermitTimes == \A p \in PermitId : p[2] \in Nat /\ Expiry(p) \in Nat
  BY ConstantsAssumption DEF PermitId, Time, Expiry

\* A call notes whether its permit is revoked as it begins.
LEMMA CallLate ==
  ASSUME TypeOK, NEW t \in Threads, NEW b, NEW p, Call(t, b, p), late'[t]
  PROVE  p \in revocations
<1>1. late' = [late EXCEPT ![t] = (p \in revocations)]
  BY DEF Call
<1>2. DOMAIN late = Threads
  BY DEF TypeOK
<1> QED
  BY <1>1, <1>2, Zenon

\* The store starts empty and every thread idle.
LEMMA InitIInv == Init => IInv
  BY ConstantsAssumption
  DEF Init, IInv, TypeOK, LockOwner, CallSound, FoundSound, LateSound, CommitSound,
      IssuedPast, WinsSound, SpentWhileLive, Labels, Status, NoReceipt, NoPermit, Time

\* Every step of every thread keeps the types.
LEMMA TypePreserved == IInv /\ [Next]_vars => TypeOK'
<1> SUFFICES ASSUME IInv, [Next]_vars PROVE TypeOK'
  OBVIOUS
<1> USE ConstantsAssumption DEF TypeOK, IInv, shared, local, Labels, Status, Time
<1>1. ASSUME NEW t \in Threads, NEW r \in Requests, IssueMint(t, r) PROVE TypeOK'
  <2>1. <<r, clock>> \in PermitId
    BY DEF PermitId
  <2> QED
    BY <1>1, <2>1 DEF IssueMint, Call, Goto
<1>2. ASSUME NEW t \in Threads, IssuePut(t) PROVE TypeOK'
  BY <1>2 DEF IssuePut, Return, Goto, NoPermit, CallSound
<1>3. ASSUME NEW t \in Threads, NEW p \in PermitId, RevokeGet(t, p) PROVE TypeOK'
  BY <1>3 DEF RevokeGet, Call, Goto
<1>4. ASSUME NEW t \in Threads, RevokeMark(t) PROVE TypeOK'
  BY <1>4 DEF RevokeMark, Goto, CallSound
<1>5. ASSUME NEW t \in Threads, RevokeWrite(t) PROVE TypeOK'
  BY <1>5 DEF RevokeWrite, Return, Goto, NoPermit, CallSound
<1>6. ASSUME NEW t \in Threads, NEW p \in PermitId, CrossingGet(t, p) PROVE TypeOK'
  BY <1>6 DEF CrossingGet, Call, Goto
<1>7. ASSUME NEW t \in Threads, NEW p \in PermitId, Slice2Dispatch(t, p) PROVE TypeOK'
  BY <1>7 DEF Slice2Dispatch, Call, Goto
<1>8. ASSUME NEW t \in Threads, CrossingVerified(t) PROVE TypeOK'
  BY <1>8 DEF CrossingVerified, Goto
<1>9. ASSUME NEW t \in Threads, CrossingRejected(t) PROVE TypeOK'
  BY <1>9 DEF CrossingRejected, Return, Goto, NoPermit
<1>10. ASSUME NEW t \in Threads, ConsumeLock(t) PROVE TypeOK'
  BY <1>10 DEF ConsumeLock, Goto, CallSound
<1>11. ASSUME NEW t \in Threads, ConsumeAccept(t) PROVE TypeOK'
  BY <1>11 DEF ConsumeAccept, Goto
<1>12. ASSUME NEW t \in Threads, ConsumeReject(t) PROVE TypeOK'
  BY <1>12 DEF ConsumeReject, Return, Goto, NoPermit
<1>13. ASSUME NEW t \in Threads, ConsumeCommit(t) PROVE TypeOK'
  BY <1>13 DEF ConsumeCommit, Return, Goto, NoPermit, CallSound, Receipt
<1>14. ASSUME Tick PROVE TypeOK'
  BY <1>14 DEF Tick
<1>15. CASE UNCHANGED vars
  BY <1>15 DEF vars
<1> QED
  BY <1>1, <1>2, <1>3, <1>4, <1>5, <1>6, <1>7, <1>8, <1>9, <1>10, <1>11, <1>12,
     <1>13, <1>14, <1>15 DEF Next, Begin, Continue

\* Every step keeps the rest of the invariant.  The lock keeps _consumed
\* still between the checks and the commit; nothing ever leaves _permits or
\* _revocations; and the clock only grows.
LEMMA NextIInv == IInv /\ [Next]_vars => IInv'
<1> SUFFICES ASSUME IInv, [Next]_vars PROVE IInv'
  OBVIOUS
<1>0. TypeOK'
  BY TypePreserved
<1> DEFINE Rest == LockOwner /\ CallSound /\ FoundSound /\ LateSound /\ CommitSound
                     /\ IssuedPast /\ WinsSound /\ SpentWhileLive
<1> SUFFICES Rest'
  BY <1>0 DEF IInv
<1> USE ConstantsAssumption, PermitTimes, <1>0 DEF TypeOK, IInv, LockOwner, CallSound, FoundSound,
        LateSound, CommitSound, IssuedPast, WinsSound, SpentWhileLive, shared, local, Labels, Status,
        Time, Goto
<1>1. ASSUME NEW t \in Threads, NEW r \in Requests, IssueMint(t, r) PROVE Rest'
  <2>1. <<r, clock>> \in PermitId /\ <<r, clock>>[2] = clock
    BY DEF PermitId
  <2>2. late'[t] => <<r, clock>> \in revocations
    BY <1>1, CallLate DEF IssueMint
  <2>3. LateSound'
    BY <1>1, <2>2 DEF IssueMint, Call
  <2>4. (LockOwner /\ CallSound /\ FoundSound)'
    BY <1>1, <2>1 DEF IssueMint, Call
  <2>5. (CommitSound /\ IssuedPast /\ WinsSound /\ SpentWhileLive)'
    BY <1>1, <2>1 DEF IssueMint, Call
  <2> QED
    BY <2>3, <2>4, <2>5
<1>2. ASSUME NEW t \in Threads, IssuePut(t) PROVE Rest'
  BY <1>2 DEF IssuePut, Return
<1>3. ASSUME NEW t \in Threads, NEW p \in PermitId, RevokeGet(t, p) PROVE Rest'
  <2>2. late'[t] => p \in revocations
    BY <1>3, CallLate DEF RevokeGet
  <2>3. LateSound'
    BY <1>3, <2>2 DEF RevokeGet, Call
  <2>4. (LockOwner /\ CallSound /\ FoundSound)'
    BY <1>3 DEF RevokeGet, Call
  <2>5. (CommitSound /\ IssuedPast /\ WinsSound /\ SpentWhileLive)'
    BY <1>3 DEF RevokeGet, Call
  <2> QED
    BY <2>3, <2>4, <2>5
<1>4. ASSUME NEW t \in Threads, RevokeMark(t) PROVE Rest'
  BY <1>4 DEF RevokeMark
<1>5. ASSUME NEW t \in Threads, RevokeWrite(t) PROVE Rest'
  BY <1>5 DEF RevokeWrite, Return
<1>6. ASSUME NEW t \in Threads, NEW p \in PermitId, CrossingGet(t, p) PROVE Rest'
  <2>2. late'[t] => p \in revocations
    BY <1>6, CallLate DEF CrossingGet
  <2>3. LateSound'
    BY <1>6, <2>2 DEF CrossingGet, Call
  <2>4. (LockOwner /\ CallSound /\ FoundSound)'
    BY <1>6 DEF CrossingGet, Call, Known
  <2>5. (CommitSound /\ IssuedPast /\ WinsSound /\ SpentWhileLive)'
    BY <1>6 DEF CrossingGet, Call
  <2> QED
    BY <2>3, <2>4, <2>5
<1>7. ASSUME NEW t \in Threads, NEW p \in PermitId, Slice2Dispatch(t, p) PROVE Rest'
  <2>2. late'[t] => p \in revocations
    BY <1>7, CallLate DEF Slice2Dispatch
  <2>3. LateSound'
    BY <1>7, <2>2 DEF Slice2Dispatch, Call
  <2>4. (LockOwner /\ CallSound /\ FoundSound)'
    BY <1>7 DEF Slice2Dispatch, Call, Known
  <2>5. (CommitSound /\ IssuedPast /\ WinsSound /\ SpentWhileLive)'
    BY <1>7 DEF Slice2Dispatch, Call
  <2> QED
    BY <2>3, <2>4, <2>5
<1>8. ASSUME NEW t \in Threads, CrossingVerified(t) PROVE Rest'
  BY <1>8 DEF CrossingVerified
<1>9. ASSUME NEW t \in Threads, CrossingRejected(t) PROVE Rest'
  BY <1>9 DEF CrossingRejected, Return
<1>10. ASSUME NEW t \in Threads, ConsumeLock(t) PROVE Rest'
  BY <1>10 DEF ConsumeLock
<1>11. ASSUME NEW t \in Threads, ConsumeAccept(t) PROVE Rest'
  BY <1>11 DEF ConsumeAccept, Consumable, IsExpired
<1>12. ASSUME NEW t \in Threads, ConsumeReject(t) PROVE Rest'
  BY <1>12 DEF ConsumeReject, Return
<1>13. ASSUME NEW t \in Threads, ConsumeCommit(t) PROVE Rest'
  BY <1>13, ReceiptsDiffer DEF ConsumeCommit, Return
<1>14. ASSUME Tick PROVE Rest'
  BY <1>14 DEF Tick
<1>15. CASE UNCHANGED vars
  BY <1>15 DEF vars
<1> QED
  BY <1>1, <1>2, <1>3, <1>4, <1>5, <1>6, <1>7, <1>8, <1>9, <1>10, <1>11, <1>12,
     <1>13, <1>14, <1>15 DEF Next, Begin, Continue

-----------------------------------------------------------------------------

\* The invariant holds in every reachable state of the store.
LEMMA SpecIInv == Spec => []IInv
<1>1. Init => IInv
  BY InitIInv
<1>2. IInv /\ [Next]_vars => IInv'
  BY NextIInv
<1> QED
  BY <1>1, <1>2, PTL DEF Spec

\* The dictionaries of PermitStore and the frames of its callers are always
\* well typed.
THEOREM TypeCorrect == Spec => []TypeOK
<1>1. IInv => TypeOK
  BY DEF IInv
<1> QED
  BY <1>1, SpecIInv, PTL

\* store.py: "the first caller wins, every later caller gets already_consumed".
THEOREM SingleWinner == Spec => []AtMostOneWin
<1>1. IInv => AtMostOneWin
  BY DEF IInv, WinsSound, AtMostOneWin
<1> QED
  BY <1>1, SpecIInv, PTL

\* A consume() that begins after the revocation was recorded never wins,
\* although revoke() holds no lock.
THEOREM RevocationFinal == Spec => []RevocationHolds
<1>1. IInv => RevocationHolds
  BY DEF IInv, CommitSound, RevocationHolds
<1> QED
  BY <1>1, SpecIInv, PTL

\* consume() files no receipt dated at or past the permit's expires_at.
THEOREM SpentBeforeExpiry == Spec => []SpentWhileLive
<1>1. IInv => SpentWhileLive
  BY DEF IInv
<1> QED
  BY <1>1, SpecIInv, PTL

-----------------------------------------------------------------------------
(* The refinement.  A consume() spends its permit when it passes the       *)
(* checks; until the commit the use is on record in the thread's frame.    *)

\* The uses on record are unchanged by a step that changes no receipt and
\* no frame at its commit.
LEMMA SameUses ==
  ASSUME consumed' = consumed,
         \A u \in Threads : pc'[u] = "commit" <=> pc[u] = "commit",
         \A u \in Threads : pc[u] = "commit" => arg'[u] = arg[u] /\ now'[u] = now[u]
  PROVE  SpentUses' = SpentUses
  BY DEF SpentUses

\* A consume() that passes its checks adds one use, on its own permit.
LEMMA AcceptUses ==
  ASSUME IInv, NEW t \in Threads, ConsumeAccept(t)
  PROVE  SpentUses' = SpentUses \union {[permit |-> arg[t], at |-> now[t], by |-> t]}
<1>1. consumed' = consumed /\ arg' = arg /\ now' = now
  BY DEF ConsumeAccept, shared
<1>2. {u \in Threads : pc'[u] = "commit"} = {u \in Threads : pc[u] = "commit"} \union {t}
  BY DEF ConsumeAccept, Goto, IInv, TypeOK
<1> QED
  BY <1>1, <1>2 DEF SpentUses

\* At the commit the use moves from the frame to the receipts.
LEMMA CommitUses ==
  ASSUME IInv, NEW t \in Threads, ConsumeCommit(t)
  PROVE  SpentUses' = SpentUses
<1>1. arg[t] \in PermitId /\ now[t] \in Time /\ consumed[arg[t]] = NoReceipt
  BY DEF IInv, CallSound, CommitSound, ConsumeCommit, Return, Goto, TypeOK
<1>2. [at |-> now[t], by |-> t] # NoReceipt
  BY <1>1, ReceiptsDiffer
<1>3. {q \in PermitId : consumed'[q] # NoReceipt} = {q \in PermitId : consumed[q] # NoReceipt} \union {arg[t]}
  BY <1>1, <1>2 DEF ConsumeCommit, IInv, TypeOK
<1>4. consumed'[arg[t]].at = now[t] /\ consumed'[arg[t]].by = t
  BY <1>1 DEF ConsumeCommit, IInv, TypeOK
<1>5. \A q \in PermitId : q # arg[t] => consumed'[q] = consumed[q]
  BY <1>1 DEF ConsumeCommit, IInv, TypeOK
<1>6. {u \in Threads : pc'[u] = "commit"} = {u \in Threads : pc[u] = "commit"} \ {t}
  BY DEF ConsumeCommit, Return, Goto, IInv, TypeOK
<1>7. \A u \in Threads : u # t => arg'[u] = arg[u] /\ now'[u] = now[u]
  BY DEF ConsumeCommit, Return, IInv, TypeOK
<1>8. pc[t] = "commit"
  BY DEF ConsumeCommit, Return, Goto
<1> QED
  BY <1>1, <1>3, <1>4, <1>5, <1>6, <1>7, <1>8 DEF SpentUses

\* Initially nothing is issued, revoked or spent.
LEMMA AbstractInit == Init => Abstract!Init
  BY ConstantsAssumption DEF Init, Abstract!Init, SpentUses

\* A step of a thread that keeps what is issued, revoked and on record as
\* spent, and the clock, is a stutter of the atomic permits.
LEMMA Stutter ==
  ASSUME \A p \in PermitId : permits'[p] # "absent" <=> permits[p] # "absent",
         revocations' = revocations, SpentUses' = SpentUses, clock' = clock
  PROVE  UNCHANGED Abstract!vars
  BY DEF Abstract!vars

\* Every step of the threads is a step of the atomic permits or a stutter.
LEMMA AbstractNext == IInv /\ [Next]_vars => [Abstract!Next]_(Abstract!vars)
<1> SUFFICES ASSUME IInv, [Next]_vars PROVE [Abstract!Next]_(Abstract!vars)
  OBVIOUS
<1> USE DEF shared, local, Goto
<1>1. ASSUME NEW t \in Threads, NEW r \in Requests, IssueMint(t, r) PROVE UNCHANGED Abstract!vars
  <2>1. SpentUses' = SpentUses
    BY <1>1, SameUses DEF IssueMint, Call, IInv, TypeOK
  <2>2. \A q \in PermitId : permits'[q] # "absent" <=> permits[q] # "absent"
    BY <1>1 DEF IssueMint, Call, IInv, TypeOK, FoundSound
  <2> QED
    BY <1>1, <2>1, <2>2, Stutter DEF IssueMint, Call
<1>2. ASSUME NEW t \in Threads, NEW p \in PermitId, RevokeGet(t, p) PROVE UNCHANGED Abstract!vars
  <2>1. SpentUses' = SpentUses
    BY <1>2, SameUses DEF RevokeGet, Call, IInv, TypeOK
  <2>2. \A q \in PermitId : permits'[q] # "absent" <=> permits[q] # "absent"
    BY <1>2 DEF RevokeGet, Call, IInv, TypeOK, FoundSound
  <2> QED
    BY <1>2, <2>1, <2>2, Stutter DEF RevokeGet, Call
<1>3. ASSUME NEW t \in Threads, NEW p \in PermitId, CrossingGet(t, p) PROVE UNCHANGED Abstract!vars
  <2>1. SpentUses' = SpentUses
    BY <1>3, SameUses DEF CrossingGet, Call, IInv, TypeOK
  <2>2. \A q \in PermitId : permits'[q] # "absent" <=> permits[q] # "absent"
    BY <1>3 DEF CrossingGet, Call, IInv, TypeOK, FoundSound
  <2> QED
    BY <1>3, <2>1, <2>2, Stutter DEF CrossingGet, Call
<1>4. ASSUME NEW t \in Threads, NEW p \in PermitId, Slice2Dispatch(t, p) PROVE UNCHANGED Abstract!vars
  <2>1. SpentUses' = SpentUses
    BY <1>4, SameUses DEF Slice2Dispatch, Call, IInv, TypeOK
  <2>2. \A q \in PermitId : permits'[q] # "absent" <=> permits[q] # "absent"
    BY <1>4 DEF Slice2Dispatch, Call, IInv, TypeOK, FoundSound
  <2> QED
    BY <1>4, <2>1, <2>2, Stutter DEF Slice2Dispatch, Call
<1>5. ASSUME NEW t \in Threads, RevokeWrite(t) PROVE UNCHANGED Abstract!vars
  <2>1. SpentUses' = SpentUses
    BY <1>5, SameUses DEF RevokeWrite, Return, IInv, TypeOK
  <2>2. \A q \in PermitId : permits'[q] # "absent" <=> permits[q] # "absent"
    BY <1>5 DEF RevokeWrite, Return, IInv, TypeOK, FoundSound
  <2> QED
    BY <1>5, <2>1, <2>2, Stutter DEF RevokeWrite, Return
<1>6. ASSUME NEW t \in Threads, CrossingVerified(t) PROVE UNCHANGED Abstract!vars
  <2>1. SpentUses' = SpentUses
    BY <1>6, SameUses DEF CrossingVerified, IInv, TypeOK
  <2>2. \A q \in PermitId : permits'[q] # "absent" <=> permits[q] # "absent"
    BY <1>6 DEF CrossingVerified, IInv, TypeOK, FoundSound
  <2> QED
    BY <1>6, <2>1, <2>2, Stutter DEF CrossingVerified
<1>7. ASSUME NEW t \in Threads, CrossingRejected(t) PROVE UNCHANGED Abstract!vars
  <2>1. SpentUses' = SpentUses
    BY <1>7, SameUses DEF CrossingRejected, Return, IInv, TypeOK
  <2>2. \A q \in PermitId : permits'[q] # "absent" <=> permits[q] # "absent"
    BY <1>7 DEF CrossingRejected, Return, IInv, TypeOK, FoundSound
  <2> QED
    BY <1>7, <2>1, <2>2, Stutter DEF CrossingRejected, Return
<1>8. ASSUME NEW t \in Threads, ConsumeLock(t) PROVE UNCHANGED Abstract!vars
  <2>1. SpentUses' = SpentUses
    BY <1>8, SameUses DEF ConsumeLock, IInv, TypeOK
  <2>2. \A q \in PermitId : permits'[q] # "absent" <=> permits[q] # "absent"
    BY <1>8 DEF ConsumeLock, IInv, TypeOK, FoundSound
  <2> QED
    BY <1>8, <2>1, <2>2, Stutter DEF ConsumeLock
<1>9. ASSUME NEW t \in Threads, ConsumeReject(t) PROVE UNCHANGED Abstract!vars
  <2>1. SpentUses' = SpentUses
    BY <1>9, SameUses DEF ConsumeReject, Return, IInv, TypeOK
  <2>2. \A q \in PermitId : permits'[q] # "absent" <=> permits[q] # "absent"
    BY <1>9 DEF ConsumeReject, Return, IInv, TypeOK, FoundSound
  <2> QED
    BY <1>9, <2>1, <2>2, Stutter DEF ConsumeReject, Return
<1>10. ASSUME NEW t \in Threads, IssuePut(t) PROVE Abstract!Next
  <2>1. SpentUses' = SpentUses
    BY <1>10, SameUses DEF IssuePut, Return, IInv, TypeOK
  <2>2. arg[t] \in PermitId /\ arg[t][2] <= clock
    BY <1>10 DEF IssuePut, Return, IInv, CallSound
  <2>3. {p \in PermitId : permits'[p] # "absent"}
          = {p \in PermitId : permits[p] # "absent"} \union {arg[t]}
    BY <1>10, <2>2 DEF IssuePut, IInv, TypeOK
  <2>4. Abstract!Issue(arg[t])
    BY <1>10, <2>1, <2>2, <2>3 DEF Abstract!Issue, IssuePut
  <2>5. arg[t] \in Abstract!PermitId
    BY <2>2 DEF Abstract!PermitId, Abstract!Time, PermitId, Time
  <2> QED
    BY <2>4, <2>5 DEF Abstract!Next, Abstract!Issue
<1>11. ASSUME NEW t \in Threads, RevokeMark(t) PROVE Abstract!Next
  <2>1. SpentUses' = SpentUses
    BY <1>11, SameUses DEF RevokeMark, IInv, TypeOK
  <2>2. arg[t] \in PermitId /\ permits[arg[t]] # "absent"
    BY <1>11 DEF RevokeMark, IInv, CallSound, FoundSound
  <2>3. Abstract!Revoke(arg[t])
    BY <1>11, <2>1, <2>2 DEF Abstract!Revoke, RevokeMark
  <2> QED
    BY <2>2, <2>3 DEF Abstract!Next, Abstract!PermitId, Abstract!Time, PermitId, Time
<1>12. ASSUME NEW t \in Threads, ConsumeAccept(t) PROVE Abstract!Next
  <2>1. SpentUses' = SpentUses \union {[permit |-> arg[t], at |-> now[t], by |-> t]}
    BY <1>12, AcceptUses
  <2>2. /\ arg[t] \in PermitId
        /\ permits[arg[t]] # "absent"
        /\ arg[t] \notin revocations
        /\ consumed[arg[t]] = NoReceipt
        /\ now[t] \in Time /\ now[t] <= clock
    BY <1>12 DEF ConsumeAccept, Consumable, IInv, CallSound, FoundSound, TypeOK
  <2>3. now[t] < Expiry(arg[t])
    <3>1. ~ (now[t] >= Expiry(arg[t])) /\ Expiry(arg[t]) \in Nat /\ now[t] \in Nat
      BY <1>12, <2>2, PermitTimes DEF ConsumeAccept, Consumable, IsExpired, Time
    <3> QED
      BY <3>1
  <2>4. \A u \in Threads : pc[u] # "commit"
    BY <1>12 DEF ConsumeAccept, IInv, LockOwner
  <2>5. \A s \in SpentUses : s.permit # arg[t]
    BY <2>2, <2>4 DEF SpentUses
  <2>6. Abstract!Spend(arg[t], now[t], t)
    BY <1>12, <2>1, <2>2, <2>3, <2>5
    DEF Abstract!Spend, Abstract!Spent, Abstract!Expiry, Expiry, ConsumeAccept
  <2> QED
    BY <2>2, <2>6 DEF Abstract!Next, Abstract!PermitId, Abstract!Time, PermitId, Time
<1>13. ASSUME NEW t \in Threads, ConsumeCommit(t) PROVE UNCHANGED Abstract!vars
  <2>1. SpentUses' = SpentUses
    BY <1>13, CommitUses
  <2> QED
    BY <1>13, <2>1, Stutter DEF ConsumeCommit
<1>14. ASSUME Tick PROVE Abstract!Next
  <2>1. SpentUses' = SpentUses
    BY <1>14, SameUses DEF Tick
  <2> QED
    BY <1>14, <2>1 DEF Tick, Abstract!Next, Abstract!Tick
<1>15. CASE UNCHANGED vars
  <2>1. SpentUses' = SpentUses
    BY <1>15, SameUses DEF vars
  <2> QED
    BY <1>15, <2>1, Stutter DEF vars
<1> QED
  BY <1>1, <1>2, <1>3, <1>4, <1>5, <1>6, <1>7, <1>8, <1>9, <1>10, <1>11, <1>12,
     <1>13, <1>14, <1>15 DEF Next, Begin, Continue

\* The store's unlocked revoke(), its overwriting put() and its locked
\* consume() together behave as atomic, single-use, revocable permits.
THEOREM Implements == Spec => Refinement
<1>1. Init => Abstract!Init
  BY AbstractInit
<1>2. IInv /\ [Next]_vars => [Abstract!Next]_(Abstract!vars)
  BY AbstractNext
<1> QED
  BY <1>1, <1>2, SpecIInv, PTL DEF Spec, Refinement, Abstract!Spec

=============================================================================
