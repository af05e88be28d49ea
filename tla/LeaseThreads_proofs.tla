------------------------ MODULE LeaseThreads_proofs ------------------------
(***************************************************************************)
(* For every number of agents, operators and sensors, every set of         *)
(* requests and leases and every use limit: the types of the threads that  *)
(* share one lease authority, what a revocation and a dispatch guarantee   *)
(* under any interleaving, and the use limit until two calls of agents or  *)
(* sensors overlap.                                                        *)
(***************************************************************************)
EXTENDS LeaseThreads, TLAPS

AskLabels == {"idle", "find", "evaluate", "deny", "allow", "issue", "record", "consume",
              "use", "get", "put", "answer", "dispatch"}
RevokeLabels == {"idle", "get", "put", "list", "loop"}
ReportLabels == {"idle", "all", "scan", "check", "get", "put"}

\* From _minted_permits.append on, the permit is where a revocation finds it.
Held == {"consume", "use", "get", "put", "answer", "dispatch"}

\* An agent inside a call: the permit it carries is its request's, on file
\* once GPP granted it and on the lease's list from "record" on; the ALLOW is
\* on record before the crossing dispatches.
AskSound(t) ==
  /\ pc[t] \in AskLabels
  /\ pc[t] # "idle" => obj[t] \in Requests
  /\ pc[t] \in {"get", "put"} => ev[t] = "exhaust"
  /\ pc[t] \in Held \union {"record"} =>
       permit[t] \in issued /\ permit[t][1] = obj[t]
  /\ pc[t] \in Held => permit[t] \in Recorded(LeaseOf[obj[t]])
  /\ pc[t] = "dispatch" => ReceiptOf(obj[t], "ALLOW") \in receipts

\* An operator inside revoke_lease: what the call owes was on the list, and
\* the loop has revoked the entries behind its index.
RevokeSound(t) ==
  /\ pc[t] \in RevokeLabels
  /\ pc[t] # "idle" => obj[t] \in Leases /\ due[t] \subseteq Recorded(obj[t])
  /\ pc[t] \in {"get", "put"} => ev[t] = "revoke"
  /\ pc[t] = "loop" =>
       /\ i[t] = 0 => due[t] = {}
       /\ i[t] <= Len(minted[obj[t]]) + 1
       /\ \A k \in 1 .. Len(minted[obj[t]]) : k < i[t] => minted[obj[t]][k] \in revoked

\* A sensor inside on_fact_changed.
ReportSound(t) ==
  /\ pc[t] \in ReportLabels
  /\ pc[t] \in {"get", "put"} => ev[t] \in {"suspend", "resume"}
  /\ pc[t] \in {"get", "put", "check"} => i[t] \in Leases

\* A thread in _transition writes back the step of a state that has one.
PutSound(t) == pc[t] = "put" => Applies(copy[t].state, ev[t])

ThreadSound(t) ==
  /\ t \in Askers => AskSound(t)
  /\ t \in Revokers => RevokeSound(t)
  /\ t \in Reporters => ReportSound(t)
  /\ PutSound(t)

\* What is listed is on file, and a revocation that returned reached what it
\* found.
ListSound == closed \subseteq revoked /\ \A l \in Leases : Recorded(l) \subseteq issued

\* The inductive invariant.
IInv ==
  /\ TypeOK
  /\ \A t \in Threads : ThreadSound(t)
  /\ ListSound
  /\ EffectsAccounted

\* No other agent or sensor is inside a call.
Alone(t) == \A u \in Restorers \ {t} : pc[u] = "idle"

\* The agent t has a permit of the lease l on the list and has not written
\* the use it costs yet.
Owes(t, l) == pc[t] \in {"consume", "use"} /\ LeaseOf[obj[t]] = l

Owed(l) == IF \E t \in Askers : Owes(t, l) THEN 1 ELSE 0

\* The uses left in a lease object that has not ended, with "owed" permits
\* not paid for yet, fit in what was granted.
Fits(lease, l, owed) ==
  lease.state \notin TERMINAL_STATES => lease.remaining + Len(minted[l]) <= Granted + owed

\* What the copies of an agent and of a sensor still promise of the list.
AskFits(t) ==
  /\ pc[t] = "evaluate" => Fits(copy[t], LeaseOf[obj[t]], 0)
  /\ pc[t] = "use" => Fits(copy[t], LeaseOf[obj[t]], 1)
  /\ pc[t] \in {"allow", "issue", "record"} => Len(minted[LeaseOf[obj[t]]]) < Granted

ReportFits(t) == pc[t] = "put" => Fits(copy[t], i[t], 0)

\* The use limit, with what the store and the copies promise.
Core ==
  /\ \A t \in Restorers : pc[t] # "idle" => Alone(t)
  /\ \A l \in Leases : Len(minted[l]) <= Granted /\ Fits(store[l], l, Owed(l))
  /\ \A t \in Askers : AskFits(t)
  /\ \A t \in Reporters : ReportFits(t)

Counted ==
  /\ \A l \in Leases : store[l].remaining \in Nat
  /\ \A t \in Threads : copy[t].remaining \in Nat

LimitSound == Granted # NoLimit => Counted /\ (~ overlap => Core)

-----------------------------------------------------------------------------
(* The calls.                                                              *)

\* The lease a thread works on, by its kind.
LEMMA LeaseIs ==
  ASSUME NEW t \in Threads
  PROVE  /\ t \in Askers => Lease(t) = LeaseOf[obj[t]]
         /\ t \in Revokers => Lease(t) = obj[t]
         /\ t \in Reporters => Lease(t) = i[t]
  BY ThreadsAssumption DEF Lease

\* A label tells which kind of thread stands at it.
LEMMA KindOf ==
  ASSUME IInv, NEW t \in Threads
  PROVE  /\ pc[t] \in {"find", "evaluate", "deny", "allow", "issue", "record", "consume",
                       "use", "answer", "dispatch"} => t \in Askers
         /\ pc[t] \in {"list", "loop"} => t \in Revokers
         /\ pc[t] \in {"all", "scan", "check"} => t \in Reporters
<1>1. (t \in Askers => pc[t] \in AskLabels) /\ (t \in Revokers => pc[t] \in RevokeLabels)
        /\ (t \in Reporters => pc[t] \in ReportLabels)
  BY DEF IInv, ThreadSound, AskSound, RevokeSound, ReportSound
<1> QED
  BY <1>1 DEF Threads, AskLabels, RevokeLabels, ReportLabels

\* A thread inside _transition, and an agent inside a call, work on a lease.
LEMMA LeaseType ==
  ASSUME IInv, NEW t \in Threads,
         pc[t] \in {"get", "put"} \/ (t \in Askers /\ pc[t] # "idle")
  PROVE  Lease(t) \in Leases
<1>1. ThreadSound(t)
  BY DEF IInv
<1>2. CASE t \in Askers
  BY <1>1, <1>2, LeaseIs, ThreadsAssumption DEF ThreadSound, AskSound
<1>3. CASE t \in Revokers
  BY <1>1, <1>3, LeaseIs, ThreadsAssumption DEF ThreadSound, RevokeSound
<1>4. CASE t \in Reporters
  BY <1>1, <1>4, LeaseIs, ThreadsAssumption DEF ThreadSound, ReportSound
<1> QED
  BY <1>2, <1>3, <1>4 DEF Threads

\* The step of the table is a state.
LEMMA TableStep ==
  ASSUME NEW s \in STATES, NEW e \in Events, Applies(s, e)
  PROVE  TRANSITIONS[s][e] \in STATES
  BY DEF STATES, TERMINAL_STATES, Events, Applies, TRANSITIONS

\* Where a thread goes on after _transition.
LEMMA AfterIs ==
  /\ After("exhaust") = "answer" /\ After("revoke") = "list"
  /\ After("suspend") = "check" /\ After("resume") = "scan"
  BY DEF After

\* The events of a thread inside _transition.
LEMMA EventIs ==
  ASSUME IInv, NEW t \in Threads, pc[t] \in {"get", "put"}
  PROVE  /\ t \in Askers => ev[t] = "exhaust"
         /\ t \in Revokers => ev[t] = "revoke"
         /\ t \in Reporters => ev[t] \in {"suspend", "resume"}
         /\ ev[t] \in {"exhaust", "revoke", "suspend", "resume"}
         /\ After(ev[t]) \in Labels
<1>1. ThreadSound(t)
  BY DEF IInv
<1>2. /\ t \in Askers => ev[t] = "exhaust"
      /\ t \in Revokers => ev[t] = "revoke"
      /\ t \in Reporters => ev[t] \in {"suspend", "resume"}
  BY <1>1 DEF ThreadSound, AskSound, RevokeSound, ReportSound
<1>3. ev[t] \in {"exhaust", "revoke", "suspend", "resume"}
  BY <1>2 DEF Threads
<1>4. After(ev[t]) \in Labels
  BY <1>3, AfterIs DEF Labels
<1> QED
  BY <1>2, <1>3, <1>4

-----------------------------------------------------------------------------
(* Types.                                                                  *)

\* The locals a call drops.
LEMMA ReturnType ==
  ASSUME TypeOK, NEW t \in Threads, Return(t)
  PROVE  /\ pc' \in [Threads -> Labels] /\ ev' \in [Threads -> Events]
         /\ obj' \in [Threads -> Requests \union Leases \union {0}]
         /\ copy' \in [Threads -> Copy] /\ world' \in [Threads -> BOOLEAN]
         /\ permit' \in [Threads -> PermitId \union {NoPermit}]
         /\ listed' \in [Threads -> [Leases -> STATES] \union {<<>>}]
         /\ i' \in [Threads -> Nat] /\ due' \in [Threads -> SUBSET issued]
<1>1. NoCopy \in Copy
  BY DEF NoCopy, Copy, STATES
<1> QED
  BY <1>1 DEF TypeOK, Return, Goto, Drop, Labels, Events

\* The objects read from the store and written back.
LEMMA CopyType ==
  ASSUME TypeOK
  PROVE  /\ NoCopy \in Copy
         /\ \A c \in Copy : /\ c.state \in STATES
                            /\ [c EXCEPT !.remaining = UseOne(@)] \in Copy
                            /\ \A s \in STATES : [c EXCEPT !.state = s] \in Copy
<1>1. NoCopy \in Copy
  BY DEF NoCopy, Copy, STATES
<1>2. ASSUME NEW c \in Copy
      PROVE  /\ c.state \in STATES
             /\ [c EXCEPT !.remaining = UseOne(@)] \in Copy
             /\ \A s \in STATES : [c EXCEPT !.state = s] \in Copy
  <2>1. c.remaining \in Nat \union {NoLimit}
    BY DEF Copy
  <2>2. UseOne(c.remaining) \in Nat \union {NoLimit}
    BY <2>1, NoLimitAssumption DEF UseOne
  <2> QED
    BY <2>2 DEF Copy
<1> QED
  BY <1>1, <1>2

\* The receipts of the calls.
LEMMA ReceiptType ==
  /\ \A r \in Requests, o \in {"ALLOW", "DENY", "EXECUTED", "REJECTED"} :
       ReceiptOf(r, o) \in ReceiptSet
  /\ \A l \in Leases : ReceiptOf(l, "LEASE_REVOKED") \in ReceiptSet
  BY DEF ReceiptOf, ReceiptSet

\* The types through a step of an agent.
LEMMA AskType ==
  ASSUME IInv, NEW t \in Threads, AskStep(t)
  PROVE  TypeOK'
<1> USE DEF gpp, log, aux
<1>1. TypeOK /\ ThreadSound(t)
  BY DEF IInv
<1>2. t \in Askers /\ pc[t] # "idle"
  BY KindOf DEF AskStep, AskFind, AskEvaluate, AskRemember, AskDenied, AskIssue, AskRecord,
    ConsumeGet, ConsumePut, AskAnswer, Dispatch, Reject
<1>3. obj[t] \in Requests /\ Lease(t) \in Leases
  BY <1>1, <1>2, LeaseType DEF ThreadSound, AskSound
<1>4. CASE AskFind(t)
  BY <1>1, <1>3, <1>4 DEF AskFind, TypeOK, Goto, Labels
<1>5. CASE AskEvaluate(t)
  <2>1. (IF Allows(t) THEN "allow" ELSE "deny") \in Labels
    BY DEF Labels
  <2> QED
    BY <1>1, <1>5, <2>1, CopyType DEF AskEvaluate, TypeOK, Goto, Drop
<1>6. CASE AskRemember(t)
  BY <1>1, <1>3, <1>6 DEF AskRemember, TypeOK, Goto, Labels
<1>7. CASE AskDenied(t)
  BY <1>1, <1>3, <1>7, ReturnType, ReceiptType DEF AskDenied, TypeOK
<1>8. CASE AskIssue(t)
  <2>1. <<obj[t], clock>> \in PermitId
    BY <1>1, <1>3 DEF TypeOK, PermitId
  <2>2. issued' \subseteq PermitId /\ issued \subseteq issued'
    BY <1>1, <1>8, <2>1 DEF AskIssue, TypeOK
  <2>3. permit' \in [Threads -> PermitId \union {NoPermit}]
    BY <1>1, <1>8, <2>1 DEF AskIssue, TypeOK
  <2>4. due' \in [Threads -> SUBSET issued']
    BY <1>1, <1>8, <2>2 DEF AskIssue, TypeOK
  <2>5. pc' \in [Threads -> Labels]
    BY <1>1, <1>8 DEF AskIssue, TypeOK, Goto, Labels
  <2> QED
    BY <1>1, <1>8, <2>2, <2>3, <2>4, <2>5 DEF AskIssue, TypeOK
<1>9. CASE AskRecord(t)
  <2>1. permit[t] \in PermitId
    BY <1>1, <1>2, <1>9 DEF AskRecord, ThreadSound, AskSound, Held, TypeOK
  <2>2. Append(minted[Lease(t)], permit[t]) \in Seq(PermitId)
    BY <1>1, <1>3, <2>1 DEF TypeOK
  <2>3. minted' \in [Leases -> Seq(PermitId)]
    BY <1>1, <1>3, <1>9, <2>2 DEF AskRecord, TypeOK
  <2>4. pc' \in [Threads -> Labels]
    BY <1>1, <1>9 DEF AskRecord, TypeOK, Goto, Labels
  <2> QED
    BY <1>1, <1>9, <2>3, <2>4 DEF AskRecord, TypeOK
<1>10. CASE ConsumeGet(t)
  BY <1>1, <1>3, <1>10 DEF ConsumeGet, TypeOK, Goto, Labels
<1>11. CASE ConsumePut(t)
  <2>1. copy[t] \in Copy
    BY <1>1 DEF TypeOK
  <2>2. store' \in [Leases -> Copy]
    BY <1>1, <1>3, <1>11, <2>1, CopyType DEF ConsumePut, TypeOK
  <2>3. pc' \in [Threads -> Labels] /\ ev' \in [Threads -> Events]
    BY <1>1, <1>11 DEF ConsumePut, TypeOK, Goto, Labels, Events
  <2> QED
    BY <1>1, <1>11, <2>2, <2>3, CopyType DEF ConsumePut, TypeOK, Drop
<1>12. CASE AskAnswer(t)
  BY <1>1, <1>3, <1>12, ReceiptType DEF AskAnswer, TypeOK, Goto, Labels
<1>13. CASE Dispatch(t)
  BY <1>1, <1>3, <1>13, ReturnType, ReceiptType DEF Dispatch, Usable, TypeOK
<1>14. CASE Reject(t)
  BY <1>1, <1>3, <1>14, ReturnType, ReceiptType DEF Reject, TypeOK
<1> QED
  BY <1>4, <1>5, <1>6, <1>7, <1>8, <1>9, <1>10, <1>11, <1>12, <1>13, <1>14 DEF AskStep

\* ... of a thread inside _transition ...
LEMMA TransitionType ==
  ASSUME IInv, NEW t \in Threads, TransitionStep(t)
  PROVE  TypeOK'
<1> USE DEF gpp, log, aux
<1>1. TypeOK /\ ThreadSound(t) /\ pc[t] \in {"get", "put"}
  BY DEF IInv, TransitionStep, TransitionGet, TransitionSkip, TransitionRaise, TransitionPut
<1>2. Lease(t) \in Leases /\ After(ev[t]) \in Labels
  BY <1>1, LeaseType, EventIs
<1>3. ASSUME Step(t) PROVE i' \in [Threads -> Nat] /\ ev' \in [Threads -> Events]
  <2>1. ev' \in [Threads -> Events]
    BY <1>1, <1>3 DEF Step, TypeOK, Events
  <2>2. i' \in [Threads -> Nat]
    BY <1>1, <1>3 DEF Step, TypeOK
  <2> QED
    BY <2>1, <2>2
<1>4. CASE TransitionGet(t)
  BY <1>1, <1>2, <1>4 DEF TransitionGet, TypeOK, Goto, Labels
<1>5. CASE TransitionSkip(t)
  BY <1>1, <1>2, <1>3, <1>5 DEF TransitionSkip, TypeOK, Goto
<1>6. CASE TransitionRaise(t)
  BY <1>1, <1>6, ReturnType DEF TransitionRaise, TypeOK
<1>7. CASE TransitionPut(t)
  <2>1. copy[t] \in Copy /\ copy[t].state \in STATES /\ ev[t] \in Events
    BY <1>1, CopyType DEF TypeOK
  <2>2. Applies(copy[t].state, ev[t])
    BY <1>1, <1>7 DEF TransitionPut, ThreadSound, PutSound
  <2>3. TRANSITIONS[copy[t].state][ev[t]] \in STATES
    BY <2>1, <2>2, TableStep
  <2>4. [copy[t] EXCEPT !.state = TRANSITIONS[@][ev[t]]] \in Copy
    BY <2>1, <2>3 DEF Copy
  <2>5. store' \in [Leases -> Copy]
    BY <1>1, <1>2, <1>7, <2>4 DEF TransitionPut, TypeOK
  <2> QED
    BY <1>1, <1>2, <1>3, <1>7, <2>5, CopyType DEF TransitionPut, TypeOK, Goto, Drop
<1> QED
  BY <1>4, <1>5, <1>6, <1>7 DEF TransitionStep

\* ... of an operator ...
LEMMA RevokeType ==
  ASSUME IInv, NEW t \in Threads, RevokeStep(t)
  PROVE  TypeOK'
<1> USE DEF gpp, log, aux
<1>1. TypeOK /\ ThreadSound(t) /\ t \in Revokers /\ pc[t] # "idle"
  BY KindOf DEF IInv, RevokeStep, RevokeList, RevokePermit, RevokeReturn
<1>2. obj[t] \in Leases
  BY <1>1 DEF ThreadSound, RevokeSound
<1>3. CASE RevokeList(t)
  BY <1>1, <1>3 DEF RevokeList, TypeOK, Goto, Labels
<1>4. CASE RevokePermit(t)
  <2>1. i[t] \in 1 .. Len(minted[obj[t]]) /\ minted[obj[t]] \in Seq(PermitId)
    BY <1>1, <1>2, <1>4 DEF RevokePermit, MoreToRevoke, TypeOK
  <2>2. minted[obj[t]][i[t]] \in Recorded(obj[t])
    BY <2>1 DEF Recorded
  <2>3. minted[obj[t]][i[t]] \in issued
    BY <1>2, <2>2 DEF IInv, ListSound
  <2>4. i' \in [Threads -> Nat]
    BY <1>1, <1>4 DEF RevokePermit, TypeOK
  <2> QED
    BY <1>1, <1>4, <2>3, <2>4 DEF RevokePermit, TypeOK
<1>5. CASE RevokeReturn(t)
  <2>1. due[t] \subseteq issued
    BY <1>1 DEF TypeOK
  <2> QED
    BY <1>1, <1>2, <1>5, <2>1, ReturnType, ReceiptType DEF RevokeReturn, TypeOK
<1> QED
  BY <1>3, <1>4, <1>5 DEF RevokeStep

\* ... and of a sensor.
LEMMA ReportType ==
  ASSUME IInv, NEW t \in Threads, ReportStep(t)
  PROVE  TypeOK'
<1> USE DEF gpp, log, aux
<1>1. TypeOK
  BY DEF IInv
<1>2. CASE ReportAll(t)
  <2>1. [l \in Leases |-> store[l].state] \in [Leases -> STATES]
    BY <1>1, CopyType DEF TypeOK
  <2> QED
    BY <1>1, <1>2, <2>1 DEF ReportAll, TypeOK, Goto, Labels
<1>3. CASE ReportScan(t)
  <2>1. pc' \in [Threads -> Labels] /\ ev' \in [Threads -> Events]
    BY <1>1, <1>3 DEF ReportScan, TypeOK, Goto, Labels, Events
  <2>2. i' \in [Threads -> Nat]
    BY <1>1, <1>3 DEF ReportScan, TypeOK
  <2> QED
    BY <1>1, <1>3, <2>1, <2>2 DEF ReportScan, TypeOK
<1>4. CASE ReportCheck(t)
  <2>1. pc' \in [Threads -> Labels] /\ ev' \in [Threads -> Events]
    BY <1>1, <1>4 DEF ReportCheck, TypeOK, Goto, Labels, Events
  <2>2. i' \in [Threads -> Nat]
    BY <1>1, <1>4 DEF ReportCheck, TypeOK
  <2> QED
    BY <1>1, <1>4, <2>1, <2>2 DEF ReportCheck, TypeOK
<1>5. CASE ReportReturn(t)
  BY <1>1, <1>5, ReturnType DEF ReportReturn, TypeOK
<1> QED
  BY <1>2, <1>3, <1>4, <1>5 DEF ReportStep

\* Every step keeps the types.
LEMMA TypeNext ==
  ASSUME IInv, [Next]_vars
  PROVE  TypeOK'
<1> USE DEF gpp, log, aux
<1>1. TypeOK
  BY DEF IInv
<1>2. ASSUME NEW t \in Askers, NEW r \in Requests, AskSnapshot(t, r) PROVE TypeOK'
  <2>1. t \in Threads
    BY DEF Threads
  <2>2. world' \in [Threads -> BOOLEAN]
    BY <1>1, <1>2 DEF AskSnapshot, TypeOK
  <2>3. overlap' \in BOOLEAN
    BY <1>2 DEF AskSnapshot, Begin
  <2> QED
    BY <1>1, <1>2, <2>1, <2>2, <2>3 DEF AskSnapshot, TypeOK, Goto, Labels
<1>3. ASSUME NEW t \in Revokers, NEW l \in Leases, RevokeCall(t, l) PROVE TypeOK'
  <2>1. t \in Threads /\ Recorded(l) \subseteq issued
    BY DEF Threads, IInv, ListSound
  <2> QED
    BY <1>1, <1>3, <2>1 DEF RevokeCall, TypeOK, Goto, Labels, Events
<1>4. ASSUME NEW t \in Reporters, NEW holds \in BOOLEAN, ReportPut(t, holds) PROVE TypeOK'
  <2>1. t \in Threads
    BY DEF Threads
  <2>2. overlap' \in BOOLEAN
    BY <1>4 DEF ReportPut, Begin
  <2> QED
    BY <1>1, <1>4, <2>1, <2>2 DEF ReportPut, TypeOK, Goto, Labels
<1>5. ASSUME NEW t \in Threads, Continue(t) PROVE TypeOK'
  BY <1>5, AskType, TransitionType, RevokeType, ReportType DEF Continue
<1>6. CASE Tick
  BY <1>1, <1>6, ThreadsAssumption DEF Tick, TypeOK
<1>7. CASE UNCHANGED vars
  BY <1>1, <1>7 DEF vars, TypeOK
<1> QED
  BY <1>2, <1>3, <1>4, <1>5, <1>6, <1>7 DEF Next

-----------------------------------------------------------------------------
(* What a step leaves to the threads that do not take it.                  *)

\* The permit store, the receipts and the lists only grow, at the end.
Grows ==
  /\ issued \subseteq issued' /\ revoked \subseteq revoked' /\ receipts \subseteq receipts'
  /\ \A l \in Leases :
       /\ Len(minted[l]) <= Len(minted'[l])
       /\ \A k \in 1 .. Len(minted[l]) : minted'[l][k] = minted[l][k]

\* The locals of a thread.
Same(u) ==
  /\ pc'[u] = pc[u] /\ ev'[u] = ev[u] /\ obj'[u] = obj[u] /\ copy'[u] = copy[u]
  /\ permit'[u] = permit[u] /\ i'[u] = i[u] /\ due'[u] = due[u]

\* What is listed stays listed.
LEMMA RecordedGrows ==
  ASSUME TypeOK, TypeOK', Grows, NEW l \in Leases
  PROVE  Recorded(l) \subseteq Recorded(l)'
<1>1. minted[l] \in Seq(PermitId) /\ minted'[l] \in Seq(PermitId)
  BY DEF TypeOK
<1>2. ASSUME NEW p \in Recorded(l) PROVE p \in Recorded(l)'
  <2>1. PICK k \in DOMAIN minted[l] : p = minted[l][k]
    BY DEF Recorded
  <2>2. k \in 1 .. Len(minted[l]) /\ k \in DOMAIN minted'[l]
    BY <1>1 DEF Grows
  <2>3. p = minted'[l][k]
    BY <2>1, <2>2 DEF Grows
  <2> QED
    BY <2>2, <2>3 DEF Recorded
<1> QED
  BY <1>2

\* So a thread whose locals are left alone stays sound, the loop of
\* revoke_lease included: a permit is appended past its index.
LEMMA Quiet ==
  ASSUME IInv, TypeOK', Grows, NEW u \in Threads, Same(u)
  PROVE  ThreadSound(u)'
<1>1. TypeOK /\ ThreadSound(u)
  BY DEF IInv
<1>2. ASSUME u \in Askers PROVE AskSound(u)'
  <2>1. AskSound(u)
    BY <1>1, <1>2 DEF ThreadSound
  <2>2. ASSUME pc[u] \in Held PROVE permit[u] \in Recorded(LeaseOf[obj[u]])'
    <3>1. obj[u] \in Requests /\ permit[u] \in Recorded(LeaseOf[obj[u]])
      BY <2>1, <2>2 DEF AskSound, Held
    <3> DEFINE l == LeaseOf[obj[u]]
    <3>2. l \in Leases
      BY <3>1, ThreadsAssumption
    <3>3. permit[u] \in {minted'[l][k] : k \in DOMAIN minted'[l]}
      BY <1>1, <3>1, <3>2, RecordedGrows DEF Recorded
    <3> QED
      BY <3>3 DEF Recorded, Same
  <2> QED
    BY <2>1, <2>2 DEF AskSound, Same, Grows
<1>3. ASSUME u \in Revokers PROVE RevokeSound(u)'
  <2>1. RevokeSound(u)
    BY <1>1, <1>3 DEF ThreadSound
  <2>2. ASSUME pc[u] # "idle" PROVE obj[u] \in Leases /\ due[u] \subseteq Recorded(obj[u])'
    <3>1. obj[u] \in Leases /\ due[u] \subseteq Recorded(obj[u])
      BY <2>1, <2>2 DEF RevokeSound
    <3> DEFINE l == obj[u]
    <3>2. due[u] \subseteq {minted'[l][k] : k \in DOMAIN minted'[l]}
      BY <1>1, <3>1, RecordedGrows DEF Recorded
    <3> QED
      BY <3>1, <3>2 DEF Recorded, Same
  <2>3. ASSUME pc[u] = "loop"
        PROVE  /\ i[u] = 0 => due[u] = {}
               /\ i[u] <= Len(minted'[obj[u]]) + 1
               /\ \A k \in 1 .. Len(minted'[obj[u]]) :
                    k < i[u] => minted'[obj[u]][k] \in revoked'
    <3> DEFINE l == obj[u]
    <3>1. /\ l \in Leases /\ i[u] \in Nat
          /\ minted[l] \in Seq(PermitId) /\ minted'[l] \in Seq(PermitId)
      BY <1>1, <2>2, <2>3 DEF TypeOK
    <3>2. /\ i[u] = 0 => due[u] = {}
          /\ i[u] <= Len(minted[l]) + 1
          /\ \A k \in 1 .. Len(minted[l]) : k < i[u] => minted[l][k] \in revoked
      BY <2>1, <2>3 DEF RevokeSound
    <3>3. Len(minted[l]) \in Nat /\ Len(minted'[l]) \in Nat /\ Len(minted[l]) <= Len(minted'[l])
      BY <3>1 DEF Grows
    <3>4. \A k \in 1 .. Len(minted[l]) : minted'[l][k] = minted[l][k]
      BY <3>1 DEF Grows
    <3> HIDE DEF l
    <3>5. i[u] <= Len(minted'[l]) + 1
      BY <3>1, <3>2, <3>3
    <3>6. ASSUME NEW k \in 1 .. Len(minted'[l]), k < i[u] PROVE minted'[l][k] \in revoked'
      <4>1. k \in 1 .. Len(minted[l])
        BY <3>1, <3>2, <3>3, <3>6
      <4> QED
        BY <3>2, <3>4, <3>6, <4>1 DEF Grows
    <3> QED
      BY <3>2, <3>5, <3>6 DEF l
  <2> QED
    BY <2>1, <2>2, <2>3 DEF RevokeSound, Same
<1>4. ASSUME u \in Reporters PROVE ReportSound(u)'
  BY <1>1, <1>4 DEF ThreadSound, ReportSound, Same
<1>5. PutSound(u)'
  BY <1>1 DEF ThreadSound, PutSound, Same
<1> QED
  BY <1>2, <1>3, <1>4, <1>5 DEF ThreadSound

\* No step takes anything back.
LEMMA GrowsNext ==
  ASSUME IInv, [Next]_vars
  PROVE  Grows
<1> USE DEF gpp, log, aux
<1>1. TypeOK
  BY DEF IInv
<1>2. ASSUME NEW t \in Threads, AskRecord(t) PROVE Grows
  <2>1. t \in Askers /\ pc[t] # "idle"
    BY <1>2, KindOf DEF AskRecord
  <2>2. Lease(t) \in Leases
    BY <2>1, LeaseType
  <2> DEFINE l == Lease(t)
  <2>3. minted[l] \in Seq(PermitId) /\ permit[t] \in PermitId
    BY <1>1, <1>2, <2>1, <2>2 DEF TypeOK, AskRecord, IInv, ThreadSound, AskSound, Held
  <2>4. /\ minted'[l] = Append(minted[l], permit[t])
        /\ \A k \in Leases \ {l} : minted'[k] = minted[k]
    BY <1>1, <1>2, <2>2 DEF AskRecord, TypeOK
  <2>5. /\ Len(minted[l]) <= Len(minted'[l])
        /\ \A k \in 1 .. Len(minted[l]) : minted'[l][k] = minted[l][k]
    BY <2>3, <2>4
  <2>6. \A k \in Leases : Len(minted[k]) <= Len(minted[k])
    BY <1>1 DEF TypeOK
  <2>7. ASSUME NEW k \in Leases
        PROVE  /\ Len(minted[k]) <= Len(minted'[k])
               /\ \A j \in 1 .. Len(minted[k]) : minted'[k][j] = minted[k][j]
    <3>1. CASE k = l
      BY <2>5, <3>1
    <3>2. CASE k # l
      BY <2>4, <2>6, <3>2
    <3> QED
      BY <3>1, <3>2
  <2> QED
    BY <1>2, <2>7 DEF AskRecord, Grows
<1>3. ASSUME ~ \E t \in Threads : AskRecord(t)
      PROVE  /\ minted' = minted
             /\ issued \subseteq issued' /\ revoked \subseteq revoked' /\ receipts \subseteq receipts'
  <2>1. ASSUME NEW t \in Threads, AskStep(t)
        PROVE  /\ minted' = minted
               /\ issued \subseteq issued' /\ revoked \subseteq revoked' /\ receipts \subseteq receipts'
    BY <1>3, <2>1 DEF AskStep, AskFind, AskEvaluate, AskRemember, AskDenied, AskIssue,
      ConsumeGet, ConsumePut, AskAnswer, Dispatch, Reject
  <2>2. ASSUME NEW t \in Threads, TransitionStep(t) \/ RevokeStep(t) \/ ReportStep(t)
        PROVE  /\ minted' = minted
               /\ issued \subseteq issued' /\ revoked \subseteq revoked' /\ receipts \subseteq receipts'
    BY <2>2 DEF TransitionStep, TransitionGet, TransitionSkip, TransitionRaise, TransitionPut,
      RevokeStep, RevokeList, RevokePermit, RevokeReturn,
      ReportStep, ReportAll, ReportScan, ReportCheck, ReportReturn
  <2> QED
    BY <2>1, <2>2 DEF Next, Continue, AskSnapshot, RevokeCall, ReportPut, Tick, vars
<1>4. \A l \in Leases : Len(minted[l]) <= Len(minted[l])
  BY <1>1 DEF TypeOK
<1> QED
  BY <1>2, <1>3, <1>4 DEF Grows

\* A step is one thread's.
LEMMA ReturnOthers ==
  ASSUME TypeOK, NEW t \in Threads, Return(t), NEW u \in Threads \ {t}
  PROVE  Same(u)
  BY DEF Return, Goto, Drop, TypeOK, Same

LEMMA Others ==
  ASSUME TypeOK, NEW t \in Threads, Continue(t), NEW u \in Threads \ {t}
  PROVE  Same(u)
<1> USE DEF gpp, log, aux, Goto, Drop
<1>1. CASE AskFind(t) \/ AskEvaluate(t) \/ AskRemember(t)
  BY <1>1 DEF AskFind, AskEvaluate, AskRemember, TypeOK, Same
<1>2. CASE AskIssue(t) \/ AskRecord(t)
  BY <1>2 DEF AskIssue, AskRecord, TypeOK, Same
<1>3. CASE ConsumeGet(t) \/ ConsumePut(t) \/ AskAnswer(t)
  BY <1>3 DEF ConsumeGet, ConsumePut, AskAnswer, TypeOK, Same
<1>4. CASE \/ AskDenied(t) \/ Dispatch(t) \/ Reject(t) \/ TransitionRaise(t)
           \/ RevokeReturn(t) \/ ReportReturn(t)
  BY <1>4, ReturnOthers DEF AskDenied, Dispatch, Reject, TransitionRaise, RevokeReturn,
    ReportReturn
<1>5. CASE TransitionGet(t) \/ TransitionSkip(t) \/ TransitionPut(t)
  BY <1>5 DEF TransitionGet, TransitionSkip, TransitionPut, Step, TypeOK, Same
<1>6. CASE RevokeList(t) \/ RevokePermit(t)
  BY <1>6 DEF RevokeList, RevokePermit, TypeOK, Same
<1>7. CASE ReportAll(t)
  BY <1>7 DEF ReportAll, TypeOK, Same
<1>8. CASE ReportScan(t) \/ ReportCheck(t)
  BY <1>8 DEF ReportScan, ReportCheck, TypeOK, Same
<1> QED
  BY <1>1, <1>2, <1>3, <1>4, <1>5, <1>6, <1>7, <1>8
  DEF Continue, AskStep, TransitionStep, RevokeStep, ReportStep

-----------------------------------------------------------------------------
(* What a step leaves to the thread that takes it.                         *)

\* A thread that is in no call owes nothing.
LEMMA IdleSound ==
  ASSUME NEW t \in Threads, pc'[t] = "idle"
  PROVE  ThreadSound(t)'
  BY DEF ThreadSound, AskSound, RevokeSound, ReportSound, PutSound, AskLabels, RevokeLabels,
    ReportLabels, Held

LEMMA ReturnSound ==
  ASSUME TypeOK, NEW t \in Threads, Return(t)
  PROVE  ThreadSound(t)'
  BY IdleSound DEF Return, Goto, TypeOK

\* An agent's step.
LEMMA AskKeeps ==
  ASSUME IInv, TypeOK', Grows, NEW t \in Threads, AskStep(t)
  PROVE  ThreadSound(t)'
<1> USE DEF gpp, log, aux
<1>1. TypeOK /\ ThreadSound(t)
  BY DEF IInv
<1>2. t \in Askers /\ pc[t] # "idle"
  BY KindOf DEF AskStep, AskFind, AskEvaluate, AskRemember, AskDenied, AskIssue, AskRecord,
    ConsumeGet, ConsumePut, AskAnswer, Dispatch, Reject
<1>3. t \notin Revokers /\ t \notin Reporters
  BY <1>2, ThreadsAssumption
<1>4. AskSound(t) /\ obj[t] \in Requests /\ Lease(t) \in Leases /\ Lease(t) = LeaseOf[obj[t]]
  BY <1>1, <1>2, LeaseType, LeaseIs DEF ThreadSound, AskSound
<1>5. ASSUME AskSound(t)', pc'[t] # "put" PROVE ThreadSound(t)'
  BY <1>3, <1>5 DEF ThreadSound, PutSound
<1>6. CASE AskFind(t) \/ AskEvaluate(t) \/ AskRemember(t)
  <2>1. pc'[t] \in {"evaluate", "allow", "deny", "issue"} /\ obj'[t] = obj[t]
    BY <1>1, <1>6 DEF AskFind, AskEvaluate, AskRemember, Goto, TypeOK
  <2> QED
    BY <1>4, <1>5, <2>1 DEF AskSound, AskLabels, Held
<1>7. CASE AskDenied(t) \/ Dispatch(t) \/ Reject(t)
  BY <1>1, <1>7, ReturnSound DEF AskDenied, Dispatch, Reject
<1>8. CASE AskIssue(t)
  <2>1. /\ pc'[t] = "record" /\ obj'[t] = obj[t]
        /\ permit'[t] = <<obj[t], clock>> /\ <<obj[t], clock>> \in issued'
    BY <1>1, <1>8 DEF AskIssue, Goto, TypeOK
  <2>2. permit'[t][1] = obj[t]
    BY <2>1
  <2> QED
    BY <1>4, <1>5, <2>1, <2>2 DEF AskSound, AskLabels, Held
<1>9. CASE AskRecord(t)
  <2>1. /\ pc'[t] = "consume" /\ obj'[t] = obj[t] /\ permit'[t] = permit[t]
        /\ issued' = issued /\ minted'[Lease(t)] = Append(minted[Lease(t)], permit[t])
    BY <1>1, <1>4, <1>9 DEF AskRecord, Goto, TypeOK
  <2>2. permit[t] \in issued /\ permit[t][1] = obj[t] /\ permit[t] \in PermitId
    BY <1>1, <1>4, <1>9 DEF AskRecord, AskSound, Held, TypeOK
  <2> DEFINE old == minted[Lease(t)]
             new == minted'[Lease(t)]
  <2>3. old \in Seq(PermitId) /\ new = Append(old, permit[t])
    BY <1>1, <1>4, <2>1 DEF TypeOK
  <2> HIDE DEF old, new
  <2>4. Len(old) + 1 \in DOMAIN new /\ new[Len(old) + 1] = permit[t]
    BY <2>2, <2>3
  <2>5. permit[t] \in Recorded(LeaseOf[obj[t]])'
    <3> DEFINE l == LeaseOf[obj[t]]
    <3>1. permit[t] \in {minted'[l][k] : k \in DOMAIN minted'[l]}
      BY <1>4, <2>4 DEF new
    <3> QED
      BY <2>1, <3>1 DEF Recorded
  <2> QED
    BY <1>4, <1>5, <2>1, <2>2, <2>5 DEF AskSound, AskLabels, Held
<1>10. ASSUME pc[t] \in Held, pc'[t] \in Held, obj'[t] = obj[t], permit'[t] = permit[t],
              pc'[t] \in {"get", "put"} => ev'[t] = "exhaust",
              pc'[t] = "dispatch" => ReceiptOf(obj[t], "ALLOW") \in receipts'
       PROVE  AskSound(t)'
  <2>1. permit[t] \in Recorded(LeaseOf[obj[t]])'
    <3> DEFINE l == LeaseOf[obj[t]]
    <3>1. l \in Leases /\ permit[t] \in Recorded(l)
      BY <1>4, <1>10 DEF AskSound
    <3>2. permit[t] \in {minted'[l][k] : k \in DOMAIN minted'[l]}
      BY <1>1, <3>1, RecordedGrows DEF Recorded
    <3> QED
      BY <1>10, <3>2 DEF Recorded
  <2> QED
    BY <1>4, <1>10, <2>1 DEF AskSound, AskLabels, Held, Grows
<1>11. CASE ConsumeGet(t)
  <2>1. pc[t] = "consume" /\ pc'[t] = "use" /\ obj'[t] = obj[t] /\ permit'[t] = permit[t]
    BY <1>1, <1>11 DEF ConsumeGet, Goto, TypeOK
  <2> QED
    BY <1>5, <1>10, <2>1 DEF Held
<1>12. CASE ConsumePut(t)
  <2>1. /\ pc[t] = "use" /\ obj'[t] = obj[t] /\ permit'[t] = permit[t]
        /\ (pc'[t] = "get" /\ ev'[t] = "exhaust") \/ pc'[t] = "answer"
    BY <1>1, <1>12 DEF ConsumePut, Goto, TypeOK
  <2> QED
    BY <1>5, <1>10, <2>1 DEF Held
<1>13. CASE AskAnswer(t)
  <2>1. /\ pc[t] = "answer" /\ pc'[t] = "dispatch" /\ obj'[t] = obj[t] /\ permit'[t] = permit[t]
        /\ ReceiptOf(obj[t], "ALLOW") \in receipts'
    BY <1>1, <1>13 DEF AskAnswer, Goto, TypeOK
  <2> QED
    BY <1>5, <1>10, <2>1 DEF Held
<1> QED
  BY <1>6, <1>7, <1>8, <1>9, <1>11, <1>12, <1>13 DEF AskStep

\* A step inside _transition, of whichever thread.
LEMMA TransitionKeeps ==
  ASSUME IInv, TypeOK', Grows, NEW t \in Threads, TransitionStep(t)
  PROVE  ThreadSound(t)'
<1> USE DEF gpp, log, aux
<1>1. TypeOK /\ ThreadSound(t) /\ pc[t] \in {"get", "put"}
  BY DEF IInv, TransitionStep, TransitionGet, TransitionSkip, TransitionRaise, TransitionPut
<1>2. /\ t \in Askers => ev[t] = "exhaust"
      /\ t \in Revokers => ev[t] = "revoke"
      /\ t \in Reporters => ev[t] \in {"suspend", "resume"}
  BY <1>1, EventIs
<1>3. CASE TransitionRaise(t)
  BY <1>1, <1>3, ReturnSound DEF TransitionRaise
<1>4. CASE TransitionGet(t)
  <2>1. /\ pc'[t] = "put" /\ ev'[t] = ev[t] /\ obj'[t] = obj[t] /\ permit'[t] = permit[t]
        /\ i'[t] = i[t] /\ due'[t] = due[t] /\ copy'[t] = store[Lease(t)]
        /\ Applies(store[Lease(t)].state, ev[t])
        /\ minted' = minted /\ issued' = issued /\ receipts' = receipts
    BY <1>1, <1>4 DEF TransitionGet, Goto, TypeOK
  <2>2. PutSound(t)'
    BY <2>1 DEF PutSound
  <2>3. t \in Askers => AskSound(t)'
    BY <1>1, <1>2, <2>1 DEF ThreadSound, AskSound, AskLabels, Held, Recorded
  <2>4. t \in Revokers => RevokeSound(t)'
    BY <1>1, <1>2, <2>1 DEF ThreadSound, RevokeSound, RevokeLabels, Recorded
  <2>5. t \in Reporters => ReportSound(t)'
    BY <1>1, <1>2, <2>1 DEF ThreadSound, ReportSound, ReportLabels
  <2> QED
    BY <2>2, <2>3, <2>4, <2>5 DEF ThreadSound
<1>5. CASE TransitionSkip(t) \/ TransitionPut(t)
  <2>1. /\ pc'[t] = After(ev[t]) /\ obj'[t] = obj[t] /\ permit'[t] = permit[t]
        /\ due'[t] = due[t] /\ minted' = minted /\ issued' = issued /\ receipts' = receipts
        /\ ev[t] # "resume" => i'[t] = i[t]
    BY <1>1, <1>5 DEF TransitionSkip, TransitionPut, Step, Goto, TypeOK
  <2>2. t \in Askers => pc'[t] = "answer"
    BY <1>2, <2>1, AfterIs
  <2>3. t \in Revokers => pc'[t] = "list"
    BY <1>2, <2>1, AfterIs
  <2>4. t \in Reporters => \/ pc'[t] = "check" /\ i'[t] = i[t]
                           \/ pc'[t] = "scan"
    BY <1>2, <2>1, AfterIs
  <2>5. PutSound(t)'
    BY <2>2, <2>3, <2>4 DEF PutSound, Threads
  <2>6. t \in Askers => AskSound(t)'
    BY <1>1, <2>1, <2>2 DEF ThreadSound, AskSound, AskLabels, Held, Recorded
  <2>7. t \in Revokers => RevokeSound(t)'
    BY <1>1, <2>1, <2>3 DEF ThreadSound, RevokeSound, RevokeLabels, Recorded
  <2>8. t \in Reporters => ReportSound(t)'
    BY <1>1, <2>4 DEF ThreadSound, ReportSound, ReportLabels
  <2> QED
    BY <2>5, <2>6, <2>7, <2>8 DEF ThreadSound
<1> QED
  BY <1>3, <1>4, <1>5 DEF TransitionStep

\* An operator's step: the loop revokes the entry it stands at, and a lease
\* that has no list owes nothing.
LEMMA RevokeKeeps ==
  ASSUME IInv, TypeOK', NEW t \in Threads, RevokeStep(t)
  PROVE  ThreadSound(t)'
<1> USE DEF gpp, log, aux
<1>1. TypeOK /\ ThreadSound(t) /\ t \in Revokers /\ pc[t] # "idle"
  BY KindOf DEF IInv, RevokeStep, RevokeList, RevokePermit, RevokeReturn
<1>2. t \notin Askers /\ t \notin Reporters
  BY <1>1, ThreadsAssumption
<1>3. RevokeSound(t) /\ obj[t] \in Leases /\ due[t] \subseteq Recorded(obj[t])
        /\ minted[obj[t]] \in Seq(PermitId)
  BY <1>1 DEF ThreadSound, RevokeSound, TypeOK
<1>4. ASSUME RevokeSound(t)', pc'[t] # "put" PROVE ThreadSound(t)'
  BY <1>2, <1>4 DEF ThreadSound, PutSound
<1>5. CASE RevokeList(t)
  <2>1. /\ pc'[t] = "loop" /\ obj'[t] = obj[t] /\ due'[t] = due[t]
        /\ i'[t] = IF minted[obj[t]] = <<>> THEN 0 ELSE 1
        /\ minted' = minted /\ revoked' = revoked
    BY <1>1, <1>5 DEF RevokeList, Goto, TypeOK
  <2>2. i'[t] = 0 => due[t] = {}
    <3>1. minted[obj[t]] = <<>> => Recorded(obj[t]) = {}
      BY DEF Recorded
    <3> QED
      BY <1>3, <2>1, <3>1
  <2>3. /\ i'[t] <= Len(minted[obj[t]]) + 1
        /\ \A k \in 1 .. Len(minted[obj[t]]) : ~ (k < i'[t])
    BY <1>3, <2>1
  <2> QED
    BY <1>3, <1>4, <2>1, <2>2, <2>3 DEF RevokeSound, RevokeLabels, Recorded
<1>6. CASE RevokePermit(t)
  <2> DEFINE l == obj[t]
  <2>1. /\ pc[t] = "loop" /\ pc'[t] = "loop" /\ obj'[t] = l /\ due'[t] = due[t]
        /\ i'[t] = i[t] + 1 /\ i[t] \in Nat /\ i[t] > 0 /\ i[t] <= Len(minted[l])
        /\ minted' = minted /\ revoked' = revoked \union {minted[l][i[t]]}
    BY <1>1, <1>6 DEF RevokePermit, MoreToRevoke, TypeOK
  <2>2. \A k \in 1 .. Len(minted[l]) : k < i[t] => minted[l][k] \in revoked
    BY <1>3, <2>1 DEF RevokeSound
  <2>3. Len(minted[l]) \in Nat
    BY <1>3
  <2>4. \A k \in 1 .. Len(minted[l]) : k < i'[t] => minted[l][k] \in revoked'
    BY <2>1, <2>2, <2>3
  <2>5. i'[t] <= Len(minted[l]) + 1 /\ i'[t] # 0
    BY <2>1, <2>3
  <2> QED
    BY <1>3, <1>4, <2>1, <2>4, <2>5 DEF RevokeSound, RevokeLabels, Recorded
<1>7. CASE RevokeReturn(t)
  BY <1>1, <1>7, ReturnSound DEF RevokeReturn
<1> QED
  BY <1>5, <1>6, <1>7 DEF RevokeStep

\* A sensor's step.
LEMMA ReportKeeps ==
  ASSUME IInv, TypeOK', NEW t \in Threads, ReportStep(t)
  PROVE  ThreadSound(t)'
<1> USE DEF gpp, log, aux
<1>1. TypeOK /\ ThreadSound(t) /\ t \in Reporters
  BY KindOf DEF IInv, ReportStep, ReportAll, ReportScan, ReportCheck, ReportReturn
<1>2. t \notin Askers /\ t \notin Revokers
  BY <1>1, ThreadsAssumption
<1>3. ASSUME ReportSound(t)', pc'[t] # "put" PROVE ThreadSound(t)'
  BY <1>2, <1>3 DEF ThreadSound, PutSound
<1>4. CASE ReportAll(t)
  <2>1. pc'[t] = "scan"
    BY <1>1, <1>4 DEF ReportAll, Goto, TypeOK
  <2> QED
    BY <1>3, <2>1 DEF ReportSound, ReportLabels
<1>5. CASE ReportScan(t)
  <2>1. \/ pc'[t] = "get" /\ ev'[t] = "suspend" /\ i'[t] = i[t] /\ i[t] \in Leases
        \/ pc'[t] = "check" /\ i'[t] = i[t] /\ i[t] \in Leases
        \/ pc'[t] = "scan"
    BY <1>1, <1>5 DEF ReportScan, Goto, TypeOK
  <2> QED
    BY <1>3, <2>1 DEF ReportSound, ReportLabels
<1>6. CASE ReportCheck(t)
  <2>1. i[t] \in Leases
    BY <1>1, <1>6 DEF ReportCheck, ThreadSound, ReportSound
  <2>2. \/ pc'[t] = "get" /\ ev'[t] = "resume" /\ i'[t] = i[t]
        \/ pc'[t] = "scan"
    BY <1>1, <1>6 DEF ReportCheck, Goto, TypeOK
  <2> QED
    BY <1>3, <2>1, <2>2 DEF ReportSound, ReportLabels
<1>7. CASE ReportReturn(t)
  BY <1>1, <1>7, ReturnSound DEF ReportReturn
<1> QED
  BY <1>4, <1>5, <1>6, <1>7 DEF ReportStep

\* Every step keeps the threads sound.
LEMMA ThreadsNext ==
  ASSUME IInv, TypeOK', Grows, [Next]_vars, NEW u \in Threads
  PROVE  ThreadSound(u)'
<1> USE DEF gpp, log, aux
<1>1. TypeOK
  BY DEF IInv
<1>2. ASSUME NEW t \in Askers, NEW r \in Requests, AskSnapshot(t, r) PROVE ThreadSound(u)'
  <2>1. t \in Threads /\ t \notin Revokers /\ t \notin Reporters
    BY ThreadsAssumption DEF Threads
  <2>2. CASE u = t
    <3>1. pc'[t] = "find" /\ obj'[t] = r
      BY <1>1, <1>2, <2>1 DEF AskSnapshot, Goto, TypeOK
    <3> QED
      BY <2>1, <2>2, <3>1 DEF ThreadSound, AskSound, PutSound, AskLabels, Held
  <2>3. CASE u # t
    <3>1. Same(u)
      BY <1>1, <1>2, <2>1, <2>3 DEF AskSnapshot, Goto, TypeOK, Same
    <3> QED
      BY <3>1, Quiet
  <2> QED
    BY <2>2, <2>3
<1>3. ASSUME NEW t \in Revokers, NEW l \in Leases, RevokeCall(t, l) PROVE ThreadSound(u)'
  <2>1. t \in Threads /\ t \notin Askers /\ t \notin Reporters
    BY ThreadsAssumption DEF Threads
  <2>2. CASE u = t
    <3>1. pc'[t] = "get" /\ obj'[t] = l /\ ev'[t] = "revoke" /\ due'[t] = Recorded(l)
            /\ minted' = minted
      BY <1>1, <1>3, <2>1 DEF RevokeCall, Goto, TypeOK
    <3> QED
      BY <2>1, <2>2, <3>1 DEF ThreadSound, RevokeSound, PutSound, RevokeLabels, Recorded
  <2>3. CASE u # t
    <3>1. Same(u)
      BY <1>1, <1>3, <2>1, <2>3 DEF RevokeCall, Goto, TypeOK, Same
    <3> QED
      BY <3>1, Quiet
  <2> QED
    BY <2>2, <2>3
<1>4. ASSUME NEW t \in Reporters, NEW holds \in BOOLEAN, ReportPut(t, holds) PROVE ThreadSound(u)'
  <2>1. t \in Threads /\ t \notin Askers /\ t \notin Revokers
    BY ThreadsAssumption DEF Threads
  <2>2. CASE u = t
    <3>1. pc'[t] = "all"
      BY <1>1, <1>4, <2>1 DEF ReportPut, Goto, TypeOK
    <3> QED
      BY <2>1, <2>2, <3>1 DEF ThreadSound, ReportSound, PutSound, ReportLabels
  <2>3. CASE u # t
    <3>1. Same(u)
      BY <1>1, <1>4, <2>1, <2>3 DEF ReportPut, Goto, TypeOK, Same
    <3> QED
      BY <3>1, Quiet
  <2> QED
    BY <2>2, <2>3
<1>5. ASSUME NEW t \in Threads, Continue(t) PROVE ThreadSound(u)'
  <2>1. CASE u = t
    BY <1>5, <2>1, AskKeeps, TransitionKeeps, RevokeKeeps, ReportKeeps DEF Continue
  <2>2. CASE u # t
    BY <1>1, <1>5, <2>2, Others, Quiet
  <2> QED
    BY <2>1, <2>2
<1>6. CASE Tick \/ UNCHANGED vars
  <2>1. Same(u)
    BY <1>6 DEF Tick, vars, Same
  <2> QED
    BY <2>1, Quiet
<1> QED
  BY <1>2, <1>3, <1>4, <1>5, <1>6 DEF Next

-----------------------------------------------------------------------------
(* The permits.                                                            *)

\* Which steps touch which part of the permit store: the lists change when an
\* agent appends, the closed calls when one returns, the effects when the
\* crossing dispatches.
LEMMA Writers ==
  ASSUME [Next]_vars
  PROVE  /\ minted' = minted \/ \E t \in Threads : AskRecord(t)
         /\ closed' = closed \/ \E t \in Threads : RevokeReturn(t)
         /\ spent' = spent \/ \E t \in Threads : Dispatch(t)
<1> USE DEF gpp, log, aux
<1>1. ASSUME NEW t \in Threads, AskStep(t)
      PROVE  /\ minted' = minted \/ AskRecord(t)
             /\ closed' = closed
             /\ spent' = spent \/ Dispatch(t)
  BY <1>1 DEF AskStep, AskFind, AskEvaluate, AskRemember, AskDenied, AskIssue, AskRecord,
    ConsumeGet, ConsumePut, AskAnswer, Dispatch, Reject
<1>2. ASSUME NEW t \in Threads, TransitionStep(t) \/ RevokeStep(t) \/ ReportStep(t)
      PROVE  minted' = minted /\ (closed' = closed \/ RevokeReturn(t)) /\ spent' = spent
  BY <1>2 DEF TransitionStep, TransitionGet, TransitionSkip, TransitionRaise, TransitionPut,
    RevokeStep, RevokeList, RevokePermit, RevokeReturn,
    ReportStep, ReportAll, ReportScan, ReportCheck, ReportReturn
<1> QED
  BY <1>1, <1>2 DEF Next, Continue, AskSnapshot, RevokeCall, ReportPut, Tick, vars

\* A call of revoke_lease that returns has revoked what it found: its loop
\* has passed the end of the list.
LEMMA ReturnedRevoked ==
  ASSUME IInv, NEW t \in Threads, RevokeReturn(t)
  PROVE  due[t] \subseteq revoked
<1>1. TypeOK /\ t \in Revokers /\ RevokeSound(t) /\ pc[t] = "loop" /\ ~ MoreToRevoke(t)
  BY KindOf DEF IInv, ThreadSound, RevokeReturn
<1> DEFINE l == obj[t]
<1>2. /\ due[t] \subseteq Recorded(l) /\ minted[l] \in Seq(PermitId) /\ i[t] \in Nat
      /\ i[t] = 0 => due[t] = {}
      /\ \A k \in 1 .. Len(minted[l]) : k < i[t] => minted[l][k] \in revoked
  BY <1>1 DEF RevokeSound, TypeOK
<1>3. CASE i[t] = 0
  BY <1>2, <1>3
<1>4. CASE i[t] # 0
  <2>1. i[t] > Len(minted[l])
    BY <1>1, <1>2, <1>4 DEF MoreToRevoke
  <2>2. \A k \in DOMAIN minted[l] : minted[l][k] \in revoked
    BY <1>2, <2>1
  <2> QED
    BY <1>2, <2>2 DEF Recorded
<1> QED
  BY <1>3, <1>4

\* What is listed is on file, what a call found is revoked.
LEMMA ListNext ==
  ASSUME IInv, TypeOK', Grows, [Next]_vars
  PROVE  ListSound'
<1>1. TypeOK /\ ListSound
  BY DEF IInv
<1>2. closed' \subseteq revoked'
  <2>1. CASE closed' = closed
    BY <1>1, <2>1 DEF ListSound, Grows
  <2>2. ASSUME NEW t \in Threads, RevokeReturn(t) PROVE closed' \subseteq revoked'
    BY <1>1, <2>2, ReturnedRevoked DEF RevokeReturn, ListSound, Grows
  <2> QED
    BY <2>1, <2>2, Writers
<1>3. ASSUME NEW l \in Leases PROVE Recorded(l)' \subseteq issued'
  <2>1. CASE minted' = minted
    BY <1>1, <2>1 DEF ListSound, Grows, Recorded
  <2>2. ASSUME NEW t \in Threads, AskRecord(t) PROVE Recorded(l)' \subseteq issued'
    <3>1. t \in Askers /\ pc[t] = "record"
      BY <2>2, KindOf DEF AskRecord
    <3>2. Lease(t) \in Leases /\ permit[t] \in issued
      BY <3>1, LeaseType DEF IInv, ThreadSound, AskSound, Held
    <3>3. permit[t] \in PermitId /\ minted[l] \in Seq(PermitId)
      BY <1>1, <3>2 DEF TypeOK
    <3>4. minted'[l] = minted[l] \/ minted'[l] = Append(minted[l], permit[t])
      BY <1>1, <2>2, <3>2 DEF AskRecord, TypeOK
    <3>5. \A k \in DOMAIN minted'[l] :
            minted'[l][k] = permit[t] \/ (k \in DOMAIN minted[l] /\ minted'[l][k] = minted[l][k])
      BY <3>3, <3>4
    <3> QED
      BY <1>1, <3>2, <3>5 DEF ListSound, Recorded, Grows
  <2> QED
    BY <2>1, <2>2, Writers
<1> QED
  BY <1>2, <1>3 DEF ListSound

\* The crossing spends the permit its agent carries.
LEMMA EffectsNext ==
  ASSUME IInv, TypeOK', Grows, [Next]_vars
  PROVE  EffectsAccounted'
<1>1. TypeOK /\ EffectsAccounted
  BY DEF IInv
<1>2. ASSUME NEW p \in spent
      PROVE  p \in Recorded(LeaseOf[p[1]])' /\ ReceiptOf(p[1], "ALLOW") \in receipts'
  <2> DEFINE l == LeaseOf[p[1]]
  <2>1. p[1] \in Requests
    BY <1>1 DEF TypeOK, PermitId
  <2>2. l \in Leases /\ p \in Recorded(l) /\ ReceiptOf(p[1], "ALLOW") \in receipts
    BY <1>1, <2>1, ThreadsAssumption DEF EffectsAccounted
  <2> QED
    BY <1>1, <2>2, RecordedGrows DEF Grows
<1>3. ASSUME NEW t \in Threads, Dispatch(t), NEW p, p = permit[t]
      PROVE  /\ spent' = spent \union {p}
             /\ p \in Recorded(LeaseOf[p[1]])' /\ ReceiptOf(p[1], "ALLOW") \in receipts'
  <2>1. t \in Askers /\ pc[t] = "dispatch"
    BY <1>3, KindOf DEF Dispatch
  <2>2. /\ p[1] = obj[t] /\ p \in Recorded(LeaseOf[obj[t]])
        /\ ReceiptOf(obj[t], "ALLOW") \in receipts
    BY <1>3, <2>1 DEF IInv, ThreadSound, AskSound, Held
  <2>3. minted' = minted /\ spent' = spent \union {p}
    BY <1>3 DEF Dispatch
  <2> QED
    BY <2>2, <2>3 DEF Recorded, Grows
<1>4. ASSUME NEW t \in Threads, Dispatch(t) PROVE EffectsAccounted'
  <2> DEFINE p == permit[t]
  <2>1. /\ spent' = spent \union {p}
        /\ \E q : q = p /\ q \in Recorded(LeaseOf[q[1]])' /\ ReceiptOf(q[1], "ALLOW") \in receipts'
    BY <1>3, <1>4
  <2> HIDE DEF p
  <2> QED
    BY <1>2, <2>1 DEF EffectsAccounted
<1>5. ASSUME spent' = spent PROVE EffectsAccounted'
  BY <1>2, <1>5 DEF EffectsAccounted
<1> QED
  BY <1>4, <1>5, Writers

-----------------------------------------------------------------------------
(* The invariant, and the properties it gives.                             *)

\* Nothing is stored and no thread is in a call.
LEMMA InitIInv == Init => IInv
<1> SUFFICES ASSUME Init PROVE IInv
  OBVIOUS
<1>1. TypeOK
  <2>1. NoCopy \in Copy
    BY DEF NoCopy, Copy, STATES
  <2>2. [state |-> "ACTIVE", remaining |-> Granted] \in Copy
    BY ThreadsAssumption DEF Copy, STATES
  <2>3. <<>> \in Seq(PermitId)
    OBVIOUS
  <2>4. overlap \in BOOLEAN
    BY DEF Init
  <2> QED
    BY <2>1, <2>2, <2>3, <2>4, ThreadsAssumption DEF Init, TypeOK, Labels, Events
<1>2. ASSUME NEW t \in Threads PROVE ThreadSound(t)
  <2>1. pc[t] = "idle"
    BY DEF Init
  <2> QED
    BY <2>1 DEF ThreadSound, AskSound, RevokeSound, ReportSound, PutSound, AskLabels,
      RevokeLabels, ReportLabels, Held
<1>3. ListSound /\ EffectsAccounted
  BY DEF Init, ListSound, EffectsAccounted, Recorded
<1> QED
  BY <1>1, <1>2, <1>3 DEF IInv

\* Every step keeps the invariant.
LEMMA NextIInv == IInv /\ [Next]_vars => IInv'
<1> SUFFICES ASSUME IInv, [Next]_vars PROVE IInv'
  OBVIOUS
<1>1. TypeOK' /\ Grows
  BY TypeNext, GrowsNext
<1> QED
  BY <1>1, ThreadsNext, ListNext, EffectsNext DEF IInv

\* The invariant holds throughout.
LEMMA SpecIInv == Spec => []IInv
  BY InitIInv, NextIInv, PTL DEF Spec

\* The stores and the locals of every thread hold what the code puts in them.
THEOREM TypeCorrect == Spec => []TypeOK
<1>1. IInv => TypeOK
  BY DEF IInv
<1> QED
  BY <1>1, SpecIInv, PTL

\* However many agents, operators and sensors interleave, and wherever an
\* exception ends a call: a permit that request_action spent is on the list
\* of its lease, where revoke_lease finds it, and its ALLOW receipt exists.
THEOREM EffectsOnRecord == Spec => []EffectsAccounted
<1>1. IInv => EffectsAccounted
  BY DEF IInv
<1> QED
  BY <1>1, SpecIInv, PTL

\* Once a revoke_lease call has returned, no permit that was on the lease's
\* list when the call began is spent, though permits are appended while its
\* loop runs and lost updates bring the lease itself back to life.
THEOREM RevocationReaches == Spec => RevokeReaches
<1>1. ASSUME IInv, [Next]_vars PROVE [(spent' \ spent) \intersect closed = {}]_vars
  <2>1. closed \subseteq revoked
    BY <1>1 DEF IInv, ListSound
  <2>2. ASSUME NEW t \in Threads, Dispatch(t)
        PROVE  spent' = spent \union {permit[t]} /\ permit[t] \notin revoked
    BY <2>2 DEF Dispatch, Usable
  <2> QED
    BY <1>1, <2>1, <2>2, Writers
<1> QED
  BY <1>1, SpecIInv, PTL DEF Spec, RevokeReaches

-----------------------------------------------------------------------------
(* The use limit, until two calls overlap.                                 *)

\* The numbers stay numbers.
LEMMA CountedNext ==
  ASSUME IInv, TypeOK', Counted, [Next]_vars
  PROVE  Counted'
<1> USE DEF gpp, log, aux
<1>1. TypeOK /\ NoCopy.remaining = 0
  BY DEF IInv, NoCopy
<1>2. ASSUME NEW t \in Threads, NEW c, copy' = [copy EXCEPT ![t] = c], c.remaining \in Nat
      PROVE  \A u \in Threads : copy'[u].remaining \in Nat
  BY <1>1, <1>2 DEF Counted, TypeOK
<1>3. ASSUME NEW l \in Leases, NEW c, store' = [store EXCEPT ![l] = c], c.remaining \in Nat
      PROVE  \A k \in Leases : store'[k].remaining \in Nat
  BY <1>1, <1>3 DEF Counted, TypeOK
<1>4. ASSUME NEW t \in Threads, Continue(t) PROVE Counted'
  <2>1. CASE store' = store /\ copy' = copy
    BY <2>1 DEF Counted
  <2>2. CASE store' = store /\ Drop(t)
    BY <1>1, <1>2, <2>2 DEF Counted, Drop
  <2>3. CASE AskFind(t) \/ ConsumeGet(t) \/ TransitionGet(t)
    <3>1. Lease(t) \in Leases
      BY <2>3, LeaseType, KindOf DEF AskFind, ConsumeGet, TransitionGet
    <3>2. /\ copy' = [copy EXCEPT ![t] = store[Lease(t)]] /\ store' = store
          /\ store[Lease(t)].remaining \in Nat
      BY <2>3, <3>1 DEF AskFind, ConsumeGet, TransitionGet, Counted
    <3> QED
      BY <1>2, <3>2 DEF Counted
  <2>4. CASE ConsumePut(t)
    <3> DEFINE new == [copy[t] EXCEPT !.remaining = UseOne(@)]
    <3>1. Lease(t) \in Leases
      BY <2>4, LeaseType, KindOf DEF ConsumePut
    <3>2. copy[t] \in Copy /\ copy[t].remaining \in Nat
      BY <1>1 DEF TypeOK, Counted
    <3>3. new.remaining = UseOne(copy[t].remaining)
      BY <3>2 DEF Copy
    <3>4. UseOne(copy[t].remaining) \in Nat
      BY <3>2, NoLimitAssumption DEF UseOne
    <3>5. store' = [store EXCEPT ![Lease(t)] = new] /\ Drop(t)
      BY <2>4 DEF ConsumePut
    <3> HIDE DEF new
    <3> QED
      BY <1>1, <1>2, <1>3, <3>1, <3>3, <3>4, <3>5 DEF Counted, Drop
  <2>5. CASE TransitionPut(t)
    <3> DEFINE new == [copy[t] EXCEPT !.state = TRANSITIONS[@][ev[t]]]
    <3>1. Lease(t) \in Leases
      BY <2>5, LeaseType DEF TransitionPut
    <3>2. copy[t] \in Copy /\ copy[t].remaining \in Nat
      BY <1>1 DEF TypeOK, Counted
    <3>3. new.remaining = copy[t].remaining
      BY <3>2 DEF Copy
    <3>4. store' = [store EXCEPT ![Lease(t)] = new] /\ Drop(t)
      BY <2>5 DEF TransitionPut
    <3> HIDE DEF new
    <3> QED
      BY <1>1, <1>2, <1>3, <3>1, <3>2, <3>3, <3>4 DEF Counted, Drop
  <2>6. CASE \/ AskEvaluate(t) \/ AskDenied(t) \/ Dispatch(t) \/ Reject(t)
             \/ TransitionRaise(t) \/ RevokeReturn(t) \/ ReportReturn(t)
    BY <2>2, <2>6 DEF AskEvaluate, AskDenied, Dispatch, Reject, TransitionRaise, RevokeReturn,
      ReportReturn, Return
  <2>7. CASE \/ AskRemember(t) \/ AskIssue(t) \/ AskRecord(t) \/ AskAnswer(t)
             \/ TransitionSkip(t) \/ RevokeList(t) \/ RevokePermit(t)
             \/ ReportAll(t) \/ ReportScan(t) \/ ReportCheck(t)
    BY <2>1, <2>7 DEF AskRemember, AskIssue, AskRecord, AskAnswer, TransitionSkip, RevokeList,
      RevokePermit, ReportAll, ReportScan, ReportCheck
  <2> QED
    BY <1>4, <2>3, <2>4, <2>5, <2>6, <2>7
    DEF Continue, AskStep, TransitionStep, RevokeStep, ReportStep
<1>5. ASSUME store' = store, copy' = copy PROVE Counted'
  BY <1>5 DEF Counted
<1> QED
  BY <1>4, <1>5 DEF Next, AskSnapshot, RevokeCall, ReportPut, Tick, vars

\* Steps that leave the lists alone, write no lease back into force and
\* neither begin nor end what an agent owes.
LEMMA LimitFrame ==
  ASSUME TypeOK, Core, minted' = minted,
         \A l \in Leases : store'[l] = store[l] \/ store'[l].state \in TERMINAL_STATES,
         \A l \in Leases : Owed(l)' = Owed(l),
         \A t \in Restorers : pc'[t] # "idle" => Alone(t)',
         \A t \in Askers : pc'[t] \in {"evaluate", "use", "allow", "issue", "record"} =>
                             pc'[t] = pc[t] /\ obj'[t] = obj[t] /\ copy'[t] = copy[t],
         \A t \in Reporters : pc'[t] = "put" =>
                                pc[t] = "put" /\ i'[t] = i[t] /\ copy'[t] = copy[t]
  PROVE  Core'
<1>1. ASSUME NEW l \in Leases PROVE Len(minted'[l]) <= Granted /\ Fits(store[l], l, Owed(l))'
  BY DEF Core, Fits
<1>2. ASSUME NEW t \in Askers PROVE AskFits(t)'
  <2>1. AskFits(t)
    BY DEF Core
  <2> QED
    BY <2>1 DEF AskFits, Fits
<1>3. ASSUME NEW t \in Reporters PROVE ReportFits(t)'
  <2>1. ReportFits(t)
    BY DEF Core
  <2> QED
    BY <2>1 DEF ReportFits, Fits
<1> QED
  BY <1>1, <1>2, <1>3 DEF Core

\* Agents and sensors take turns, and go on doing so.
LEMMA Turns ==
  ASSUME IInv, Core, NEW t \in Threads, Continue(t)
  PROVE  /\ t \in Restorers => \A u \in Restorers \ {t} : pc[u] = "idle" /\ pc'[u] = "idle"
         /\ \A u \in Restorers : pc'[u] # "idle" => Alone(u)'
<1>1. TypeOK /\ pc[t] # "idle" /\ Restorers \subseteq Threads
  BY DEF IInv, Restorers, Threads, Continue, AskStep, TransitionStep, RevokeStep, ReportStep,
    AskFind, AskEvaluate, AskRemember, AskDenied, AskIssue, AskRecord, ConsumeGet, ConsumePut,
    AskAnswer, Dispatch, Reject, TransitionGet, TransitionSkip, TransitionRaise, TransitionPut,
    RevokeList, RevokePermit, RevokeReturn, ReportAll, ReportScan, ReportCheck, ReportReturn
<1>2. \A u \in Restorers \ {t} : pc'[u] = pc[u]
  BY <1>1, Others DEF Same
<1>3. CASE t \in Restorers
  <2>1. \A u \in Restorers \ {t} : pc[u] = "idle"
    BY <1>1, <1>3 DEF Core, Alone
  <2> QED
    BY <1>2, <2>1 DEF Alone
<1>4. CASE t \notin Restorers
  <2>1. \A u \in Restorers : pc'[u] = pc[u]
    BY <1>2, <1>4
  <2> QED
    BY <1>4, <2>1 DEF Core, Alone
<1> QED
  BY <1>3, <1>4

\* The agent whose turn it is, its lease and the numbers of its call.
LEMMA AskFacts ==
  ASSUME IInv, Counted, Core, Granted # NoLimit, NEW t \in Threads, AskStep(t)
  PROVE  /\ t \in Askers /\ \A s \in Restorers \ {t} : pc[s] = "idle" /\ pc'[s] = "idle"
         /\ obj[t] \in Requests /\ LeaseOf[obj[t]] \in Leases /\ Lease(t) = LeaseOf[obj[t]]
         /\ Granted \in Nat /\ Granted > 0
         /\ AskFits(t) /\ copy[t].remaining \in Nat
         /\ \A l \in Leases : /\ Owed(l) = IF Owes(t, l) THEN 1 ELSE 0
                              /\ Owed(l)' = IF Owes(t, l)' THEN 1 ELSE 0
         /\ \A l \in Leases : minted[l] \in Seq(PermitId) /\ Len(minted[l]) \in Nat
                                /\ Len(minted[l]) <= Granted
                                /\ store[l].remaining \in Nat
                                /\ Fits(store[l], l, IF Owes(t, l) THEN 1 ELSE 0)
<1>1. t \in Askers /\ pc[t] # "idle"
  BY KindOf DEF AskStep, AskFind, AskEvaluate, AskRemember, AskDenied, AskIssue, AskRecord,
    ConsumeGet, ConsumePut, AskAnswer, Dispatch, Reject
<1>2. \A s \in Restorers \ {t} : pc[s] = "idle" /\ pc'[s] = "idle"
  BY <1>1, Turns DEF Continue, Restorers
<1>3. obj[t] \in Requests
  BY <1>1 DEF IInv, ThreadSound, AskSound
<1>4. Lease(t) \in Leases /\ Lease(t) = LeaseOf[obj[t]]
  BY <1>1, LeaseType, LeaseIs
<1>5. Granted \in Nat /\ Granted > 0
  BY ThreadsAssumption
<1>6. \A l \in Leases : minted[l] \in Seq(PermitId) /\ Len(minted[l]) \in Nat
  BY DEF IInv, TypeOK
<1>7. ASSUME NEW l \in Leases
      PROVE  /\ Owed(l) = IF Owes(t, l) THEN 1 ELSE 0
             /\ Owed(l)' = IF Owes(t, l)' THEN 1 ELSE 0
  <2>1. \A s \in Askers : s # t => ~ Owes(s, l) /\ ~ Owes(s, l)'
    BY <1>2 DEF Owes, Restorers
  <2> QED
    BY <1>1, <2>1 DEF Owed
<1>8. ASSUME NEW l \in Leases
      PROVE  /\ Len(minted[l]) <= Granted /\ store[l].remaining \in Nat
             /\ Fits(store[l], l, IF Owes(t, l) THEN 1 ELSE 0)
  BY <1>7 DEF Core, Counted
<1>9. AskFits(t) /\ copy[t].remaining \in Nat
  BY <1>1 DEF Core, Counted
<1> QED
  BY <1>1, <1>2, <1>3, <1>4, <1>5, <1>6, <1>7, <1>8, <1>9

\* An agent's step: the evaluator lets a request through only while a use is
\* left, the list grows by the one permit, and the write that follows takes
\* the use, also where a revocation came between its read and its write.
LEMMA AskLimit ==
  ASSUME IInv, TypeOK', Counted, Core, Granted # NoLimit, NEW t \in Threads, AskStep(t)
  PROVE  Core'
<1> USE DEF gpp, log, aux
<1> DEFINE l == LeaseOf[obj[t]]
<1>1. TypeOK
  BY DEF IInv
<1>2. /\ t \in Askers /\ \A s \in Restorers \ {t} : pc[s] = "idle" /\ pc'[s] = "idle"
      /\ obj[t] \in Requests /\ l \in Leases /\ Lease(t) = l
      /\ Granted \in Nat /\ Granted > 0
      /\ AskFits(t) /\ copy[t].remaining \in Nat
      /\ \A k \in Leases : minted[k] \in Seq(PermitId) /\ Len(minted[k]) \in Nat
                             /\ Len(minted[k]) <= Granted
                             /\ store[k].remaining \in Nat
                             /\ Fits(store[k], k, IF Owes(t, k) THEN 1 ELSE 0)
  BY AskFacts
<1>3. /\ \A k \in Leases : Owed(k)' = IF Owes(t, k)' THEN 1 ELSE 0
      /\ \A k \in Leases : Owed(k) = IF Owes(t, k) THEN 1 ELSE 0
  BY AskFacts
<1>4. \A u \in Restorers : pc'[u] # "idle" => Alone(u)'
  BY Turns DEF Continue
<1>5. ASSUME \A k \in Leases : Len(minted'[k]) <= Granted,
             \A k \in Leases : Fits(store[k], k, IF Owes(t, k) THEN 1 ELSE 0)',
             AskFits(t)'
      PROVE  Core'
  <2>1. ASSUME NEW s \in Askers PROVE AskFits(s)'
    <3>1. s # t => pc'[s] = "idle"
      BY <1>2 DEF Restorers
    <3> QED
      BY <1>5, <3>1 DEF AskFits
  <2>2. ASSUME NEW s \in Reporters PROVE ReportFits(s)'
    <3>1. s # t /\ pc'[s] = "idle"
      BY <1>2, ThreadsAssumption DEF Restorers
    <3> QED
      BY <3>1 DEF ReportFits
  <2>3. \A k \in Leases : Fits(store[k], k, Owed(k))'
    BY <1>3, <1>5 DEF Fits
  <2> QED
    BY <1>4, <1>5, <2>1, <2>2, <2>3 DEF Core
<1>6. ASSUME minted' = minted, store' = store, obj'[t] = obj[t], pc[t] \notin {"consume", "use"},
             pc'[t] \notin {"consume", "use"}, AskFits(t)'
      PROVE  Core'
  <2>1. \A k \in Leases : ~ Owes(t, k) /\ ~ Owes(t, k)'
    BY <1>6 DEF Owes
  <2>2. \A k \in Leases : Fits(store[k], k, IF Owes(t, k) THEN 1 ELSE 0)'
    BY <1>2, <1>6, <2>1 DEF Fits
  <2> QED
    BY <1>2, <1>5, <1>6, <2>2
<1>7. CASE AskFind(t)
  <2>1. /\ pc[t] = "find" /\ pc'[t] = "evaluate" /\ obj'[t] = obj[t] /\ copy'[t] = store[l]
        /\ minted' = minted /\ store' = store
    BY <1>1, <1>2, <1>7 DEF AskFind, Goto, TypeOK
  <2>2. AskFits(t)'
    BY <1>2, <2>1 DEF AskFits, Fits, Owes
  <2> QED
    BY <1>6, <2>1, <2>2
<1>8. CASE AskEvaluate(t)
  <2>1. /\ pc[t] = "evaluate" /\ obj'[t] = obj[t]
        /\ pc'[t] = IF Allows(t) THEN "allow" ELSE "deny"
        /\ minted' = minted /\ store' = store
    BY <1>1, <1>2, <1>8 DEF AskEvaluate, Goto, Drop, TypeOK
  <2>2. Allows(t) => Len(minted[l]) < Granted
    <3>1. copy[t].state = "ACTIVE" => copy[t].remaining + Len(minted[l]) <= Granted + 0
      BY <1>2, <2>1 DEF AskFits, Fits, TERMINAL_STATES
    <3>2. Allows(t) => copy[t].state = "ACTIVE" /\ copy[t].remaining # 0
      BY DEF Allows
    <3>3. Len(minted[l]) \in Nat
      BY <1>2
    <3> HIDE DEF l
    <3> QED
      BY <1>2, <3>1, <3>2, <3>3
  <2>3. AskFits(t)'
    BY <1>2, <2>1, <2>2 DEF AskFits
  <2> QED
    BY <1>6, <2>1, <2>3
<1>9. CASE AskRemember(t) \/ AskIssue(t)
  <2>1. /\ pc[t] \in {"allow", "issue"} /\ obj'[t] = obj[t]
        /\ pc'[t] \in {"issue", "record"}
        /\ minted' = minted /\ store' = store
    BY <1>1, <1>2, <1>9 DEF AskRemember, AskIssue, Goto, TypeOK
  <2>2. AskFits(t)'
    BY <1>2, <2>1 DEF AskFits
  <2> QED
    BY <1>6, <2>1, <2>2
<1>10. CASE AskDenied(t) \/ AskAnswer(t) \/ Dispatch(t) \/ Reject(t)
  <2>1. /\ pc[t] \in {"deny", "answer", "dispatch"} /\ pc'[t] \in {"idle", "dispatch"}
        /\ minted' = minted /\ store' = store
    BY <1>1, <1>2, <1>10 DEF AskDenied, AskAnswer, Dispatch, Reject, Return, Goto, TypeOK
  <2>2. \A k \in Leases : ~ Owes(t, k) /\ ~ Owes(t, k)'
    BY <2>1 DEF Owes
  <2>3. \A k \in Leases : Fits(store[k], k, IF Owes(t, k) THEN 1 ELSE 0)'
    BY <1>2, <2>1, <2>2 DEF Fits
  <2>4. AskFits(t)'
    BY <2>1 DEF AskFits
  <2> QED
    BY <1>2, <1>5, <2>1, <2>3, <2>4
<1>11. CASE AskRecord(t)
  <2>1. /\ pc[t] = "record" /\ pc'[t] = "consume" /\ obj'[t] = obj[t]
        /\ minted'[l] = Append(minted[l], permit[t])
        /\ \A k \in Leases \ {l} : minted'[k] = minted[k]
        /\ store' = store
    BY <1>1, <1>2, <1>11 DEF AskRecord, Goto, TypeOK
  <2>2. permit[t] \in PermitId
    BY <1>1, <1>2, <2>1 DEF IInv, ThreadSound, AskSound, Held, TypeOK
  <2>3. Len(minted'[l]) = Len(minted[l]) + 1
    BY <1>2, <2>1, <2>2
  <2>4. Len(minted[l]) < Granted
    BY <1>2, <2>1 DEF AskFits
  <2>5. \A k \in Leases : Len(minted'[k]) <= Granted
    BY <1>2, <2>1, <2>3, <2>4
  <2>6. \A k \in Leases : ~ Owes(t, k) /\ (Owes(t, k)' <=> k = l)
    BY <2>1 DEF Owes
  <2>7. ASSUME NEW k \in Leases PROVE Fits(store[k], k, IF Owes(t, k) THEN 1 ELSE 0)'
    <3>1. store[k].state \notin TERMINAL_STATES =>
            store[k].remaining + Len(minted[k]) <= Granted + 0
      BY <1>2, <2>6 DEF Fits
    <3>2. store[k].remaining \in Nat /\ Len(minted[k]) \in Nat
      BY <1>2
    <3>3. CASE k = l
      <4>1. store'[k].state \notin TERMINAL_STATES =>
              store'[k].remaining + Len(minted'[k]) <= Granted + 1
        <5>1. Len(minted'[k]) = Len(minted[k]) + 1 /\ store'[k] = store[k]
          BY <2>1, <2>3, <3>3
        <5> QED
          BY <1>2, <3>1, <3>2, <5>1
      <4> QED
        BY <2>6, <3>3, <4>1 DEF Fits
    <3>4. CASE k # l
      <4>1. store'[k].state \notin TERMINAL_STATES =>
              store'[k].remaining + Len(minted'[k]) <= Granted + 0
        BY <2>1, <3>1, <3>4
      <4> QED
        BY <2>6, <3>4, <4>1 DEF Fits
    <3> QED
      BY <3>3, <3>4
  <2>8. AskFits(t)'
    BY <2>1 DEF AskFits
  <2> QED
    BY <1>5, <2>5, <2>7, <2>8
<1>12. CASE ConsumeGet(t)
  <2>1. /\ pc[t] = "consume" /\ pc'[t] = "use" /\ obj'[t] = obj[t] /\ copy'[t] = store[l]
        /\ minted' = minted /\ store' = store
    BY <1>1, <1>2, <1>12 DEF ConsumeGet, Goto, TypeOK
  <2>2. \A k \in Leases : (Owes(t, k) <=> k = l) /\ (Owes(t, k)' <=> k = l)
    BY <2>1 DEF Owes
  <2>3. \A k \in Leases : Fits(store[k], k, IF Owes(t, k) THEN 1 ELSE 0)'
    BY <1>2, <2>1, <2>2 DEF Fits
  <2>4. AskFits(t)'
    BY <1>2, <2>1, <2>2 DEF AskFits, Fits
  <2> QED
    BY <1>2, <1>5, <2>1, <2>3, <2>4
<1>13. CASE ConsumePut(t)
  <2> DEFINE new == [copy[t] EXCEPT !.remaining = UseOne(@)]
  <2>1. /\ pc[t] = "use" /\ pc'[t] \in {"get", "answer"} /\ obj'[t] = obj[t]
        /\ store'[l] = new /\ \A k \in Leases \ {l} : store'[k] = store[k]
        /\ minted' = minted
    BY <1>1, <1>2, <1>13 DEF ConsumePut, Goto, Drop, TypeOK
  <2>2. copy[t] \in Copy
    BY <1>1 DEF TypeOK
  <2>3. new.state = copy[t].state /\ new.remaining = UseOne(copy[t].remaining)
    BY <2>2 DEF Copy
  <2>4. /\ copy[t].remaining = 0 => new.remaining = 0
        /\ copy[t].remaining # 0 => new.remaining = copy[t].remaining - 1
    BY <1>2, <2>3, NoLimitAssumption DEF UseOne
  <2> HIDE DEF new
  <2>5. copy[t].state \notin TERMINAL_STATES =>
          copy[t].remaining + Len(minted[l]) <= Granted + 1
    BY <1>2, <2>1 DEF AskFits, Fits
  <2>6. new.state \notin TERMINAL_STATES => new.remaining + Len(minted[l]) <= Granted
    <3>1. Len(minted[l]) \in Nat /\ Len(minted[l]) <= Granted
      BY <1>2
    <3> HIDE DEF l
    <3> QED
      BY <1>2, <2>3, <2>4, <2>5, <3>1
  <2>7. \A k \in Leases : (Owes(t, k) <=> k = l) /\ ~ Owes(t, k)'
    BY <2>1 DEF Owes
  <2>8. ASSUME NEW k \in Leases PROVE Fits(store[k], k, IF Owes(t, k) THEN 1 ELSE 0)'
    <3>1. store'[k].state \notin TERMINAL_STATES =>
            store'[k].remaining + Len(minted'[k]) <= Granted + 0
      <4>1. CASE k = l
        BY <1>2, <2>1, <2>6, <4>1
      <4>2. CASE k # l
        BY <1>2, <2>1, <2>7, <4>2 DEF Fits
      <4> QED
        BY <4>1, <4>2
    <3> QED
      BY <2>7, <3>1 DEF Fits
  <2>9. AskFits(t)'
    BY <2>1 DEF AskFits
  <2> QED
    BY <1>2, <1>5, <2>1, <2>8, <2>9
<1> QED
  BY <1>7, <1>8, <1>9, <1>10, <1>11, <1>12, <1>13 DEF AskStep

\* What agents owe while none of them enters or leaves _consume.
LEMMA OwedSame ==
  ASSUME NEW l \in Leases,
         \A s \in Askers : \/ pc'[s] = pc[s] /\ obj'[s] = obj[s]
                           \/ {pc[s], pc'[s]} \intersect {"consume", "use"} = {}
  PROVE  Owed(l)' = Owed(l)
<1>1. \A s \in Askers : Owes(s, l)' <=> Owes(s, l)
  BY DEF Owes
<1> QED
  BY <1>1 DEF Owed

\* A step inside _transition: an exhausted or revoked lease has ended; the
\* copy a sensor writes back was read during its own call, when no agent
\* asked, so it promises no more than the store.
LEMMA TransitionLimit ==
  ASSUME IInv, TypeOK', Core, Granted # NoLimit, NEW t \in Threads, TransitionStep(t)
  PROVE  Core'
<1> USE DEF gpp, log, aux
<1> DEFINE k == Lease(t)
<1>1. TypeOK /\ ThreadSound(t) /\ pc[t] \in {"get", "put"}
  BY DEF IInv, TransitionStep, TransitionGet, TransitionSkip, TransitionRaise, TransitionPut
<1>2. k \in Leases /\ ev[t] \in {"exhaust", "revoke", "suspend", "resume"}
  BY <1>1, LeaseType, EventIs
<1>3. \A u \in Threads \ {t} : Same(u)
  BY <1>1, Others DEF Continue
<1>4. \A u \in Restorers : pc'[u] # "idle" => Alone(u)'
  BY Turns DEF Continue
<1>5. pc'[t] \in {"put", "idle", "answer", "list", "check", "scan"}
  <2>1. After(ev[t]) \in {"answer", "list", "check", "scan"}
    BY <1>2, AfterIs
  <2> QED
    BY <1>1, <2>1 DEF TransitionStep, TransitionGet, TransitionSkip, TransitionRaise,
      TransitionPut, Return, Goto, TypeOK
<1>6. minted' = minted
  BY DEF TransitionStep, TransitionGet, TransitionSkip, TransitionRaise, TransitionPut
<1>7. ASSUME NEW s \in Askers
      PROVE  \/ pc'[s] = pc[s] /\ obj'[s] = obj[s] /\ copy'[s] = copy[s]
             \/ {pc[s], pc'[s]} \intersect
                  {"consume", "use", "evaluate", "allow", "issue", "record"} = {}
  <2>1. CASE s = t
    BY <1>1, <1>5, <2>1
  <2>2. CASE s # t
    BY <1>3, <2>2 DEF Same, Threads
  <2> QED
    BY <2>1, <2>2
<1>8. \A l \in Leases : Owed(l)' = Owed(l)
  <2>1. \A s \in Askers : \/ pc'[s] = pc[s] /\ obj'[s] = obj[s]
                          \/ {pc[s], pc'[s]} \intersect {"consume", "use"} = {}
    BY <1>7
  <2> QED
    BY <2>1, OwedSame
<1>9. \A s \in Askers : pc'[s] \in {"evaluate", "use", "allow", "issue", "record"} =>
                          pc'[s] = pc[s] /\ obj'[s] = obj[s] /\ copy'[s] = copy[s]
  BY <1>7
<1>10. ASSUME NEW s \in Reporters, s # t, pc'[s] = "put"
       PROVE  pc[s] = "put" /\ i'[s] = i[s] /\ copy'[s] = copy[s]
  BY <1>3, <1>10 DEF Same, Threads
<1>11. ASSUME t \in Reporters PROVE k = i[t] /\ \A l \in Leases : Owed(l) = 0
  <2>1. \A s \in Askers : pc[s] = "idle"
    BY <1>11, Turns, ThreadsAssumption DEF Continue, Restorers
  <2> QED
    BY <1>11, <2>1, LeaseIs DEF Owed, Owes
<1>12. CASE TransitionGet(t) /\ t \in Reporters
  <2>1. /\ pc'[t] = "put" /\ copy'[t] = store[k] /\ store' = store /\ i' = i
    BY <1>1, <1>12 DEF TransitionGet, Goto, TypeOK
  <2>2. Fits(store[k], k, 0)
    BY <1>2, <1>11, <1>12 DEF Core
  <2>3. ReportFits(t)'
    BY <1>6, <1>11, <1>12, <2>1, <2>2 DEF ReportFits, Fits
  <2>4. ASSUME NEW s \in Reporters PROVE ReportFits(s)'
    <3>1. CASE s = t
      BY <2>3, <3>1
    <3>2. CASE s # t
      BY <1>6, <1>10, <3>2 DEF Core, ReportFits, Fits
    <3> QED
      BY <3>1, <3>2
  <2>5. \A l \in Leases : Len(minted'[l]) <= Granted /\ Fits(store[l], l, Owed(l))'
    BY <1>6, <1>8, <2>1 DEF Core, Fits
  <2>6. \A s \in Askers : AskFits(s)'
    BY <1>6, <1>9 DEF Core, AskFits, Fits
  <2> QED
    BY <1>4, <2>4, <2>5, <2>6 DEF Core
<1>13. CASE TransitionPut(t) /\ t \in Reporters
  <2> DEFINE new == [copy[t] EXCEPT !.state = TRANSITIONS[@][ev[t]]]
  <2>1. copy[t] \in Copy /\ Applies(copy[t].state, ev[t])
    BY <1>1, <1>13 DEF TransitionPut, ThreadSound, PutSound, TypeOK
  <2>2. new.remaining = copy[t].remaining
    BY <2>1 DEF Copy
  <2>3. copy[t].state \notin TERMINAL_STATES
    BY <2>1 DEF Applies, TRANSITIONS, TERMINAL_STATES
  <2>4. /\ store'[k] = new /\ \A l \in Leases \ {k} : store'[l] = store[l]
        /\ pc[t] = "put" /\ pc'[t] # "put"
    BY <1>1, <1>2, <1>13, AfterIs DEF TransitionPut, Goto, TypeOK
  <2> HIDE DEF new
  <2>5. copy[t].remaining + Len(minted[k]) <= Granted + 0
    <3>1. ReportFits(t)
      BY <1>13 DEF Core
    <3> QED
      BY <1>11, <1>13, <2>3, <2>4, <3>1 DEF ReportFits, Fits
  <2>6. ASSUME NEW l \in Leases
        PROVE  Len(minted'[l]) <= Granted /\ Fits(store[l], l, Owed(l))'
    <3>1. Len(minted[l]) <= Granted /\ Fits(store[l], l, 0)
      BY <1>11, <1>13 DEF Core
    <3>2. Owed(l)' = 0
      BY <1>8, <1>11, <1>13
    <3>3. CASE l = k
      <4>1. store'[l].remaining + Len(minted'[l]) <= Granted + 0
        BY <1>6, <2>2, <2>4, <2>5, <3>3
      <4> QED
        BY <1>6, <3>1, <3>2, <4>1 DEF Fits
    <3>4. CASE l # k
      BY <1>6, <2>4, <3>1, <3>2, <3>4 DEF Fits
    <3> QED
      BY <3>3, <3>4
  <2>7. ASSUME NEW s \in Reporters PROVE ReportFits(s)'
    <3>1. CASE s = t
      BY <2>4, <3>1 DEF ReportFits
    <3>2. CASE s # t
      BY <1>6, <1>10, <3>2 DEF Core, ReportFits, Fits
    <3> QED
      BY <3>1, <3>2
  <2>8. \A s \in Askers : AskFits(s)'
    BY <1>6, <1>9 DEF Core, AskFits, Fits
  <2> QED
    BY <1>4, <2>6, <2>7, <2>8 DEF Core
<1>14. CASE ~ (TransitionGet(t) /\ t \in Reporters) /\ ~ (TransitionPut(t) /\ t \in Reporters)
  <2>1. ASSUME NEW l \in Leases
        PROVE  store'[l] = store[l] \/ store'[l].state \in TERMINAL_STATES
    <3>1. CASE store' = store
      BY <3>1
    <3>2. CASE TransitionPut(t)
      <4> DEFINE new == [copy[t] EXCEPT !.state = TRANSITIONS[@][ev[t]]]
      <4>1. copy[t] \in Copy /\ copy[t].state \in STATES /\ Applies(copy[t].state, ev[t])
        BY <1>1, <3>2, CopyType DEF TransitionPut, ThreadSound, PutSound, TypeOK
      <4>2. ev[t] \in {"exhaust", "revoke"}
        BY <1>1, <1>14, <3>2, EventIs DEF Threads
      <4>3. TRANSITIONS[copy[t].state][ev[t]] \in TERMINAL_STATES
        BY <4>1, <4>2 DEF STATES, TERMINAL_STATES, Applies, TRANSITIONS
      <4>4. new.state = TRANSITIONS[copy[t].state][ev[t]]
        BY <4>1 DEF Copy
      <4>5. store'[l] = store[l] \/ store'[l] = new
        BY <1>1, <1>2, <3>2 DEF TransitionPut, TypeOK
      <4> QED
        BY <4>3, <4>4, <4>5
    <3> QED
      BY <3>1, <3>2 DEF TransitionStep, TransitionGet, TransitionSkip, TransitionRaise
  <2>2. ASSUME NEW s \in Reporters, pc'[s] = "put"
        PROVE  pc[s] = "put" /\ i'[s] = i[s] /\ copy'[s] = copy[s]
    <3>1. s # t
      <4>1. ASSUME t \in Reporters PROVE pc'[t] # "put"
        <5>1. TransitionSkip(t) \/ TransitionRaise(t)
          BY <1>14, <4>1 DEF TransitionStep
        <5>2. After(ev[t]) # "put"
          BY <1>2, AfterIs
        <5> QED
          BY <1>1, <5>1, <5>2 DEF TransitionSkip, TransitionRaise, Return, Goto, TypeOK
      <4> QED
        BY <2>2, <4>1
    <3> QED
      BY <1>10, <2>2, <3>1
  <2> QED
    BY <1>1, <1>4, <1>6, <1>8, <1>9, <2>1, <2>2, LimitFrame
<1> QED
  BY <1>12, <1>13, <1>14

\* The steps of operators, the loop of a sensor, the clock, and the start of
\* a call, which finds the others idle.
LEMMA OtherLimit ==
  ASSUME IInv, TypeOK', Core, ~ overlap',
         \/ \E t \in Askers, r \in Requests : AskSnapshot(t, r)
         \/ \E t \in Revokers, l \in Leases : RevokeCall(t, l)
         \/ \E t \in Reporters, holds \in BOOLEAN : ReportPut(t, holds)
         \/ \E t \in Threads : RevokeStep(t) \/ ReportStep(t)
         \/ Tick \/ UNCHANGED vars
  PROVE  Core'
<1> USE DEF gpp, log, aux
<1>1. TypeOK /\ Restorers \subseteq Threads
  BY DEF IInv, Restorers, Threads
<1>2. minted' = minted /\ store' = store
  BY DEF AskSnapshot, RevokeCall, RevokeStep, RevokeList, RevokePermit, RevokeReturn, ReportPut,
    ReportStep, ReportAll, ReportScan, ReportCheck, ReportReturn, Tick, vars
<1> DEFINE Kept(s) == pc'[s] = pc[s] /\ obj'[s] = obj[s] /\ copy'[s] = copy[s] /\ i'[s] = i[s]
           Fine(s) == \/ Kept(s)
                      \/ {pc[s], pc'[s]} \subseteq {"idle", "find", "all", "scan", "check", "get"}
<1>3. /\ \A s \in Restorers : Fine(s)
      /\ \A s \in Restorers : pc'[s] # "idle" => Alone(s)'
  <2>1. ASSUME NEW t \in Threads, RevokeStep(t) \/ ReportStep(t)
        PROVE  \A s \in Restorers : Fine(s)
    <3>1. CASE RevokeStep(t)
      <4>1. t \in Revokers
        BY <3>1, KindOf DEF RevokeStep, RevokeList, RevokePermit, RevokeReturn
      <4>2. \A s \in Restorers : s # t
        BY <4>1, ThreadsAssumption DEF Restorers
      <4>3. \A s \in Restorers : Same(s)
        BY <1>1, <2>1, <4>2, Others DEF Continue
      <4> QED
        BY <4>3 DEF Same
    <3>2. CASE ReportStep(t)
      <4>1. {pc[t], pc'[t]} \subseteq {"idle", "find", "all", "scan", "check", "get"}
        BY <1>1, <3>2 DEF ReportStep, ReportAll, ReportScan, ReportCheck, ReportReturn, Return,
          Goto, TypeOK
      <4>2. \A s \in Restorers \ {t} : Same(s)
        BY <1>1, <2>1, Others DEF Continue
      <4> QED
        BY <4>1, <4>2 DEF Same
    <3> QED
      BY <2>1, <3>1, <3>2
  <2>2. CASE \E t \in Threads : RevokeStep(t) \/ ReportStep(t)
    BY <2>1, <2>2, Turns DEF Continue
  <2>3. ASSUME NEW t \in Restorers, Begin(t), pc[t] = "idle",
               pc' = [pc EXCEPT ![t] = "find"] \/ pc' = [pc EXCEPT ![t] = "all"],
               \A s \in Restorers \ {t} : Kept(s)
        PROVE  /\ \A s \in Restorers : Fine(s)
               /\ \A s \in Restorers : pc'[s] # "idle" => Alone(s)'
    <3>1. \A s \in Restorers \ {t} : pc[s] = "idle" /\ pc'[s] = "idle"
      BY <2>3 DEF Begin
    <3>2. pc'[t] \in {"find", "all"}
      BY <1>1, <2>3 DEF TypeOK
    <3> QED
      BY <2>3, <3>1, <3>2 DEF Alone
  <2>4. ASSUME NEW t \in Askers, NEW r \in Requests, AskSnapshot(t, r)
        PROVE  /\ \A s \in Restorers : Fine(s)
               /\ \A s \in Restorers : pc'[s] # "idle" => Alone(s)'
    <3>1. \A s \in Restorers \ {t} : Kept(s)
      BY <1>1, <2>4 DEF AskSnapshot, Goto, TypeOK
    <3> QED
      BY <2>3, <2>4, <3>1 DEF AskSnapshot, Goto, Restorers
  <2>5. ASSUME NEW t \in Reporters, NEW holds \in BOOLEAN, ReportPut(t, holds)
        PROVE  /\ \A s \in Restorers : Fine(s)
               /\ \A s \in Restorers : pc'[s] # "idle" => Alone(s)'
    <3>1. \A s \in Restorers \ {t} : Kept(s)
      BY <1>1, <2>5 DEF ReportPut, Goto, TypeOK
    <3> QED
      BY <2>3, <2>5, <3>1 DEF ReportPut, Goto, Restorers
  <2>6. ASSUME \A s \in Restorers : Kept(s)
        PROVE  /\ \A s \in Restorers : Fine(s)
               /\ \A s \in Restorers : pc'[s] # "idle" => Alone(s)'
    BY <2>6 DEF Core, Alone
  <2>7. ASSUME NEW t \in Revokers, NEW l \in Leases, RevokeCall(t, l)
        PROVE  \A s \in Restorers : Kept(s)
    <3>1. \A s \in Restorers : s # t
      BY ThreadsAssumption DEF Restorers
    <3> QED
      BY <1>1, <2>7, <3>1 DEF RevokeCall, Goto, TypeOK
  <2>8. CASE Tick \/ UNCHANGED vars
    BY <2>6, <2>8 DEF Tick, vars
  <2> QED
    BY <2>2, <2>4, <2>5, <2>6, <2>7, <2>8
<1>4. \A l \in Leases : Owed(l)' = Owed(l)
  <2>1. \A s \in Askers : \/ pc'[s] = pc[s] /\ obj'[s] = obj[s]
                          \/ {pc[s], pc'[s]} \intersect {"consume", "use"} = {}
    BY <1>3 DEF Restorers
  <2> QED
    BY <2>1, OwedSame
<1>5. \A s \in Askers : pc'[s] \in {"evaluate", "use", "allow", "issue", "record"} =>
                          pc'[s] = pc[s] /\ obj'[s] = obj[s] /\ copy'[s] = copy[s]
  BY <1>3 DEF Restorers
<1>6. \A s \in Reporters : pc'[s] = "put" =>
                             pc[s] = "put" /\ i'[s] = i[s] /\ copy'[s] = copy[s]
  BY <1>3 DEF Restorers
<1> QED
  BY <1>1, <1>2, <1>3, <1>4, <1>5, <1>6, LimitFrame

\* Every step keeps the limit until calls overlap.
LEMMA LimitNext ==
  ASSUME IInv, LimitSound, [Next]_vars
  PROVE  LimitSound'
<1> SUFFICES ASSUME Granted # NoLimit PROVE Counted' /\ (~ overlap' => Core')
  BY DEF LimitSound
<1>1. TypeOK' /\ Counted
  BY TypeNext DEF LimitSound
<1>2. Counted'
  BY <1>1, CountedNext
<1>3. ASSUME ~ overlap' PROVE Core'
  <2>1. overlap => overlap'
    <3>1. ASSUME NEW t \in Threads, Continue(t) PROVE overlap' = overlap
      BY <3>1 DEF aux, Continue, AskStep, TransitionStep, RevokeStep, ReportStep,
        AskFind, AskEvaluate, AskRemember, AskDenied, AskIssue, AskRecord, ConsumeGet,
        ConsumePut, AskAnswer, Dispatch, Reject, TransitionGet, TransitionSkip,
        TransitionRaise, TransitionPut, RevokeList, RevokePermit, RevokeReturn, ReportAll,
        ReportScan, ReportCheck, ReportReturn
    <3> QED
      BY <3>1 DEF Next, AskSnapshot, ReportPut, Begin, RevokeCall, Tick, vars, aux
  <2>2. Core
    BY <1>3, <2>1 DEF LimitSound
  <2>3. ASSUME NEW t \in Threads, Continue(t) PROVE Core'
    BY <1>1, <1>3, <2>2, <2>3, AskLimit, TransitionLimit, OtherLimit DEF Continue
  <2> QED
    BY <1>1, <1>3, <2>2, <2>3, OtherLimit DEF Next
<1> QED
  BY <1>2, <1>3

\* For any number of agents, sensors and operators: until a call of an agent
\* or a sensor begins during another, no lease mints more permits than it
\* was granted uses, wherever the writes of revoke_lease fall.
THEOREM LimitHolds == Spec => []UseLimit
<1>1. Init => LimitSound
  <2> SUFFICES ASSUME Init, Granted # NoLimit PROVE LimitSound
    BY DEF LimitSound
  <2>1. Granted \in Nat
    BY ThreadsAssumption
  <2>2. \A t \in Threads : pc[t] = "idle" /\ copy[t].remaining = 0
    BY DEF Init, NoCopy
  <2>3. /\ \A t \in Askers : AskFits(t)
        /\ \A t \in Reporters : ReportFits(t)
        /\ \A t \in Restorers : pc[t] = "idle"
    BY <2>2 DEF AskFits, ReportFits, Threads, Restorers
  <2>4. ASSUME NEW l \in Leases
        PROVE  /\ minted[l] = <<>> /\ Len(minted[l]) = 0 /\ store[l].remaining = Granted
               /\ Owed(l) = 0
    BY <2>2 DEF Init, Owed, Owes, Threads
  <2>5. \A l \in Leases : Fits(store[l], l, Owed(l))
    BY <2>1, <2>4 DEF Fits
  <2>6. Counted
    BY <2>1, <2>2, <2>4 DEF Counted
  <2> QED
    BY <2>1, <2>3, <2>4, <2>5, <2>6 DEF LimitSound, Core
<1>2. IInv /\ LimitSound /\ [Next]_vars => LimitSound'
  BY LimitNext
<1>3. LimitSound => UseLimit
  BY DEF LimitSound, Core, UseLimit, NeverMore
<1> QED
  BY <1>1, <1>2, <1>3, SpecIInv, PTL DEF Spec

=============================================================================
