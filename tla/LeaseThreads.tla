---------------------------- MODULE LeaseThreads ----------------------------
(***************************************************************************)
(* The calls of LeaseAuthority.tla opened up, for threads that share one   *)
(* authority: agents that ask and act through the crossing, operators that *)
(* revoke, and sensors that report.  The stores take a lock around each    *)
(* put and nothing spans a read and the write that follows it, so a step   *)
(* here is one access to shared state.                                     *)
(*                                                                         *)
(* The leases are minted, of one policy whose condition is one fact, and   *)
(* no window ends.  A permit id is the request id with the instant of      *)
(* issue.  The permit store is atomic, as PermitStore.tla shows it to be.  *)
(***************************************************************************)
EXTENDS LeaseLifecycle, Sequences, FiniteSets

CONSTANTS
  Askers, Revokers, Reporters,   \* threads by the calls they make
  Requests,                      \* request ids
  LeaseCount,                    \* leases 1 .. LeaseCount, in store order
  LeaseOf,                       \* the lease find_lease looks at for a request
  Granted,                       \* the uses each lease begins with
  MaxClock                       \* bound: the last reading of the clock

VARIABLES
  store,        \* LeaseStore: [state, remaining] by lease id
  fact,         \* SituationStore: does the fact the leases depend on hold
  minted,       \* _minted_permits: the list of permit ids of each lease
  issued, revoked, spent,        \* the permit store
  receipts,     \* ReceiptStore: [about, outcome]
  seen,         \* _seen_request_ids
  clock,        \* the wall clock
  pc,           \* the step each thread takes next
  ev,           \* the event of the _transition call it is in
  obj,          \* request or lease id the call is about
  copy,         \* the lease object it read last
  world,        \* authorize: the snapshot
  permit,       \* authorize: the permit GPP granted
  listed,       \* on_fact_changed: the states of the leases in all()
  i,            \* the index of the loop
  due, closed,  \* auxiliary: permits a revoke_lease call found recorded when
                \*   it began, and those whose call has returned
  overlap       \* auxiliary: has the call of an agent or a sensor begun during
                \*   that of another one

vars == <<store, fact, minted, issued, revoked, spent, receipts, seen, clock, pc, ev,
          obj, copy, world, permit, listed, i, due, closed, overlap>>
gpp == <<issued, revoked, spent>>
aux == <<due, closed, overlap>>
log == <<receipts, seen, clock>>

Threads == Askers \union Revokers \union Reporters
Leases == 1 .. LeaseCount
Copy == [state : STATES, remaining : Nat \union {NoLimit}]
NoCopy == [state |-> "DRAFT", remaining |-> 0]
ReceiptOf(about, outcome) == [about |-> about, outcome |-> outcome]

PermitId == Requests \X (0 .. MaxClock)
NoPermit == <<>>

\* A thread that makes calls of two kinds makes them one after the other: it
\* does no more than two threads with one kind each, so the kinds are apart.
ASSUME ThreadsAssumption ==
  /\ Askers \intersect Revokers = {}
  /\ Askers \intersect Reporters = {}
  /\ Revokers \intersect Reporters = {}
  /\ MaxClock \in Nat
  /\ LeaseCount \in Nat
  /\ LeaseOf \in [Requests -> Leases]
  /\ Granted \in (Nat \ {0}) \union {NoLimit}

Labels == {"idle", "find", "evaluate", "deny", "allow", "issue", "record", "consume", "use",
           "get", "put", "answer", "dispatch", "list", "loop", "all", "scan", "check"}
Events == {"none", "exhaust", "revoke", "suspend", "resume"}
ReceiptSet == [about : Requests, outcome : {"ALLOW", "DENY", "EXECUTED", "REJECTED"}]
                \union [about : Leases, outcome : {"LEASE_REVOKED"}]

\* The stores and each thread's locals hold what the code puts in them.
TypeOK ==
  /\ store \in [Leases -> Copy]
  /\ fact \in BOOLEAN
  /\ minted \in [Leases -> Seq(PermitId)]
  /\ issued \subseteq PermitId /\ revoked \subseteq issued /\ spent \subseteq issued
  /\ receipts \subseteq ReceiptSet
  /\ seen \subseteq Requests
  /\ clock \in 0 .. MaxClock
  /\ pc \in [Threads -> Labels]
  /\ ev \in [Threads -> Events]
  /\ obj \in [Threads -> Requests \union Leases \union {0}]
  /\ copy \in [Threads -> Copy]
  /\ world \in [Threads -> BOOLEAN]
  /\ permit \in [Threads -> PermitId \union {NoPermit}]
  /\ listed \in [Threads -> [Leases -> STATES] \union {<<>>}]
  /\ i \in [Threads -> Nat]
  /\ due \in [Threads -> SUBSET issued]
  /\ closed \subseteq issued /\ overlap \in BOOLEAN

Init ==
  /\ store = [l \in Leases |-> [state |-> "ACTIVE", remaining |-> Granted]]
  /\ fact = TRUE
  /\ minted = [l \in Leases |-> <<>>]
  /\ issued = {} /\ revoked = {} /\ spent = {} /\ receipts = {} /\ seen = {} /\ clock = 0
  /\ pc = [t \in Threads |-> "idle"]
  /\ ev = [t \in Threads |-> "none"]
  /\ obj = [t \in Threads |-> 0]
  /\ copy = [t \in Threads |-> NoCopy]
  /\ world = [t \in Threads |-> FALSE]
  /\ permit = [t \in Threads |-> NoPermit]
  /\ listed = [t \in Threads |-> <<>>]
  /\ i = [t \in Threads |-> 0]
  /\ due = [t \in Threads |-> {}] /\ closed = {} /\ overlap = FALSE

\* The lease a thread's call is working on.
Lease(t) == CASE t \in Askers -> LeaseOf[obj[t]]
              [] t \in Revokers -> obj[t]
              [] t \in Reporters -> i[t]

Goto(t, label) == pc' = [pc EXCEPT ![t] = label]

\* The threads whose writes may leave a lease in force, and the start of a
\* call of theirs.
Restorers == Askers \union Reporters
Begin(t) == overlap' = (overlap \/ \E u \in Restorers \ {t} : pc[u] # "idle")

\* What was read is not used again.
Drop(t) ==
  /\ copy' = [copy EXCEPT ![t] = NoCopy]
  /\ world' = [world EXCEPT ![t] = FALSE]

\* End of a call: the locals are dropped.
Return(t) ==
  /\ Goto(t, "idle")
  /\ obj' = [obj EXCEPT ![t] = 0]
  /\ Drop(t)
  /\ permit' = [permit EXCEPT ![t] = NoPermit]
  /\ listed' = [listed EXCEPT ![t] = <<>>]
  /\ i' = [i EXCEPT ![t] = 0]
  /\ ev' = [ev EXCEPT ![t] = "none"]
  /\ due' = [due EXCEPT ![t] = {}]

-----------------------------------------------------------------------------
(* authorize, then the rest of request_action.                             *)

AskSnapshot(t, r) ==
  /\ pc[t] = "idle"
  /\ obj' = [obj EXCEPT ![t] = r]
  /\ world' = [world EXCEPT ![t] = fact]
  /\ Goto(t, "find") /\ Begin(t)
  /\ UNCHANGED <<store, fact, minted, gpp, log, ev, copy, permit, listed, i, due, closed>>

AskFind(t) ==
  /\ pc[t] = "find"
  /\ copy' = [copy EXCEPT ![t] = store[Lease(t)]]
  /\ Goto(t, "evaluate")
  /\ UNCHANGED <<store, fact, minted, gpp, log, obj, ev, world, permit, listed, i, aux>>

\* evaluate: the replay check on the live set, the rest on what was read.
Allows(t) ==
  /\ obj[t] \notin seen
  /\ copy[t].state = "ACTIVE" /\ copy[t].remaining # 0
  /\ world[t]

AskEvaluate(t) ==
  /\ pc[t] = "evaluate"
  /\ Goto(t, IF Allows(t) THEN "allow" ELSE "deny")
  /\ Drop(t)
  /\ UNCHANGED <<store, fact, minted, gpp, log, obj, ev, permit, listed, i, aux>>

\* The request id is remembered; a refusal is put on record.
AskRemember(t) ==
  /\ pc[t] = "allow"
  /\ seen' = seen \union {obj[t]}
  /\ Goto(t, "issue")
  /\ UNCHANGED <<store, fact, minted, gpp, receipts, clock, obj, ev, copy, world, permit,
                 listed, i, aux>>

AskDenied(t) ==
  /\ pc[t] = "deny"
  /\ seen' = seen \union {obj[t]}
  /\ receipts' = receipts \union {ReceiptOf(obj[t], "DENY")}
  /\ Return(t)
  /\ UNCHANGED <<store, fact, minted, gpp, clock, closed, overlap>>

\* Mutant of AskIssue: the permit is not put on the lease's list.
AskIssue_Unlisted(t) ==
  /\ pc[t] = "issue"
  /\ permit' = [permit EXCEPT ![t] = <<obj[t], clock>>]
  /\ issued' = issued \union {<<obj[t], clock>>}
  /\ Goto(t, "consume")
  /\ UNCHANGED <<store, fact, minted, revoked, spent, log, obj, ev, copy, world, listed, i, aux>>

\* Mutant of AskIssue: the permit is handed out and not stored.
AskIssue_NotStored(t) ==
  /\ pc[t] = "issue"
  /\ permit' = [permit EXCEPT ![t] = <<obj[t], clock>>]
  /\ Goto(t, "record")
  /\ UNCHANGED <<store, fact, minted, gpp, log, obj, ev, copy, world, listed, i, aux>>

\* _mint_execution_permit: GPP stores the permit, then it is listed.
AskIssue(t) ==
  /\ pc[t] = "issue"
  /\ permit' = [permit EXCEPT ![t] = <<obj[t], clock>>]
  /\ issued' = issued \union {<<obj[t], clock>>}
  /\ Goto(t, "record")
  /\ UNCHANGED <<store, fact, minted, revoked, spent, log, obj, ev, copy, world, listed, i, aux>>

AskRecord(t) ==
  /\ pc[t] = "record"
  /\ minted' = [minted EXCEPT ![Lease(t)] = Append(@, permit[t])]
  /\ Goto(t, "consume")
  /\ UNCHANGED <<store, fact, gpp, log, obj, ev, copy, world, permit, listed, i, aux>>

\* _consume: the lease is read, and written back with one use less.
ConsumeGet(t) ==
  /\ pc[t] = "consume"
  /\ copy' = [copy EXCEPT ![t] = store[Lease(t)]]
  /\ Goto(t, "use")
  /\ UNCHANGED <<store, fact, minted, gpp, log, obj, ev, world, permit, listed, i, aux>>

\* Mutant of ConsumePut: the use is not taken.
ConsumePut_Free(t) ==
  /\ pc[t] = "use"
  /\ store' = [store EXCEPT ![Lease(t)] = copy[t]]
  /\ Goto(t, "answer")
  /\ Drop(t)
  /\ UNCHANGED <<fact, minted, gpp, log, obj, ev, permit, listed, i, aux>>

ConsumePut(t) ==
  /\ pc[t] = "use"
  /\ store' = [store EXCEPT ![Lease(t)] = [copy[t] EXCEPT !.remaining = UseOne(@)]]
  /\ IF ExhaustedBy(copy[t].remaining)
     THEN Goto(t, "get") /\ ev' = [ev EXCEPT ![t] = "exhaust"]
     ELSE Goto(t, "answer") /\ UNCHANGED ev
  /\ Drop(t)
  /\ UNCHANGED <<fact, minted, gpp, log, obj, permit, listed, i, aux>>

AskAnswer(t) ==
  /\ pc[t] = "answer"
  /\ receipts' = receipts \union {ReceiptOf(obj[t], "ALLOW")}
  /\ Goto(t, "dispatch")
  /\ UNCHANGED <<store, fact, minted, gpp, seen, clock, obj, ev, copy, world, permit, listed, i, aux>>

Usable(p) == p \in issued \ (revoked \union spent)

Dispatch(t) ==
  /\ pc[t] = "dispatch" /\ Usable(permit[t])
  /\ spent' = spent \union {permit[t]}
  /\ receipts' = receipts \union {ReceiptOf(obj[t], "EXECUTED")}
  /\ Return(t)
  /\ UNCHANGED <<store, fact, minted, issued, revoked, seen, clock, closed, overlap>>

Reject(t) ==
  /\ pc[t] = "dispatch" /\ ~ Usable(permit[t])
  /\ receipts' = receipts \union {ReceiptOf(obj[t], "REJECTED")}
  /\ Return(t)
  /\ UNCHANGED <<store, fact, minted, gpp, seen, clock, closed, overlap>>

-----------------------------------------------------------------------------
(* LeaseAuthority._transition: read the lease, then write the next state   *)
(* of what was read.                                                       *)

\* Where the caller goes on after the event.
After(event) == CASE event = "exhaust" -> "answer"
                  [] event = "revoke"  -> "list"
                  [] event = "suspend" -> "check"
                  [] event = "resume"  -> "scan"

\* Mutant of Step: on_fact_changed takes the same lease again.
Step_Stays(t) == UNCHANGED i /\ ev' = [ev EXCEPT ![t] = "none"]

\* on_fact_changed moves to the next lease when resume_lease is over.
Step(t) ==
  /\ i' = IF ev[t] = "resume" THEN [i EXCEPT ![t] = @ + 1] ELSE i
  /\ ev' = [ev EXCEPT ![t] = "none"]

TransitionGet(t) ==
  /\ pc[t] = "get" /\ Applies(store[Lease(t)].state, ev[t])
  /\ copy' = [copy EXCEPT ![t] = store[Lease(t)]]
  /\ Goto(t, "put")
  /\ UNCHANGED <<store, fact, minted, gpp, log, obj, ev, world, permit, listed, i, aux>>

\* A terminal lease: _transition returns.
TransitionSkip(t) ==
  /\ pc[t] = "get" /\ store[Lease(t)].state \in TERMINAL_STATES
  /\ Goto(t, After(ev[t]))
  /\ Step(t)
  /\ UNCHANGED <<store, fact, minted, gpp, log, obj, copy, world, permit, listed, aux>>

\* apply_transition raises, and the exception ends the call the thread is in:
\* no receipt of authorize, no more leases for on_fact_changed.
TransitionRaise(t) ==
  /\ pc[t] = "get"
  /\ store[Lease(t)].state \notin TERMINAL_STATES
  /\ ~ Applies(store[Lease(t)].state, ev[t])
  /\ Return(t)
  /\ UNCHANGED <<store, fact, minted, gpp, log, closed, overlap>>

TransitionPut(t) ==
  /\ pc[t] = "put"
  /\ store' = [store EXCEPT ![Lease(t)] =
                 [copy[t] EXCEPT !.state = TRANSITIONS[@][ev[t]]]]
  /\ Goto(t, After(ev[t]))
  /\ Step(t)
  /\ Drop(t)
  /\ UNCHANGED <<fact, minted, gpp, log, obj, permit, listed, aux>>

-----------------------------------------------------------------------------
(* revoke_lease.                                                           *)

Recorded(l) == {minted[l][k] : k \in DOMAIN minted[l]}

RevokeCall(t, l) ==
  /\ pc[t] = "idle"
  /\ obj' = [obj EXCEPT ![t] = l]
  /\ ev' = [ev EXCEPT ![t] = "revoke"]
  /\ Goto(t, "get")
  /\ due' = [due EXCEPT ![t] = Recorded(l)]
  /\ UNCHANGED <<store, fact, minted, gpp, log, copy, world, permit, listed, i, closed, overlap>>

\* _minted_permits.get(lease_id, []): a lease without permits has no list
\* yet, and the one the loop gets stays empty (index 0).
RevokeList(t) ==
  /\ pc[t] = "list"
  /\ i' = [i EXCEPT ![t] = IF minted[obj[t]] = <<>> THEN 0 ELSE 1]
  /\ Goto(t, "loop")
  /\ UNCHANGED <<store, fact, minted, gpp, log, obj, ev, copy, world, permit, listed, aux>>

\* Mutant of MoreToRevoke: the loop stops one short.
MoreToRevoke_Short(t) == i[t] > 0 /\ i[t] < Len(minted[obj[t]])

\* The loop sees what is appended to the list while it runs.
MoreToRevoke(t) == i[t] > 0 /\ i[t] <= Len(minted[obj[t]])

\* Mutant of RevokePermit: the loop stays at its entry.
RevokePermit_Stays(t) ==
  /\ pc[t] = "loop" /\ MoreToRevoke(t)
  /\ revoked' = revoked \union {minted[obj[t]][i[t]]}
  /\ UNCHANGED <<store, fact, minted, issued, spent, log, pc, obj, ev, copy, world, permit,
                 listed, i, aux>>

RevokePermit(t) ==
  /\ pc[t] = "loop" /\ MoreToRevoke(t)
  /\ revoked' = revoked \union {minted[obj[t]][i[t]]}
  /\ i' = [i EXCEPT ![t] = @ + 1]
  /\ UNCHANGED <<store, fact, minted, issued, spent, log, pc, obj, ev, copy, world, permit,
                 listed, aux>>

RevokeReturn(t) ==
  /\ pc[t] = "loop" /\ ~ MoreToRevoke(t)
  /\ receipts' = receipts \union {ReceiptOf(obj[t], "LEASE_REVOKED")}
  /\ closed' = closed \union due[t]
  /\ Return(t)
  /\ UNCHANGED <<store, fact, minted, gpp, seen, clock, overlap>>

-----------------------------------------------------------------------------
(* SituationStore.put and on_fact_changed.                                 *)

ReportPut(t, holds) ==
  /\ pc[t] = "idle"
  /\ fact' = holds
  /\ Goto(t, "all") /\ Begin(t)
  /\ UNCHANGED <<store, minted, gpp, log, obj, ev, copy, world, permit, listed, i, due, closed>>

\* The loop works on the lease objects of this moment.
ReportAll(t) ==
  /\ pc[t] = "all"
  /\ listed' = [listed EXCEPT ![t] = [l \in Leases |-> store[l].state]]
  /\ i' = [i EXCEPT ![t] = 1]
  /\ Goto(t, "scan")
  /\ UNCHANGED <<store, fact, minted, gpp, log, obj, ev, copy, world, permit, aux>>

ReportScan(t) ==
  /\ pc[t] = "scan" /\ i[t] \in Leases
  /\ \/ /\ listed[t][i[t]] = "ACTIVE"
        /\ ev' = [ev EXCEPT ![t] = "suspend"] /\ Goto(t, "get") /\ UNCHANGED i
     \/ /\ listed[t][i[t]] = "SUSPENDED"
        /\ Goto(t, "check") /\ UNCHANGED <<ev, i>>
     \/ /\ listed[t][i[t]] \in TERMINAL_STATES
        /\ i' = [i EXCEPT ![t] = @ + 1] /\ UNCHANGED <<ev, pc>>
  /\ UNCHANGED <<store, fact, minted, gpp, log, obj, copy, world, permit, listed, aux>>

ReportCheck(t) ==
  /\ pc[t] = "check"
  /\ IF fact
     THEN ev' = [ev EXCEPT ![t] = "resume"] /\ Goto(t, "get") /\ UNCHANGED i
     ELSE i' = [i EXCEPT ![t] = @ + 1] /\ Goto(t, "scan") /\ UNCHANGED ev
  /\ UNCHANGED <<store, fact, minted, gpp, log, obj, copy, world, permit, listed, aux>>

ReportReturn(t) ==
  /\ pc[t] = "scan" /\ i[t] \notin Leases
  /\ Return(t)
  /\ UNCHANGED <<store, fact, minted, gpp, log, closed, overlap>>

-----------------------------------------------------------------------------
AskStep(t) ==
  \/ AskFind(t) \/ AskEvaluate(t) \/ AskRemember(t) \/ AskDenied(t)
  \/ AskIssue(t) \/ AskRecord(t)
  \/ ConsumeGet(t) \/ ConsumePut(t) \/ AskAnswer(t) \/ Dispatch(t) \/ Reject(t)

TransitionStep(t) ==
  TransitionGet(t) \/ TransitionSkip(t) \/ TransitionRaise(t) \/ TransitionPut(t)

RevokeStep(t) == RevokeList(t) \/ RevokePermit(t) \/ RevokeReturn(t)

ReportStep(t) == ReportAll(t) \/ ReportScan(t) \/ ReportCheck(t) \/ ReportReturn(t)

\* A step inside a call.
Continue(t) == AskStep(t) \/ TransitionStep(t) \/ RevokeStep(t) \/ ReportStep(t)

Tick ==
  /\ clock < MaxClock
  /\ clock' = clock + 1
  /\ UNCHANGED <<store, fact, minted, gpp, receipts, seen, pc, ev, obj, copy, world, permit,
                 listed, i, aux>>

Next ==
  \/ \E t \in Askers, r \in Requests : AskSnapshot(t, r)
  \/ \E t \in Revokers, l \in Leases : RevokeCall(t, l)
  \/ \E t \in Reporters, holds \in BOOLEAN : ReportPut(t, holds)
  \/ \E t \in Threads : Continue(t)
  \/ Tick

Spec == Init /\ [][Next]_vars

\* A thread inside a call is scheduled again: no step of a call waits for
\* another thread.
FairSpec == Spec /\ \A t \in Threads : WF_vars(Continue(t))

-----------------------------------------------------------------------------
(* Properties.                                                             *)

\* What revoke_lease guarantees under any interleaving: a permit that was on
\* the lease's list when the call began is not spent once it has returned.
RevokeReaches == [][(spent' \ spent) \intersect closed = {}]_vars

\* Every permit that was spent is on its lease's list, where a revocation
\* finds it, and its ALLOW is on record, also when calls end in an exception.
EffectsAccounted ==
  \A p \in spent :
    p \in Recorded(LeaseOf[p[1]]) /\ ReceiptOf(p[1], "ALLOW") \in receipts

\* Every call ends, by a return or an exception: the loop of revoke_lease
\* ends although the list grows while it runs, since each request adds to it
\* once for each thread that carries it.
CallsEnd == \A t \in Threads : pc[t] # "idle" ~> pc[t] = "idle"

NeverMore == Granted # NoLimit => \A l \in Leases : Len(minted[l]) <= Granted

\* As long as no call of an agent or a sensor has begun during another, and
\* wherever revocations fall between their reads and their writes: no lease
\* mints more permits than it was granted uses.
UseLimit == ~ overlap => NeverMore

\* revoke_lease: "Revoke one lease and every outstanding permit minted from
\* it": no permit of the lease is spent once the revocation is on record.
RevocationFinal ==
  [][\A p \in spent' \ spent : ReceiptOf(LeaseOf[p[1]], "LEASE_REVOKED") \notin receipts]_vars

=============================================================================
