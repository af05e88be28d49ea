--------------------------- MODULE AdmissionControl ---------------------------
(***************************************************************************)
(* hg_core/admission: the AdmissionController that every mutating request  *)
(* passes before it executes, with its idempotency store.  Threads ask,    *)
(* execute, report completion and release their token; each call of the    *)
(* controller holds its mutex, so a call is one step, except that request  *)
(* reads the clock before it takes the mutex and begin_crr_recovery sets   *)
(* its flag after it gave the mutex back.  A lock is a lease: a thread     *)
(* that outlives it keeps executing and still calls complete and release.  *)
(***************************************************************************)
EXTENDS Naturals, FiniteSets

CONSTANTS
  RequestId,       \* the request ids
  IdemKey,         \* the idempotency keys
  Resource,        \* the capabilities and sandboxes
  Client,          \* the threads
  AskSets,         \* the workloads: which requests each of them makes
  LeaseTime,       \* default_lease_s
  Retention,       \* idempotency_retention_s
  QueueCapacity,   \* queue_capacity
  MaxTime,         \* bound on the clock
  MaxArrivals      \* bound on the requests

Kinds == {"srp_apply", "max_auto_run", "mel_cycle", "oea_effect", "ter_command",
          "crr_recovery", "panic"}
Singletons == {"srp_apply", "max_auto_run", "mel_cycle"}

(* AdmissionRequest.  res is the capability_id or the sandbox_id, or else  *)
(* "none"; stale says that _validate_approval objects to its        *)
(* approval_binding.  No caller leaves the id empty.                       *)
Request == [id: RequestId, kind: Kinds, key: IdemKey, res: Resource \cup {"none"}, conc: Nat,
            stale: BOOLEAN]

ASSUME AdmissionAssumption ==
  /\ IsFiniteSet(Client) /\ "none" \notin RequestId
  /\ AskSets \subseteq [Client -> SUBSET Request]
  /\ {LeaseTime, Retention, QueueCapacity, MaxTime, MaxArrivals} \subseteq Nat

(* The requests that take a unit of a capability, and those for a sandbox. *)
Limited(r) == r.kind = "oea_effect" /\ r.res # "none"
Boxed(r)   == r.kind = "ter_command" /\ r.res # "none"

(* _lock_key *)
LockKey(r) ==
  CASE r.kind \in Singletons \cup {"crr_recovery"} -> <<r.kind, "none">>
    [] Limited(r) -> <<"oea", r.res>>
    [] Boxed(r)   -> <<"ter", r.res>>
    [] OTHER      -> <<r.kind, r.id>>

NoLock == [id |-> "none", kind |-> "none", until |-> 0]
NoRec  == [id |-> "none", at |-> 0]
NoReq  == [id |-> "none", kind |-> "none", key |-> "none", res |-> "none", conc |-> 0,
           stale |-> FALSE]

VARIABLES
  asks,                     \* the workload of this behaviour
  now,                      \* the monotonic clock
  locks, counts, holders,   \* _locks, _capability_counts, _ter_sandbox_holders
  queue,                    \* the length of _queue
  panic, crr,               \* _panic_active, _crr_recovery_active
  records,                  \* IdempotencyStore._records
  pc, req, stamp, until,    \* a thread: its place, request, clock reading, token.lease_until
  arrivals,
  done                      \* history: the completions that were reported

ctl    == <<locks, counts, holders, queue, panic, crr, records>>
thread == <<pc, req, stamp, until, arrivals>>
vars   == <<asks, now, ctl, thread, done>>

Requests == UNION {asks[c] : c \in Client}
Keys  == {LockKey(r) : r \in Requests}
Caps  == {r.res : r \in {q \in Requests : Limited(q)}}
Boxes == {r.res : r \in {q \in Requests : Boxed(q)}}
IdemKeys == {r.key : r \in Requests}

Init ==
  /\ asks \in AskSets
  /\ now = 0
  /\ locks = [k \in Keys |-> NoLock]
  /\ counts = [a \in Caps |-> 0] /\ holders = [b \in Boxes |-> "none"]
  /\ queue = 0 /\ panic = FALSE /\ crr = FALSE
  /\ records = [k \in IdemKeys |-> NoRec]
  /\ pc = [c \in Client |-> "idle"]
  /\ req = [c \in Client |-> NoReq]
  /\ stamp = [c \in Client |-> 0] /\ until = [c \in Client |-> 0]
  /\ arrivals = 0
  /\ done = {}
----------------------------------------------------------------------------
Held(k) == locks[k] # NoLock

(* _release_lock for each key of K that is held. *)
LocksWithout(K) == [k \in Keys |-> IF k \in K THEN NoLock ELSE locks[k]]
CountsWithout(K) ==
  [a \in Caps |-> IF <<"oea", a>> \in K /\ Held(<<"oea", a>>) /\ counts[a] > 0
                    THEN counts[a] - 1 ELSE counts[a]]
(* Mutant: the sandbox is not given back. *)
MutHoldersWithout(K) == [b \in Boxes |-> holders[b]]
HoldersWithout(K) == [b \in Boxes |-> IF <<"ter", b>> \in K THEN "none" ELSE holders[b]]

Release(K) ==
  /\ locks' = LocksWithout(K) /\ counts' = CountsWithout(K) /\ holders' = HoldersWithout(K)

(* The locks _reclaim_expired frees at time t. *)
Expired(t) == {k \in Keys : Held(k) /\ t > locks[k].until}

(* IdempotencyStore._purge *)
Purged(t) == [k \in IdemKeys |-> IF records[k] # NoRec /\ t > records[k].at + Retention
                                   THEN NoRec ELSE records[k]]

(* The pairs of _MATRIX that refuse the arriving request. *)
RefusedPairs ==
  ({"panic"} \X {"srp_apply", "mel_cycle", "oea_effect", "ter_command"})
  \cup {<<"crr_recovery", "srp_apply">>, <<"srp_apply", "srp_apply">>, <<"mel_cycle", "mel_cycle">>}

(* Mutant: the panic is not asked about. *)
MutObjection(r, t) ==
  LET L    == LocksWithout(Expired(t))
      dup  == Purged(t)[r.key]
  IN  \/ dup # NoRec /\ dup.id # r.id
      \/ r.stale
      \/ <<L[LockKey(r)].kind, r.kind>> \in RefusedPairs

(* The objections of request before it looks at capacities, in a           *)
(* controller that has freed the expired locks and purged the records.  A  *)
(* recovery in progress turns the fate of a mel_cycle into "preempt",      *)
(* which nothing acts on.                                                  *)
Objection(r, t) ==
  LET k    == LockKey(r)
      L    == LocksWithout(Expired(t))
      dup  == Purged(t)[r.key]
  IN  \/ dup # NoRec /\ dup.id # r.id
      \/ r.stale
      \/ panic /\ r.kind # "panic"
      \/ /\ <<L[k].kind, r.kind>> \in RefusedPairs
         /\ ~(crr /\ r.kind = "mel_cycle")

(* A sandbox or a singleton that is taken. *)
Taken(r, t) ==
  LET K == Expired(t) IN
    \/ Boxed(r) /\ HoldersWithout(K)[r.res] # "none"
    \/ r.kind \in Singletons /\ LocksWithout(K)[LockKey(r)] # NoLock

AtLeastOne(n) == IF n = 0 THEN 1 ELSE n
(* Mutant: one too many. *)
MutFull(r, t) == Limited(r) /\ CountsWithout(Expired(t))[r.res] > AtLeastOne(r.conc)
Full(r, t) == Limited(r) /\ CountsWithout(Expired(t))[r.res] >= AtLeastOne(r.conc)
----------------------------------------------------------------------------
(* The thread calls request, which reads the clock and waits for the mutex. *)
Arrive(c) ==
  /\ pc[c] = "idle" /\ arrivals < MaxArrivals
  /\ \E r \in asks[c] : req' = [req EXCEPT ![c] = r]
  /\ stamp' = [stamp EXCEPT ![c] = now]
  /\ arrivals' = arrivals + 1
  /\ pc' = [pc EXCEPT ![c] = "asking"]
  /\ UNCHANGED <<asks, now, ctl, until, done>>

(* A call has returned without a token, or the token is released. *)
Leave(c) ==
  /\ pc' = [pc EXCEPT ![c] = "idle"]
  /\ req' = [req EXCEPT ![c] = NoReq]
  /\ until' = [until EXCEPT ![c] = 0]

Asking(c) ==
  /\ pc[c] = "asking"
  /\ records' = Purged(stamp[c])
  /\ stamp' = [stamp EXCEPT ![c] = 0]
  /\ UNCHANGED <<asks, now, panic, crr, arrivals, done>>

Refuse(c) ==
  LET r == req[c] t == stamp[c] IN
    /\ Asking(c)
    /\ \/ Objection(r, t)
       \/ ~Objection(r, t) /\ Full(r, t) /\ queue >= QueueCapacity
       \/ ~Objection(r, t) /\ ~Full(r, t) /\ Taken(r, t)
    /\ Release(Expired(t))
    /\ Leave(c)
    /\ UNCHANGED queue

(* Mutant: the capacity is not asked about. *)
MutEnqueue(c) ==
  LET r == req[c] t == stamp[c] IN
    /\ Asking(c)
    /\ ~Objection(r, t) /\ Full(r, t)
    /\ Release(Expired(t))
    /\ queue' = queue + 1
    /\ Leave(c)

(* The queue is only ever drained: the caller is told "queued" and is not  *)
(* admitted later.                                                         *)
Enqueue(c) ==
  LET r == req[c] t == stamp[c] IN
    /\ Asking(c)
    /\ ~Objection(r, t) /\ Full(r, t) /\ queue < QueueCapacity
    /\ Release(Expired(t))
    /\ queue' = queue + 1
    /\ Leave(c)

(* The grant: the lock is entered under its key, over the lock that may be *)
(* there.                                                                  *)
Grant(c) ==
  LET r == req[c] t == stamp[c] K == Expired(stamp[c]) IN
    /\ Asking(c)
    /\ ~Objection(r, t) /\ ~Full(r, t) /\ ~Taken(r, t)
    /\ locks' = [LocksWithout(K) EXCEPT
                   ![LockKey(r)] = [id |-> r.id, kind |-> r.kind, until |-> t + LeaseTime]]
    /\ counts' = IF Limited(r) THEN [CountsWithout(K) EXCEPT ![r.res] = @ + 1]
                               ELSE CountsWithout(K)
    /\ holders' = IF Boxed(r) THEN [HoldersWithout(K) EXCEPT ![r.res] = r.id]
                              ELSE HoldersWithout(K)
    /\ until' = [until EXCEPT ![c] = t + LeaseTime]
    /\ pc' = [pc EXCEPT ![c] = IF r.kind = "crr_recovery" THEN "flagging" ELSE "admitted"]
    /\ UNCHANGED <<queue, req>>

(* Mutant: whoever has the lock by now. *)
MutOwnLock(c) == {LockKey(req[c])}

(* The lock of the token, if it is still this request's. *)
OwnLock(c) == {k \in {LockKey(req[c])} : locks[k].id = req[c].id}

(* Mutant: the completion is not recorded. *)
MutComplete(c) ==
  /\ pc[c] = "admitted" /\ req[c].kind # "crr_recovery"
  /\ Release(OwnLock(c))
  /\ done' = done \cup {[req |-> req[c], at |-> now, held |-> now <= until[c]]}
  /\ pc' = [pc EXCEPT ![c] = "completed"]
  /\ UNCHANGED <<asks, now, queue, panic, crr, records, req, stamp, until, arrivals>>

Complete(c) ==
  /\ pc[c] = "admitted" /\ req[c].kind # "crr_recovery"
  /\ records' = [Purged(now) EXCEPT ![req[c].key] = [id |-> req[c].id, at |-> now]]
  /\ Release(OwnLock(c))
  /\ done' = done \cup {[req |-> req[c], at |-> now, held |-> now <= until[c]]}
  /\ pc' = [pc EXCEPT ![c] = "completed"]
  /\ UNCHANGED <<asks, now, queue, panic, crr, req, stamp, until, arrivals>>

(* release, in the finally of the executor and of admission_scope: after   *)
(* complete, or without it when the execution failed.                      *)
ReleaseToken(c) ==
  /\ pc[c] \in {"admitted", "completed"} /\ req[c].kind # "crr_recovery"
  /\ Release(OwnLock(c))
  /\ Leave(c)
  /\ UNCHANGED <<asks, now, queue, panic, crr, records, stamp, arrivals, done>>

(* begin_crr_recovery, after its request was admitted. *)
SetCrrFlag(c) ==
  /\ pc[c] = "flagging"
  /\ crr' = TRUE
  /\ pc' = [pc EXCEPT ![c] = "admitted"]
  /\ UNCHANGED <<asks, now, locks, counts, holders, queue, panic, records, req, stamp, until,
                 arrivals, done>>

(* end_crr_recovery releases the recovery lock, whoever holds it. *)
EndCrrRecovery(c) ==
  /\ pc[c] = "admitted" /\ req[c].kind = "crr_recovery"
  /\ crr' = FALSE
  /\ Release({<<"crr_recovery", "none">>})
  /\ Leave(c)
  /\ UNCHANGED <<asks, now, queue, panic, records, stamp, arrivals, done>>

(* The threads whose locks go do not learn of it. *)
AssertPanic ==
  /\ ~panic
  /\ panic' = TRUE
  /\ Release({k \in Keys : locks[k].kind # "panic"})
  /\ UNCHANGED <<asks, now, queue, crr, records, thread, done>>

DrainQueues ==
  /\ queue > 0
  /\ queue' = 0
  /\ UNCHANGED <<asks, now, locks, counts, holders, panic, crr, records, thread, done>>

Tick ==
  /\ now < MaxTime
  /\ now' = now + 1
  /\ UNCHANGED <<asks, ctl, thread, done>>

Next ==
  \/ \E c \in Client : \/ Arrive(c) \/ Refuse(c) \/ Enqueue(c) \/ Grant(c)
                       \/ Complete(c) \/ ReleaseToken(c)
                       \/ SetCrrFlag(c) \/ EndCrrRecovery(c)
  \/ AssertPanic \/ DrainQueues \/ Tick

Spec == Init /\ [][Next]_vars
----------------------------------------------------------------------------
(* The controller's tables and the threads have their types. *)
TypeOK ==
  /\ asks \in AskSets
  /\ now \in 0 .. MaxTime
  /\ locks \in [Keys -> [id: RequestId \cup {"none"}, kind: Kinds \cup {"none"}, until: Nat]]
  /\ counts \in [Caps -> Nat] /\ holders \in [Boxes -> RequestId \cup {"none"}]
  /\ queue \in 0 .. QueueCapacity /\ panic \in BOOLEAN /\ crr \in BOOLEAN
  /\ records \in [IdemKeys -> [id: RequestId \cup {"none"}, at: Nat]]
  /\ pc \in [Client -> {"idle", "asking", "flagging", "admitted", "completed"}]
  /\ req \in [Client -> Requests \cup {NoReq}]
  /\ stamp \in [Client -> 0 .. MaxTime] /\ until \in [Client -> Nat]
  /\ arrivals \in 0 .. MaxArrivals

(* A thread that executes inside the lease of its token. *)
InLease(c) == pc[c] = "admitted" /\ now <= until[c]

(* A request id that two threads use, as a retry of the same binding does. *)
Shared(id) == \E c, d \in Client : c # d /\ \E r \in asks[c], q \in asks[d] : r.id = id /\ q.id = id

(* A lock that admits one holder at a time. *)
Exclusive(k) == \A r \in Requests :
  LockKey(r) = k => r.kind # "crr_recovery" /\ (Limited(r) => r.conc <= 1)

(* Until its lease ends or a panic preempts it, an admitted request holds  *)
(* its lock: neither a thread that outlived an earlier lease of that lock  *)
(* and only now completes or releases, nor a request that read the clock   *)
(* long ago, takes it away.  Two threads are therefore never inside one    *)
(* exclusive lock.  (A thread with the same request id would: complete and *)
(* release compare nothing else.)                                          *)
HolderKeepsLock ==
  ~panic => \A c \in Client :
    InLease(c) /\ Exclusive(LockKey(req[c])) /\ ~Shared(req[c].id)
      => locks[LockKey(req[c])].id = req[c].id

(* max_concurrency of a capability bounds the threads that execute it      *)
(* inside their leases, although one lock entry stands for all of them.    *)
CapacityRespected ==
  \A a \in Caps :
    LET users == {c \in Client : InLease(c) /\ Limited(req[c]) /\ req[c].res = a}
        limit == {AtLeastOne(r.conc) : r \in {q \in Requests : Limited(q) /\ q.res = a}}
    IN  (\A c \in users : ~Shared(req[c].id)) =>
          \E n \in limit : Cardinality(users) <= n

(* The counters that refuse requests agree with the locks: a capability    *)
(* with concurrency one counts exactly its lock and a sandbox is held by   *)
(* the request that has its lock, so no order of expiry, completion,       *)
(* release and panic leaves a capability or a sandbox taken for ever.      *)
CountersMatchLocks ==
  /\ \A a \in Caps : Exclusive(<<"oea", a>>) =>
       counts[a] = IF Held(<<"oea", a>>) THEN 1 ELSE 0
  /\ \A b \in Boxes : holders[b] = locks[<<"ter", b>>].id

(* Once a panic is asserted nothing but panic handling holds a lock, a     *)
(* request that was waiting for the mutex included.                        *)
PanicClearsLocks == panic => \A k \in Keys : locks[k].kind \in {"none", "panic"}

(* One idempotency key, one completion: when the requests that carry a key *)
(* are under one exclusive lock and complete within their leases, no two   *)
(* different ones complete within a retention window.  (A completion       *)
(* reported after the lease replaces the record, and the request it names  *)
(* is then let in again.)                                                  *)
Orderly(k) ==
  \E l \in Keys : Exclusive(l) /\ \A e \in done :
    e.req.key = k => e.held /\ LockKey(e.req) = l /\ ~Shared(e.req.id)

CompletedOnce ==
  \A e, f \in done :
    e.req.key = f.req.key /\ e.req.id # f.req.id /\ Orderly(e.req.key)
    => e.at > f.at + Retention \/ f.at > e.at + Retention
============================================================================
