----------------------- MODULE AdmissionControl_proofs -----------------------
(***************************************************************************)
(* For every set of threads and workloads, every lease time, retention and *)
(* queue capacity: the types of the admission controller, what it promises *)
(* of locks, counters and capacities, and that an idempotency key          *)
(* completes once.                                                         *)
(***************************************************************************)
EXTENDS AdmissionControl, FiniteSetTheorems, TLAPS

\* A thread inside a call works on a request of its own, with a reading of
\* the clock that is not in the future.
ThreadSound ==
  \A c \in Client :
    /\ stamp[c] <= now
    /\ pc[c] # "idle" => req[c] \in asks[c]
    /\ pc[c] = "flagging" => req[c].kind = "crr_recovery"

\* An entry of _locks names a request.
LocksSound == \A k \in Keys : Held(k) <=> locks[k].id # "none"

\* The thread is alone with its request id and its lock admits one holder.
Alone(c) == Exclusive(LockKey(req[c])) /\ ~Shared(req[c].id)

\* Such a thread, inside its lease, has the lock entry that its own grant made.
HolderSound ==
  ~panic => \A c \in Client :
    InLease(c) /\ Alone(c) =>
      /\ locks[LockKey(req[c])].id = req[c].id
      /\ locks[LockKey(req[c])].until = until[c]

\* Two of them are never inside one lock, a panic that took the locks away
\* from them or not.
MutexSound ==
  \A c, d \in Client :
    InLease(c) /\ Alone(c) /\ InLease(d) /\ Alone(d) /\ LockKey(req[c]) = LockKey(req[d])
      => c = d

\* The threads that use a capability inside their leases and do not share
\* their request id.
Users(a) ==
  {c \in Client : InLease(c) /\ Limited(req[c]) /\ req[c].res = a /\ ~Shared(req[c].id)}

\* The lock entry of a capability is the one of a user.
Owned(a) ==
  \E c \in Users(a) : locks[<<"oea", a>>].id = req[c].id /\ locks[<<"oea", a>>].until = until[c]

\* The counter of a capability counts every user, and besides them the entry
\* when it is not one of a user: whoever frees the entry takes nothing from
\* the users that remain.
CountSound ==
  ~panic => \A a \in Caps :
    /\ Cardinality(Users(a)) <= counts[a]
    /\ Held(<<"oea", a>>) /\ ~Owned(a) => Cardinality(Users(a)) + 1 <= counts[a]

\* The limits that the requests for a capability state.
Limits(a) == {AtLeastOne(r.conc) : r \in {q \in Requests : Limited(q) /\ q.res = a}}

LimitSound == \A a \in Caps : \E n \in Limits(a) : Cardinality(Users(a)) <= n

\* A completion lies in the past.
DoneSound == done \subseteq [req: Requests, at: 0 .. now, held: BOOLEAN]

\* All completions under a key were within their leases of the lock l.
OrderlyAt(k, l) ==
  Exclusive(l) /\ \A e \in done :
    e.req.key = k => e.held /\ LockKey(e.req) = l /\ ~Shared(e.req.id)

\* The record of such a key names the completion of the last retention window.
RecordSound ==
  \A f \in done : \A l \in Keys :
    OrderlyAt(f.req.key, l) /\ now <= f.at + Retention =>
      /\ records[f.req.key].id = f.req.id
      /\ f.at <= records[f.req.key].at

\* A thread was let in because no other request had completed under its key,
\* and none has since.
AdmitSound ==
  \A c \in Client : \A f \in done :
    /\ InLease(c) /\ Alone(c)
    /\ f.req.key = req[c].key /\ f.req.id # req[c].id
    /\ OrderlyAt(req[c].key, LockKey(req[c]))
    => now > f.at + Retention

\* The inductive invariant.
IInv ==
  /\ TypeOK
  /\ ThreadSound
  /\ LocksSound
  /\ CountersMatchLocks
  /\ PanicClearsLocks
  /\ HolderSound
  /\ MutexSound
  /\ CountSound
  /\ LimitSound
  /\ DoneSound
  /\ RecordSound
  /\ AdmitSound
  /\ CompletedOnce
-----------------------------------------------------------------------------

\* The prefixes of _lock_key keep the lock keys of different kinds apart.
LEMMA KeyOf ==
  ASSUME NEW r \in Request
  PROVE  /\ r.kind \in Singletons \cup {"crr_recovery"} => LockKey(r) = <<r.kind, "none">>
         /\ Limited(r) => LockKey(r) = <<"oea", r.res>>
         /\ Boxed(r) => LockKey(r) = <<"ter", r.res>>
         /\ r.kind \notin Singletons \cup {"crr_recovery"} /\ ~Limited(r) /\ ~Boxed(r)
              => LockKey(r) = <<r.kind, r.id>>
  BY DEF LockKey, Limited, Boxed, Singletons, Request

\* The two parts of a lock key.
LEMMA KeyParts ==
  ASSUME NEW r \in Request
  PROVE  /\ LockKey(r)[1] = IF Limited(r) THEN "oea" ELSE IF Boxed(r) THEN "ter" ELSE r.kind
         /\ LockKey(r)[2] = IF Limited(r) \/ Boxed(r) THEN r.res
                            ELSE IF r.kind \in Singletons \cup {"crr_recovery"} THEN "none"
                            ELSE r.id
<1>1. Limited(r) => r.kind = "oea_effect"
  BY DEF Limited
<1>2. Boxed(r) => r.kind = "ter_command"
  BY DEF Boxed
<1>3. CASE Limited(r)
  <2>1. LockKey(r) = <<"oea", r.res>>
    BY <1>3, KeyOf
  <2> QED
    BY <1>3, <2>1
<1>4. CASE Boxed(r)
  <2>1. LockKey(r) = <<"ter", r.res>> /\ ~Limited(r)
    BY <1>1, <1>2, <1>4, KeyOf
  <2> QED
    BY <1>4, <2>1
<1>5. CASE r.kind \in Singletons \cup {"crr_recovery"}
  <2>1. LockKey(r) = <<r.kind, "none">>
    BY <1>5, KeyOf
  <2>2. ~Limited(r) /\ ~Boxed(r)
    BY <1>1, <1>2, <1>5 DEF Singletons
  <2> QED
    BY <1>5, <2>1, <2>2
<1>6. CASE r.kind \notin Singletons \cup {"crr_recovery"} /\ ~Limited(r) /\ ~Boxed(r)
  <2>1. LockKey(r) = <<r.kind, r.id>>
    BY <1>6, KeyOf
  <2> QED
    BY <1>6, <2>1
<1> QED
  BY <1>3, <1>4, <1>5, <1>6

\* Two requests under one lock key are of one kind, and for one capability,
\* one sandbox or with one id.
LEMMA SameKey ==
  ASSUME NEW r \in Request, NEW q \in Request, LockKey(r) = LockKey(q)
  PROVE  /\ r.kind = q.kind
         /\ Limited(r) <=> Limited(q)
         /\ Boxed(r) <=> Boxed(q)
         /\ Limited(r) \/ Boxed(r) => r.res = q.res
         /\ \/ Limited(r) \/ Boxed(r) \/ r.kind \in Singletons \cup {"crr_recovery"}
            \/ r.id = q.id
<1>1. LockKey(r)[1] = LockKey(q)[1] /\ LockKey(r)[2] = LockKey(q)[2]
  OBVIOUS
<1>2. r.kind \in Kinds /\ q.kind \in Kinds
  BY DEF Request
<1> QED
  BY <1>1, <1>2, KeyParts DEF Limited, Boxed, Kinds

\* Only a request for the capability has the capability's key, and so on.
LEMMA KeyFor ==
  ASSUME NEW r \in Request, NEW x
  PROVE  /\ LockKey(r) = <<"oea", x>> => Limited(r) /\ r.res = x
         /\ LockKey(r) = <<"ter", x>> => Boxed(r) /\ r.res = x
         /\ LockKey(r) = <<"crr_recovery", "none">> => r.kind = "crr_recovery"
<1>1. r.kind \in Kinds
  BY DEF Request
<1>2. \A y : LockKey(r) = <<y, x>> => LockKey(r)[1] = y /\ LockKey(r)[2] = x
  OBVIOUS
<1>3. LockKey(r) = <<"crr_recovery", "none">> => LockKey(r)[1] = "crr_recovery"
  OBVIOUS
<1> QED
  BY <1>1, <1>2, <1>3, KeyParts DEF Limited, Boxed, Kinds

\* The keys, capabilities, sandboxes and idempotency keys of the workload.
LEMMA Tables ==
  ASSUME TypeOK
  PROVE  /\ Requests \subseteq Request
         /\ \A c \in Client : asks[c] \subseteq Requests
         /\ \A r \in Requests :
              /\ LockKey(r) \in Keys /\ r.key \in IdemKeys
              /\ Limited(r) => r.res \in Caps
              /\ Boxed(r) => r.res \in Boxes
         /\ \A k \in Keys : \E r \in Requests : k = LockKey(r)
         /\ \A a \in Caps : <<"oea", a>> \in Keys /\ \E r \in Requests : Limited(r) /\ r.res = a
         /\ \A b \in Boxes : <<"ter", b>> \in Keys
<1>1. asks \in [Client -> SUBSET Request]
  BY AdmissionAssumption DEF TypeOK
<1>2. Requests \subseteq Request /\ \A c \in Client : asks[c] \subseteq Requests
  BY <1>1 DEF Requests
<1>3. \A r \in Requests : /\ LockKey(r) \in Keys /\ r.key \in IdemKeys
                          /\ Limited(r) => r.res \in Caps
                          /\ Boxed(r) => r.res \in Boxes
  BY DEF Keys, IdemKeys, Caps, Boxes
<1>4. \A k \in Keys : \E r \in Requests : k = LockKey(r)
  BY DEF Keys
<1>5. \A a \in Caps : \E r \in Requests : Limited(r) /\ r.res = a
  BY DEF Caps
<1>6. \A b \in Boxes : \E r \in Requests : Boxed(r) /\ r.res = b
  BY DEF Boxes
<1>7. \A r \in Requests : /\ Limited(r) => LockKey(r) = <<"oea", r.res>>
                          /\ Boxed(r) => LockKey(r) = <<"ter", r.res>>
  BY <1>2, KeyOf
<1> QED
  BY <1>2, <1>3, <1>4, <1>5, <1>6, <1>7

\* The workload of a behaviour does not change, and so neither does what is
\* derived from it.
Fixed ==
  /\ asks' = asks /\ Requests' = Requests /\ Keys' = Keys
  /\ Caps' = Caps /\ Boxes' = Boxes /\ IdemKeys' = IdemKeys

LEMMA WorkloadFixed == asks' = asks =>
  /\ Fixed
  /\ \A k : Exclusive(k)' <=> Exclusive(k)
  /\ \A i : Shared(i)' <=> Shared(i)
  /\ \A a : Limits(a)' = Limits(a)
<1> SUFFICES ASSUME asks' = asks
    PROVE  /\ Fixed
           /\ \A k : Exclusive(k)' <=> Exclusive(k)
           /\ \A i : Shared(i)' <=> Shared(i)
           /\ \A a : Limits(a)' = Limits(a)
  OBVIOUS
<1>1. Requests' = Requests
  BY DEF Requests
<1>2. Fixed
  BY <1>1 DEF Fixed, Keys, Caps, Boxes, IdemKeys
<1>3. \A k : Exclusive(k)' <=> Exclusive(k)
  BY <1>1 DEF Exclusive
<1>4. \A i : Shared(i)' <=> Shared(i)
  BY DEF Shared
<1>5. \A a : Limits(a)' = Limits(a)
  BY <1>1 DEF Limits
<1> QED
  BY <1>2, <1>3, <1>4, <1>5

LEMMA Bounds == LeaseTime \in Nat /\ Retention \in Nat /\ QueueCapacity \in Nat
                  /\ MaxTime \in Nat /\ MaxArrivals \in Nat
  BY AdmissionAssumption

\* Nobody has asked for anything yet.
LEMMA InitIInv == Init => IInv
<1> SUFFICES ASSUME Init PROVE IInv
  OBVIOUS
<1>1. TypeOK
  <2>1. /\ NoLock \in [id: RequestId \cup {"none"}, kind: Kinds \cup {"none"}, until: Nat]
        /\ NoRec \in [id: RequestId \cup {"none"}, at: Nat]
    BY DEF NoLock, NoRec
  <2>2. /\ locks \in [Keys -> [id: RequestId \cup {"none"}, kind: Kinds \cup {"none"}, until: Nat]]
        /\ records \in [IdemKeys -> [id: RequestId \cup {"none"}, at: Nat]]
    BY <2>1 DEF Init
  <2>3. /\ pc \in [Client -> {"idle", "asking", "flagging", "admitted", "completed"}]
        /\ req \in [Client -> Requests \cup {NoReq}]
        /\ stamp \in [Client -> 0 .. MaxTime] /\ until \in [Client -> Nat]
    BY Bounds DEF Init
  <2>4. /\ counts \in [Caps -> Nat] /\ holders \in [Boxes -> RequestId \cup {"none"}]
    BY DEF Init
  <2>5. /\ asks \in AskSets /\ now \in 0 .. MaxTime /\ queue \in 0 .. QueueCapacity
        /\ arrivals \in 0 .. MaxArrivals
    BY Bounds DEF Init
  <2>6. panic \in BOOLEAN /\ crr \in BOOLEAN
    BY Zenon DEF Init
  <2> QED
    BY <2>2, <2>3, <2>4, <2>5, <2>6 DEF TypeOK
<1>2. \A a : Users(a) = {}
  BY DEF Init, Users, InLease
<1>3. \A k \in Keys : locks[k] = NoLock /\ ~Held(k) /\ locks[k].id = "none"
  BY DEF Init, Held, NoLock
<1>4. ThreadSound /\ LocksSound /\ PanicClearsLocks /\ HolderSound /\ MutexSound
  <2>1. now = 0 /\ ~panic /\ \A c \in Client : pc[c] = "idle" /\ stamp[c] = 0
    BY DEF Init
  <2> QED
    BY <1>3, <2>1
    DEF ThreadSound, LocksSound, PanicClearsLocks, HolderSound, MutexSound, InLease
<1>5. CountersMatchLocks
  BY <1>1, <1>3, Tables DEF Init, CountersMatchLocks, NoLock
<1>6. CountSound
  <2>1. \A a \in Caps : ~Held(<<"oea", a>>) /\ counts[a] = 0 /\ Cardinality(Users(a)) = 0
    BY <1>1, <1>2, <1>3, Tables, FS_EmptySet DEF Init
  <2>2. ASSUME NEW a \in Caps
        PROVE  /\ Cardinality(Users(a)) <= counts[a]
               /\ Held(<<"oea", a>>) /\ ~Owned(a) => Cardinality(Users(a)) + 1 <= counts[a]
    BY <2>1
  <2> QED
    BY <2>2 DEF CountSound
<1>7. LimitSound
  <2>1. ASSUME NEW a \in Caps PROVE \E n \in Limits(a) : Cardinality(Users(a)) <= n
    <3>1. PICK r \in Requests : Limited(r) /\ r.res = a
      BY <1>1, Tables
    <3>2. AtLeastOne(r.conc) \in Limits(a) /\ r.conc \in Nat
      BY <1>1, <3>1, Tables DEF Limits, Request
    <3>3. Cardinality(Users(a)) = 0 /\ AtLeastOne(r.conc) >= 0
      BY <1>2, <3>2, FS_EmptySet DEF AtLeastOne
    <3> QED
      BY <3>2, <3>3
  <2> QED
    BY <2>1 DEF LimitSound
<1>8. DoneSound /\ RecordSound /\ AdmitSound /\ CompletedOnce
  BY DEF Init, DoneSound, RecordSound, AdmitSound, CompletedOnce
<1> QED
  BY <1>1, <1>4, <1>5, <1>6, <1>7, <1>8 DEF IInv

\* The records of the controller's tables.
Lock == [id: RequestId \cup {"none"}, kind: Kinds \cup {"none"}, until: Nat]
Rec  == [id: RequestId \cup {"none"}, at: Nat]

\* What _release_lock leaves of the tables.
LEMMA Without ==
  ASSUME TypeOK, NEW K
  PROVE  /\ LocksWithout(K) \in [Keys -> Lock]
         /\ CountsWithout(K) \in [Caps -> Nat]
         /\ HoldersWithout(K) \in [Boxes -> RequestId \cup {"none"}]
         /\ \A k \in Keys : LocksWithout(K)[k] = IF k \in K THEN NoLock ELSE locks[k]
         /\ \A a \in Caps : CountsWithout(K)[a] =
              IF <<"oea", a>> \in K /\ Held(<<"oea", a>>) /\ counts[a] > 0
                THEN counts[a] - 1 ELSE counts[a]
         /\ \A b \in Boxes : HoldersWithout(K)[b] = IF <<"ter", b>> \in K THEN "none" ELSE holders[b]
<1>1. NoLock \in Lock
  BY DEF NoLock, Lock
<1>2. locks \in [Keys -> Lock] /\ counts \in [Caps -> Nat]
      /\ holders \in [Boxes -> RequestId \cup {"none"}]
  BY DEF TypeOK, Lock
<1>3. /\ LocksWithout(K) \in [Keys -> Lock]
      /\ \A k \in Keys : LocksWithout(K)[k] = IF k \in K THEN NoLock ELSE locks[k]
  BY <1>1, <1>2 DEF LocksWithout
<1>4. /\ CountsWithout(K) \in [Caps -> Nat]
      /\ \A a \in Caps : CountsWithout(K)[a] =
           IF <<"oea", a>> \in K /\ Held(<<"oea", a>>) /\ counts[a] > 0
             THEN counts[a] - 1 ELSE counts[a]
  BY <1>2 DEF CountsWithout
<1>5. /\ HoldersWithout(K) \in [Boxes -> RequestId \cup {"none"}]
      /\ \A b \in Boxes : HoldersWithout(K)[b] = IF <<"ter", b>> \in K THEN "none" ELSE holders[b]
  BY <1>2 DEF HoldersWithout
<1> QED
  BY <1>3, <1>4, <1>5

\* Nothing released, nothing changed.
LEMMA WithoutNothing ==
  ASSUME TypeOK, locks' = locks, counts' = counts, holders' = holders
  PROVE  Release({})
<1>1. locks = LocksWithout({})
  BY DEF TypeOK, LocksWithout
<1>2. counts = CountsWithout({})
  BY DEF TypeOK, CountsWithout
<1>3. holders = HoldersWithout({})
  BY DEF TypeOK, HoldersWithout
<1> QED
  BY <1>1, <1>2, <1>3 DEF Release

\* What the store forgets, and what it keeps.
LEMMA PurgedIs ==
  ASSUME TypeOK, NEW t \in Nat
  PROVE  /\ Purged(t) \in [IdemKeys -> Rec]
         /\ \A k \in IdemKeys : Purged(t)[k] =
              IF records[k] # NoRec /\ t > records[k].at + Retention THEN NoRec ELSE records[k]
<1>1. records \in [IdemKeys -> Rec] /\ NoRec \in Rec
  BY DEF TypeOK, Rec, NoRec
<1> QED
  BY <1>1 DEF Purged

\* A thread inside a call has a request of the workload.
LEMMA OwnRequest ==
  ASSUME TypeOK, ThreadSound, NEW c \in Client, pc[c] # "idle"
  PROVE  /\ req[c] \in asks[c] /\ req[c] \in Requests /\ req[c] \in Request
         /\ req[c].id \in RequestId /\ req[c].key \in IdemKeys /\ LockKey(req[c]) \in Keys
         /\ Limited(req[c]) => req[c].res \in Caps
         /\ Boxed(req[c]) => req[c].res \in Boxes
<1>1. req[c] \in asks[c]
  BY DEF ThreadSound
<1>2. req[c] \in Requests /\ req[c] \in Request
  BY <1>1, Tables
<1>3. req[c].id \in RequestId
  BY <1>2 DEF Request
<1> QED
  BY <1>1, <1>2, <1>3, Tables

\* The tables after a grant.
LEMMA Granted ==
  ASSUME TypeOK, ThreadSound, NEW c \in Client, Grant(c)
  PROVE  LET r == req[c] K == Expired(stamp[c]) IN
         /\ locks' \in [Keys -> Lock] /\ counts' \in [Caps -> Nat]
         /\ holders' \in [Boxes -> RequestId \cup {"none"}]
         /\ locks'[LockKey(r)] = [id |-> r.id, kind |-> r.kind, until |-> stamp[c] + LeaseTime]
         /\ \A k \in Keys : k # LockKey(r) => locks'[k] = LocksWithout(K)[k]
         /\ \A a \in Caps : counts'[a] =
              IF Limited(r) /\ r.res = a THEN CountsWithout(K)[a] + 1 ELSE CountsWithout(K)[a]
         /\ \A b \in Boxes : holders'[b] =
              IF Boxed(r) /\ r.res = b THEN r.id ELSE HoldersWithout(K)[b]
<1> DEFINE r == req[c]
           K == Expired(stamp[c])
           new == [id |-> r.id, kind |-> r.kind, until |-> stamp[c] + LeaseTime]
<1>1. pc[c] # "idle"
  BY DEF Grant, Asking
<1>2. /\ r \in Request /\ r.id \in RequestId /\ LockKey(r) \in Keys
      /\ Limited(r) => r.res \in Caps
      /\ Boxed(r) => r.res \in Boxes
  BY <1>1, OwnRequest
<1>3. new \in Lock
  <2>1. r.kind \in Kinds /\ stamp[c] \in Nat
    BY <1>2, Bounds DEF Request, TypeOK
  <2> QED
    BY <1>2, <2>1, Bounds DEF Lock
<1>4. locks' = [LocksWithout(K) EXCEPT ![LockKey(r)] = new]
  BY DEF Grant
<1>5. counts' = IF Limited(r) THEN [CountsWithout(K) EXCEPT ![r.res] = @ + 1] ELSE CountsWithout(K)
  BY DEF Grant
<1>6. holders' = IF Boxed(r) THEN [HoldersWithout(K) EXCEPT ![r.res] = r.id] ELSE HoldersWithout(K)
  BY DEF Grant
<1> HIDE DEF r, K, new
<1>7. /\ locks' \in [Keys -> Lock] /\ locks'[LockKey(r)] = new
      /\ \A k \in Keys : k # LockKey(r) => locks'[k] = LocksWithout(K)[k]
  BY <1>2, <1>3, <1>4, Without
<1>8. /\ counts' \in [Caps -> Nat]
      /\ \A a \in Caps : counts'[a] =
           IF Limited(r) /\ r.res = a THEN CountsWithout(K)[a] + 1 ELSE CountsWithout(K)[a]
  <2>1. CountsWithout(K) \in [Caps -> Nat]
    BY Without
  <2>2. CASE Limited(r)
    BY <1>2, <1>5, <2>1, <2>2
  <2>3. CASE ~Limited(r)
    BY <1>5, <2>1, <2>3
  <2> QED
    BY <2>2, <2>3
<1>9. /\ holders' \in [Boxes -> RequestId \cup {"none"}]
      /\ \A b \in Boxes : holders'[b] =
           IF Boxed(r) /\ r.res = b THEN r.id ELSE HoldersWithout(K)[b]
  <2>1. HoldersWithout(K) \in [Boxes -> RequestId \cup {"none"}]
    BY Without
  <2>2. CASE Boxed(r)
    BY <1>2, <1>6, <2>1, <2>2
  <2>3. CASE ~Boxed(r)
    BY <1>6, <2>1, <2>3
  <2> QED
    BY <2>2, <2>3
<1> QED
  BY <1>7, <1>8, <1>9 DEF r, K, new

\* The entry that a grant makes, and the locks it leaves.
LEMMA GrantedLocks ==
  ASSUME TypeOK, ThreadSound, NEW c \in Client, Grant(c)
  PROVE  /\ locks'[LockKey(req[c])].id = req[c].id
         /\ locks'[LockKey(req[c])].kind = req[c].kind
         /\ locks'[LockKey(req[c])].until = stamp[c] + LeaseTime
         /\ \A k \in Keys : k # LockKey(req[c]) =>
              locks'[k] = IF k \in Expired(stamp[c]) THEN NoLock ELSE locks[k]
<1>1. locks'[LockKey(req[c])] = [id |-> req[c].id, kind |-> req[c].kind,
                                 until |-> stamp[c] + LeaseTime]
  BY Granted
<1>2. \A k \in Keys : k # LockKey(req[c]) => locks'[k] = LocksWithout(Expired(stamp[c]))[k]
  BY Granted
<1> QED
  BY <1>1, <1>2, Without
-----------------------------------------------------------------------------

\* The types, over the workload that does not change.
Typed ==
  /\ now' \in 0 .. MaxTime
  /\ locks' \in [Keys -> Lock]
  /\ counts' \in [Caps -> Nat] /\ holders' \in [Boxes -> RequestId \cup {"none"}]
  /\ queue' \in 0 .. QueueCapacity
  /\ records' \in [IdemKeys -> Rec]
  /\ pc' \in [Client -> {"idle", "asking", "flagging", "admitted", "completed"}]
  /\ req' \in [Client -> Requests \cup {NoReq}]
  /\ stamp' \in [Client -> 0 .. MaxTime] /\ until' \in [Client -> Nat]
  /\ arrivals' \in 0 .. MaxArrivals

LEMMA TypedIsType ==
  ASSUME TypeOK, asks' = asks, Typed, panic' \in BOOLEAN, crr' \in BOOLEAN
  PROVE  TypeOK'
<1>1. asks' \in AskSets
  BY DEF TypeOK
<1>2. Fixed
  BY WorkloadFixed
<1> QED
  BY <1>1, <1>2, Zenon DEF Typed, TypeOK, Fixed, Lock, Rec

LEMMA AsksFixed == [Next]_vars => asks' = asks
<1>1. ASSUME NEW c \in Client,
             \/ Arrive(c) \/ Refuse(c) \/ Enqueue(c) \/ Grant(c) \/ Complete(c)
             \/ ReleaseToken(c) \/ SetCrrFlag(c) \/ EndCrrRecovery(c)
      PROVE  asks' = asks
  BY <1>1 DEF Arrive, Refuse, Enqueue, Grant, Complete, ReleaseToken, SetCrrFlag, EndCrrRecovery,
              Asking
<1>2. AssertPanic \/ DrainQueues \/ Tick => asks' = asks
  BY DEF AssertPanic, DrainQueues, Tick
<1>3. UNCHANGED vars => asks' = asks
  BY DEF vars
<1> QED
  BY <1>1, <1>2, <1>3 DEF Next

\* A release, whatever the keys, keeps the types of the tables.
LEMMA ReleaseTyped ==
  ASSUME TypeOK, NEW K, Release(K)
  PROVE  /\ locks' \in [Keys -> Lock] /\ counts' \in [Caps -> Nat]
         /\ holders' \in [Boxes -> RequestId \cup {"none"}]
  BY Without DEF Release

\* The thread that leaves a call, or gives its token back.
LEMMA LeaveTyped ==
  ASSUME TypeOK, NEW c \in Client, Leave(c)
  PROVE  /\ pc' \in [Client -> {"idle", "asking", "flagging", "admitted", "completed"}]
         /\ req' \in [Client -> Requests \cup {NoReq}] /\ until' \in [Client -> Nat]
         /\ pc'[c] = "idle"
         /\ \A d \in Client \ {c} : pc'[d] = pc[d] /\ req'[d] = req[d] /\ until'[d] = until[d]
  BY DEF TypeOK, Leave

\* The clock reading that a request brings is used up, and its records are purged.
LEMMA AskingTyped ==
  ASSUME TypeOK, ThreadSound, NEW c \in Client, Asking(c)
  PROVE  /\ records' \in [IdemKeys -> Rec] /\ stamp' \in [Client -> 0 .. MaxTime]
         /\ stamp[c] \in Nat /\ stamp[c] <= now
         /\ stamp'[c] = 0 /\ \A d \in Client \ {c} : stamp'[d] = stamp[d]
<1>1. stamp[c] \in Nat /\ stamp[c] <= now /\ stamp \in [Client -> 0 .. MaxTime] /\ MaxTime \in Nat
  BY Bounds DEF TypeOK, ThreadSound
<1>2. records' \in [IdemKeys -> Rec]
  BY <1>1, PurgedIs DEF Asking
<1>3. stamp' = [stamp EXCEPT ![c] = 0]
  BY DEF Asking
<1> QED
  BY <1>1, <1>2, <1>3

\* Every step keeps the types, and a thread's request and clock reading sound.
LEMMA TypePreserved ==
  ASSUME TypeOK, ThreadSound, [Next]_vars
  PROVE  TypeOK' /\ ThreadSound'
<1>1. asks' = asks
  BY AsksFixed
<1>2. /\ now \in 0 .. MaxTime /\ queue \in 0 .. QueueCapacity /\ arrivals \in 0 .. MaxArrivals
      /\ MaxTime \in Nat /\ QueueCapacity \in Nat /\ MaxArrivals \in Nat /\ LeaseTime \in Nat
  BY Bounds DEF TypeOK
<1>3. /\ locks \in [Keys -> Lock] /\ counts \in [Caps -> Nat]
      /\ holders \in [Boxes -> RequestId \cup {"none"}] /\ records \in [IdemKeys -> Rec]
  BY DEF TypeOK, Lock, Rec
<1>4. /\ pc \in [Client -> {"idle", "asking", "flagging", "admitted", "completed"}]
      /\ req \in [Client -> Requests \cup {NoReq}]
      /\ stamp \in [Client -> 0 .. MaxTime] /\ until \in [Client -> Nat]
  BY DEF TypeOK
<1>5. panic \in BOOLEAN /\ crr \in BOOLEAN
  BY DEF TypeOK
<1>6. \A c \in Client : /\ stamp[c] <= now
                        /\ pc[c] # "idle" => req[c] \in asks[c]
                        /\ pc[c] = "flagging" => req[c].kind = "crr_recovery"
  BY DEF ThreadSound
<1> DEFINE Threads == \A c \in Client :
             /\ stamp'[c] <= now'
             /\ pc'[c] # "idle" => req'[c] \in asks[c]
             /\ pc'[c] = "flagging" => req'[c].kind = "crr_recovery"
<1>7. Threads => ThreadSound'
  BY <1>1 DEF ThreadSound
<1> SUFFICES Typed /\ Threads /\ panic' \in BOOLEAN /\ crr' \in BOOLEAN
  BY <1>1, <1>7, TypedIsType
<1>8. ASSUME NEW c \in Client, Arrive(c)
      PROVE  Typed /\ Threads /\ panic' \in BOOLEAN /\ crr' \in BOOLEAN
  <2>1. PICK r \in asks[c] : req' = [req EXCEPT ![c] = r]
    BY <1>8 DEF Arrive
  <2>2. r \in Requests
    BY Tables
  <2>3. /\ stamp' = [stamp EXCEPT ![c] = now] /\ arrivals' = arrivals + 1 /\ arrivals < MaxArrivals
        /\ pc' = [pc EXCEPT ![c] = "asking"] /\ until' = until /\ now' = now
        /\ locks' = locks /\ counts' = counts /\ holders' = holders /\ queue' = queue
        /\ records' = records /\ panic' = panic /\ crr' = crr
    BY <1>8 DEF Arrive, ctl
  <2>4. Typed
    BY <1>2, <1>3, <1>4, <2>1, <2>2, <2>3 DEF Typed
  <2>5. Threads
    BY <1>2, <1>4, <1>6, <2>1, <2>3
  <2> QED
    BY <1>5, <2>3, <2>4, <2>5
<1>9. ASSUME NEW c \in Client, Refuse(c) \/ Enqueue(c)
      PROVE  Typed /\ Threads /\ panic' \in BOOLEAN /\ crr' \in BOOLEAN
  <2>1. /\ Asking(c) /\ Release(Expired(stamp[c])) /\ Leave(c)
        /\ queue' = queue \/ (queue < QueueCapacity /\ queue' = queue + 1)
    <3>1. CASE Refuse(c)
      BY <3>1 DEF Refuse
    <3>2. CASE Enqueue(c)
      BY <3>2 DEF Enqueue
    <3> QED
      BY <1>9, <3>1, <3>2
  <2>2. now' = now /\ arrivals' = arrivals /\ panic' = panic /\ crr' = crr
    BY <2>1 DEF Asking
  <2>3. queue' \in 0 .. QueueCapacity
    BY <1>2, <2>1
  <2>4. Typed
    BY <1>2, <2>1, <2>2, <2>3, ReleaseTyped, LeaveTyped, AskingTyped DEF Typed
  <2>5. Threads
    BY <1>2, <1>4, <1>6, <2>1, <2>2, LeaveTyped, AskingTyped
  <2> QED
    BY <1>5, <2>2, <2>4, <2>5
<1>10. ASSUME NEW c \in Client, Grant(c)
       PROVE  Typed /\ Threads /\ panic' \in BOOLEAN /\ crr' \in BOOLEAN
  <2>1. Asking(c) /\ pc[c] = "asking" /\ queue' = queue /\ req' = req
    BY <1>10 DEF Grant, Asking
  <2>2. now' = now /\ arrivals' = arrivals /\ panic' = panic /\ crr' = crr
    BY <2>1 DEF Asking
  <2>3. /\ locks' \in [Keys -> Lock] /\ counts' \in [Caps -> Nat]
        /\ holders' \in [Boxes -> RequestId \cup {"none"}]
    BY <1>10, Granted
  <2>4. /\ until' = [until EXCEPT ![c] = stamp[c] + LeaseTime]
        /\ pc' = [pc EXCEPT ![c] = IF req[c].kind = "crr_recovery" THEN "flagging" ELSE "admitted"]
    BY <1>10 DEF Grant
  <2>5. Typed
    BY <1>2, <1>4, <2>1, <2>2, <2>3, <2>4, AskingTyped DEF Typed
  <2>6. Threads
    BY <1>2, <1>4, <1>6, <2>1, <2>2, <2>4, AskingTyped
  <2> QED
    BY <1>5, <2>2, <2>5, <2>6
<1>11. ASSUME NEW c \in Client, Complete(c)
       PROVE  Typed /\ Threads /\ panic' \in BOOLEAN /\ crr' \in BOOLEAN
  <2>1. /\ pc[c] = "admitted" /\ Release(OwnLock(c)) /\ pc' = [pc EXCEPT ![c] = "completed"]
        /\ now' = now /\ queue' = queue /\ panic' = panic /\ crr' = crr /\ req' = req
        /\ stamp' = stamp /\ until' = until /\ arrivals' = arrivals
    BY <1>11 DEF Complete
  <2>2. records' = [Purged(now) EXCEPT ![req[c].key] = [id |-> req[c].id, at |-> now]]
    BY <1>11 DEF Complete
  <2>3. req[c].id \in RequestId /\ Purged(now) \in [IdemKeys -> Rec] /\ now \in Nat
    BY <1>2, <2>1, OwnRequest, PurgedIs
  <2>4. [id |-> req[c].id, at |-> now] \in Rec
    BY <2>3 DEF Rec
  <2>5. records' \in [IdemKeys -> Rec]
    BY <2>2, <2>3, <2>4
  <2>6. Typed
    BY <1>2, <1>4, <2>1, <2>5, ReleaseTyped DEF Typed
  <2>7. Threads
    BY <1>4, <1>6, <2>1
  <2> QED
    BY <1>5, <2>1, <2>6, <2>7
<1>12. ASSUME NEW c \in Client, ReleaseToken(c)
       PROVE  Typed /\ Threads /\ panic' \in BOOLEAN /\ crr' \in BOOLEAN
  <2>1. /\ Release(OwnLock(c)) /\ Leave(c)
        /\ now' = now /\ queue' = queue /\ panic' = panic /\ crr' = crr
        /\ records' = records /\ stamp' = stamp /\ arrivals' = arrivals
    BY <1>12 DEF ReleaseToken
  <2>2. Typed
    BY <1>2, <1>3, <1>4, <2>1, ReleaseTyped, LeaveTyped DEF Typed
  <2>3. Threads
    BY <1>6, <2>1, LeaveTyped
  <2> QED
    BY <1>5, <2>1, <2>2, <2>3
<1>13. ASSUME NEW c \in Client, SetCrrFlag(c)
       PROVE  Typed /\ Threads /\ panic' \in BOOLEAN /\ crr' \in BOOLEAN
  <2>1. /\ pc[c] = "flagging" /\ pc' = [pc EXCEPT ![c] = "admitted"] /\ now' = now
        /\ locks' = locks /\ counts' = counts /\ holders' = holders /\ queue' = queue
        /\ records' = records /\ req' = req /\ stamp' = stamp /\ until' = until
        /\ arrivals' = arrivals
    BY <1>13 DEF SetCrrFlag
  <2>2. Typed
    BY <1>2, <1>3, <1>4, <2>1 DEF Typed
  <2>3. Threads
    BY <1>4, <1>6, <2>1
  <2>4. panic' = panic /\ crr' = TRUE
    BY <1>13 DEF SetCrrFlag
  <2> QED
    BY <1>5, <2>2, <2>3, <2>4
<1>14. ASSUME NEW c \in Client, EndCrrRecovery(c)
       PROVE  Typed /\ Threads /\ panic' \in BOOLEAN /\ crr' \in BOOLEAN
  <2>1. /\ Release({<<"crr_recovery", "none">>}) /\ Leave(c)
        /\ now' = now /\ queue' = queue
        /\ records' = records /\ stamp' = stamp /\ arrivals' = arrivals
    BY <1>14 DEF EndCrrRecovery
  <2>2. Typed
    BY <1>2, <1>3, <1>4, <2>1, ReleaseTyped, LeaveTyped DEF Typed
  <2>3. Threads
    BY <1>6, <2>1, LeaveTyped
  <2>4. panic' = panic /\ crr' = FALSE
    BY <1>14 DEF EndCrrRecovery
  <2> QED
    BY <1>5, <2>2, <2>3, <2>4
<1>15. ASSUME AssertPanic
       PROVE  Typed /\ Threads /\ panic' \in BOOLEAN /\ crr' \in BOOLEAN
  <2>1. /\ Release({k \in Keys : locks[k].kind # "panic"})
        /\ now' = now /\ queue' = queue /\ records' = records
        /\ pc' = pc /\ req' = req /\ stamp' = stamp /\ until' = until /\ arrivals' = arrivals
    BY <1>15 DEF AssertPanic, thread
  <2>2. Typed
    BY <1>2, <1>3, <1>4, <2>1, ReleaseTyped DEF Typed
  <2>3. Threads
    BY <1>6, <2>1
  <2>4. panic' = TRUE /\ crr' = crr
    BY <1>15 DEF AssertPanic
  <2> QED
    BY <1>5, <2>2, <2>3, <2>4
<1>16. ASSUME DrainQueues \/ Tick \/ UNCHANGED vars
       PROVE  Typed /\ Threads /\ panic' \in BOOLEAN /\ crr' \in BOOLEAN
  <2>1. /\ locks' = locks /\ counts' = counts /\ holders' = holders /\ records' = records
        /\ pc' = pc /\ req' = req /\ stamp' = stamp /\ until' = until /\ arrivals' = arrivals
    BY <1>16 DEF DrainQueues, Tick, ctl, thread, vars
  <2>2. /\ queue' = queue \/ queue' = 0
        /\ now' = now \/ (now < MaxTime /\ now' = now + 1)
    BY <1>16 DEF DrainQueues, Tick, ctl, vars
  <2>3. panic' = panic /\ crr' = crr
    BY <1>16, Zenon DEF DrainQueues, Tick, ctl, vars
  <2>4. now' \in 0 .. MaxTime /\ now <= now' /\ queue' \in 0 .. QueueCapacity
    BY <1>2, <2>2
  <2>5. Typed
    BY <1>2, <1>3, <1>4, <2>1, <2>4 DEF Typed
  <2>6. Threads
    BY <1>2, <1>4, <1>6, <2>1, <2>4
  <2> QED
    BY <1>5, <2>3, <2>5, <2>6
<1> QED
  BY <1>8, <1>9, <1>10, <1>11, <1>12, <1>13, <1>14, <1>15, <1>16 DEF Next
-----------------------------------------------------------------------------

\* Why a lock may be released: its lease is over, a panic takes it, it is the
\* recovery lock that end_crr_recovery releases, or a request with the id of
\* its holder gives it back and no longer executes.
Reason(k) ==
  \/ now > locks[k].until
  \/ panic'
  \/ k = <<"crr_recovery", "none">>
  \/ \E c \in Client : /\ req[c] \in asks[c] /\ k = LockKey(req[c])
                       /\ locks[k].id = req[c].id /\ ~InLease(c)'

Frees(K) == \A k \in K : k \in Keys /\ Held(k) => Reason(k)

\* A step that grants nothing and releases K: nobody enters a lease but a
\* recovery that sets its flag.
Quiet(K) ==
  /\ Release(K) /\ Frees(K)
  /\ now <= now'
  /\ panic => panic'
  /\ \A d \in Client : InLease(d)' =>
       /\ req'[d] = req[d] /\ until'[d] = until[d] /\ pc[d] # "idle"
       /\ InLease(d) \/ req[d].kind = "crr_recovery"
  /\ panic' /\ ~panic => \A k \in Keys : k \in K \/ locks[k].kind = "panic"

\* The locks _reclaim_expired frees at a clock reading of the past.
LEMMA ExpiredFrees ==
  ASSUME TypeOK, ThreadSound, NEW c \in Client
  PROVE  Frees(Expired(stamp[c])) /\ \A k \in Expired(stamp[c]) : now > locks[k].until
<1>1. stamp[c] <= now /\ stamp[c] \in Nat /\ now \in Nat
  BY Bounds DEF TypeOK, ThreadSound
<1>2. \A k \in Keys : locks[k].until \in Nat
  BY DEF TypeOK
<1>3. \A k \in Expired(stamp[c]) : k \in Keys /\ stamp[c] > locks[k].until
  BY DEF Expired
<1>4. \A k \in Expired(stamp[c]) : now > locks[k].until
  BY <1>1, <1>2, <1>3
<1> QED
  BY <1>4 DEF Frees, Reason

\* The grant as the others see it.
LEMMA GrantStep ==
  ASSUME TypeOK, ThreadSound, NEW c \in Client, Grant(c)
  PROVE  /\ pc[c] = "asking" /\ now' = now /\ panic' = panic /\ req' = req /\ asks' = asks
         /\ done' = done /\ records' = Purged(stamp[c])
         /\ until'[c] = stamp[c] + LeaseTime
         /\ pc'[c] = IF req[c].kind = "crr_recovery" THEN "flagging" ELSE "admitted"
         /\ \A d \in Client \ {c} : /\ InLease(d)' <=> InLease(d)
                                    /\ until'[d] = until[d] /\ pc'[d] = pc[d]
         /\ ~Objection(req[c], stamp[c]) /\ ~Full(req[c], stamp[c]) /\ ~Taken(req[c], stamp[c])
<1>1. Asking(c) /\ req' = req
      /\ ~Objection(req[c], stamp[c]) /\ ~Full(req[c], stamp[c]) /\ ~Taken(req[c], stamp[c])
  BY DEF Grant
<1>2. /\ pc[c] = "asking" /\ now' = now /\ asks' = asks /\ done' = done
      /\ records' = Purged(stamp[c])
  BY <1>1 DEF Asking
<1>3. panic' = panic
  BY <1>1 DEF Asking
<1>4. /\ until' = [until EXCEPT ![c] = stamp[c] + LeaseTime]
      /\ pc' = [pc EXCEPT ![c] = IF req[c].kind = "crr_recovery" THEN "flagging" ELSE "admitted"]
  BY DEF Grant
<1>5. until \in [Client -> Nat] /\ DOMAIN pc = Client
  BY DEF TypeOK
<1>6. /\ until'[c] = stamp[c] + LeaseTime
      /\ pc'[c] = IF req[c].kind = "crr_recovery" THEN "flagging" ELSE "admitted"
      /\ \A d \in Client \ {c} : until'[d] = until[d] /\ pc'[d] = pc[d]
  BY <1>4, <1>5
<1>7. \A d \in Client \ {c} : InLease(d)' <=> InLease(d)
  BY <1>2, <1>6 DEF InLease
<1> QED
  BY <1>1, <1>2, <1>3, <1>6, <1>7

\* Every step is a grant or quiet.
LEMMA StepKinds ==
  ASSUME TypeOK, ThreadSound, [Next]_vars
  PROVE  (\E c \in Client : Grant(c)) \/ \E K : Quiet(K)
<1>1. now \in Nat /\ DOMAIN pc = Client /\ DOMAIN req = Client /\ DOMAIN until = Client
  BY Bounds DEF TypeOK
<1>2. ASSUME NEW c \in Client, Arrive(c) PROVE Quiet({})
  <2>1. /\ locks' = locks /\ counts' = counts /\ holders' = holders /\ now' = now
        /\ pc' = [pc EXCEPT ![c] = "asking"] /\ until' = until
    BY <1>2 DEF Arrive, ctl
  <2>2. panic' = panic
    BY <1>2 DEF Arrive, ctl
  <2>3. \A d \in Client \ {c} : req'[d] = req[d]
    BY <1>1, <1>2 DEF Arrive
  <2>4. \A d \in Client : InLease(d)' => d # c /\ InLease(d) /\ pc[d] # "idle"
    BY <1>1, <2>1 DEF InLease
  <2>5. Release({})
    BY <2>1, WithoutNothing
  <2> QED
    BY <1>1, <2>1, <2>2, <2>3, <2>4, <2>5 DEF Quiet, Frees
<1>3. ASSUME NEW c \in Client, Leave(c), now' = now, pc[c] # "idle"
      PROVE  /\ ~InLease(c)'
             /\ \A d \in Client : InLease(d)' =>
                  /\ req'[d] = req[d] /\ until'[d] = until[d] /\ pc[d] # "idle"
                  /\ InLease(d) \/ req[d].kind = "crr_recovery"
  <2>1. /\ pc' = [pc EXCEPT ![c] = "idle"] /\ req' = [req EXCEPT ![c] = NoReq]
        /\ until' = [until EXCEPT ![c] = 0]
    BY <1>3 DEF Leave
  <2>2. ~InLease(c)'
    BY <1>1, <2>1 DEF InLease
  <2>3. \A d \in Client : InLease(d)' =>
          /\ d # c /\ req'[d] = req[d] /\ until'[d] = until[d] /\ pc[d] # "idle" /\ InLease(d)
    BY <1>1, <1>3, <2>1, <2>2 DEF InLease
  <2> QED
    BY <2>2, <2>3
<1>4. ASSUME NEW c \in Client, Refuse(c) \/ Enqueue(c) PROVE Quiet(Expired(stamp[c]))
  <2>1. Asking(c) /\ Release(Expired(stamp[c])) /\ Leave(c)
    BY <1>4 DEF Refuse, Enqueue
  <2>2. pc[c] # "idle" /\ now' = now
    BY <2>1 DEF Asking
  <2>3. panic' = panic
    BY <2>1 DEF Asking
  <2> QED
    BY <1>1, <1>3, <2>1, <2>2, <2>3, ExpiredFrees DEF Quiet
<1>5. ASSUME NEW c \in Client, pc[c] # "idle", ~InLease(c)' PROVE Frees(OwnLock(c))
  <2>1. req[c] \in asks[c]
    BY <1>5 DEF ThreadSound
  <2>2. \A k \in OwnLock(c) : k = LockKey(req[c]) /\ locks[k].id = req[c].id
    BY DEF OwnLock
  <2> QED
    BY <1>5, <2>1, <2>2 DEF Frees, Reason
<1>6. ASSUME NEW c \in Client, Complete(c) PROVE Quiet(OwnLock(c))
  <2>1. /\ pc[c] = "admitted" /\ Release(OwnLock(c)) /\ pc' = [pc EXCEPT ![c] = "completed"]
        /\ now' = now /\ req' = req /\ until' = until
    BY <1>6 DEF Complete
  <2>2. panic' = panic
    BY <1>6 DEF Complete
  <2>3. ~InLease(c)'
    BY <1>1, <2>1 DEF InLease
  <2>4. \A d \in Client : InLease(d)' => InLease(d) /\ pc[d] # "idle"
    BY <1>1, <2>1, <2>3 DEF InLease
  <2> QED
    BY <1>1, <1>5, <2>1, <2>2, <2>3, <2>4 DEF Quiet
<1>7. ASSUME NEW c \in Client, ReleaseToken(c) PROVE Quiet(OwnLock(c))
  <2>1. pc[c] # "idle" /\ Release(OwnLock(c)) /\ Leave(c) /\ now' = now
    BY <1>7 DEF ReleaseToken
  <2>2. panic' = panic
    BY <1>7 DEF ReleaseToken
  <2> QED
    BY <1>1, <1>3, <1>5, <2>1, <2>2 DEF Quiet
<1>8. ASSUME NEW c \in Client, SetCrrFlag(c) PROVE Quiet({})
  <2>1. /\ pc[c] = "flagging" /\ pc' = [pc EXCEPT ![c] = "admitted"] /\ now' = now
        /\ locks' = locks /\ counts' = counts /\ holders' = holders
        /\ req' = req /\ until' = until
    BY <1>8 DEF SetCrrFlag
  <2>2. panic' = panic
    BY <1>8 DEF SetCrrFlag
  <2>3. req[c].kind = "crr_recovery"
    BY <2>1 DEF ThreadSound
  <2>4. \A d \in Client : InLease(d)' =>
          pc[d] # "idle" /\ (InLease(d) \/ req[d].kind = "crr_recovery")
    BY <1>1, <2>1, <2>3 DEF InLease
  <2>5. Release({})
    BY <2>1, WithoutNothing
  <2> QED
    BY <1>1, <2>1, <2>2, <2>4, <2>5 DEF Quiet, Frees
<1>9. ASSUME NEW c \in Client, EndCrrRecovery(c) PROVE Quiet({<<"crr_recovery", "none">>})
  <2>1. pc[c] # "idle" /\ Release({<<"crr_recovery", "none">>}) /\ Leave(c) /\ now' = now
    BY <1>9 DEF EndCrrRecovery
  <2>2. panic' = panic
    BY <1>9 DEF EndCrrRecovery
  <2>3. Frees({<<"crr_recovery", "none">>})
    BY DEF Frees, Reason
  <2> QED
    BY <1>1, <1>3, <2>1, <2>2, <2>3 DEF Quiet
<1>10. ASSUME AssertPanic PROVE Quiet({k \in Keys : locks[k].kind # "panic"})
  <2>1. /\ Release({k \in Keys : locks[k].kind # "panic"}) /\ now' = now
        /\ pc' = pc /\ req' = req /\ until' = until
    BY <1>10 DEF AssertPanic, thread
  <2>2. panic'
    BY <1>10 DEF AssertPanic
  <2>3. \A d \in Client : InLease(d)' => InLease(d) /\ pc[d] # "idle"
    BY <2>1 DEF InLease
  <2>4. Frees({k \in Keys : locks[k].kind # "panic"})
    BY <2>2 DEF Frees, Reason
  <2> QED
    BY <1>1, <2>1, <2>2, <2>3, <2>4 DEF Quiet
<1>11. ASSUME DrainQueues \/ Tick \/ UNCHANGED vars PROVE Quiet({})
  <2>1. /\ locks' = locks /\ counts' = counts /\ holders' = holders
        /\ pc' = pc /\ req' = req /\ until' = until
    BY <1>11 DEF DrainQueues, Tick, ctl, thread, vars
  <2>2. now' = now \/ now' = now + 1
    BY <1>11 DEF DrainQueues, Tick, vars
  <2>3. panic' = panic
    BY <1>11, Zenon DEF DrainQueues, Tick, ctl, vars
  <2>4. now <= now'
    BY <1>1, <2>2
  <2>5. until \in [Client -> Nat]
    BY DEF TypeOK
  <2>6. \A d \in Client : InLease(d)' => InLease(d) /\ pc[d] # "idle"
    BY <1>1, <2>1, <2>2, <2>5 DEF InLease
  <2>7. Release({})
    BY <2>1, WithoutNothing
  <2> QED
    BY <2>1, <2>3, <2>4, <2>6, <2>7 DEF Quiet, Frees
<1> QED
  BY <1>2, <1>4, <1>6, <1>7, <1>8, <1>9, <1>10, <1>11 DEF Next
-----------------------------------------------------------------------------

\* A recovery is never alone with its lock.
LEMMA AloneKind ==
  ASSUME TypeOK, ThreadSound, NEW c \in Client, pc[c] # "idle", Alone(c)
  PROVE  /\ req[c].kind # "crr_recovery"
         /\ LockKey(req[c]) # <<"crr_recovery", "none">>
         /\ Limited(req[c]) => AtLeastOne(req[c].conc) = 1
<1>1. req[c] \in Requests /\ req[c] \in Request
  BY OwnRequest
<1>2. /\ req[c].kind # "crr_recovery"
      /\ Limited(req[c]) => req[c].conc <= 1
  BY <1>1 DEF Alone, Exclusive
<1>3. LockKey(req[c]) # <<"crr_recovery", "none">>
  BY <1>1, <1>2, KeyFor
<1>4. req[c].conc \in Nat
  BY <1>1 DEF Request
<1> QED
  BY <1>2, <1>3, <1>4 DEF AtLeastOne

\* No release takes the lock from a thread that is inside its lease before
\* and after: the thread that releases would have the same request id.
LEMMA HolderNotFreed ==
  ASSUME TypeOK, ThreadSound, LocksSound, HolderSound, ~panic, ~panic',
         NEW K, Frees(K), NEW d \in Client, InLease(d), InLease(d)', Alone(d)
  PROVE  LockKey(req[d]) \notin K
<1> DEFINE k == LockKey(req[d])
<1> SUFFICES ASSUME k \in K PROVE FALSE
  OBVIOUS
<1>1. pc[d] # "idle" /\ now <= until[d]
  BY DEF InLease
<1>2. req[d] \in asks[d] /\ req[d].id \in RequestId /\ k \in Keys
  BY <1>1, OwnRequest
<1>3. locks[k].id = req[d].id /\ locks[k].until = until[d]
  BY DEF HolderSound
<1>4. Held(k)
  BY <1>2, <1>3, AdmissionAssumption DEF LocksSound
<1>5. Reason(k)
  BY <1>2, <1>4 DEF Frees
<1>6. ~(now > locks[k].until)
  <2>1. now \in Nat /\ until[d] \in Nat
    BY Bounds DEF TypeOK
  <2> QED
    BY <1>1, <1>3, <2>1
<1>7. k # <<"crr_recovery", "none">>
  BY <1>1, AloneKind
<1>8. PICK c \in Client : req[c] \in asks[c] /\ locks[k].id = req[c].id /\ ~InLease(c)'
  BY <1>5, <1>6, <1>7 DEF Reason
<1>9. Shared(req[d].id)
  BY <1>2, <1>3, <1>8 DEF Shared
<1> QED
  BY <1>9 DEF Alone

\* A grant is for another lock than the one of a thread that is alone with
\* its lock and inside its lease.
LEMMA GrantApart ==
  ASSUME TypeOK, ThreadSound, LocksSound, CountersMatchLocks, HolderSound,
         NEW c \in Client, Grant(c), NEW d \in Client, d # c, InLease(d), Alone(d)
  PROVE  LockKey(req[d]) # LockKey(req[c])
<1> DEFINE r == req[c]
           q == req[d]
           k == LockKey(q)
           K == Expired(stamp[c])
<1> SUFFICES ASSUME LockKey(q) = LockKey(r) PROVE FALSE
  OBVIOUS
<1>1. pc[c] # "idle" /\ pc[d] # "idle" /\ now <= until[d]
  BY GrantStep DEF InLease
<1>2. /\ r \in asks[c] /\ r \in Request /\ q \in asks[d] /\ q \in Request /\ k \in Keys
      /\ r \in Requests /\ q.id \in RequestId /\ LockKey(r) \in Keys
      /\ Limited(r) => r.res \in Caps
      /\ Boxed(r) => r.res \in Boxes
  BY <1>1, OwnRequest
<1>3. ~Shared(q.id) /\ q.id # r.id
  BY <1>2 DEF Alone, Shared
<1>4. /\ r.kind = q.kind
      /\ Limited(r) <=> Limited(q)
      /\ Boxed(r) <=> Boxed(q)
      /\ Limited(r) \/ Boxed(r) \/ r.kind \in Singletons \cup {"crr_recovery"}
  BY <1>2, <1>3, SameKey
<1>5. r.kind # "crr_recovery"
  BY <1>1, <1>4, AloneKind
<1>6. r.kind # "panic"
  BY <1>4, <1>5 DEF Limited, Boxed, Singletons
<1>7. ~Objection(r, stamp[c]) /\ ~Full(r, stamp[c]) /\ ~Taken(r, stamp[c])
  BY GrantStep
<1>8. ~panic
  BY <1>6, <1>7 DEF Objection
<1>9. locks[k].id = q.id /\ locks[k].until = until[d]
  BY <1>8 DEF HolderSound
<1>10. Held(k)
  BY <1>2, <1>9, AdmissionAssumption DEF LocksSound
<1>11. k \notin K
  <2>1. now \in Nat /\ until[d] \in Nat
    BY Bounds DEF TypeOK
  <2>2. k \in K => now > locks[k].until
    BY ExpiredFrees
  <2> QED
    BY <1>1, <1>9, <2>1, <2>2
<1>12. LocksWithout(K)[k] = locks[k] /\ locks[k] # NoLock
  BY <1>2, <1>10, <1>11, Without DEF Held
<1>13. CASE r.kind \in Singletons
  BY <1>7, <1>12, <1>13 DEF Taken
<1>14. CASE Boxed(r)
  <2>1. k = <<"ter", r.res>>
    BY <1>2, <1>14, KeyOf
  <2>2. holders[r.res] = q.id
    BY <1>2, <1>9, <1>14, <2>1 DEF CountersMatchLocks
  <2>3. HoldersWithout(K)[r.res] = q.id
    BY <1>2, <1>11, <1>14, <2>1, <2>2, Without
  <2> QED
    BY <1>2, <1>7, <1>14, <2>3, AdmissionAssumption DEF Taken
<1>15. CASE Limited(r)
  <2>1. k = <<"oea", r.res>> /\ Exclusive(k)
    BY <1>2, <1>15, KeyOf DEF Alone
  <2>2. counts[r.res] = 1
    BY <1>2, <1>10, <1>15, <2>1 DEF CountersMatchLocks
  <2>3. CountsWithout(K)[r.res] = 1
    BY <1>2, <1>11, <1>15, <2>1, <2>2, Without
  <2>4. r.conc \in Nat /\ r.conc <= 1
    BY <1>2, <1>15, <2>1 DEF Exclusive, Request
  <2>5. AtLeastOne(r.conc) = 1
    BY <2>4 DEF AtLeastOne
  <2> QED
    BY <1>7, <1>15, <2>3, <2>5 DEF Full
<1> QED
  BY <1>4, <1>5, <1>13, <1>14, <1>15

\* The lock table after a release.
LEMMA Released ==
  ASSUME TypeOK, NEW K, Release(K)
  PROVE  /\ \A k \in Keys : locks'[k] = IF k \in K THEN NoLock ELSE locks[k]
         /\ \A a \in Caps : counts'[a] =
              IF <<"oea", a>> \in K /\ Held(<<"oea", a>>) /\ counts[a] > 0
                THEN counts[a] - 1 ELSE counts[a]
         /\ \A b \in Boxes : holders'[b] = IF <<"ter", b>> \in K THEN "none" ELSE holders[b]
  BY Without DEF Release

\* A lock entry names a request after every step.
LEMMA LocksPreserved ==
  ASSUME TypeOK, ThreadSound, LocksSound, [Next]_vars
  PROVE  LocksSound'
<1>1. Keys' = Keys
  BY AsksFixed, WorkloadFixed DEF Fixed
<1>2. NoLock.id = "none"
  BY DEF NoLock
<1>3. ASSUME NEW K PROVE \A k \in Keys :
        LocksWithout(K)[k] # NoLock <=> LocksWithout(K)[k].id # "none"
  BY <1>2, Without DEF LocksSound, Held
<1>4. ASSUME NEW K, Quiet(K) PROVE LocksSound'
  BY <1>1, <1>3, <1>4 DEF LocksSound, Held, Quiet, Release
<1>5. ASSUME NEW c \in Client, Grant(c) PROVE LocksSound'
  <2>1. pc[c] # "idle"
    BY <1>5, GrantStep
  <2>2. req[c].id \in RequestId
    BY <2>1, OwnRequest
  <2>3. locks'[LockKey(req[c])].id = req[c].id /\ req[c].id # "none"
    BY <1>5, <2>2, GrantedLocks, AdmissionAssumption
  <2>4. \A k \in Keys : k # LockKey(req[c]) => locks'[k] = LocksWithout(Expired(stamp[c]))[k]
    BY <1>5, Granted
  <2>5. \A k \in Keys : locks'[k] # NoLock <=> locks'[k].id # "none"
    BY <1>2, <1>3, <2>3, <2>4
  <2> QED
    BY <1>1, <2>5 DEF LocksSound, Held
<1> QED
  BY <1>4, <1>5, StepKinds

\* The counters and the sandbox holders follow the locks.
LEMMA CountersPreserved ==
  ASSUME TypeOK, ThreadSound, LocksSound, CountersMatchLocks, [Next]_vars
  PROVE  CountersMatchLocks'
<1>1. /\ Caps' = Caps /\ Boxes' = Boxes
      /\ \A k : Exclusive(k)' <=> Exclusive(k)
  BY AsksFixed, WorkloadFixed DEF Fixed
<1>2. ASSUME NEW K
      PROVE  /\ \A a \in Caps : Exclusive(<<"oea", a>>) =>
                  CountsWithout(K)[a] = IF LocksWithout(K)[<<"oea", a>>] # NoLock THEN 1 ELSE 0
             /\ \A b \in Boxes : HoldersWithout(K)[b] = LocksWithout(K)[<<"ter", b>>].id
  <2>1. ASSUME NEW a \in Caps, Exclusive(<<"oea", a>>)
        PROVE  CountsWithout(K)[a] = IF LocksWithout(K)[<<"oea", a>>] # NoLock THEN 1 ELSE 0
    <3>1. /\ <<"oea", a>> \in Keys
          /\ counts[a] = IF Held(<<"oea", a>>) THEN 1 ELSE 0
      BY <2>1, Tables DEF CountersMatchLocks
    <3> QED
      BY <3>1, Without DEF Held
  <2>2. ASSUME NEW b \in Boxes
        PROVE  HoldersWithout(K)[b] = LocksWithout(K)[<<"ter", b>>].id
    <3>1. <<"ter", b>> \in Keys /\ holders[b] = locks[<<"ter", b>>].id
      BY Tables DEF CountersMatchLocks
    <3>2. NoLock.id = "none"
      BY DEF NoLock
    <3> QED
      BY <3>1, <3>2, Without
  <2> QED
    BY <2>1, <2>2
<1>3. ASSUME NEW K, Quiet(K) PROVE CountersMatchLocks'
  BY <1>1, <1>2, <1>3 DEF CountersMatchLocks, Held, Quiet, Release
<1>4. ASSUME NEW c \in Client, Grant(c) PROVE CountersMatchLocks'
  <2> DEFINE r == req[c]
             K == Expired(stamp[c])
  <2>1. pc[c] # "idle" /\ ~Full(r, stamp[c])
    BY <1>4, GrantStep
  <2>2. r \in Request /\ r \in Requests /\ r.id \in RequestId /\ LockKey(r) \in Keys
    BY <2>1, OwnRequest
  <2>3. locks'[LockKey(r)].id = r.id /\ r.id # "none"
    BY <1>4, <2>2, GrantedLocks, AdmissionAssumption
  <2>4. \A k \in Keys : k # LockKey(r) => locks'[k] = LocksWithout(K)[k]
    BY <1>4, Granted
  <2>5. \A a \in Caps : counts'[a] =
          IF Limited(r) /\ r.res = a THEN CountsWithout(K)[a] + 1 ELSE CountsWithout(K)[a]
    BY <1>4, Granted
  <2>6. \A b \in Boxes : holders'[b] = IF Boxed(r) /\ r.res = b THEN r.id ELSE HoldersWithout(K)[b]
    BY <1>4, Granted
  <2>7. ASSUME NEW a \in Caps, Exclusive(<<"oea", a>>)
        PROVE  counts'[a] = IF locks'[<<"oea", a>>] # NoLock THEN 1 ELSE 0
    <3>1. CASE Limited(r) /\ r.res = a
      <4>1. LockKey(r) = <<"oea", a>>
        BY <2>2, <3>1, KeyOf
      <4>2. r.conc \in Nat /\ r.conc <= 1
        BY <2>2, <2>7, <3>1, <4>1 DEF Exclusive, Request
      <4>3. AtLeastOne(r.conc) = 1 /\ CountsWithout(K)[a] \in Nat
        BY <4>2, Without DEF AtLeastOne
      <4>4. CountsWithout(K)[a] = 0
        BY <2>1, <3>1, <4>3 DEF Full
      <4>5. NoLock.id = "none"
        BY DEF NoLock
      <4>6. locks'[<<"oea", a>>] # NoLock
        BY <2>3, <4>1, <4>5
      <4>7. counts'[a] = 1
        BY <2>5, <3>1, <4>4
      <4> QED
        BY <4>6, <4>7
    <3>2. CASE ~(Limited(r) /\ r.res = a)
      <4>1. LockKey(r) # <<"oea", a>> /\ <<"oea", a>> \in Keys
        BY <2>2, <3>2, KeyFor, Tables
      <4> QED
        BY <1>2, <2>4, <2>5, <2>7, <3>2, <4>1
    <3> QED
      BY <3>1, <3>2
  <2>8. ASSUME NEW b \in Boxes PROVE holders'[b] = locks'[<<"ter", b>>].id
    <3>1. CASE Boxed(r) /\ r.res = b
      <4>1. LockKey(r) = <<"ter", b>>
        BY <2>2, <3>1, KeyOf
      <4> QED
        BY <2>3, <2>6, <3>1, <4>1
    <3>2. CASE ~(Boxed(r) /\ r.res = b)
      <4>1. LockKey(r) # <<"ter", b>> /\ <<"ter", b>> \in Keys
        BY <2>2, <3>2, KeyFor, Tables
      <4> QED
        BY <1>2, <2>4, <2>6, <3>2, <4>1
    <3> QED
      BY <3>1, <3>2
  <2> QED
    BY <1>1, <2>7, <2>8 DEF CountersMatchLocks, Held
<1> QED
  BY <1>3, <1>4, StepKinds

\* A panic leaves only the locks of panic handling, and lets no other in.
LEMMA PanicPreserved ==
  ASSUME TypeOK, ThreadSound, PanicClearsLocks, [Next]_vars
  PROVE  PanicClearsLocks'
<1>1. Keys' = Keys
  BY AsksFixed, WorkloadFixed DEF Fixed
<1>2. NoLock.kind = "none"
  BY DEF NoLock
<1>3. ASSUME NEW K, Quiet(K), panic'
      PROVE  \A k \in Keys : locks'[k].kind \in {"none", "panic"}
  <2>1. \A k \in Keys : locks'[k] = IF k \in K THEN NoLock ELSE locks[k]
    BY <1>3, Released DEF Quiet
  <2>2. CASE panic
    BY <1>2, <2>1, <2>2 DEF PanicClearsLocks
  <2>3. CASE ~panic
    BY <1>2, <1>3, <2>1, <2>3 DEF Quiet
  <2> QED
    BY <2>2, <2>3
<1>4. ASSUME NEW c \in Client, Grant(c), panic'
      PROVE  \A k \in Keys : locks'[k].kind \in {"none", "panic"}
  <2>1. panic /\ ~Objection(req[c], stamp[c])
    BY <1>4, GrantStep
  <2>2. req[c].kind = "panic"
    BY <2>1 DEF Objection
  <2>3. locks'[LockKey(req[c])].kind = "panic"
    BY <1>4, <2>2, GrantedLocks
  <2>4. \A k \in Keys : LocksWithout(Expired(stamp[c]))[k].kind \in {"none", "panic"}
    BY <1>2, <2>1, Without DEF PanicClearsLocks
  <2>5. \A k \in Keys : k # LockKey(req[c]) => locks'[k] = LocksWithout(Expired(stamp[c]))[k]
    BY <1>4, Granted
  <2> QED
    BY <2>3, <2>4, <2>5
<1> QED
  BY <1>1, <1>3, <1>4, StepKinds DEF PanicClearsLocks

\* A thread keeps its lock, and is alone in it.
LEMMA HolderPreserved ==
  ASSUME TypeOK, ThreadSound, LocksSound, CountersMatchLocks, HolderSound, MutexSound, [Next]_vars
  PROVE  HolderSound' /\ MutexSound'
<1>1. /\ \A k : Exclusive(k)' <=> Exclusive(k)
      /\ \A i : Shared(i)' <=> Shared(i)
  BY AsksFixed, WorkloadFixed
<1>2. \A d \in Client : req'[d] = req[d] => (Alone(d)' <=> Alone(d))
  BY <1>1 DEF Alone
<1>3. ASSUME NEW K, Quiet(K) PROVE HolderSound' /\ MutexSound'
  <2>1. ASSUME NEW d \in Client, InLease(d)', Alone(d)'
        PROVE  InLease(d) /\ Alone(d) /\ req'[d] = req[d] /\ until'[d] = until[d]
    <3>1. /\ req'[d] = req[d] /\ until'[d] = until[d] /\ pc[d] # "idle"
          /\ InLease(d) \/ req[d].kind = "crr_recovery"
      BY <1>3, <2>1 DEF Quiet
    <3>2. Alone(d)
      BY <1>2, <2>1, <3>1
    <3> QED
      BY <3>1, <3>2, AloneKind
  <2>2. ASSUME ~panic', NEW d \in Client, InLease(d)', Alone(d)'
        PROVE  /\ locks'[LockKey(req'[d])].id = req'[d].id
               /\ locks'[LockKey(req'[d])].until = until'[d]
    <3>1. InLease(d) /\ Alone(d) /\ req'[d] = req[d] /\ until'[d] = until[d]
      BY <2>1, <2>2
    <3>2. ~panic /\ Frees(K) /\ Release(K)
      BY <1>3, <2>2 DEF Quiet
    <3>3. LockKey(req[d]) \notin K
      BY <2>2, <3>1, <3>2, HolderNotFreed
    <3>4. LockKey(req[d]) \in Keys
      BY <3>1, OwnRequest DEF InLease
    <3>5. locks'[LockKey(req[d])] = locks[LockKey(req[d])]
      BY <3>2, <3>3, <3>4, Released
    <3> QED
      BY <3>1, <3>2, <3>5 DEF HolderSound
  <2>3. HolderSound'
    BY <2>2 DEF HolderSound
  <2>4. MutexSound'
    BY <2>1 DEF MutexSound
  <2> QED
    BY <2>3, <2>4
<1>4. ASSUME NEW c \in Client, Grant(c) PROVE HolderSound' /\ MutexSound'
  <2>1. /\ req' = req /\ panic' = panic /\ pc[c] = "asking"
        /\ until'[c] = stamp[c] + LeaseTime
        /\ \A d \in Client \ {c} : (InLease(d)' <=> InLease(d)) /\ until'[d] = until[d]
    BY <1>4, GrantStep
  <2>2. \A d \in Client : Alone(d)' <=> Alone(d)
    BY <1>2, <2>1
  <2>3. \A d \in Client \ {c} : InLease(d) /\ Alone(d) => LockKey(req[d]) # LockKey(req[c])
    BY <1>4, GrantApart
  <2>4. MutexSound'
    BY <2>1, <2>2, <2>3 DEF MutexSound
  <2>5. ASSUME ~panic, NEW d \in Client \ {c}, InLease(d), Alone(d)
        PROVE  /\ locks'[LockKey(req[d])].id = req[d].id
               /\ locks'[LockKey(req[d])].until = until[d]
    <3>1. LockKey(req[d]) \in Keys
      BY <2>5, OwnRequest DEF InLease
    <3>2. LockKey(req[d]) \notin Expired(stamp[c])
      BY <2>1, <2>5, HolderNotFreed, ExpiredFrees
    <3>3. locks'[LockKey(req[d])] = locks[LockKey(req[d])]
      BY <1>4, <2>3, <2>5, <3>1, <3>2, GrantedLocks
    <3> QED
      BY <2>5, <3>3 DEF HolderSound
  <2>6. /\ locks'[LockKey(req[c])].id = req[c].id
        /\ locks'[LockKey(req[c])].until = until'[c]
    BY <1>4, <2>1, GrantedLocks
  <2>7. HolderSound'
    BY <2>1, <2>2, <2>5, <2>6 DEF HolderSound
  <2> QED
    BY <2>4, <2>7
<1> QED
  BY <1>3, <1>4, StepKinds
-----------------------------------------------------------------------------

\* The users of a capability are finitely many.
LEMMA UsersFinite ==
  ASSUME NEW V, NEW a, V \subseteq Users(a)
  PROVE  /\ IsFiniteSet(V) /\ IsFiniteSet(Users(a))
         /\ Cardinality(V) \in Nat /\ Cardinality(Users(a)) \in Nat
         /\ Cardinality(V) <= Cardinality(Users(a))
         /\ \A c \in Users(a) : c \notin V => Cardinality(V) + 1 <= Cardinality(Users(a))
<1>1. IsFiniteSet(Users(a))
  BY AdmissionAssumption, FS_Subset DEF Users
<1>2. IsFiniteSet(V) /\ Cardinality(V) <= Cardinality(Users(a))
  BY <1>1, FS_Subset
<1>3. Cardinality(V) \in Nat /\ Cardinality(Users(a)) \in Nat
  BY <1>1, <1>2, FS_CardinalityType
<1>4. ASSUME NEW c \in Users(a), c \notin V PROVE Cardinality(V) + 1 <= Cardinality(Users(a))
  <2>1. Cardinality(V \cup {c}) = Cardinality(V) + 1
    BY <1>2, <1>4, FS_AddElement
  <2>2. V \cup {c} \subseteq Users(a)
    BY <1>4
  <2>3. Cardinality(V \cup {c}) <= Cardinality(Users(a))
    BY <1>1, <2>2, FS_Subset
  <2> QED
    BY <2>1, <2>3
<1> QED
  BY <1>1, <1>2, <1>3, <1>4

\* A release takes from the counter of a capability no more than its users
\* lose: the entry that goes was a user's that has left, or was counted
\* besides the users.
LEMMA CountAfterRelease ==
  ASSUME TypeOK, ThreadSound, LocksSound, CountSound, ~panic, ~panic',
         NEW K, Frees(K), NEW a \in Caps,
         NEW V, V \subseteq Users(a), \A d \in V : InLease(d)'
  PROVE  /\ Cardinality(V) <= CountsWithout(K)[a]
         /\ \/ LocksWithout(K)[<<"oea", a>>] = NoLock
            \/ \E d \in V : /\ locks[<<"oea", a>>].id = req[d].id
                            /\ locks[<<"oea", a>>].until = until[d]
            \/ Cardinality(V) + 1 <= CountsWithout(K)[a]
<1> DEFINE e == <<"oea", a>>
           n == Cardinality(Users(a))
           m == Cardinality(V)
<1>1. e \in Keys /\ counts[a] \in Nat
  BY Tables DEF TypeOK
<1>2. /\ m \in Nat /\ n \in Nat /\ m <= n
      /\ \A c \in Users(a) : c \notin V => m + 1 <= n
  BY UsersFinite
<1>3. /\ n <= counts[a]
      /\ Held(e) /\ ~Owned(a) => n + 1 <= counts[a]
  BY DEF CountSound
<1>4. /\ LocksWithout(K)[e] = IF e \in K THEN NoLock ELSE locks[e]
      /\ CountsWithout(K)[a] =
           IF e \in K /\ Held(e) /\ counts[a] > 0 THEN counts[a] - 1 ELSE counts[a]
  BY <1>1, Without
<1> HIDE DEF e, n, m
<1>5. CASE ~Held(e)
  <2>1. m <= CountsWithout(K)[a]
    BY <1>1, <1>2, <1>3, <1>4, <1>5
  <2>2. LocksWithout(K)[e] = NoLock
    BY <1>4, <1>5 DEF Held
  <2> QED
    BY <2>1, <2>2 DEF e, m
<1>6. CASE Held(e) /\ ~Owned(a)
  <2>1. m + 1 <= counts[a]
    BY <1>1, <1>2, <1>3, <1>6
  <2>2. CASE e \in K
    <3>1. m <= CountsWithout(K)[a] /\ LocksWithout(K)[e] = NoLock
      BY <1>1, <1>2, <1>4, <2>1, <2>2
    <3> QED
      BY <3>1 DEF e, m
  <2>3. CASE e \notin K
    <3>1. m <= CountsWithout(K)[a] /\ m + 1 <= CountsWithout(K)[a]
      BY <1>1, <1>2, <1>4, <2>1, <2>3
    <3> QED
      BY <3>1 DEF e, m
  <2> QED
    BY <2>2, <2>3
<1>7. CASE Held(e) /\ Owned(a)
  <2>1. PICK c \in Users(a) : locks[e].id = req[c].id /\ locks[e].until = until[c]
    BY <1>7 DEF Owned, e
  <2>2. CASE e \notin K
    <3>1. m <= CountsWithout(K)[a] /\ (c \notin V => m + 1 <= CountsWithout(K)[a])
      BY <1>1, <1>2, <1>3, <1>4, <2>2
    <3>2. CASE c \in V
      BY <2>1, <3>1, <3>2 DEF e, m
    <3>3. CASE c \notin V
      BY <3>1, <3>3 DEF e, m
    <3> QED
      BY <3>2, <3>3
  <2>3. CASE e \in K
    <3>1. Reason(e)
      BY <1>1, <1>7, <2>3 DEF Frees
    <3>2. c \in Client /\ InLease(c) /\ now <= until[c] /\ pc[c] # "idle" /\ ~Shared(req[c].id)
      BY DEF Users, InLease
    <3>3. ~(now > locks[e].until)
      <4>1. now \in Nat /\ until[c] \in Nat
        BY <3>2, Bounds DEF TypeOK
      <4> QED
        BY <2>1, <3>2, <4>1
    <3>4. e # <<"crr_recovery", "none">>
      <4>1. e[1] = "oea"
        BY DEF e
      <4> QED
        BY <4>1
    <3>5. PICK d \in Client : req[d] \in asks[d] /\ locks[e].id = req[d].id /\ ~InLease(d)'
      BY <3>1, <3>3, <3>4 DEF Reason
    <3>6. req[c] \in asks[c]
      BY <3>2, OwnRequest
    <3>7. c = d
      BY <2>1, <3>2, <3>5, <3>6 DEF Shared
    <3>8. c \notin V
      BY <3>5, <3>7
    <3>9. m + 1 <= counts[a]
      BY <1>1, <1>2, <1>3, <3>8
    <3>10. m <= CountsWithout(K)[a] /\ LocksWithout(K)[e] = NoLock
      BY <1>1, <1>2, <1>4, <2>3, <3>9
    <3> QED
      BY <3>10 DEF e, m
  <2> QED
    BY <2>2, <2>3
<1> QED
  BY <1>5, <1>6, <1>7

\* After a quiet step a capability has no other users than before it.
LEMMA QuietUsers ==
  ASSUME TypeOK, ThreadSound, asks' = asks, NEW K, Quiet(K), NEW a \in Caps
  PROVE  /\ Users(a)' \subseteq Users(a)
         /\ \A d \in Users(a)' : InLease(d)' /\ req'[d] = req[d] /\ until'[d] = until[d]
<1>1. \A i : Shared(i)' <=> Shared(i)
  BY WorkloadFixed
<1>2. ASSUME NEW d \in Users(a)'
      PROVE  d \in Users(a) /\ InLease(d)' /\ req'[d] = req[d] /\ until'[d] = until[d]
  <2>1. /\ d \in Client /\ InLease(d)' /\ Limited(req'[d]) /\ req'[d].res = a
        /\ ~Shared(req'[d].id)
    BY <1>1, <1>2 DEF Users
  <2>2. /\ req'[d] = req[d] /\ until'[d] = until[d]
        /\ InLease(d) \/ req[d].kind = "crr_recovery"
    BY <2>1 DEF Quiet
  <2>3. InLease(d)
    BY <2>1, <2>2 DEF Limited
  <2> QED
    BY <2>1, <2>2, <2>3 DEF Users
<1> QED
  BY <1>2

\* A grant adds at most its own thread to the users of its capability.
LEMMA GrantUsers ==
  ASSUME TypeOK, ThreadSound, NEW c \in Client, Grant(c), NEW a \in Caps
  PROVE  /\ Users(a)' \ {c} \subseteq Users(a)
         /\ \A d \in Users(a)' \ {c} : InLease(d)' /\ req'[d] = req[d] /\ until'[d] = until[d]
         /\ c \in Users(a)' => Limited(req[c]) /\ req[c].res = a
<1>1. /\ req' = req /\ asks' = asks
      /\ \A d \in Client \ {c} : (InLease(d)' <=> InLease(d)) /\ until'[d] = until[d]
  BY GrantStep
<1>2. \A i : Shared(i)' <=> Shared(i)
  BY <1>1, WorkloadFixed
<1> QED
  BY <1>1, <1>2 DEF Users

\* The counter keeps counting every user.
LEMMA CountPreserved ==
  ASSUME TypeOK, ThreadSound, LocksSound, CountSound, [Next]_vars, TypeOK', ThreadSound'
  PROVE  CountSound'
<1>1. asks' = asks /\ Caps' = Caps /\ Keys' = Keys
  BY AsksFixed, WorkloadFixed DEF Fixed
<1> DEFINE Counted(a) ==
      /\ Cardinality(Users(a)') <= counts'[a]
      /\ locks'[<<"oea", a>>] # NoLock /\ ~Owned(a)' => Cardinality(Users(a)') + 1 <= counts'[a]
<1>2. ASSUME NEW K, Quiet(K), ~panic', NEW a \in Caps PROVE Counted(a)
  <2>1. ~panic /\ Frees(K) /\ Release(K)
    BY <1>2 DEF Quiet
  <2>2. /\ Users(a)' \subseteq Users(a)
        /\ \A d \in Users(a)' : InLease(d)' /\ req'[d] = req[d] /\ until'[d] = until[d]
    BY <1>1, <1>2, QuietUsers
  <2>3. counts' = CountsWithout(K) /\ locks' = LocksWithout(K)
    BY <2>1 DEF Release
  <2>4. /\ Cardinality(Users(a)') <= counts'[a]
        /\ \/ locks'[<<"oea", a>>] = NoLock
           \/ \E d \in Users(a)' : /\ locks[<<"oea", a>>].id = req[d].id
                                   /\ locks[<<"oea", a>>].until = until[d]
           \/ Cardinality(Users(a)') + 1 <= counts'[a]
    BY <1>2, <2>1, <2>2, <2>3, CountAfterRelease
  <2>5. locks'[<<"oea", a>>] = NoLock \/ locks'[<<"oea", a>>] = locks[<<"oea", a>>]
    BY <2>1, Released, Tables
  <2>6. ASSUME locks'[<<"oea", a>>] # NoLock, ~Owned(a)'
        PROVE  ~\E d \in Users(a)' : /\ locks[<<"oea", a>>].id = req[d].id
                                     /\ locks[<<"oea", a>>].until = until[d]
    BY <2>2, <2>5, <2>6 DEF Owned
  <2> QED
    BY <2>4, <2>6
<1>3. ASSUME NEW c \in Client, Grant(c), ~panic', NEW a \in Caps PROVE Counted(a)
  <2> DEFINE r == req[c]
             K == Expired(stamp[c])
             V == Users(a)' \ {c}
  <2>1. ~panic /\ Frees(K) /\ pc[c] # "idle" /\ req' = req /\ until'[c] = stamp[c] + LeaseTime
    BY <1>3, GrantStep, ExpiredFrees
  <2>2. r \in Request
    BY <2>1, OwnRequest
  <2>3. /\ V \subseteq Users(a)
        /\ \A d \in V : InLease(d)' /\ req'[d] = req[d] /\ until'[d] = until[d]
        /\ c \in Users(a)' => Limited(r) /\ r.res = a
    BY <1>3, GrantUsers
  <2>4. /\ Cardinality(V) <= CountsWithout(K)[a]
        /\ \/ LocksWithout(K)[<<"oea", a>>] = NoLock
           \/ \E d \in V : /\ locks[<<"oea", a>>].id = req[d].id
                           /\ locks[<<"oea", a>>].until = until[d]
           \/ Cardinality(V) + 1 <= CountsWithout(K)[a]
    BY <1>3, <2>1, <2>3, CountAfterRelease
  <2>5. counts'[a] = IF Limited(r) /\ r.res = a THEN CountsWithout(K)[a] + 1 ELSE CountsWithout(K)[a]
    BY <1>3, Granted
  <2>6. IsFiniteSet(V) /\ Cardinality(V) \in Nat /\ CountsWithout(K)[a] \in Nat
    BY <2>3, UsersFinite, Without
  <2> HIDE DEF V, K, r
  <2>7. CASE Limited(r) /\ r.res = a
    <3>1. <<"oea", a>> = LockKey(r)
      BY <2>2, <2>7, KeyOf
    <3>2. locks'[<<"oea", a>>].id = r.id /\ locks'[<<"oea", a>>].until = until'[c]
      BY <1>3, <2>1, <3>1, GrantedLocks DEF r
    <3>3. Cardinality(V) + 1 <= counts'[a]
      BY <2>4, <2>5, <2>6, <2>7
    <3>4. CASE c \in Users(a)'
      <4>1. Owned(a)'
        BY <2>1, <3>2, <3>4 DEF Owned, r
      <4>2. Users(a)' = V \cup {c} /\ c \notin V
        BY <3>4 DEF V
      <4>3. Cardinality(Users(a)') = Cardinality(V) + 1
        BY <2>6, <4>2, FS_AddElement
      <4> QED
        BY <3>3, <4>1, <4>3
    <3>5. CASE c \notin Users(a)'
      <4>1. Users(a)' = V
        BY <3>5 DEF V
      <4> QED
        BY <2>6, <3>3, <4>1, <2>4, <2>5, <2>7
    <3> QED
      BY <3>4, <3>5
  <2>8. CASE ~(Limited(r) /\ r.res = a)
    <3>1. Users(a)' = V
      BY <2>3, <2>8 DEF V
    <3>2. <<"oea", a>> # LockKey(r) /\ <<"oea", a>> \in Keys
      BY <2>2, <2>8, KeyFor, Tables
    <3>3. /\ locks'[<<"oea", a>>] = LocksWithout(K)[<<"oea", a>>]
          /\ locks'[<<"oea", a>>] = NoLock \/ locks'[<<"oea", a>>] = locks[<<"oea", a>>]
      BY <1>3, <3>2, GrantedLocks, Without DEF r, K
    <3>4. ASSUME locks'[<<"oea", a>>] # NoLock, ~Owned(a)'
          PROVE  ~\E d \in V : /\ locks[<<"oea", a>>].id = req[d].id
                               /\ locks[<<"oea", a>>].until = until[d]
      BY <2>3, <3>1, <3>3, <3>4 DEF Owned
    <3> QED
      BY <2>4, <2>5, <2>8, <3>1, <3>3, <3>4
  <2> QED
    BY <2>7, <2>8
<1>4. ASSUME ~panic', NEW a \in Caps PROVE Counted(a)
  BY <1>2, <1>3, <1>4, StepKinds
<1> QED
  BY <1>1, <1>4 DEF CountSound, Held

\* The users stay within a limit that a request for the capability stated.
LEMMA LimitPreserved ==
  ASSUME TypeOK, ThreadSound, LocksSound, CountSound, LimitSound, [Next]_vars
  PROVE  LimitSound'
<1>1. asks' = asks /\ Caps' = Caps /\ \A a : Limits(a)' = Limits(a)
  BY AsksFixed, WorkloadFixed DEF Fixed
<1>2. ASSUME NEW a \in Caps PROVE Limits(a) \subseteq Nat
  BY Tables DEF Limits, AtLeastOne, Request
<1>3. ASSUME NEW a \in Caps, Users(a)' \subseteq Users(a)
      PROVE  \E n \in Limits(a) : Cardinality(Users(a)') <= n
  <2>1. PICK n \in Limits(a) : Cardinality(Users(a)) <= n
    BY DEF LimitSound
  <2>2. Cardinality(Users(a)') <= Cardinality(Users(a))
        /\ Cardinality(Users(a)') \in Nat /\ Cardinality(Users(a)) \in Nat /\ n \in Nat
    BY <1>2, <1>3, UsersFinite
  <2> QED
    BY <2>1, <2>2
<1>4. ASSUME NEW K, Quiet(K), NEW a \in Caps
      PROVE  \E n \in Limits(a) : Cardinality(Users(a)') <= n
  BY <1>1, <1>3, <1>4, QuietUsers
<1>5. ASSUME NEW c \in Client, Grant(c), NEW a \in Caps
      PROVE  \E n \in Limits(a) : Cardinality(Users(a)') <= n
  <2> DEFINE r == req[c]
             K == Expired(stamp[c])
             V == Users(a)' \ {c}
  <2>1. /\ V \subseteq Users(a)
        /\ \A d \in V : InLease(d)'
        /\ c \in Users(a)' => Limited(r) /\ r.res = a
    BY <1>5, GrantUsers
  <2>2. CASE c \notin Users(a)'
    <3>1. Users(a)' \subseteq Users(a)
      BY <2>1, <2>2
    <3> QED
      BY <1>3, <3>1
  <2>3. CASE c \in Users(a)'
    <3>1. /\ Limited(r) /\ r.res = a
          /\ ~Objection(r, stamp[c]) /\ ~Full(r, stamp[c]) /\ pc[c] # "idle" /\ Frees(K)
          /\ panic' = panic
      BY <1>5, <2>1, <2>3, GrantStep, ExpiredFrees
    <3>2. ~panic
      BY <3>1 DEF Objection, Limited
    <3>3. Cardinality(V) <= CountsWithout(K)[a]
      BY <2>1, <3>1, <3>2, CountAfterRelease
    <3>4. IsFiniteSet(V) /\ Cardinality(V) \in Nat /\ CountsWithout(K)[a] \in Nat
      BY <2>1, UsersFinite, Without
    <3>5. r \in Requests /\ r \in Request /\ r.conc \in Nat
      BY <3>1, OwnRequest DEF Request
    <3>6. AtLeastOne(r.conc) \in Limits(a) /\ AtLeastOne(r.conc) \in Nat
      BY <3>1, <3>5 DEF Limits, AtLeastOne
    <3>7. CountsWithout(K)[a] < AtLeastOne(r.conc)
      BY <3>1, <3>4, <3>6 DEF Full
    <3> HIDE DEF V, K, r
    <3>8. Users(a)' = V \cup {c} /\ c \notin V
      BY <2>3 DEF V
    <3>9. Cardinality(Users(a)') = Cardinality(V) + 1
      BY <3>4, <3>8, FS_AddElement
    <3>10. Cardinality(Users(a)') <= AtLeastOne(r.conc)
      BY <3>3, <3>4, <3>6, <3>7, <3>9
    <3> QED
      BY <3>6, <3>10
  <2> QED
    BY <2>2, <2>3
<1>6. ASSUME NEW a \in Caps PROVE \E n \in Limits(a) : Cardinality(Users(a)') <= n
  BY <1>4, <1>5, StepKinds
<1> QED
  BY <1>1, <1>6 DEF LimitSound
-----------------------------------------------------------------------------

\* What a step does to the records and the completions: a completion is
\* recorded, or no record of the last retention window goes.
LEMMA DoneSteps ==
  ASSUME TypeOK, ThreadSound, [Next]_vars
  PROVE  \/ \E c \in Client : Complete(c)
         \/ /\ done' = done
            /\ \/ records' = records
               \/ \E t \in Nat : t <= now /\ records' = Purged(t)
<1>1. ASSUME NEW c \in Client, Refuse(c) \/ Enqueue(c) \/ Grant(c)
      PROVE  /\ done' = done
             /\ \E t \in Nat : t <= now /\ records' = Purged(t)
  <2>1. Asking(c)
    BY <1>1 DEF Refuse, Enqueue, Grant
  <2>2. done' = done /\ records' = Purged(stamp[c])
    BY <2>1 DEF Asking
  <2> QED
    BY <2>1, <2>2, AskingTyped
<1>2. ASSUME NEW c \in Client, Arrive(c) \/ ReleaseToken(c) \/ SetCrrFlag(c) \/ EndCrrRecovery(c)
      PROVE  done' = done /\ records' = records
  BY <1>2 DEF Arrive, ReleaseToken, SetCrrFlag, EndCrrRecovery, ctl
<1>3. ASSUME AssertPanic \/ DrainQueues \/ Tick \/ UNCHANGED vars
      PROVE  done' = done /\ records' = records
  BY <1>3 DEF AssertPanic, DrainQueues, Tick, ctl, vars
<1> QED
  BY <1>1, <1>2, <1>3 DEF Next

\* The records after a completion.
LEMMA Completed ==
  ASSUME TypeOK, ThreadSound, DoneSound, NEW c \in Client, Complete(c)
  PROVE  LET new == [req |-> req[c], at |-> now, held |-> now <= until[c]] IN
         /\ done' = done \cup {new}
         /\ new.req = req[c] /\ new.at = now /\ (new.held <=> now <= until[c])
         /\ new \in [req: Requests, at: 0 .. now, held: BOOLEAN]
         /\ records'[req[c].key] = [id |-> req[c].id, at |-> now]
         /\ \A k \in IdemKeys : k # req[c].key => records'[k] = Purged(now)[k]
         /\ now' = now /\ req' = req /\ until' = until /\ asks' = asks
         /\ pc[c] = "admitted" /\ pc'[c] = "completed"
         /\ \A d \in Client \ {c} : InLease(d)' <=> InLease(d)
<1> DEFINE new == [req |-> req[c], at |-> now, held |-> now <= until[c]]
<1>1. /\ done' = done \cup {new} /\ pc[c] = "admitted" /\ pc' = [pc EXCEPT ![c] = "completed"]
      /\ now' = now /\ req' = req /\ until' = until /\ asks' = asks
      /\ records' = [Purged(now) EXCEPT ![req[c].key] = [id |-> req[c].id, at |-> now]]
  BY DEF Complete
<1>2. req[c] \in Requests /\ req[c].key \in IdemKeys /\ now \in Nat /\ DOMAIN pc = Client
  BY <1>1, OwnRequest, Bounds DEF TypeOK
<1>3. Purged(now) \in [IdemKeys -> Rec]
  BY <1>2, PurgedIs
<1>4. /\ records'[req[c].key] = [id |-> req[c].id, at |-> now]
      /\ \A k \in IdemKeys : k # req[c].key => records'[k] = Purged(now)[k]
  BY <1>1, <1>2, <1>3
<1>5. new.req = req[c] /\ new.at = now /\ (new.held <=> now <= until[c])
  OBVIOUS
<1>6. new \in [req: Requests, at: 0 .. now, held: BOOLEAN]
  <2>1. (now <= until[c]) \in BOOLEAN
    OBVIOUS
  <2>2. now \in 0 .. now
    BY <1>2
  <2> QED
    BY <1>2, <2>1, <2>2
<1>7. pc'[c] = "completed" /\ \A d \in Client \ {c} : InLease(d)' <=> InLease(d)
  BY <1>1, <1>2 DEF InLease
<1> QED
  BY <1>1, <1>4, <1>5, <1>6, <1>7

\* A purge at a clock reading of the past keeps the record of a completion of
\* the last retention window.
LEMMA PurgeKeeps ==
  ASSUME TypeOK, DoneSound, RecordSound, NEW t \in Nat, t <= now,
         NEW f \in done, NEW l \in Keys, OrderlyAt(f.req.key, l), now <= f.at + Retention
  PROVE  /\ Purged(t)[f.req.key] = records[f.req.key]
         /\ records[f.req.key].id = f.req.id
         /\ f.at <= records[f.req.key].at
         /\ f.req.key \in IdemKeys
<1>1. f.req \in Requests /\ f.at \in Nat /\ now \in Nat
  BY Bounds DEF DoneSound, TypeOK
<1>2. f.req.key \in IdemKeys
  BY <1>1, Tables
<1>3. records[f.req.key].id = f.req.id /\ f.at <= records[f.req.key].at
  BY DEF RecordSound
<1>4. records[f.req.key].at \in Nat
  BY <1>2 DEF TypeOK
<1>5. ~(t > records[f.req.key].at + Retention)
  BY <1>1, <1>3, <1>4, Bounds
<1> QED
  BY <1>2, <1>3, <1>5, PurgedIs

\* The key is orderly with the completions of the next state.
OrderlyNext(k, l) ==
  Exclusive(l) /\ \A e \in done' :
    e.req.key = k => e.held /\ LockKey(e.req) = l /\ ~Shared(e.req.id)

LEMMA NextOrderly ==
  ASSUME asks' = asks, NEW k, NEW l
  PROVE  OrderlyAt(k, l)' <=> OrderlyNext(k, l)
  BY WorkloadFixed DEF OrderlyAt, OrderlyNext

\* More completions, fewer orderly keys.
LEMMA OrderlyBefore ==
  ASSUME done \subseteq done', NEW k, NEW l, OrderlyNext(k, l)
  PROVE  OrderlyAt(k, l)
  BY DEF OrderlyAt, OrderlyNext

\* A completion under a key that stays orderly was within its lease, by a
\* thread that was alone with its lock.
LEMMA OrderlyCompletion ==
  ASSUME TypeOK, ThreadSound, DoneSound, NEW c \in Client, Complete(c),
         NEW k, NEW l, k = req[c].key, OrderlyNext(k, l)
  PROVE  /\ InLease(c) /\ Alone(c) /\ l = LockKey(req[c])
         /\ OrderlyAt(k, l)
<1> DEFINE new == [req |-> req[c], at |-> now, held |-> now <= until[c]]
<1>1. /\ done' = done \cup {new} /\ pc[c] = "admitted"
      /\ new.req = req[c] /\ (new.held <=> now <= until[c])
  BY Completed
<1> HIDE DEF new
<1>2. OrderlyAt(k, l)
  BY <1>1, OrderlyBefore
<1>3. new.held /\ LockKey(req[c]) = l /\ ~Shared(req[c].id) /\ Exclusive(l)
  BY <1>1 DEF OrderlyNext
<1> QED
  BY <1>1, <1>2, <1>3 DEF InLease, Alone

\* Completions lie in the past, and the records name the last ones.
LEMMA RecordsPreserved ==
  ASSUME TypeOK, ThreadSound, DoneSound, RecordSound, AdmitSound, [Next]_vars
  PROVE  DoneSound' /\ RecordSound'
<1>1. /\ asks' = asks /\ Requests' = Requests /\ Keys' = Keys
      /\ now \in Nat /\ now' \in Nat /\ now <= now' /\ Retention \in Nat
  <2>1. asks' = asks /\ Requests' = Requests /\ Keys' = Keys
    BY AsksFixed, WorkloadFixed DEF Fixed
  <2>2. now \in Nat /\ now' \in Nat
    BY TypePreserved, Bounds DEF TypeOK
  <2>3. now <= now'
    BY <2>2, StepKinds, GrantStep DEF Quiet
  <2> QED
    BY <2>1, <2>2, <2>3, Bounds
<1>2. \A f \in done : f.at \in Nat /\ f.req \in Requests
  BY DEF DoneSound
<1>3. ASSUME done' = done,
             \/ records' = records
             \/ \E t \in Nat : t <= now /\ records' = Purged(t)
      PROVE  DoneSound' /\ RecordSound'
  <2>1. DoneSound'
    BY <1>1, <1>3 DEF DoneSound
  <2>2. ASSUME NEW f \in done, NEW l \in Keys, OrderlyNext(f.req.key, l), now' <= f.at + Retention
        PROVE  records'[f.req.key].id = f.req.id /\ f.at <= records'[f.req.key].at
    <3>1. OrderlyAt(f.req.key, l)
      BY <1>1, <1>3, <2>2, OrderlyBefore
    <3>2. now <= f.at + Retention
      BY <1>1, <1>2, <2>2
    <3>3. CASE records' = records
      BY <3>1, <3>2, <3>3 DEF RecordSound
    <3>4. ASSUME NEW t \in Nat, t <= now, records' = Purged(t)
          PROVE  records'[f.req.key].id = f.req.id /\ f.at <= records'[f.req.key].at
      BY <3>1, <3>2, <3>4, PurgeKeeps
    <3> QED
      BY <1>3, <3>3, <3>4
  <2> QED
    BY <1>1, <1>3, <2>1, <2>2, NextOrderly DEF RecordSound
<1>4. ASSUME NEW c \in Client, Complete(c) PROVE DoneSound' /\ RecordSound'
  <2> DEFINE new == [req |-> req[c], at |-> now, held |-> now <= until[c]]
  <2>1. /\ done' = done \cup {new} /\ now' = now
        /\ new.req = req[c] /\ new.at = now
        /\ new \in [req: Requests, at: 0 .. now, held: BOOLEAN]
        /\ records'[req[c].key] = [id |-> req[c].id, at |-> now]
        /\ \A k \in IdemKeys : k # req[c].key => records'[k] = Purged(now)[k]
    BY <1>4, Completed
  <2> HIDE DEF new
  <2>2. DoneSound'
    BY <1>1, <2>1 DEF DoneSound
  <2>3. records'[req[c].key].id = req[c].id /\ records'[req[c].key].at = now
    BY <2>1
  <2>4. ASSUME NEW f \in done', NEW l \in Keys, OrderlyNext(f.req.key, l), now <= f.at + Retention
        PROVE  records'[f.req.key].id = f.req.id /\ f.at <= records'[f.req.key].at
    <3>1. CASE f = new
      BY <1>1, <2>1, <2>3, <3>1
    <3>2. CASE f \in done /\ f.req.key # req[c].key
      <4>1. OrderlyAt(f.req.key, l)
        BY <1>1, <2>1, <2>4, OrderlyBefore
      <4> QED
        BY <1>1, <2>1, <2>4, <3>2, <4>1, PurgeKeeps
    <3>3. CASE f \in done /\ f.req.key = req[c].key
      <4>1. /\ InLease(c) /\ Alone(c) /\ l = LockKey(req[c])
            /\ OrderlyAt(req[c].key, l)
        BY <1>4, <2>4, <3>3, OrderlyCompletion
      <4>2. f.req.id = req[c].id
        BY <1>1, <1>2, <2>4, <3>3, <4>1 DEF AdmitSound
      <4>3. f.at <= now
        BY <1>1, <3>3 DEF DoneSound
      <4> QED
        BY <2>3, <3>3, <4>2, <4>3
    <3> QED
      BY <2>1, <3>1, <3>2, <3>3
  <2> QED
    BY <1>1, <2>1, <2>2, <2>4, NextOrderly DEF RecordSound
<1> QED
  BY <1>3, <1>4, DoneSteps

\* Whoever was let in completes first under its key, or as the same request.
LEMMA AdmitPreserved ==
  ASSUME TypeOK, ThreadSound, DoneSound, RecordSound, MutexSound, AdmitSound, [Next]_vars
  PROVE  AdmitSound'
<1>1. asks' = asks /\ now \in Nat /\ now' \in Nat /\ now <= now' /\ Retention \in Nat
  <2>1. now \in Nat /\ now' \in Nat
    BY TypePreserved, Bounds DEF TypeOK
  <2>2. now <= now'
    BY <2>1, StepKinds, GrantStep DEF Quiet
  <2> QED
    BY <2>1, <2>2, AsksFixed, Bounds
<1>2. \A d \in Client : req'[d] = req[d] => (Alone(d)' <=> Alone(d))
  BY <1>1, WorkloadFixed DEF Alone
<1>3. \A f \in done : f.at \in Nat /\ f.req \in Requests
  BY DEF DoneSound
<1>4. ASSUME NEW c \in Client, Grant(c), NEW f \in done, InLease(c)', Alone(c),
             f.req.key = req[c].key, f.req.id # req[c].id,
             OrderlyAt(req[c].key, LockKey(req[c]))
      PROVE  now > f.at + Retention
  <2>1. /\ ~Objection(req[c], stamp[c]) /\ pc[c] # "idle" /\ stamp[c] \in Nat /\ stamp[c] <= now
    BY <1>4, GrantStep, AskingTyped DEF Grant
  <2>2. LockKey(req[c]) \in Keys
    BY <2>1, OwnRequest
  <2>3. ASSUME now <= f.at + Retention PROVE FALSE
    <3>1. /\ Purged(stamp[c])[req[c].key] = records[req[c].key]
          /\ records[req[c].key].id = f.req.id
      BY <1>4, <2>1, <2>2, <2>3, PurgeKeeps
    <3>2. f.req.id \in RequestId
      BY <1>3, Tables DEF Request
    <3>3. NoRec.id = "none"
      BY DEF NoRec
    <3>4. Purged(stamp[c])[req[c].key] # NoRec
      BY <3>1, <3>2, <3>3, AdmissionAssumption
    <3>5. Objection(req[c], stamp[c])
      BY <1>4, <3>1, <3>4 DEF Objection
    <3> QED
      BY <2>1, <3>5
  <2> QED
    BY <1>1, <1>3, <2>3
<1> DEFINE Admitted(d, f) ==
      /\ InLease(d)' /\ Alone(d)'
      /\ f.req.key = req'[d].key /\ f.req.id # req'[d].id
      /\ OrderlyNext(req'[d].key, LockKey(req'[d]))
      => now' > f.at + Retention
<1>5. ASSUME NEW c \in Client, Grant(c) PROVE \A d \in Client : \A f \in done' : Admitted(d, f)
  <2>1. /\ req' = req /\ done' = done /\ now' = now
        /\ \A d \in Client \ {c} : InLease(d)' <=> InLease(d)
    BY <1>5, GrantStep
  <2>2. \A k, l : OrderlyNext(k, l) => OrderlyAt(k, l)
    BY <1>1, <2>1, OrderlyBefore
  <2>3. ASSUME NEW d \in Client, NEW f \in done, d # c PROVE Admitted(d, f)
    BY <1>2, <2>1, <2>2, <2>3 DEF AdmitSound
  <2>4. ASSUME NEW f \in done PROVE Admitted(c, f)
    BY <1>2, <1>4, <1>5, <2>1, <2>2
  <2> QED
    BY <2>1, <2>3, <2>4
<1>6. ASSUME NEW K, Quiet(K), done' = done PROVE \A d \in Client : \A f \in done' : Admitted(d, f)
  <2>1. SUFFICES ASSUME NEW d \in Client, NEW f \in done, InLease(d)', Alone(d)',
                        f.req.key = req'[d].key, f.req.id # req'[d].id,
                        OrderlyNext(req'[d].key, LockKey(req'[d]))
                 PROVE  now' > f.at + Retention
    BY <1>6
  <2>2. /\ req'[d] = req[d] /\ pc[d] # "idle"
        /\ InLease(d) \/ req[d].kind = "crr_recovery"
    BY <1>6, <2>1 DEF Quiet
  <2>3. Alone(d) /\ InLease(d)
    BY <1>2, <2>1, <2>2, AloneKind
  <2>4. OrderlyAt(req[d].key, LockKey(req[d]))
    BY <1>1, <1>6, <2>1, <2>2, OrderlyBefore
  <2>5. now > f.at + Retention
    BY <2>1, <2>2, <2>3, <2>4 DEF AdmitSound
  <2> QED
    BY <1>1, <1>3, <2>5
<1>7. ASSUME NEW c \in Client, Complete(c) PROVE \A d \in Client : \A f \in done' : Admitted(d, f)
  <2> DEFINE new == [req |-> req[c], at |-> now, held |-> now <= until[c]]
  <2>1. /\ done' = done \cup {new} /\ now' = now /\ req' = req /\ pc'[c] = "completed"
        /\ new.req = req[c]
        /\ \A d \in Client \ {c} : InLease(d)' <=> InLease(d)
    BY <1>7, Completed
  <2> HIDE DEF new
  <2>2. SUFFICES ASSUME NEW d \in Client, NEW f \in done', InLease(d)', Alone(d)',
                        f.req.key = req[d].key, f.req.id # req[d].id,
                        OrderlyNext(req[d].key, LockKey(req[d]))
                 PROVE  now > f.at + Retention
    BY <2>1
  <2>3. d # c /\ InLease(d) /\ Alone(d)
    BY <1>2, <2>1, <2>2 DEF InLease
  <2>4. CASE f \in done
    <3>1. OrderlyAt(req[d].key, LockKey(req[d]))
      BY <1>1, <2>1, <2>2, OrderlyBefore
    <3> QED
      BY <2>2, <2>3, <2>4, <3>1 DEF AdmitSound
  <2>5. CASE f = new
    <3>1. req[c].key = req[d].key
      BY <2>1, <2>2, <2>5
    <3>2. OrderlyNext(req[c].key, LockKey(req[d]))
      BY <2>1, <2>2, <3>1
    <3>3. InLease(c) /\ Alone(c) /\ LockKey(req[d]) = LockKey(req[c])
      BY <1>7, <3>2, OrderlyCompletion
    <3> QED
      BY <2>3, <3>3 DEF MutexSound
  <2> QED
    BY <2>1, <2>4, <2>5
<1>8. \A d \in Client : \A f \in done' : Admitted(d, f)
  BY <1>5, <1>6, <1>7, StepKinds, DoneSteps
<1>9. (\A k : Exclusive(k)' <=> Exclusive(k)) /\ \A i : Shared(i)' <=> Shared(i)
  BY <1>1, WorkloadFixed
<1> QED
  BY <1>8, <1>9 DEF AdmitSound, OrderlyAt, OrderlyNext

\* One key, one completion, after every step.
LEMMA CompletedPreserved ==
  ASSUME TypeOK, ThreadSound, DoneSound, AdmitSound, CompletedOnce, [Next]_vars
  PROVE  CompletedOnce'
<1>1. asks' = asks /\ Keys' = Keys
  BY AsksFixed, WorkloadFixed DEF Fixed
<1>2. \A k : Orderly(k) <=> \E l \in Keys : OrderlyAt(k, l)
  BY DEF Orderly, OrderlyAt
<1>3. \A k : Orderly(k)' <=> \E l \in Keys : OrderlyNext(k, l)
  BY <1>1, WorkloadFixed DEF Orderly, OrderlyNext
<1>4. CASE done' = done
  <2>1. \A k : Orderly(k)' => Orderly(k)
    BY <1>1, <1>2, <1>3, <1>4, OrderlyBefore
  <2> QED
    BY <1>4, <2>1 DEF CompletedOnce
<1>5. ASSUME NEW c \in Client, Complete(c) PROVE CompletedOnce'
  <2> DEFINE new == [req |-> req[c], at |-> now, held |-> now <= until[c]]
  <2>1. done' = done \cup {new} /\ new.req = req[c] /\ new.at = now
    BY <1>5, Completed
  <2> HIDE DEF new
  <2>2. \A k : Orderly(k)' => Orderly(k)
    BY <1>1, <1>2, <1>3, <2>1, OrderlyBefore
  <2>3. ASSUME NEW f \in done, f.req.key = req[c].key, f.req.id # req[c].id,
             \E l \in Keys : OrderlyNext(req[c].key, l)
        PROVE  now > f.at + Retention
    <3>1. PICK l \in Keys : OrderlyNext(req[c].key, l)
      BY <2>3
    <3>2. /\ InLease(c) /\ Alone(c) /\ l = LockKey(req[c])
          /\ OrderlyAt(req[c].key, l)
      BY <1>5, <3>1, OrderlyCompletion
    <3> QED
      BY <2>3, <3>2 DEF AdmitSound
  <2>4. SUFFICES ASSUME NEW e \in done', NEW f \in done',
                        e.req.key = f.req.key, e.req.id # f.req.id, Orderly(e.req.key)'
                 PROVE  e.at > f.at + Retention \/ f.at > e.at + Retention
    BY DEF CompletedOnce
  <2>5. CASE e \in done /\ f \in done
    BY <2>2, <2>4, <2>5 DEF CompletedOnce
  <2>6. CASE e = new
    BY <1>3, <2>1, <2>3, <2>4, <2>6
  <2>7. CASE f = new
    BY <1>3, <2>1, <2>3, <2>4, <2>7
  <2> QED
    BY <2>1, <2>5, <2>6, <2>7
<1> QED
  BY <1>4, <1>5, DoneSteps
-----------------------------------------------------------------------------

LEMMA Inductive == IInv /\ [Next]_vars => IInv'
<1> SUFFICES ASSUME IInv, [Next]_vars PROVE IInv'
  OBVIOUS
<1> USE DEF IInv
<1>1. TypeOK' /\ ThreadSound'
  BY TypePreserved
<1>2. LocksSound' /\ CountersMatchLocks' /\ PanicClearsLocks'
  BY LocksPreserved, CountersPreserved, PanicPreserved
<1>3. HolderSound' /\ MutexSound'
  BY HolderPreserved
<1>4. CountSound' /\ LimitSound'
  BY <1>1, CountPreserved, LimitPreserved
<1>5. DoneSound' /\ RecordSound' /\ AdmitSound' /\ CompletedOnce'
  BY RecordsPreserved, AdmitPreserved, CompletedPreserved
<1> QED
  BY <1>1, <1>2, <1>3, <1>4, <1>5

LEMMA Always == Spec => []IInv
  BY InitIInv, Inductive, PTL DEF Spec

\* The tables of the controller and the places of the threads keep their types.
THEOREM TypeCorrect == Spec => []TypeOK
<1>1. IInv => TypeOK
  BY DEF IInv
<1> QED
  BY <1>1, Always, PTL

\* Whatever order of expiry, completion, release and late requests, a thread
\* inside its lease keeps its exclusive lock until a panic: complete and
\* release compare the request id, and a grant over a held lock is refused.
THEOREM HolderSafe == Spec => []HolderKeepsLock
<1>1. IInv => HolderKeepsLock
  BY DEF IInv, HolderSound, Alone, HolderKeepsLock
<1> QED
  BY <1>1, Always, PTL

\* _capability_counts, which every entry under one lock key shares, bounds
\* the threads that execute a capability for every concurrency.
THEOREM CapacitySafe == Spec => []CapacityRespected
<1>1. IInv => CapacityRespected
  <2> SUFFICES ASSUME IInv, NEW a \in Caps,
                      \A c \in {d \in Client : InLease(d) /\ Limited(req[d]) /\ req[d].res = a} :
                        ~Shared(req[c].id)
               PROVE  \E n \in Limits(a) :
                        Cardinality({d \in Client : InLease(d) /\ Limited(req[d]) /\ req[d].res = a})
                          <= n
    BY DEF CapacityRespected, Limits
  <2>1. Users(a) = {d \in Client : InLease(d) /\ Limited(req[d]) /\ req[d].res = a}
    BY DEF Users
  <2> QED
    BY <2>1 DEF IInv, LimitSound
<1> QED
  BY <1>1, Always, PTL

\* No order of expiry, completion, release and panic leaves a capability of
\* concurrency one, or a sandbox, taken without a lock that can be freed.
THEOREM CountersSafe == Spec => []CountersMatchLocks
<1>1. IInv => CountersMatchLocks
  BY DEF IInv
<1> QED
  BY <1>1, Always, PTL

\* A request that waited for the mutex while the panic was asserted does not
\* get a lock after it.
THEOREM PanicSafe == Spec => []PanicClearsLocks
<1>1. IInv => PanicClearsLocks
  BY DEF IInv
<1> QED
  BY <1>1, Always, PTL

\* The idempotency store and the locks together let an orderly key complete
\* for one request in a retention window.
THEOREM IdempotencySafe == Spec => []CompletedOnce
<1>1. IInv => CompletedOnce
  BY DEF IInv
<1> QED
  BY <1>1, Always, PTL
=============================================================================
