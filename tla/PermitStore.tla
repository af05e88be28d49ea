---------------------------- MODULE PermitStore ----------------------------
(***************************************************************************)
(* The permit store of the Governance Proof Pack as threads run it:        *)
(* hg_gpp/store.py, the mint of hg_gpp/engine.py that writes to it, the    *)
(* check of hg_gpp/verifier.py, and its two consuming callers, the lease   *)
(* crossing (get, verify, consume) and the slice-2 dispatch (consume).     *)
(*                                                                         *)
(* One step is what runs between two accesses to the shared dictionaries.  *)
(* consume() holds _consume_lock; put() and revoke() hold no lock, so      *)
(* their steps fall anywhere, also inside another thread's consume().      *)
(*                                                                         *)
(* A permit object is immutable and everything but its status follows from *)
(* its id: the id is a hash of (request, issued_at) and expires_at is      *)
(* issued_at + TTL.  So a permit is modelled by its id, the pair, and its  *)
(* status.                                                                 *)
(***************************************************************************)
EXTENDS Naturals

CONSTANTS
  Threads,        \* threads that call the store
  Requests,       \* ids of permit requests
  Approval,       \* Approval[r]: approval_expires_at of request r
  Inadmissible,   \* requests some other check of validate_permit_request denies
  TTL,            \* permit_ttl_s
  MaxClock,       \* bound: the last reading of the clock
  Free            \* the value of the lock while nobody holds it

ASSUME ConstantsAssumption ==
  /\ TTL \in Nat
  /\ MaxClock \in Nat
  /\ Approval \in [Requests -> Nat]
  /\ Free \notin Threads

VARIABLES
  permits,      \* _permits: status by permit id
  revocations,  \* the keys of _revocations
  consumed,     \* _consumed: the receipt by permit id
  lock,         \* _consume_lock
  clock,        \* what get_clock() reads
  pc,           \* the next step of each thread
  arg,          \* the permit id of the thread's call
  now,          \* the reading of the clock the call works with
  seen,         \* the status of the permit object the call holds
  late,         \* auxiliary: was the permit revoked when this call began
  wins          \* auxiliary: how many calls returned "consumed", by permit

shared == <<permits, revocations, consumed, lock, clock>>
local == <<pc, arg, now, seen, late>>
vars == <<shared, local, wins>>

Time == 0 .. MaxClock
PermitId == Requests \X Time
Status == {"absent", "granted", "revoked"}
NoReceipt == [at |-> 0, by |-> Free]
Receipt == [at : Time, by : Threads]

\* The argument of a thread between two calls.
NoPermit == <<Free, 0>>

Expiry(p) == p[2] + TTL

\* Mutant of IsExpired: still valid at expires_at.
IsExpired_Inclusive(p, at) == at > Expiry(p)

\* hg_core/time/expiry.py is_expired: refused from expires_at on.
IsExpired(p, at) == at >= Expiry(p)

Labels == {"idle", "put", "mark", "write", "verify", "lock", "check", "commit"}

\* The store's dictionaries and each thread's frame hold what the code puts
\* there.
TypeOK ==
  /\ permits \in [PermitId -> Status]
  /\ revocations \in SUBSET PermitId
  /\ consumed \in [PermitId -> Receipt \union {NoReceipt}]
  /\ lock \in Threads \union {Free}
  /\ clock \in Time
  /\ pc \in [Threads -> Labels]
  /\ arg \in [Threads -> PermitId \union {NoPermit}]
  /\ now \in [Threads -> Time]
  /\ seen \in [Threads -> Status]
  /\ late \in [Threads -> BOOLEAN]
  /\ wins \in [PermitId -> Nat]

Init ==
  /\ permits = [p \in PermitId |-> "absent"]
  /\ revocations = {}
  /\ consumed = [p \in PermitId |-> NoReceipt]
  /\ lock = Free
  /\ clock = 0
  /\ pc = [t \in Threads |-> "idle"]
  /\ arg = [t \in Threads |-> NoPermit]
  /\ now = [t \in Threads |-> 0]
  /\ seen = [t \in Threads |-> "absent"]
  /\ late = [t \in Threads |-> FALSE]
  /\ wins = [p \in PermitId |-> 0]

\* Thread t moves from label a to label b.
Goto(t, a, b) == pc[t] = a /\ pc' = [pc EXCEPT ![t] = b]

\* Thread t begins a call on permit p, whose first step is b.
Call(t, b, p) ==
  /\ Goto(t, "idle", b)
  /\ arg' = [arg EXCEPT ![t] = p]
  /\ now' = [now EXCEPT ![t] = clock]
  /\ late' = [late EXCEPT ![t] = (p \in revocations)]

\* The call of thread t returns from label a and its locals are gone.
Return(t, a) ==
  /\ Goto(t, a, "idle")
  /\ arg' = [arg EXCEPT ![t] = NoPermit]
  /\ now' = [now EXCEPT ![t] = 0]
  /\ seen' = [seen EXCEPT ![t] = "absent"]
  /\ late' = [late EXCEPT ![t] = FALSE]

-----------------------------------------------------------------------------
(* PermitAuthority.issue: read the clock, validate, mint, put.  A request  *)
(* that is denied stores no permit.                                        *)

\* validate_permit_request returns no reason to deny.
Valid(r, at) == r \notin Inadmissible /\ at < Approval[r]

IssueMint(t, r) ==
  /\ Valid(r, clock)
  /\ Call(t, "put", <<r, clock>>)
  /\ UNCHANGED <<shared, seen, wins>>

\* Mutant of IssuePut: the permit is filed under no status of the model.
IssuePut_Draft(t) ==
  /\ Return(t, "put")
  /\ permits' = [permits EXCEPT ![arg[t]] = "draft"]
  /\ UNCHANGED <<revocations, consumed, lock, clock, wins>>

\* put() overwrites: a second mint of the same request in the same instant
\* has the same id.
IssuePut(t) ==
  /\ Return(t, "put")
  /\ permits' = [permits EXCEPT ![arg[t]] = "granted"]
  /\ UNCHANGED <<revocations, consumed, lock, clock, wins>>

-----------------------------------------------------------------------------
(* PermitStore.revoke: get, record the revocation, replace the permit.  An *)
(* id the store does not know is refused with no effect.                   *)

RevokeGet(t, p) ==
  /\ permits[p] # "absent"
  /\ Call(t, "mark", p)
  /\ UNCHANGED <<shared, seen, wins>>

RevokeMark(t) ==
  /\ Goto(t, "mark", "write")
  /\ revocations' = revocations \union {arg[t]}
  /\ UNCHANGED <<permits, consumed, lock, clock, arg, now, seen, late, wins>>

RevokeWrite(t) ==
  /\ Return(t, "write")
  /\ permits' = [permits EXCEPT ![arg[t]] = "revoked"]
  /\ UNCHANGED <<revocations, consumed, lock, clock, wins>>

-----------------------------------------------------------------------------
(* The consuming callers, up to their call of consume().                   *)

\* A caller holds ids it was given, and no id names a future instant of issue.
Known(p) == p[2] <= clock

\* LeaseCrossing.request_action: read the clock and get the permit.
CrossingGet(t, p) ==
  /\ Known(p)
  /\ Call(t, "verify", p)
  /\ seen' = [seen EXCEPT ![t] = permits[p]]
  /\ UNCHANGED <<shared, wins>>

\* verify_permit on the object the caller holds.  Its hash is right, as the
\* object comes from the store, and the crossing asks for the scope it minted.
VerifyPermit(t) ==
  /\ seen[t] = "granted"
  /\ arg[t] \notin revocations
  /\ ~ IsExpired(arg[t], now[t])

CrossingVerified(t) ==
  /\ VerifyPermit(t)
  /\ Goto(t, "verify", "lock")
  /\ UNCHANGED <<shared, arg, now, seen, late, wins>>

CrossingRejected(t) ==
  /\ ~ VerifyPermit(t)
  /\ Return(t, "verify")
  /\ UNCHANGED <<shared, wins>>

\* execute_slice2_dispatch: no verification, straight to consume().
Slice2Dispatch(t, p) ==
  /\ Known(p)
  /\ Call(t, "lock", p)
  /\ UNCHANGED <<shared, seen, wins>>

-----------------------------------------------------------------------------
(* PermitStore.consume, under _consume_lock.                               *)

\* Mutant of ConsumeLock: the check-and-set is not guarded.
ConsumeLock_Unguarded(t) ==
  /\ Goto(t, "lock", "check")
  /\ lock' = t
  /\ seen' = [seen EXCEPT ![t] = permits[arg[t]]]
  /\ UNCHANGED <<permits, revocations, consumed, clock, arg, now, late, wins>>

ConsumeLock(t) ==
  /\ lock = Free
  /\ Goto(t, "lock", "check")
  /\ lock' = t
  /\ seen' = [seen EXCEPT ![t] = permits[arg[t]]]
  /\ UNCHANGED <<permits, revocations, consumed, clock, arg, now, late, wins>>

\* Mutant of Consumable: trusts the status and does not look in _revocations.
Consumable_StatusOnly(t) ==
  /\ seen[t] = "granted"
  /\ ~ IsExpired(arg[t], now[t])
  /\ consumed[arg[t]] = NoReceipt

\* Mutant of Consumable: does not look in _consumed.
Consumable_NotOnce(t) ==
  /\ seen[t] = "granted"
  /\ arg[t] \notin revocations
  /\ ~ IsExpired(arg[t], now[t])

\* Of what the checks read only _revocations can change under the lock:
\* _consumed is written under it, the permit and the time are locals.  So
\* they are one step, at the read of _revocations.
Consumable(t) ==
  /\ seen[t] = "granted"
  /\ arg[t] \notin revocations
  /\ ~ IsExpired(arg[t], now[t])
  /\ consumed[arg[t]] = NoReceipt

ConsumeAccept(t) ==
  /\ Consumable(t)
  /\ Goto(t, "check", "commit")
  /\ UNCHANGED <<shared, arg, now, seen, late, wins>>

\* Mutant of ConsumeReject: tries again under the lock and never returns.
ConsumeReject_Retries(t) == ~ Consumable(t) /\ pc[t] = "check" /\ UNCHANGED vars

ConsumeReject(t) ==
  /\ ~ Consumable(t)
  /\ Return(t, "check")
  /\ lock' = Free
  /\ UNCHANGED <<permits, revocations, consumed, clock, wins>>

ConsumeCommit(t) ==
  /\ Return(t, "commit")
  /\ consumed' = [consumed EXCEPT ![arg[t]] = [at |-> now[t], by |-> t]]
  /\ wins' = [wins EXCEPT ![arg[t]] = @ + 1]
  /\ lock' = Free
  /\ UNCHANGED <<permits, revocations, clock>>

-----------------------------------------------------------------------------

Tick ==
  /\ clock < MaxClock
  /\ clock' = clock + 1
  /\ UNCHANGED <<permits, revocations, consumed, lock, local, wins>>

\* What thread t does of itself once its call has begun.
Continue(t) ==
  \/ IssuePut(t) \/ RevokeMark(t) \/ RevokeWrite(t)
  \/ CrossingVerified(t) \/ CrossingRejected(t)
  \/ ConsumeLock(t) \/ ConsumeAccept(t) \/ ConsumeReject(t) \/ ConsumeCommit(t)

Begin(t) ==
  \/ \E r \in Requests : IssueMint(t, r)
  \/ \E p \in PermitId : RevokeGet(t, p) \/ CrossingGet(t, p) \/ Slice2Dispatch(t, p)

Next ==
  \/ \E t \in Threads : Begin(t) \/ Continue(t)
  \/ Tick

Spec == Init /\ [][Next]_vars

\* A thread inside a call is scheduled; nothing obliges a caller to call.
FairSpec == Spec /\ \A t \in Threads : WF_vars(Continue(t))

-----------------------------------------------------------------------------
(* Properties.                                                             *)

\* "The first caller wins, every later caller gets already_consumed"
\* (store.py): over all threads at most one call is told "consumed" for a
\* permit, even when the permit is minted a second time under the same id.
AtMostOneWin == \A p \in PermitId : wins[p] <= 1

\* A call that begins after revoke() recorded the revocation never wins,
\* although revoke() takes no lock and replaces the permit in a later step,
\* and although a mint under the same id puts a granted permit back.
RevocationHolds == \A t \in Threads : pc[t] = "commit" => ~ late[t]

\* consume() files a receipt only for a permit that was minted, and with a
\* time before its expiry (is_expired refuses at expires_at itself).
SpentWhileLive ==
  \A p \in PermitId :
    consumed[p] # NoReceipt => permits[p] # "absent" /\ consumed[p].at < Expiry(p)

\* consume() leaves its with block in every branch: no dispatcher waits for
\* ever on _consume_lock with nobody about to release it.
LockReleased == []<>(lock = Free)

\* The code's calls, each of several unlocked steps, are those of the atomic
\* specification: a consume() takes effect when it reads _revocations, a
\* revoke() when it writes there, an issue() at its first put().
SpentUses ==
  {[permit |-> p, at |-> consumed[p].at, by |-> consumed[p].by] :
     p \in {q \in PermitId : consumed[q] # NoReceipt}}
  \union
  {[permit |-> arg[t], at |-> now[t], by |-> t] : t \in {u \in Threads : pc[u] = "commit"}}

Abstract == INSTANCE SingleUsePermits WITH
  Callers <- Threads,
  issued <- {p \in PermitId : permits[p] # "absent"},
  revoked <- revocations,
  spent <- SpentUses

\* Every behaviour of the threads is one of atomic, single-use permits.
Refinement == Abstract!Spec

=============================================================================
