-------------------------- MODULE SingleUsePermits --------------------------
(***************************************************************************)
(* What hg_gpp promises of a governed permit, with every call atomic: a    *)
(* permit that was issued may be revoked, and may be spent at most once,   *)
(* at a moment when it is not revoked and by a caller whose reading of the *)
(* clock is before the permit's expiry.                                    *)
(*                                                                         *)
(* hg_gpp/store.py states the promise: "exactly-once permit use at the     *)
(* dispatch boundary"; PermitStore.tla is the code that must keep it.      *)
(***************************************************************************)
EXTENDS Naturals

CONSTANTS
  Requests,     \* request ids a caller may ask a permit for
  Callers,      \* who may spend a permit: consumed_by
  TTL,          \* permit_ttl_s, in ticks of the clock
  MaxClock      \* bound: the last reading of the clock

VARIABLES
  issued,       \* permit ids that were minted
  revoked,      \* permit ids a revocation was recorded for
  spent,        \* [permit, at, by]: the uses that were granted
  clock         \* the wall clock every caller reads

vars == <<issued, revoked, spent, clock>>

Time == 0 .. MaxClock

\* A permit id is a hash of the request id and the instant of issue.
PermitId == Requests \X Time

Expiry(p) == p[2] + TTL

Spent(p) == \E s \in spent : s.permit = p

Init ==
  /\ issued = {}
  /\ revoked = {}
  /\ spent = {}
  /\ clock = 0

Issue(p) ==
  /\ p[2] <= clock
  /\ issued' = issued \union {p}
  /\ UNCHANGED <<revoked, spent, clock>>

Revoke(p) ==
  /\ p \in issued
  /\ revoked' = revoked \union {p}
  /\ UNCHANGED <<issued, spent, clock>>

Spend(p, at, by) ==
  /\ p \in issued \ revoked
  /\ ~ Spent(p)
  /\ at <= clock
  /\ at < Expiry(p)
  /\ spent' = spent \union {[permit |-> p, at |-> at, by |-> by]}
  /\ UNCHANGED <<issued, revoked, clock>>

Tick ==
  /\ clock < MaxClock
  /\ clock' = clock + 1
  /\ UNCHANGED <<issued, revoked, spent>>

Next ==
  \/ \E p \in PermitId : Issue(p) \/ Revoke(p)
  \/ \E p \in PermitId, at \in Time, by \in Callers : Spend(p, at, by)
  \/ Tick

Spec == Init /\ [][Next]_vars

=============================================================================
