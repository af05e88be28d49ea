--------------------------- MODULE LeaseLifecycle ---------------------------
(***************************************************************************)
(* The lifecycle table and the use counter of a capability lease           *)
(* (hg_lease/lease.py), as constant operators the lease modules share.     *)
(*                                                                         *)
(* apply_transition is idempotent per event id.  Its callers put a fresh   *)
(* uuid in every id they pass, so an id never returns and the operators    *)
(* below leave it out.                                                     *)
(***************************************************************************)
EXTENDS Naturals

CONSTANT NoLimit      \* remaining_uses = None: unlimited within the window

ASSUME NoLimitAssumption == NoLimit \notin Nat

TERMINAL_STATES == {"EXPIRED", "EXHAUSTED", "REVOKED", "SUPERSEDED", "FAILED"}

STATES == {"DRAFT", "PENDING", "ACTIVE", "SUSPENDED"} \union TERMINAL_STATES

\* TRANSITIONS[state][event]: anything absent is an invalid transition.
TRANSITIONS ==
  [DRAFT     |-> [submit |-> "PENDING"],
   PENDING   |-> [confirm |-> "ACTIVE", reject |-> "FAILED", expire |-> "EXPIRED"],
   ACTIVE    |-> [suspend |-> "SUSPENDED", expire |-> "EXPIRED", exhaust |-> "EXHAUSTED",
                  revoke |-> "REVOKED", supersede |-> "SUPERSEDED", fail |-> "FAILED"],
   SUSPENDED |-> [resume |-> "ACTIVE", expire |-> "EXPIRED", revoke |-> "REVOKED",
                  supersede |-> "SUPERSEDED", fail |-> "FAILED"]]

\* apply_transition does not raise.
Applies(state, event) ==
  state \in DOMAIN TRANSITIONS /\ event \in DOMAIN TRANSITIONS[state]

\* Mutant of Transition: revoke does not look at the state.
Transition_RevokeAny(state, event) ==
  IF event = "revoke" THEN "REVOKED"
  ELSE IF state \in TERMINAL_STATES THEN state ELSE TRANSITIONS[state][event]

\* LeaseAuthority._transition where it does not raise: a terminal lease is
\* left alone, any other takes the step of the table.
Transition(state, event) ==
  IF state \in TERMINAL_STATES THEN state ELSE TRANSITIONS[state][event]

\* consume_use: the uses left, and whether the last one went.
UseOne(remaining) == IF remaining = NoLimit \/ remaining = 0 THEN remaining ELSE remaining - 1
ExhaustedBy(remaining) == remaining # NoLimit /\ remaining <= 1

=============================================================================
