--------------------------- MODULE LeaseAuthority ---------------------------
(***************************************************************************)
(* Capability leases over governed permits: hg_lease/gpp_bridge.py with    *)
(* the evaluator, the lease and situation stores, the situation            *)
(* invalidator, delegation and the external-action crossing.               *)
(*                                                                         *)
(* One action is one call that runs to its end, as in the single-threaded  *)
(* demos; LeaseThreads.tla opens the calls up.  The crossing is two calls, *)
(* authorize and dispatch, so that a revocation, a change of the world or  *)
(* the passing of time can fall between the permit and its use.  The       *)
(* permit store is the atomic one of SingleUsePermits, which the threads   *)
(* of PermitStore.tla implement.                                           *)
(*                                                                         *)
(* A policy is identified with its canonical hash.  A lease id is its rank *)
(* in the lease store, a dict that keeps insertion order.  A condition is  *)
(* the all_of of fact tests and a time window of the compiler's policies;  *)
(* a fact's value is whether its test passes.  Purpose and numeric limits  *)
(* depend on the request alone: "fits".                                    *)
(***************************************************************************)
EXTENDS LeaseLifecycle, FiniteSets

CONSTANTS
  Policies,     \* canonical policies an operator may confirm
  Requests,     \* action requests an agent may make
  Facts,        \* names of situation facts
  Reports,      \* what may be reported of a fact: [holds, until]
  ChildTerms,   \* terms a delegation may ask for: [subject, scope, until, uses]
  Subjects, Targets, RequestIds,
  TTL,          \* permit_ttl_s
  MaxClock,     \* bound: the last reading of the wall clock
  MaxMono,      \* bound: the last reading of the monotonic clock
  MaxLeases     \* bound: leases in the store

VARIABLES
  leases,       \* LeaseStore: the lease by id
  count,        \* how many leases were stored
  facts,        \* SituationStore: the fact by name
  seen,         \* _seen_request_ids
  minted,       \* _minted_permits: permit ids by lease id
  issued, revoked, spent,   \* the permit store
  pending,      \* permits that authorize returned and no dispatch has used yet
  receipts,     \* ReceiptStore: [about, outcome]
  clock, mono   \* the wall clock and the monotonic clock

vars == <<leases, count, facts, seen, minted, issued, revoked, spent, pending,
          receipts, clock, mono>>
gpp == <<issued, revoked, spent>>

GPP == INSTANCE SingleUsePermits WITH Requests <- RequestIds, Callers <- {"lease_crossing"}

Time == 0 .. MaxClock
MonoTime == 0 .. MaxMono
LeaseIds == 1 .. MaxLeases
PermitId == RequestIds \X Time
Uses == Nat \union {NoLimit}

Policy == [subject : Subjects, scope : SUBSET Targets, cond : SUBSET Facts,
           required : SUBSET Facts, ask : BOOLEAN, window : SUBSET Time,
           from : Nat, until : Nat, uses : Uses]
Request == [id : RequestIds, subject : Subjects, target : Targets, fits : BOOLEAN]
Terms == [subject : Subjects, scope : SUBSET Targets, until : Nat, uses : Uses]

\* "granted" is auxiliary: the uses the lease began with.
Lease == [state : STATES, policy : Policies, subject : Subjects, scope : SUBSET Targets,
          from : Nat, until : Nat, remaining : Uses, granted : Uses, anchor : MonoTime,
          parent : LeaseIds \union {0}, supersedes : LeaseIds \union {0}]
NoLease == [state |-> "NONE"]

\* A fact that never expires has an "until" past every reading of the clock.
Fact == [holds : BOOLEAN, until : Nat]
NoFact == [holds |-> FALSE, until |-> 0]

Outcomes == {"ALLOW", "DENY", "ASK_REVALIDATE", "ERROR_FAIL_CLOSED", "EXECUTED",
             "ADAPTER_FAILED", "PERMIT_REJECTED", "LEASE_MINTED", "LEASE_REVOKED"}
ReceiptOf(about, outcome) == [about |-> about, outcome |-> outcome]
ReceiptSet == [about : RequestIds \union LeaseIds, outcome : Outcomes]

ASSUME AuthorityAssumption ==
  /\ Policies \subseteq Policy
  /\ Requests \subseteq Request
  /\ Reports \subseteq Fact
  /\ ChildTerms \subseteq Terms
  /\ TTL \in Nat /\ MaxClock \in Nat /\ MaxMono \in Nat /\ MaxLeases \in Nat

\* The stores hold what the code puts in them.
TypeOK ==
  /\ leases \in [LeaseIds -> Lease \union {NoLease}]
  /\ count \in 0 .. MaxLeases
  /\ facts \in [Facts -> Fact]
  /\ seen \subseteq RequestIds
  /\ minted \in [LeaseIds -> SUBSET PermitId]
  /\ issued \subseteq PermitId /\ revoked \subseteq PermitId
  /\ spent \subseteq [permit : PermitId, at : Time, by : {"lease_crossing"}]
  /\ pending \subseteq PermitId
  /\ receipts \subseteq ReceiptSet
  /\ clock \in Time /\ mono \in MonoTime

Init ==
  /\ leases = [l \in LeaseIds |-> NoLease]
  /\ count = 0
  /\ facts = [f \in Facts |-> NoFact]
  /\ seen = {}
  /\ minted = [l \in LeaseIds |-> {}]
  /\ issued = {} /\ revoked = {} /\ spent = {}
  /\ pending = {}
  /\ receipts = {}
  /\ clock = 0 /\ mono = 0

-----------------------------------------------------------------------------
(* Reading the stores.                                                     *)

Stored(l) == leases[l].state # "NONE"
Live(l) == leases[l].state \in {"ACTIVE", "SUSPENDED"}

\* SituationStore.snapshot of the facts fs: those that have not expired.
Snapshot(fs) == {f \in Facts : fs[f].until > clock}

\* Mutant of Watched: forgets the required facts.
Watched_ConditionOnly(policy) == policy.cond

\* The facts the invalidator watches for a policy.
Watched(policy) == policy.cond \union policy.required

\* The fact side of a policy's condition, and its required facts.
Unknown(fs, policy) == policy.cond \ Snapshot(fs)
Violated(fs, policy) == {f \in policy.cond \intersect Snapshot(fs) : ~ fs[f].holds}
Missing(fs, policy) == policy.required \ Snapshot(fs)
FactsOK(fs, policy) ==
  Unknown(fs, policy) = {} /\ Violated(fs, policy) = {} /\ Missing(fs, policy) = {}

\* LeaseStore.active_for.
Candidates(r) ==
  {l \in LeaseIds : /\ leases[l].state = "ACTIVE"
                    /\ leases[l].subject = r.subject
                    /\ r.target \in leases[l].scope}

\* LeaseAuthority.find_lease: the first stored of the candidates.
IsFound(r, l) == l \in Candidates(r) /\ \A k \in Candidates(r) : l <= k

-----------------------------------------------------------------------------
(* evaluator.evaluate on the lease l that find_lease returned.             *)

\* Mutant of OutOfBounds: the window is closed one tick late.
OutOfBounds_Inclusive(r, l) ==
  \/ clock < leases[l].from \/ clock > leases[l].until
  \/ leases[l].remaining = 0
  \/ ~ r.fits

\* Reasons to deny other than the condition's.
OutOfBounds(r, l) ==
  \/ clock < leases[l].from \/ clock >= leases[l].until
  \/ leases[l].remaining = 0
  \/ ~ r.fits

\* The condition holds: every fact known and satisfied, inside the window.
ConditionOK(policy) ==
  /\ Unknown(facts, policy) = {} /\ Violated(facts, policy) = {}
  /\ clock \in policy.window

\* The condition fails for unknown facts only, and the policy says to ask.
OnlyUnknown(policy) ==
  /\ policy.ask
  /\ Unknown(facts, policy) # {} /\ Violated(facts, policy) = {}
  /\ clock \in policy.window

\* Mutant of Replayed: the evaluator is handed no seen_request_ids.
Replayed_Never(r) == FALSE

Replayed(r) == r.id \in seen

\* The first reason of the code's order decides.
Evaluate(r, l) ==
  LET policy == leases[l].policy
      refused == OutOfBounds(r, l) \/ Missing(facts, policy) # {}
  IN IF Replayed(r) THEN "DENY"
     ELSE IF mono < leases[l].anchor THEN "ERROR_FAIL_CLOSED"
     ELSE IF ~ refused /\ ConditionOK(policy) THEN "ALLOW"
     ELSE IF ~ refused /\ OnlyUnknown(policy) THEN "ASK_REVALIDATE"
     ELSE "DENY"

-----------------------------------------------------------------------------
(* LeaseAuthority.mint_lease, for a confirmation that matches the policy.  *)
(* DRAFT is submitted and confirmed at once; the lease it supersedes, if   *)
(* any, is retired.                                                        *)

NewLease(policy, old) ==
  [state |-> TRANSITIONS[TRANSITIONS["DRAFT"]["submit"]]["confirm"],
   policy |-> policy, subject |-> policy.subject, scope |-> policy.scope,
   from |-> policy.from, until |-> policy.until,
   remaining |-> policy.uses, granted |-> policy.uses, anchor |-> mono,
   parent |-> 0, supersedes |-> old]

\* Mutant of Superseded: the old lease is left as it was.
Superseded_Kept(lease) == lease

Superseded(lease) == [lease EXCEPT !.state = Transition(@, "supersede")]

Mint(policy, old) ==
  /\ count < MaxLeases
  /\ count' = count + 1
  /\ leases' = [l \in LeaseIds |->
       IF l = count + 1 THEN NewLease(policy, old)
       ELSE IF l = old THEN Superseded(leases[l])
       ELSE leases[l]]
  /\ receipts' = receipts \union {ReceiptOf(count + 1, "LEASE_MINTED")}
  /\ UNCHANGED <<facts, seen, minted, gpp, pending, clock, mono>>

-----------------------------------------------------------------------------
(* LeaseAuthority.authorize.                                               *)

\* Mutants of Consumed: no use is taken; two are.
Consumed_Free(lease) == lease
Consumed_Twice(lease) == [lease EXCEPT !.remaining = IF @ = NoLimit THEN @ ELSE @ - 2]

\* _consume: take one use of the lease and retire it with the last.
Consumed(lease) ==
  [lease EXCEPT !.remaining = UseOne(@),
                !.state = IF ExhaustedBy(lease.remaining) THEN Transition(@, "exhaust") ELSE @]

\* No hook vetoes and GPP grants: a permit is minted and a use is taken.
Authorize(r) ==
  \E l \in LeaseIds :
    /\ IsFound(r, l)
    /\ Evaluate(r, l) = "ALLOW"
    /\ GPP!Issue(<<r.id, clock>>)
    /\ minted' = [minted EXCEPT ![l] = @ \union {<<r.id, clock>>}]
    /\ leases' = [leases EXCEPT ![l] = Consumed(@)]
    /\ seen' = seen \union {r.id}
    /\ pending' = pending \union {<<r.id, clock>>}
    /\ receipts' = receipts \union {ReceiptOf(r.id, "ALLOW")}
    /\ UNCHANGED <<count, facts, mono>>

\* Every other answer: no lease, the evaluator's own, or DENY where it said
\* ALLOW and a restriction hook or GPP objects.
Refuse(r) ==
  /\ \E outcome \in {"DENY", "ASK_REVALIDATE", "ERROR_FAIL_CLOSED"} :
       /\ \/ Candidates(r) = {} /\ outcome = "DENY"
          \/ \E l \in LeaseIds : /\ IsFound(r, l)
                                 /\ \/ Evaluate(r, l) = outcome
                                    \/ Evaluate(r, l) = "ALLOW" /\ outcome = "DENY"
       /\ receipts' = receipts \union {ReceiptOf(r.id, outcome)}
  /\ seen' = seen \union {r.id}
  /\ UNCHANGED <<leases, count, facts, minted, gpp, pending, clock, mono>>

-----------------------------------------------------------------------------
(* LeaseCrossing.request_action after authorize: verify and consume the    *)
(* permit at a new reading of the clock, then the adapter.                 *)

\* verify_permit and consume both accept p.
Usable(p) ==
  p \in issued \ revoked /\ ~ GPP!Spent(p) /\ clock < GPP!Expiry(p)

Dispatch(p) ==
  /\ p \in pending
  /\ Usable(p)
  /\ GPP!Spend(p, clock, "lease_crossing")
  /\ pending' = pending \ {p}
  /\ \E outcome \in {"EXECUTED", "ADAPTER_FAILED"} :
       receipts' = receipts \union {ReceiptOf(p[1], outcome)}
  /\ UNCHANGED <<leases, count, facts, seen, minted, mono>>

Reject(p) ==
  /\ p \in pending
  /\ ~ Usable(p)
  /\ pending' = pending \ {p}
  /\ receipts' = receipts \union {ReceiptOf(p[1], "PERMIT_REJECTED")}
  /\ UNCHANGED <<leases, count, facts, seen, minted, gpp, clock, mono>>

-----------------------------------------------------------------------------
(* Lifecycle calls.  Where apply_transition would raise, the call changes  *)
(* nothing and no action is given.                                         *)

SetState(l, state) == leases' = [leases EXCEPT ![l].state = state]

Suspend(l) ==
  /\ Applies(leases[l].state, "suspend")
  /\ SetState(l, Transition(leases[l].state, "suspend"))
  /\ UNCHANGED <<count, facts, seen, minted, gpp, pending, receipts, clock, mono>>

\* The state resume_lease leaves a suspended lease in.
Resumed(lease) ==
  Transition(lease.state, IF clock >= lease.until THEN "expire" ELSE "resume")

Resume(l) ==
  /\ leases[l].state = "SUSPENDED"
  /\ SetState(l, Resumed(leases[l]))
  /\ UNCHANGED <<count, facts, seen, minted, gpp, pending, receipts, clock, mono>>

\* expire_lease, and resume_lease of an active lease past its window.
Expire(l) ==
  /\ Live(l)
  /\ SetState(l, Transition(leases[l].state, "expire"))
  /\ UNCHANGED <<count, facts, seen, minted, gpp, pending, receipts, clock, mono>>

\* Mutant of PermitsOf: the permits the leases minted are left alone.
PermitsOf_None(S) == {}

\* The permits minted from the leases in S.
PermitsOf(S) == UNION {minted[l] : l \in S}

\* revoke_lease of every lease in S: the transition, the permits minted from
\* it, and the receipt, which a lease that was terminal gets too.  (An id the
\* store does not know gets a receipt and nothing else, and is left out.)
RevokeEach(S) ==
  /\ leases' = [l \in LeaseIds |->
       IF l \in S THEN [leases[l] EXCEPT !.state = Transition(@, "revoke")] ELSE leases[l]]
  /\ revoked' = revoked \union PermitsOf(S)
  /\ receipts' = receipts \union {ReceiptOf(l, "LEASE_REVOKED") : l \in S}
  /\ UNCHANGED <<count, facts, seen, minted, issued, spent, pending, clock, mono>>

Revoke(l) == Stored(l) /\ RevokeEach({l})

RevokeAll == RevokeEach({l \in LeaseIds : Live(l)})

-----------------------------------------------------------------------------
(* SituationStore.put and the invalidator it calls, to the end of its      *)
(* loop.  No obligation sink is configured.                                *)

\* The lease after on_fact_changed of f, the facts now being fs: suspended,
\* then resumed where the facts of its policy are in order.
Revalidated(lease, f, fs) ==
  IF lease.state \notin {"ACTIVE", "SUSPENDED"} THEN lease
  ELSE IF f \notin Watched(lease.policy) THEN lease
  ELSE LET held == [lease EXCEPT !.state = "SUSPENDED"] IN
       IF FactsOK(fs, lease.policy) THEN [held EXCEPT !.state = Resumed(held)] ELSE held

PutFact(f, fact) ==
  /\ facts' = [facts EXCEPT ![f] = fact]
  /\ leases' = [l \in LeaseIds |-> Revalidated(leases[l], f, facts')]
  /\ UNCHANGED <<count, seen, minted, gpp, pending, receipts, clock, mono>>

-----------------------------------------------------------------------------
(* delegation.py.                                                          *)

\* The lease object a caller passes: read from the store now, or the one
\* mint_lease returned, which nothing updates.
ParentObjects(l) ==
  {leases[l], [leases[l] EXCEPT !.state = "ACTIVE", !.remaining = leases[l].granted]}

Later(a, b) == IF a >= b THEN a ELSE b

NewChild(l, parent, terms) ==
  [state |-> TRANSITIONS[TRANSITIONS["DRAFT"]["submit"]]["confirm"],
   policy |-> parent.policy, subject |-> terms.subject, scope |-> terms.scope,
   from |-> Later(parent.from, clock), until |-> terms.until,
   remaining |-> terms.uses, granted |-> terms.uses, anchor |-> mono,
   parent |-> l, supersedes |-> 0]

\* Mutant of Inside: a child may ask for a later expiry than its parent's.
Inside_Longer(terms, parent) ==
  /\ clock < terms.until
  /\ parent.remaining # NoLimit => terms.uses # NoLimit /\ terms.uses <= parent.remaining
  /\ terms.scope # {} /\ terms.scope \subseteq parent.scope

\* The terms amplify nothing and have not lapsed.
Inside(terms, parent) ==
  /\ terms.until <= parent.until /\ clock < terms.until
  /\ parent.remaining # NoLimit => terms.uses # NoLimit /\ terms.uses <= parent.remaining
  /\ terms.scope # {} /\ terms.scope \subseteq parent.scope

\* delegate_lease by a role that may delegate.
Delegate(l, terms) ==
  /\ Stored(l) /\ count < MaxLeases
  /\ \E parent \in ParentObjects(l) :
       /\ parent.state = "ACTIVE" /\ parent.parent = 0
       /\ Inside(terms, parent)
       /\ leases' = [leases EXCEPT ![count + 1] = NewChild(l, parent, terms)]
  /\ count' = count + 1
  /\ UNCHANGED <<facts, seen, minted, gpp, pending, receipts, clock, mono>>

\* revoke_delegations_of: the live children, not their permits, no receipt.
RevokeDelegationsOf(l) ==
  /\ Stored(l)
  /\ leases' = [k \in LeaseIds |->
       IF Live(k) /\ leases[k].parent = l
       THEN [leases[k] EXCEPT !.state = Transition(@, "revoke")]
       ELSE leases[k]]
  /\ UNCHANGED <<count, facts, seen, minted, gpp, pending, receipts, clock, mono>>

-----------------------------------------------------------------------------
(* The clock callable.  Its monotonic reading may be coarser than its wall *)
(* reading; the wall clock may be set back, and the evaluator guards       *)
(* against a monotonic clock that starts over.                             *)

Tick ==
  /\ clock < MaxClock
  /\ clock' = clock + 1
  /\ mono' \in {mono, mono + 1} \intersect MonoTime
  /\ UNCHANGED <<leases, count, facts, seen, minted, gpp, pending, receipts>>

ClockBack ==
  /\ \/ clock > 0 /\ clock' = clock - 1 /\ mono' = mono
     \/ mono > 0 /\ mono' = 0 /\ clock' = clock
  /\ UNCHANGED <<leases, count, facts, seen, minted, gpp, pending, receipts>>

Next ==
  \/ \E policy \in Policies, old \in 0 .. count : Mint(policy, old)
  \/ \E r \in Requests : Authorize(r) \/ Refuse(r)
  \/ \E p \in pending : Dispatch(p) \/ Reject(p)
  \/ \E l \in LeaseIds : Suspend(l) \/ Resume(l) \/ Expire(l) \/ Revoke(l)
  \/ RevokeAll
  \/ \E f \in Facts, fact \in Reports : PutFact(f, fact)
  \/ \E l \in LeaseIds, terms \in ChildTerms : Delegate(l, terms)
  \/ \E l \in LeaseIds : RevokeDelegationsOf(l)
  \/ Tick
  \/ ClockBack

Spec == Init /\ [][Next]_vars

-----------------------------------------------------------------------------
(* Properties.                                                             *)

\* A lease in a terminal state stays in it, whatever call comes next
\* (lease.py: "Terminal states accept no transitions").
TerminalSticky ==
  [][\A l \in LeaseIds :
       leases[l].state \in TERMINAL_STATES => leases'[l].state = leases[l].state]_vars

\* Once revoke_lease has written its receipt for a lease, no permit of that
\* lease is spent, not even one that authorize returned before the
\* revocation, and the lease mints no other.
RevokedNeverActs ==
  [][\A l \in LeaseIds :
       ReceiptOf(l, "LEASE_REVOKED") \in receipts =>
         /\ minted'[l] = minted[l]
         /\ \A s \in spent' \ spent : s.permit \notin minted'[l]]_vars

\* The uses a lease has left and the permits it minted add up to the uses it
\* was granted: no call is free, none is paid for twice.
UseBudget ==
  \A l \in LeaseIds :
    Stored(l) /\ leases[l].granted # NoLimit =>
      leases[l].remaining + Cardinality(minted[l]) = leases[l].granted

\* A request id is good for one permit, from one lease, at whatever time and
\* under whichever lease it is presented again.
OnePermitPerRequest ==
  /\ \A p, q \in issued : p[1] = q[1] => p = q
  /\ \A k, l \in LeaseIds : k # l => minted[k] \intersect minted[l] = {}

\* A lease that was superseded, or had ended before, never comes back to
\* life beside the lease that replaced it.
SupersededStaysDown ==
  \A l \in LeaseIds :
    Stored(l) /\ leases[l].supersedes # 0 =>
      leases[leases[l].supersedes].state \in TERMINAL_STATES

\* A child lease is inside its parent's envelope in scope, time and uses,
\* even when derived from a copy of the parent that is out of date; and it
\* has no children of its own.
DelegationEnvelope ==
  \A l \in LeaseIds :
    Stored(l) /\ leases[l].parent # 0 =>
      LET child == leases[l] parent == leases[leases[l].parent] IN
      /\ parent.parent = 0 /\ child.policy = parent.policy
      /\ child.scope \subseteq parent.scope
      /\ child.from >= parent.from /\ child.until <= parent.until
      /\ parent.granted # NoLimit =>
           child.granted # NoLimit /\ child.granted <= parent.granted

\* A permit is spent no later than TTL after the window of the lease that
\* minted it, which covers the instant of issue.
BoundedTail ==
  \A s \in spent : \E l \in LeaseIds :
    /\ s.permit \in minted[l]
    /\ leases[l].from <= s.permit[2] /\ s.permit[2] < leases[l].until
    /\ s.at < leases[l].until + TTL

\* When the report of a fact has been handled, no lease that depends on the
\* fact is active unless everything its policy asks of the facts holds.
AfterFactChange ==
  [][\A f \in Facts, l \in LeaseIds :
       /\ facts'[f] # facts[f]
       /\ leases'[l].state = "ACTIVE"
       /\ f \in leases'[l].policy.cond \union leases'[l].policy.required
       => FactsOK(facts, leases[l].policy)']_vars

=============================================================================
