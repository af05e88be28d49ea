----------------------- MODULE LeaseAuthority_proofs -----------------------
(***************************************************************************)
(* For every set of policies, requests, facts and terms, and every bound:  *)
(* the types of the lease authority, and what it promises of leases and    *)
(* the permits minted from them.                                           *)
(***************************************************************************)
EXTENDS LeaseAuthority, FiniteSetTheorems, TLAPS

\* The states a stored lease can be in: DRAFT and PENDING are passed through
\* before the lease is stored.
LeaseStates == {"ACTIVE", "SUSPENDED"} \union TERMINAL_STATES

\* A lease has no more uses left than it was granted.
Bounded(lease) ==
  /\ lease.granted = NoLimit <=> lease.remaining = NoLimit
  /\ lease.granted # NoLimit => lease.remaining <= lease.granted

\* The leases stored are the first "count", and refer to earlier ones.
StoredSound ==
  \A l \in LeaseIds :
    /\ Stored(l) <=> l <= count
    /\ Stored(l) => /\ leases[l].state \in LeaseStates
                    /\ leases[l].parent < l /\ leases[l].supersedes < l
                    /\ Bounded(leases[l])

\* A permit on file is for a request id that was seen.
SeenSound == \A p \in issued : p[1] \in seen

\* The permits listed under a lease are on file, and the lease is stored.
MintedSound ==
  \A l \in LeaseIds : minted[l] \subseteq issued /\ (minted[l] # {} => Stored(l))

\* The permits listed under a lease were issued within its window.
MintedInWindow ==
  \A l \in LeaseIds : \A p \in minted[l] :
    leases[l].from <= p[2] /\ p[2] < leases[l].until

\* A revocation on record has ended the lease and reached its permits.
RevokedSound ==
  \A l \in LeaseIds :
    ReceiptOf(l, "LEASE_REVOKED") \in receipts =>
      leases[l].state \in TERMINAL_STATES /\ minted[l] \subseteq revoked

\* A permit that may be or was spent is listed under some lease, and was
\* spent before its expiry.
SpentSound ==
  /\ \A p \in pending : \E l \in LeaseIds : p \in minted[l]
  /\ \A s \in spent : s.at < GPP!Expiry(s.permit) /\ \E l \in LeaseIds : s.permit \in minted[l]

\* The inductive invariant.
IInv ==
  /\ TypeOK
  /\ StoredSound
  /\ SeenSound
  /\ MintedSound
  /\ MintedInWindow
  /\ RevokedSound
  /\ SpentSound
  /\ OnePermitPerRequest
  /\ SupersededStaysDown
  /\ DelegationEnvelope

\* What a call may do to a lease that is stored: move it to another state,
\* out of a terminal one never, and take uses.
SameTerms(a, b) ==
  /\ a.policy = b.policy /\ a.scope = b.scope
  /\ a.from = b.from /\ a.until = b.until /\ a.granted = b.granted
  /\ a.parent = b.parent /\ a.supersedes = b.supersedes
  /\ Bounded(a) => Bounded(b)

Evolves ==
  /\ leases' \in [LeaseIds -> Lease \union {NoLease}]
  /\ \A l \in LeaseIds : Stored(l) =>
       /\ leases'[l] \in Lease
       /\ leases'[l].state \in LeaseStates
       /\ leases[l].state \in TERMINAL_STATES => leases'[l].state = leases[l].state
       /\ SameTerms(leases[l], leases'[l])

\* ... and no lease is added.
Keeps == Evolves /\ \A l \in LeaseIds : ~ Stored(l) => leases'[l] = leases[l]

\* The mint and the derivation of a lease.
Adds ==
  /\ count < MaxLeases
  /\ count' = count + 1
  /\ \A l \in LeaseIds : ~ Stored(l) /\ l # count + 1 => leases'[l] = leases[l]
  /\ leases'[count + 1] \in Lease
  /\ leases'[count + 1].state = "ACTIVE"
  /\ Bounded(leases'[count + 1])
  /\ leases'[count + 1].parent \in 0 .. count /\ leases'[count + 1].supersedes \in 0 .. count

-----------------------------------------------------------------------------
(* The table.                                                              *)

\* What the events of the lifecycle calls lead to.
LEMMA Table ==
  /\ \A s \in LeaseStates, e \in {"expire", "revoke", "supersede"} :
       /\ Transition(s, e) \in TERMINAL_STATES
       /\ s \in TERMINAL_STATES => Transition(s, e) = s
  /\ \A s \in LeaseStates : Applies(s, "suspend") => s = "ACTIVE"
  /\ Transition("ACTIVE", "suspend") = "SUSPENDED"
  /\ Transition("ACTIVE", "exhaust") = "EXHAUSTED"
  /\ Transition("SUSPENDED", "resume") = "ACTIVE"
  /\ TRANSITIONS[TRANSITIONS["DRAFT"]["submit"]]["confirm"] = "ACTIVE"
<1>1. \A s \in LeaseStates, e \in {"expire", "revoke", "supersede"} :
        Transition(s, e) \in TERMINAL_STATES
  BY DEF LeaseStates, Transition, TRANSITIONS, TERMINAL_STATES
<1>2. \A s \in LeaseStates : Applies(s, "suspend") => s = "ACTIVE"
  BY DEF LeaseStates, Applies, TRANSITIONS, TERMINAL_STATES
<1> QED
  BY <1>1, <1>2 DEF Transition, TRANSITIONS, TERMINAL_STATES

-----------------------------------------------------------------------------
(* What each call does to the leases.                                      *)

\* A slot of the store holds a lease or nothing.
LEMMA Slots ==
  ASSUME TypeOK, NEW l \in LeaseIds
  PROVE  /\ Stored(l) => leases[l] \in Lease
         /\ ~ Stored(l) => leases[l] = NoLease
  BY DEF TypeOK, Stored, Lease, STATES, TERMINAL_STATES, NoLease

\* A change of a lease's state alone.
LEMMA NewState ==
  ASSUME TypeOK, StoredSound, NEW l \in LeaseIds, Stored(l), NEW s \in LeaseStates,
         leases[l].state \in TERMINAL_STATES => s = leases[l].state
  PROVE  LET new == [leases[l] EXCEPT !.state = s] IN
         /\ new \in Lease /\ new.state = s
         /\ SameTerms(leases[l], new)
  BY Slots DEF Lease, SameTerms, Bounded, LeaseStates, STATES, TERMINAL_STATES

\* A call that leaves the leases alone.
LEMMA KeepsSame == ASSUME TypeOK, StoredSound, leases' = leases PROVE Keeps
  BY Slots DEF TypeOK, StoredSound, Keeps, Evolves, SameTerms

\* A call that gives each lease of S another state.
LEMMA KeepsStates ==
  ASSUME TypeOK, StoredSound, NEW S \in SUBSET LeaseIds, NEW f \in [S -> LeaseStates],
         \A l \in S : Stored(l) /\ (leases[l].state \in TERMINAL_STATES => f[l] = leases[l].state),
         leases' = [l \in LeaseIds |->
                      IF l \in S THEN [leases[l] EXCEPT !.state = f[l]] ELSE leases[l]]
  PROVE  Keeps
<1>1. ASSUME NEW l \in LeaseIds, Stored(l)
      PROVE  /\ leases'[l] \in Lease
             /\ leases'[l].state \in LeaseStates
             /\ leases[l].state \in TERMINAL_STATES => leases'[l].state = leases[l].state
             /\ SameTerms(leases[l], leases'[l])
  <2>1. CASE l \in S
    <3>1. f[l] \in LeaseStates /\ leases'[l] = [leases[l] EXCEPT !.state = f[l]]
      BY <2>1
    <3> QED
      BY <1>1, <2>1, <3>1, NewState
  <2>2. CASE l \notin S
    BY <1>1, <2>2, Slots DEF StoredSound, SameTerms
  <2> QED
    BY <2>1, <2>2
<1>2. ASSUME NEW l \in LeaseIds, ~ Stored(l) PROVE leases'[l] = leases[l]
  BY <1>2
<1>3. leases' \in [LeaseIds -> Lease \union {NoLease}]
  BY <1>1, <1>2, Slots
<1> QED
  BY <1>1, <1>2, <1>3 DEF Keeps, Evolves

\* A call that gives one lease another state.
LEMMA KeepsOne ==
  ASSUME TypeOK, StoredSound, NEW l \in LeaseIds, NEW s \in LeaseStates, Stored(l),
         leases[l].state \in TERMINAL_STATES => s = leases[l].state,
         SetState(l, s)
  PROVE  Keeps
<1> DEFINE f == [k \in {l} |-> s]
<1>1. f \in [{l} -> LeaseStates] /\ f[l] = s
  OBVIOUS
<1>2. leases' = [k \in LeaseIds |->
                   IF k \in {l} THEN [leases[k] EXCEPT !.state = f[k]] ELSE leases[k]]
  BY <1>1 DEF SetState, TypeOK
<1> QED
  BY <1>1, <1>2, KeepsStates

\* The state resume_lease leaves a suspended lease in.
LEMMA ResumedState ==
  ASSUME NEW lease, lease.state = "SUSPENDED"
  PROVE  Resumed(lease) \in LeaseStates
  BY Table DEF Resumed, LeaseStates

\* suspend_lease changes a state only, and leaves a terminal lease alone.
LEMMA SuspendKeeps == ASSUME TypeOK, StoredSound, NEW l \in LeaseIds, Suspend(l) PROVE Keeps
<1>1. Stored(l)
  BY DEF Suspend, Stored, Applies, TRANSITIONS
<1>2. leases[l].state = "ACTIVE"
  BY <1>1, Table DEF Suspend, StoredSound
<1>3. "SUSPENDED" \in LeaseStates /\ "ACTIVE" \notin TERMINAL_STATES
  BY DEF LeaseStates, TERMINAL_STATES
<1> QED
  BY <1>1, <1>2, <1>3, Table, KeepsOne DEF Suspend

\* So does resume_lease, whichever way its re-evaluation goes.
LEMMA ResumeKeeps == ASSUME TypeOK, StoredSound, NEW l \in LeaseIds, Resume(l) PROVE Keeps
<1>1. Stored(l) /\ leases[l].state \notin TERMINAL_STATES
  BY DEF Resume, Stored, TERMINAL_STATES
<1>2. Resumed(leases[l]) \in LeaseStates
  BY ResumedState DEF Resume
<1> QED
  BY <1>1, <1>2, KeepsOne DEF Resume

\* So does expire_lease.
LEMMA ExpireKeeps == ASSUME TypeOK, StoredSound, NEW l \in LeaseIds, Expire(l) PROVE Keeps
<1>1. Stored(l) /\ leases[l].state \in LeaseStates
  BY DEF Expire, Live, Stored, LeaseStates
<1>2. Transition(leases[l].state, "expire") \in LeaseStates
  BY <1>1, Table DEF LeaseStates
<1> QED
  BY <1>1, <1>2, Table, KeepsOne DEF Expire

\* So do revoke_lease and revoke_all, with their permits.
LEMMA RevokeKeeps ==
  ASSUME TypeOK, StoredSound, NEW S \in SUBSET LeaseIds, \A l \in S : Stored(l), RevokeEach(S)
  PROVE  Keeps /\ \A l \in S : leases'[l].state \in TERMINAL_STATES
<1> DEFINE f == [l \in S |-> Transition(leases[l].state, "revoke")]
<1>1. \A l \in S : /\ leases[l].state \in LeaseStates
                   /\ f[l] \in TERMINAL_STATES
                   /\ leases[l].state \in TERMINAL_STATES => f[l] = leases[l].state
  BY Table DEF StoredSound
<1>2. f \in [S -> LeaseStates]
  BY <1>1 DEF LeaseStates
<1>3. leases' = [l \in LeaseIds |->
                   IF l \in S THEN [leases[l] EXCEPT !.state = f[l]] ELSE leases[l]]
  BY DEF RevokeEach
<1>4. Keeps
  BY <1>1, <1>2, <1>3, KeepsStates
<1>5. ASSUME NEW l \in S PROVE leases'[l].state \in TERMINAL_STATES
  <2>1. leases'[l] = [leases[l] EXCEPT !.state = f[l]] /\ leases[l] \in Lease
    BY <1>3, Slots
  <2> QED
    BY <1>1, <2>1 DEF Lease
<1> QED
  BY <1>4, <1>5

\* So does revoke_delegations_of.
LEMMA RevokeDelegationsKeeps ==
  ASSUME TypeOK, StoredSound, NEW l \in LeaseIds, RevokeDelegationsOf(l)
  PROVE  Keeps
<1> DEFINE S == {k \in LeaseIds : Live(k) /\ leases[k].parent = l}
           f == [k \in S |-> Transition(leases[k].state, "revoke")]
<1>1. \A k \in S : Stored(k) /\ leases[k].state \in LeaseStates
  BY DEF Live, Stored, LeaseStates
<1>2. \A k \in S : /\ f[k] \in TERMINAL_STATES
                   /\ leases[k].state \in TERMINAL_STATES => f[k] = leases[k].state
  BY <1>1, Table
<1>3. f \in [S -> LeaseStates]
  BY <1>2 DEF LeaseStates
<1>4. leases' = [k \in LeaseIds |->
                   IF k \in S THEN [leases[k] EXCEPT !.state = f[k]] ELSE leases[k]]
  BY DEF RevokeDelegationsOf
<1> QED
  BY <1>1, <1>2, <1>3, <1>4, KeepsStates

\* So does a report of a fact, whichever leases the invalidator moves.
LEMMA PutFactKeeps ==
  ASSUME TypeOK, StoredSound, NEW f \in Facts, NEW fact, PutFact(f, fact)
  PROVE  Keeps
<1> DEFINE S == {l \in LeaseIds : Live(l) /\ f \in Watched(leases[l].policy)}
           held(l) == [leases[l] EXCEPT !.state = "SUSPENDED"]
           g == [l \in S |-> IF FactsOK(facts', leases[l].policy) THEN Resumed(held(l))
                             ELSE "SUSPENDED"]
<1>1. ASSUME NEW l \in S
      PROVE  /\ Stored(l) /\ leases[l].state \notin TERMINAL_STATES
             /\ g[l] \in LeaseStates
             /\ Revalidated(leases[l], f, facts') = [leases[l] EXCEPT !.state = g[l]]
  <2>1. Stored(l) /\ leases[l].state \notin TERMINAL_STATES
    BY DEF Live, Stored, TERMINAL_STATES
  <2>2. leases[l] \in Lease
    BY <2>1, Slots
  <2>3. held(l).state = "SUSPENDED"
    BY <2>2 DEF Lease
  <2>4. g[l] \in LeaseStates
    BY <2>3, ResumedState DEF LeaseStates
  <2>5. [held(l) EXCEPT !.state = Resumed(held(l))]
          = [leases[l] EXCEPT !.state = Resumed(held(l))]
    BY <2>2 DEF Lease
  <2> QED
    BY <2>1, <2>4, <2>5 DEF Revalidated, Live
<1>2. ASSUME NEW l \in LeaseIds \ S PROVE Revalidated(leases[l], f, facts') = leases[l]
  BY DEF Revalidated, Live
<1>3. g \in [S -> LeaseStates]
  BY <1>1
<1>4. leases' = [l \in LeaseIds |->
                   IF l \in S THEN [leases[l] EXCEPT !.state = g[l]] ELSE leases[l]]
  BY <1>1, <1>2 DEF PutFact
<1> QED
  BY <1>1, <1>3, <1>4, KeepsStates

\* authorize takes a use of an active lease, and its last one ends it.
LEMMA ConsumedLease ==
  ASSUME NEW lease \in Lease, lease.state = "ACTIVE"
  PROVE  /\ Consumed(lease) \in Lease
         /\ Consumed(lease).state \in LeaseStates
         /\ SameTerms(lease, Consumed(lease))
<1>1. UseOne(lease.remaining) \in Uses
  <2>1. lease.remaining \in Uses
    BY DEF Lease
  <2> QED
    BY <2>1, NoLimitAssumption DEF UseOne, Uses
<1>2. (IF ExhaustedBy(lease.remaining) THEN Transition(lease.state, "exhaust") ELSE lease.state)
        \in {"ACTIVE", "EXHAUSTED"}
  BY Table
<1>3. /\ Consumed(lease).remaining = UseOne(lease.remaining)
      /\ Consumed(lease).granted = lease.granted
  BY DEF Consumed, Lease
<1>4. Bounded(lease) => Bounded(Consumed(lease))
  <2>1. lease.remaining \in Uses /\ lease.granted \in Uses
    BY DEF Lease
  <2> QED
    BY <1>3, <2>1, NoLimitAssumption DEF Bounded, UseOne, Uses
<1>5. Consumed(lease) \in Lease /\ Consumed(lease).state \in LeaseStates
  BY <1>1, <1>2 DEF Consumed, Lease, LeaseStates, STATES, TERMINAL_STATES
<1> QED
  BY <1>4, <1>5 DEF Consumed, Lease, SameTerms

\* authorize leaves every other lease alone.
LEMMA AuthorizeKeeps ==
  ASSUME TypeOK, StoredSound, NEW l \in LeaseIds, leases[l].state = "ACTIVE",
         leases' = [leases EXCEPT ![l] = Consumed(@)]
  PROVE  Keeps
<1>1. Stored(l) /\ leases[l] \in Lease /\ leases[l].state \notin TERMINAL_STATES
  BY Slots DEF Stored, TERMINAL_STATES
<1>2. leases'[l] = Consumed(leases[l]) /\ \A k \in LeaseIds \ {l} : leases'[k] = leases[k]
  BY DEF TypeOK
<1>3. ASSUME NEW k \in LeaseIds, Stored(k)
      PROVE  /\ leases'[k] \in Lease
             /\ leases'[k].state \in LeaseStates
             /\ leases[k].state \in TERMINAL_STATES => leases'[k].state = leases[k].state
             /\ SameTerms(leases[k], leases'[k])
  <2>1. CASE k = l
    BY <1>1, <1>2, <2>1, ConsumedLease
  <2>2. CASE k # l
    BY <1>2, <1>3, <2>2, Slots DEF StoredSound, SameTerms
  <2> QED
    BY <2>1, <2>2
<1>4. \A k \in LeaseIds : ~ Stored(k) => leases'[k] = leases[k]
  BY <1>1, <1>2
<1>5. leases' \in [LeaseIds -> Lease \union {NoLease}]
  BY <1>1, <1>2, ConsumedLease DEF TypeOK
<1> QED
  BY <1>3, <1>4, <1>5 DEF Keeps, Evolves

\* The slot a new lease goes to.
LEMMA NewSlot ==
  ASSUME TypeOK, StoredSound, count < MaxLeases
  PROVE  count + 1 \in LeaseIds /\ ~ Stored(count + 1)
  BY AuthorityAssumption DEF TypeOK, StoredSound, LeaseIds

\* mint_lease adds one lease and retires at most the one it supersedes.
LEMMA MintAdds ==
  ASSUME TypeOK, StoredSound, NEW policy \in Policies, NEW old \in 0 .. count, Mint(policy, old)
  PROVE  /\ Evolves /\ Adds
         /\ leases'[count + 1] = NewLease(policy, old)
         /\ old # 0 => leases'[old].state \in TERMINAL_STATES
<1> DEFINE n == count + 1
<1>1. n \in LeaseIds /\ ~ Stored(n) /\ old # n
  BY NewSlot, AuthorityAssumption DEF Mint, TypeOK
<1>2. leases'[n] = NewLease(policy, old)
  BY <1>1 DEF Mint
<1>3. /\ NewLease(policy, old) \in Lease /\ NewLease(policy, old).state = "ACTIVE"
      /\ Bounded(NewLease(policy, old))
  <2>1. policy \in Policy /\ mono \in MonoTime /\ old \in LeaseIds \union {0}
    BY AuthorityAssumption DEF TypeOK, LeaseIds
  <2>2. TRANSITIONS[TRANSITIONS["DRAFT"]["submit"]]["confirm"] \in STATES
    BY Table DEF STATES
  <2> QED
    BY <2>1, <2>2, Table, NoLimitAssumption DEF NewLease, Lease, Policy, Bounded, Uses
<1>4. ASSUME old # 0
      PROVE  /\ old \in LeaseIds /\ Stored(old)
             /\ leases'[old] = [leases[old] EXCEPT !.state = Transition(@, "supersede")]
  BY <1>1, <1>4, AuthorityAssumption DEF Mint, Superseded, TypeOK, StoredSound, LeaseIds
<1>5. ASSUME old # 0
      PROVE  /\ leases'[old] \in Lease
             /\ leases'[old].state \in TERMINAL_STATES
             /\ leases[old].state \in TERMINAL_STATES => leases'[old].state = leases[old].state
             /\ SameTerms(leases[old], leases'[old])
  <2>1. leases[old].state \in LeaseStates
    BY <1>4, <1>5 DEF StoredSound
  <2> DEFINE s == Transition(leases[old].state, "supersede")
  <2>2. s \in TERMINAL_STATES /\ (leases[old].state \in TERMINAL_STATES => s = leases[old].state)
    BY <2>1, Table
  <2>3. s \in LeaseStates
    BY <2>2 DEF LeaseStates
  <2> HIDE DEF s
  <2>4. leases'[old] = [leases[old] EXCEPT !.state = s]
    BY <1>4, <1>5, Slots DEF s, Lease
  <2> QED
    BY <1>4, <1>5, <2>2, <2>3, <2>4, NewState
<1>6. \A l \in LeaseIds : l # n /\ (l # old \/ old = 0) => leases'[l] = leases[l]
  <2>1. 0 \notin LeaseIds
    BY AuthorityAssumption DEF LeaseIds
  <2> QED
    BY <2>1 DEF Mint
<1>7. ASSUME NEW l \in LeaseIds, Stored(l)
      PROVE  /\ leases'[l] \in Lease
             /\ leases'[l].state \in LeaseStates
             /\ leases[l].state \in TERMINAL_STATES => leases'[l].state = leases[l].state
             /\ SameTerms(leases[l], leases'[l])
  <2>1. CASE l = old /\ old # 0
    BY <1>5, <2>1 DEF LeaseStates
  <2>2. CASE l # old \/ old = 0
    BY <1>1, <1>6, <1>7, <2>2, Slots DEF StoredSound, SameTerms
  <2> QED
    BY <2>1, <2>2
<1>8. \A l \in LeaseIds : ~ Stored(l) /\ l # n => leases'[l] = leases[l]
  BY <1>4, <1>6
<1>9. leases' \in [LeaseIds -> Lease \union {NoLease}]
  <2>1. \A l \in LeaseIds : leases'[l] \in Lease \union {NoLease}
    BY <1>2, <1>3, <1>7, <1>8, Slots
  <2> QED
    BY <2>1 DEF Mint
<1>10. leases'[n].parent \in 0 .. count /\ leases'[n].supersedes \in 0 .. count
  BY <1>2 DEF NewLease, TypeOK
<1> QED
  BY <1>2, <1>3, <1>5, <1>7, <1>8, <1>9, <1>10 DEF Mint, Evolves, Adds

\* delegate_lease adds one lease inside the parent it was handed.
LEMMA DelegateAdds ==
  ASSUME TypeOK, StoredSound, NEW l \in LeaseIds, NEW terms \in ChildTerms, Delegate(l, terms)
  PROVE  /\ Evolves /\ Adds
         /\ leases'[count + 1].supersedes = 0
         /\ leases'[count + 1].parent = l
         /\ Stored(l) /\ l # count + 1
         /\ \A k \in LeaseIds \ {count + 1} : leases'[k] = leases[k]
         /\ LET child == leases'[count + 1] IN
            /\ leases[l].parent = 0 /\ child.policy = leases[l].policy
            /\ child.scope \subseteq leases[l].scope
            /\ child.from >= leases[l].from /\ child.until <= leases[l].until
            /\ leases[l].granted # NoLimit =>
                 child.granted # NoLimit /\ child.granted <= leases[l].granted
<1> DEFINE n == count + 1
<1>1. n \in LeaseIds /\ ~ Stored(n) /\ Stored(l) /\ l # n
  BY NewSlot DEF Delegate
<1>2. PICK parent \in ParentObjects(l) :
        /\ parent.state = "ACTIVE" /\ parent.parent = 0
        /\ Inside(terms, parent)
        /\ leases' = [leases EXCEPT ![n] = NewChild(l, parent, terms)]
  BY DEF Delegate
<1>3. leases[l] \in Lease /\ Bounded(leases[l]) /\ terms \in Terms
  BY <1>1, Slots, AuthorityAssumption DEF StoredSound
<1>4. /\ parent \in Lease /\ Bounded(parent)
      /\ parent.parent = leases[l].parent /\ parent.policy = leases[l].policy
      /\ parent.scope = leases[l].scope
      /\ parent.from = leases[l].from /\ parent.until = leases[l].until
      /\ parent.granted = leases[l].granted
  <2>1. CASE parent = leases[l]
    BY <1>3, <2>1
  <2>2. CASE parent = [leases[l] EXCEPT !.state = "ACTIVE", !.remaining = leases[l].granted]
    <3>1. parent.granted = leases[l].granted /\ parent.remaining = leases[l].granted
      BY <1>3, <2>2 DEF Lease
    <3>2. Bounded(parent)
      <4>1. leases[l].granted \in Uses
        BY <1>3 DEF Lease
      <4> QED
        BY <3>1, <4>1, NoLimitAssumption DEF Bounded, Uses
    <3> QED
      BY <1>3, <2>2, <3>2 DEF Lease, STATES
  <2> QED
    BY <2>1, <2>2 DEF ParentObjects
<1>5. /\ leases'[n] = NewChild(l, parent, terms)
      /\ \A k \in LeaseIds \ {n} : leases'[k] = leases[k]
  BY <1>1, <1>2 DEF TypeOK
<1>6. clock \in Nat /\ mono \in MonoTime
  BY AuthorityAssumption DEF TypeOK, Time
<1>7. Later(parent.from, clock) \in Nat /\ Later(parent.from, clock) >= parent.from
  BY <1>4, <1>6 DEF Later, Lease
<1>8. TRANSITIONS[TRANSITIONS["DRAFT"]["submit"]]["confirm"] = "ACTIVE"
  BY Table
<1>9. leases'[n] \in Lease /\ leases'[n].state = "ACTIVE" /\ Bounded(leases'[n])
  <2>1. /\ terms.subject \in Subjects /\ terms.scope \in SUBSET Targets
        /\ terms.until \in Nat /\ terms.uses \in Uses
    BY <1>3 DEF Terms
  <2>2. parent.policy \in Policies
    BY <1>4 DEF Lease
  <2>3. leases'[n] \in Lease /\ leases'[n].state = "ACTIVE"
    BY <1>5, <1>6, <1>7, <1>8, <2>1, <2>2 DEF NewChild, Lease, STATES
  <2>4. leases'[n].granted = terms.uses /\ leases'[n].remaining = terms.uses
    BY <1>5 DEF NewChild
  <2> QED
    BY <2>1, <2>3, <2>4, NoLimitAssumption DEF Bounded, Uses
<1>10. leases' \in [LeaseIds -> Lease \union {NoLease}]
  BY <1>1, <1>2, <1>5, <1>9 DEF TypeOK
<1>11. Evolves
  BY <1>1, <1>5, <1>10, Slots DEF Evolves, StoredSound, SameTerms
<1>12. Adds
  <2>1. leases'[n].parent \in 0 .. count /\ leases'[n].supersedes \in 0 .. count
    BY <1>1, <1>5 DEF NewChild, StoredSound, TypeOK, LeaseIds
  <2> QED
    BY <1>5, <1>9, <2>1 DEF Adds, Delegate
<1>13. ASSUME leases[l].granted # NoLimit
       PROVE  terms.uses # NoLimit /\ terms.uses <= leases[l].granted
  <2>1. parent.remaining \in Nat /\ parent.granted \in Nat /\ parent.remaining <= parent.granted
    BY <1>4, <1>13 DEF Bounded, Lease, Uses
  <2>2. terms.uses # NoLimit /\ terms.uses <= parent.remaining
    BY <2>1, <1>2, NoLimitAssumption DEF Inside
  <2>3. terms.uses \in Nat
    BY <1>3, <2>2 DEF Terms, Uses
  <2> QED
    BY <1>4, <2>1, <2>2, <2>3
<1>14. /\ leases'[n].supersedes = 0 /\ leases'[n].parent = l
       /\ leases'[n].policy = leases[l].policy /\ leases'[n].scope = terms.scope
       /\ leases'[n].from = Later(parent.from, clock)
       /\ leases'[n].until = terms.until /\ leases'[n].granted = terms.uses
  BY <1>4, <1>5 DEF NewChild
<1> QED
  BY <1>1, <1>2, <1>4, <1>5, <1>7, <1>11, <1>12, <1>13, <1>14 DEF Inside

-----------------------------------------------------------------------------
(* The parts of the invariant about leases.                                *)

\* Every step evolves the leases; it adds one or none.
LEMMA NextLeases ==
  ASSUME TypeOK, StoredSound, [Next]_vars
  PROVE  Evolves /\ ((Keeps /\ count' = count) \/ Adds)
<1>1. CASE UNCHANGED vars
  BY <1>1, KeepsSame DEF vars, Keeps
<1>2. ASSUME NEW policy \in Policies, NEW old \in 0 .. count, Mint(policy, old)
      PROVE  Evolves /\ Adds
  BY <1>2, MintAdds
<1>3. ASSUME NEW r \in Requests, Authorize(r) PROVE Keeps /\ count' = count
  <2>1. PICK l \in LeaseIds : IsFound(r, l) /\ leases' = [leases EXCEPT ![l] = Consumed(@)]
    BY <1>3 DEF Authorize
  <2>2. leases[l].state = "ACTIVE"
    BY <2>1 DEF IsFound, Candidates
  <2> QED
    BY <1>3, <2>1, <2>2, AuthorizeKeeps DEF Authorize
<1>4. ASSUME NEW r \in Requests, Refuse(r) PROVE Keeps /\ count' = count
  BY <1>4, KeepsSame DEF Refuse
<1>5. ASSUME NEW p \in pending, Dispatch(p) \/ Reject(p) PROVE Keeps /\ count' = count
  BY <1>5, KeepsSame DEF Dispatch, Reject
<1>6. ASSUME NEW l \in LeaseIds, Suspend(l) \/ Resume(l) \/ Expire(l)
      PROVE  Keeps /\ count' = count
  BY <1>6, SuspendKeeps, ResumeKeeps, ExpireKeeps DEF Suspend, Resume, Expire
<1>7. ASSUME NEW l \in LeaseIds, Revoke(l) PROVE Keeps /\ count' = count
  <2>1. {l} \in SUBSET LeaseIds /\ \A k \in {l} : Stored(k)
    BY <1>7 DEF Revoke
  <2> QED
    BY <1>7, <2>1, RevokeKeeps DEF Revoke, RevokeEach
<1>8. CASE RevokeAll
  <2> DEFINE S == {l \in LeaseIds : Live(l)}
  <2>1. S \in SUBSET LeaseIds /\ \A k \in S : Stored(k)
    BY DEF Live, Stored
  <2> QED
    BY <1>8, <2>1, RevokeKeeps DEF RevokeAll, RevokeEach, Keeps
<1>9. ASSUME NEW f \in Facts, NEW fact \in Reports, PutFact(f, fact)
      PROVE  Keeps /\ count' = count
  BY <1>9, PutFactKeeps DEF PutFact
<1>10. ASSUME NEW l \in LeaseIds, NEW terms \in ChildTerms, Delegate(l, terms)
       PROVE  Evolves /\ Adds
  BY <1>10, DelegateAdds
<1>11. ASSUME NEW l \in LeaseIds, RevokeDelegationsOf(l) PROVE Keeps /\ count' = count
  BY <1>11, RevokeDelegationsKeeps DEF RevokeDelegationsOf
<1>12. CASE Tick \/ ClockBack
  BY <1>12, KeepsSame DEF Tick, ClockBack, Keeps
<1> QED
  BY <1>1, <1>2, <1>3, <1>4, <1>5, <1>6, <1>7, <1>8, <1>9, <1>10, <1>11, <1>12
  DEF Next, Keeps

\* The store stays a prefix with links to earlier leases.
LEMMA StoredNext ==
  ASSUME TypeOK, StoredSound, Evolves, (Keeps /\ count' = count) \/ Adds
  PROVE  StoredSound'
<1>1. ASSUME NEW l \in LeaseIds
      PROVE  /\ Stored(l)' <=> l <= count'
             /\ Stored(l)' => /\ leases'[l].state \in LeaseStates
                              /\ leases'[l].parent < l /\ leases'[l].supersedes < l
                              /\ Bounded(leases'[l])
  <2>1. CASE Stored(l)
    <3>1. /\ leases'[l].state \in LeaseStates
          /\ leases'[l].parent < l /\ leases'[l].supersedes < l /\ Bounded(leases'[l])
      BY <2>1 DEF Evolves, SameTerms, StoredSound
    <3>2. Stored(l)'
      BY <3>1 DEF Stored, LeaseStates, TERMINAL_STATES
    <3>3. l <= count'
      BY <2>1 DEF StoredSound, Adds, TypeOK, LeaseIds
    <3> QED
      BY <3>1, <3>2, <3>3
  <2>2. CASE ~ Stored(l) /\ Keeps /\ count' = count
    BY <2>2 DEF Keeps, Stored, StoredSound
  <2>3. CASE ~ Stored(l) /\ Adds /\ l # count + 1
    BY <2>3 DEF Adds, Stored, StoredSound, TypeOK, LeaseIds
  <2>4. CASE Adds /\ l = count + 1
    BY <2>4 DEF Adds, Stored, LeaseStates, TypeOK
  <2> QED
    BY <2>1, <2>2, <2>3, <2>4
<1> QED
  BY <1>1 DEF StoredSound

\* Only a mint and a delegation add a lease.
LEMMA Adders ==
  ASSUME TypeOK, [Next]_vars, Adds
  PROVE  \/ \E policy \in Policies, old \in 0 .. count : Mint(policy, old)
         \/ \E l \in LeaseIds, terms \in ChildTerms : Delegate(l, terms)
<1>1. count' # count
  BY DEF Adds, TypeOK
<1> QED
  BY <1>1 DEF Next, vars, Authorize, Refuse, Dispatch, Reject, Suspend, Resume, Expire,
    Revoke, RevokeAll, RevokeEach, PutFact, RevokeDelegationsOf, Tick, ClockBack

\* A superseded lease stays terminal, and a new lease retires its old one.
LEMMA SupersededNext ==
  ASSUME TypeOK, StoredSound, SupersededStaysDown, [Next]_vars
  PROVE  SupersededStaysDown'
<1>1. Evolves /\ ((Keeps /\ count' = count) \/ Adds)
  BY NextLeases
<1>2. ASSUME NEW l \in LeaseIds, Stored(l), leases'[l].supersedes # 0
      PROVE  leases'[leases'[l].supersedes].state \in TERMINAL_STATES
  <2> DEFINE o == leases[l].supersedes
  <2>1. leases'[l].supersedes = o
    BY <1>1, <1>2 DEF Evolves, SameTerms
  <2>2. o \in LeaseIds /\ leases[o].state \in TERMINAL_STATES
    BY <1>2, <2>1, Slots DEF SupersededStaysDown, Lease
  <2>3. Stored(o)
    BY <2>2 DEF Stored, TERMINAL_STATES
  <2>4. leases'[o].state = leases[o].state
    BY <1>1, <2>2, <2>3 DEF Evolves
  <2> QED
    BY <2>1, <2>2, <2>4
<1>3. CASE Keeps
  BY <1>2, <1>3 DEF Keeps, SupersededStaysDown, Stored
<1>4. ASSUME Adds, NEW l \in LeaseIds, l # count + 1, Stored(l)', leases'[l].supersedes # 0
      PROVE  leases'[leases'[l].supersedes].state \in TERMINAL_STATES
  BY <1>2, <1>4 DEF Adds, Stored
<1>5. ASSUME NEW policy \in Policies, NEW old \in 0 .. count, Mint(policy, old)
      PROVE  SupersededStaysDown'
  <2>1. /\ Adds /\ leases'[count + 1] = NewLease(policy, old)
        /\ old # 0 => leases'[old].state \in TERMINAL_STATES
    BY <1>5, MintAdds
  <2>2. leases'[count + 1].supersedes = old
    BY <2>1 DEF NewLease
  <2> QED
    BY <1>4, <2>1, <2>2 DEF SupersededStaysDown
<1>6. ASSUME NEW l \in LeaseIds, NEW terms \in ChildTerms, Delegate(l, terms)
      PROVE  SupersededStaysDown'
  <2>1. Adds /\ leases'[count + 1].supersedes = 0
    BY <1>6, DelegateAdds
  <2> QED
    BY <1>4, <2>1 DEF SupersededStaysDown
<1>7. CASE Adds
  BY <1>5, <1>6, <1>7, Adders
<1> QED
  BY <1>1, <1>3, <1>7

\* Children stay inside their parents, whose terms do not change.
LEMMA EnvelopeNext ==
  ASSUME TypeOK, StoredSound, DelegationEnvelope, [Next]_vars
  PROVE  DelegationEnvelope'
<1> DEFINE Within(child, parent) ==
      /\ parent.parent = 0 /\ child.policy = parent.policy
      /\ child.scope \subseteq parent.scope
      /\ child.from >= parent.from /\ child.until <= parent.until
      /\ parent.granted # NoLimit =>
           child.granted # NoLimit /\ child.granted <= parent.granted
<1>1. Evolves /\ ((Keeps /\ count' = count) \/ Adds)
  BY NextLeases
<1>2. ASSUME NEW l \in LeaseIds, Stored(l), leases'[l].parent # 0
      PROVE  Within(leases'[l], leases'[leases'[l].parent])
  <2> DEFINE q == leases[l].parent
  <2>1. leases'[l].parent = q /\ SameTerms(leases[l], leases'[l])
    BY <1>1, <1>2 DEF Evolves, SameTerms
  <2>2. q \in LeaseIds /\ q < l /\ l <= count
    BY <1>2, <2>1, Slots DEF Lease, StoredSound
  <2>3. Stored(q)
    BY <2>2 DEF StoredSound, TypeOK, LeaseIds
  <2>4. SameTerms(leases[q], leases'[q])
    BY <1>1, <2>2, <2>3 DEF Evolves
  <2>5. Within(leases[l], leases[q])
    BY <1>2, <2>1 DEF DelegationEnvelope
  <2> QED
    BY <2>1, <2>4, <2>5 DEF SameTerms
<1>3. CASE Keeps
  BY <1>2, <1>3 DEF Keeps, DelegationEnvelope, Stored
<1>4. ASSUME Adds, NEW l \in LeaseIds, l # count + 1, Stored(l)', leases'[l].parent # 0
      PROVE  Within(leases'[l], leases'[leases'[l].parent])
  BY <1>2, <1>4 DEF Adds, Stored
<1>5. ASSUME NEW policy \in Policies, NEW old \in 0 .. count, Mint(policy, old)
      PROVE  DelegationEnvelope'
  <2>1. Adds /\ leases'[count + 1] = NewLease(policy, old)
    BY <1>5, MintAdds
  <2>2. leases'[count + 1].parent = 0
    BY <2>1 DEF NewLease
  <2> QED
    BY <1>4, <2>1, <2>2 DEF DelegationEnvelope
<1>6. ASSUME NEW l \in LeaseIds, NEW terms \in ChildTerms, Delegate(l, terms)
      PROVE  DelegationEnvelope'
  <2>1. /\ Adds /\ leases'[count + 1].parent = l /\ leases'[l] = leases[l]
        /\ Within(leases'[count + 1], leases[l])
    BY <1>6, DelegateAdds
  <2> QED
    BY <1>4, <2>1 DEF DelegationEnvelope
<1>7. CASE Adds
  BY <1>5, <1>6, <1>7, Adders
<1> QED
  BY <1>1, <1>3, <1>7

-----------------------------------------------------------------------------
(* The parts of the invariant about permits.                               *)

\* A request and its permit have the types of the stores.
LEMMA NewPermit ==
  ASSUME TypeOK, NEW r \in Requests
  PROVE  r.id \in RequestIds /\ <<r.id, clock>> \in PermitId /\ clock \in Nat
  BY AuthorityAssumption DEF TypeOK, Request, PermitId, Time

\* Every step keeps the stores well typed.
LEMMA TypeNext ==
  ASSUME TypeOK, StoredSound, [Next]_vars
  PROVE  TypeOK'
<1>1. leases' \in [LeaseIds -> Lease \union {NoLease}] /\ (count' = count \/ Adds)
  BY NextLeases DEF Evolves
<1>2. count' \in 0 .. MaxLeases
  BY <1>1, AuthorityAssumption DEF Adds, TypeOK
<1>3. /\ \A a \in RequestIds \union LeaseIds, o \in Outcomes : ReceiptOf(a, o) \in ReceiptSet
      /\ {"ALLOW", "DENY", "ASK_REVALIDATE", "ERROR_FAIL_CLOSED", "EXECUTED",
          "ADAPTER_FAILED", "PERMIT_REJECTED", "LEASE_MINTED", "LEASE_REVOKED"} \subseteq Outcomes
  BY DEF ReceiptOf, ReceiptSet, Outcomes
<1> USE DEF gpp
<1>4. ASSUME NEW policy \in Policies, NEW old \in 0 .. count, Mint(policy, old) PROVE TypeOK'
  <2>1. count + 1 \in LeaseIds
    BY <1>4, NewSlot DEF Mint
  <2> QED
    BY <1>1, <1>2, <1>3, <1>4, <2>1 DEF Mint, TypeOK
<1>5. ASSUME NEW r \in Requests, Authorize(r) PROVE TypeOK'
  <2>1. PICK l \in LeaseIds :
          /\ minted' = [minted EXCEPT ![l] = @ \union {<<r.id, clock>>}]
          /\ issued' = issued \union {<<r.id, clock>>}
          /\ seen' = seen \union {r.id}
          /\ pending' = pending \union {<<r.id, clock>>}
          /\ receipts' = receipts \union {ReceiptOf(r.id, "ALLOW")}
          /\ UNCHANGED <<facts, revoked, spent, clock, mono>>
    BY <1>5 DEF Authorize, GPP!Issue
  <2>2. <<r.id, clock>> \in PermitId /\ r.id \in RequestIds
    BY NewPermit
  <2>3. ReceiptOf(r.id, "ALLOW") \in ReceiptSet
    BY <1>3, <2>2
  <2>4. minted' \in [LeaseIds -> SUBSET PermitId]
    BY <2>1, <2>2 DEF TypeOK
  <2> QED
    BY <1>1, <1>2, <2>1, <2>2, <2>3, <2>4 DEF TypeOK
<1>6. ASSUME NEW r \in Requests, Refuse(r) PROVE TypeOK'
  <2>1. PICK outcome \in {"DENY", "ASK_REVALIDATE", "ERROR_FAIL_CLOSED"} :
          receipts' = receipts \union {ReceiptOf(r.id, outcome)}
    BY <1>6 DEF Refuse
  <2>2. r.id \in RequestIds
    BY NewPermit
  <2>3. ReceiptOf(r.id, outcome) \in ReceiptSet
    BY <1>3, <2>1, <2>2
  <2>4. seen' \subseteq RequestIds /\ receipts' \subseteq ReceiptSet
    BY <1>6, <2>1, <2>2, <2>3 DEF Refuse, TypeOK
  <2> QED
    BY <1>1, <1>2, <1>6, <2>4 DEF Refuse, TypeOK
<1>7. ASSUME NEW p \in pending, Dispatch(p) PROVE TypeOK'
  <2>1. p \in PermitId /\ p[1] \in RequestIds /\ clock \in Time
    BY DEF TypeOK, PermitId
  <2> QED
    BY <1>1, <1>2, <1>3, <1>7, <2>1 DEF Dispatch, GPP!Spend, TypeOK
<1>8. ASSUME NEW p \in pending, Reject(p) PROVE TypeOK'
  <2>1. p[1] \in RequestIds
    BY DEF TypeOK, PermitId
  <2> QED
    BY <1>1, <1>2, <1>3, <1>8, <2>1 DEF Reject, TypeOK
<1>9. ASSUME NEW l \in LeaseIds, Suspend(l) \/ Resume(l) \/ Expire(l) \/ RevokeDelegationsOf(l)
      PROVE  TypeOK'
  BY <1>1, <1>2, <1>9 DEF Suspend, Resume, Expire, RevokeDelegationsOf, TypeOK
<1>10. ASSUME NEW S \in SUBSET LeaseIds, RevokeEach(S) PROVE TypeOK'
  <2>1. PermitsOf(S) \subseteq PermitId
    BY DEF PermitsOf, TypeOK
  <2> QED
    BY <1>1, <1>2, <1>3, <1>10, <2>1 DEF RevokeEach, TypeOK
<1>11. ASSUME NEW f \in Facts, NEW fact \in Reports, PutFact(f, fact) PROVE TypeOK'
  BY <1>1, <1>2, <1>11, AuthorityAssumption DEF PutFact, TypeOK
<1>12. ASSUME NEW l \in LeaseIds, NEW terms \in ChildTerms, Delegate(l, terms) PROVE TypeOK'
  BY <1>1, <1>2, <1>12 DEF Delegate, TypeOK
<1>13. CASE Tick \/ ClockBack
  BY <1>1, <1>2, <1>13, AuthorityAssumption DEF Tick, ClockBack, TypeOK, Time, MonoTime
<1>14. CASE UNCHANGED vars
  BY <1>14 DEF vars, TypeOK
<1>15. CASE RevokeAll
  BY <1>10, <1>15 DEF RevokeAll
<1>16. ASSUME NEW l \in LeaseIds, Revoke(l) PROVE TypeOK'
  BY <1>10, <1>16 DEF Revoke
<1> QED
  BY <1>4, <1>5, <1>6, <1>7, <1>8, <1>9, <1>11, <1>12, <1>13, <1>14, <1>15, <1>16 DEF Next

\* The permits of a lease stay on file and in its window while no permit is
\* minted, since its window does not change.
LEMMA MintedStable ==
  ASSUME TypeOK, StoredSound, MintedSound, MintedInWindow, Evolves,
         minted' = minted, issued' = issued
  PROVE  MintedSound' /\ MintedInWindow'
<1>1. ASSUME NEW l \in LeaseIds, minted[l] # {}
      PROVE  /\ Stored(l)'
             /\ leases'[l].from = leases[l].from /\ leases'[l].until = leases[l].until
  <2>1. Stored(l)
    BY <1>1 DEF MintedSound
  <2>2. leases'[l].state \in LeaseStates /\ SameTerms(leases[l], leases'[l])
    BY <2>1 DEF Evolves
  <2> QED
    BY <2>2 DEF Stored, LeaseStates, TERMINAL_STATES, SameTerms
<1> QED
  BY <1>1 DEF MintedSound, MintedInWindow

\* A lease a receipt says was revoked stays terminal.
LEMMA RevokedStable ==
  ASSUME RevokedSound, Evolves, minted' = minted, revoked \subseteq revoked',
         NEW l \in LeaseIds, ReceiptOf(l, "LEASE_REVOKED") \in receipts
  PROVE  leases'[l].state \in TERMINAL_STATES /\ minted'[l] \subseteq revoked'
<1>1. leases[l].state \in TERMINAL_STATES /\ minted[l] \subseteq revoked
  BY DEF RevokedSound
<1>2. Stored(l)
  BY <1>1 DEF Stored, TERMINAL_STATES
<1>3. leases'[l].state = leases[l].state
  BY <1>1, <1>2 DEF Evolves
<1> QED
  BY <1>1, <1>3

\* Steps that touch no permit and put no revocation on record.
LEMMA PermitsStable ==
  ASSUME IInv, Evolves, UNCHANGED <<minted, issued, revoked, spent>>,
         seen \subseteq seen', pending' \subseteq pending,
         \A l \in LeaseIds : ReceiptOf(l, "LEASE_REVOKED") \in receipts' =>
                               ReceiptOf(l, "LEASE_REVOKED") \in receipts
  PROVE  SeenSound' /\ MintedSound' /\ MintedInWindow' /\ RevokedSound' /\ SpentSound'
           /\ OnePermitPerRequest'
<1>1. MintedSound' /\ MintedInWindow'
  BY MintedStable DEF IInv
<1>2. RevokedSound'
  BY RevokedStable DEF IInv, RevokedSound
<1>3. SeenSound' /\ OnePermitPerRequest'
  BY DEF IInv, SeenSound, OnePermitPerRequest
<1>4. SpentSound'
  BY DEF IInv, SpentSound, GPP!Expiry
<1> QED
  BY <1>1, <1>2, <1>3, <1>4

\* What authorize established of the lease it found and the permit it mints.
LEMMA AuthorizeFacts ==
  ASSUME IInv, NEW r \in Requests, Authorize(r)
  PROVE  \E l \in LeaseIds :
           /\ Stored(l) /\ leases[l] \in Lease /\ leases[l].state = "ACTIVE"
           /\ leases[l].from <= clock /\ clock < leases[l].until
           /\ leases[l].remaining # 0
           /\ r.id \notin seen
           /\ leases' = [leases EXCEPT ![l] = Consumed(@)]
           /\ minted' = [minted EXCEPT ![l] = @ \union {<<r.id, clock>>}]
<1>1. PICK l \in LeaseIds :
        /\ IsFound(r, l) /\ Evaluate(r, l) = "ALLOW"
        /\ leases' = [leases EXCEPT ![l] = Consumed(@)]
        /\ minted' = [minted EXCEPT ![l] = @ \union {<<r.id, clock>>}]
  BY DEF Authorize
<1>2. leases[l].state = "ACTIVE"
  BY <1>1 DEF IsFound, Candidates
<1>3. Stored(l) /\ leases[l] \in Lease
  BY <1>2, Slots DEF Stored, IInv
<1>4. ~ Replayed(r) /\ ~ OutOfBounds(r, l)
  BY <1>1 DEF Evaluate
<1>5. leases[l].from \in Nat /\ leases[l].until \in Nat /\ clock \in Nat
  BY <1>3, NewPermit DEF Lease, IInv
<1>6. leases[l].from <= clock /\ clock < leases[l].until
  BY <1>4, <1>5 DEF OutOfBounds
<1> QED
  BY <1>1, <1>2, <1>3, <1>4, <1>6 DEF Replayed, OutOfBounds

\* authorize mints a permit no lease has, in the window of an active lease.
LEMMA AuthorizePermits ==
  ASSUME IInv, Evolves, NEW r \in Requests, Authorize(r)
  PROVE  SeenSound' /\ MintedSound' /\ MintedInWindow' /\ RevokedSound' /\ SpentSound'
           /\ OnePermitPerRequest'
<1> DEFINE new == <<r.id, clock>>
<1>1. PICK l \in LeaseIds :
        /\ Stored(l) /\ leases[l] \in Lease /\ leases[l].state = "ACTIVE"
        /\ leases[l].from <= clock /\ clock < leases[l].until
        /\ r.id \notin seen
        /\ leases' = [leases EXCEPT ![l] = Consumed(@)]
        /\ minted' = [minted EXCEPT ![l] = @ \union {new}]
  BY AuthorizeFacts
<1>2. /\ issued' = issued \union {new} /\ seen' = seen \union {r.id}
      /\ pending' = pending \union {new}
      /\ receipts' = receipts \union {ReceiptOf(r.id, "ALLOW")}
      /\ UNCHANGED <<revoked, spent>>
  BY DEF Authorize, GPP!Issue
<1>3. new[1] = r.id /\ new[2] = clock
  OBVIOUS
<1> HIDE DEF new
<1>4. /\ minted'[l] = minted[l] \union {new}
      /\ \A k \in LeaseIds \ {l} : minted'[k] = minted[k]
  BY <1>1 DEF IInv, TypeOK
<1>5. ASSUME NEW k \in LeaseIds, Stored(k)
      PROVE  /\ Stored(k)'
             /\ leases'[k].from = leases[k].from /\ leases'[k].until = leases[k].until
  <2>1. leases'[k].state \in LeaseStates /\ SameTerms(leases[k], leases'[k])
    BY <1>5 DEF Evolves
  <2> QED
    BY <2>1 DEF Stored, LeaseStates, TERMINAL_STATES, SameTerms
<1>6. \A p \in issued : p[1] # r.id
  BY <1>1 DEF IInv, SeenSound
<1>7. SeenSound'
  BY <1>2, <1>3 DEF IInv, SeenSound
<1>8. MintedSound'
  BY <1>1, <1>2, <1>4, <1>5 DEF IInv, MintedSound
<1>9. MintedInWindow'
  <2>1. ASSUME NEW k \in LeaseIds, NEW p \in minted'[k]
        PROVE  leases'[k].from <= p[2] /\ p[2] < leases'[k].until
    <3>1. CASE p \in minted[k]
      BY <1>5, <3>1 DEF IInv, MintedSound, MintedInWindow
    <3>2. CASE k = l /\ p = new
      BY <1>1, <1>3, <1>5, <3>2
    <3> QED
      BY <1>4, <2>1, <3>1, <3>2
  <2> QED
    BY <2>1 DEF MintedInWindow
<1>10. RevokedSound'
  <2>1. ASSUME NEW k \in LeaseIds, ReceiptOf(k, "LEASE_REVOKED") \in receipts'
        PROVE  leases'[k].state \in TERMINAL_STATES /\ minted'[k] \subseteq revoked'
    <3>1. ReceiptOf(k, "LEASE_REVOKED") \in receipts
      BY <1>2, <2>1 DEF ReceiptOf
    <3>2. leases[k].state \in TERMINAL_STATES /\ minted[k] \subseteq revoked
      BY <3>1 DEF IInv, RevokedSound
    <3>3. k # l
      BY <1>1, <3>2 DEF TERMINAL_STATES
    <3>4. leases'[k] = leases[k]
      BY <1>1, <3>3 DEF IInv, TypeOK
    <3> QED
      BY <1>2, <1>4, <3>2, <3>3, <3>4
  <2> QED
    BY <2>1 DEF RevokedSound
<1>11. SpentSound'
  <2>1. \A k \in LeaseIds : minted[k] \subseteq minted'[k]
    BY <1>4
  <2>2. new \in minted'[l]
    BY <1>4
  <2> QED
    BY <1>1, <1>2, <2>1, <2>2 DEF IInv, SpentSound, GPP!Expiry
<1>12. OnePermitPerRequest'
  <2>1. \A p, q \in issued' : p[1] = q[1] => p = q
    BY <1>2, <1>3, <1>6 DEF IInv, OnePermitPerRequest
  <2>2. new \notin issued
    BY <1>3, <1>6
  <2>3. \A k \in LeaseIds : new \notin minted[k]
    BY <2>2 DEF IInv, MintedSound
  <2>4. \A j, k \in LeaseIds : j # k => minted'[j] \intersect minted'[k] = {}
    BY <1>4, <2>3 DEF IInv, OnePermitPerRequest
  <2> QED
    BY <2>1, <2>4 DEF OnePermitPerRequest
<1> QED
  BY <1>7, <1>8, <1>9, <1>10, <1>11, <1>12

\* A permit is spent before its expiry.
LEMMA DispatchPermits ==
  ASSUME IInv, Evolves, NEW p \in pending, Dispatch(p)
  PROVE  SeenSound' /\ MintedSound' /\ MintedInWindow' /\ RevokedSound' /\ SpentSound'
           /\ OnePermitPerRequest'
<1>1. /\ UNCHANGED <<minted, issued, revoked, seen>>
      /\ pending' = pending \ {p}
      /\ spent' = spent \union {[permit |-> p, at |-> clock, by |-> "lease_crossing"]}
      /\ clock < GPP!Expiry(p)
  BY DEF Dispatch, GPP!Spend
<1>2. MintedSound' /\ MintedInWindow'
  BY <1>1, MintedStable DEF IInv
<1>3. SeenSound' /\ OnePermitPerRequest'
  BY <1>1 DEF IInv, SeenSound, OnePermitPerRequest
<1>4. \A l \in LeaseIds : ReceiptOf(l, "LEASE_REVOKED") \in receipts' =>
                            ReceiptOf(l, "LEASE_REVOKED") \in receipts
  BY DEF Dispatch, ReceiptOf
<1>5. RevokedSound'
  BY <1>1, <1>4, RevokedStable DEF IInv, RevokedSound
<1>6. SpentSound'
  BY <1>1 DEF IInv, SpentSound, GPP!Expiry
<1> QED
  BY <1>2, <1>3, <1>5, <1>6

\* A revocation reaches every permit of the leases it ends.
LEMMA RevokePermits ==
  ASSUME IInv, Evolves, NEW S \in SUBSET LeaseIds, RevokeEach(S),
         \A l \in S : leases'[l].state \in TERMINAL_STATES
  PROVE  SeenSound' /\ MintedSound' /\ MintedInWindow' /\ RevokedSound' /\ SpentSound'
           /\ OnePermitPerRequest'
<1>1. /\ UNCHANGED <<minted, issued, spent, seen, pending>>
      /\ revoked' = revoked \union PermitsOf(S)
      /\ receipts' = receipts \union {ReceiptOf(l, "LEASE_REVOKED") : l \in S}
  BY DEF RevokeEach
<1>2. MintedSound' /\ MintedInWindow'
  BY <1>1, MintedStable DEF IInv
<1>3. SeenSound' /\ OnePermitPerRequest' /\ SpentSound'
  BY <1>1 DEF IInv, SeenSound, OnePermitPerRequest, SpentSound, GPP!Expiry
<1>4. \A l \in S : minted[l] \subseteq revoked'
  BY <1>1 DEF PermitsOf
<1>5. ASSUME NEW l \in LeaseIds, ReceiptOf(l, "LEASE_REVOKED") \in receipts', l \notin S
      PROVE  ReceiptOf(l, "LEASE_REVOKED") \in receipts
  BY <1>1, <1>5 DEF ReceiptOf
<1>6. RevokedSound'
  BY <1>1, <1>4, <1>5, RevokedStable DEF IInv, RevokedSound
<1> QED
  BY <1>2, <1>3, <1>6

-----------------------------------------------------------------------------
(* The invariant, and the properties it gives.                             *)

\* The stores start empty.
LEMMA InitIInv == Init => IInv
<1> SUFFICES ASSUME Init PROVE IInv
  OBVIOUS
<1>1. \A l \in LeaseIds : ~ Stored(l) /\ minted[l] = {}
  BY DEF Init, Stored, NoLease
<1>2. TypeOK
  BY AuthorityAssumption DEF Init, TypeOK, Fact, NoFact, Time, MonoTime
<1>3. StoredSound
  BY <1>1 DEF Init, StoredSound, LeaseIds
<1> QED
  BY <1>1, <1>2, <1>3
  DEF Init, IInv, SeenSound, MintedSound, MintedInWindow, RevokedSound, SpentSound,
    OnePermitPerRequest, SupersededStaysDown, DelegationEnvelope

\* The permit parts hold after every step.
LEMMA PermitsNext ==
  ASSUME IInv, [Next]_vars
  PROVE  SeenSound' /\ MintedSound' /\ MintedInWindow' /\ RevokedSound' /\ SpentSound'
           /\ OnePermitPerRequest'
<1>1. TypeOK /\ StoredSound /\ Evolves
  BY NextLeases DEF IInv
<1> DEFINE Goal == SeenSound' /\ MintedSound' /\ MintedInWindow' /\ RevokedSound'
                     /\ SpentSound' /\ OnePermitPerRequest'
<1> USE DEF gpp
<1>2. ASSUME NEW policy \in Policies, NEW old \in 0 .. count, Mint(policy, old) PROVE Goal
  BY <1>1, <1>2, PermitsStable DEF Mint, ReceiptOf
<1>3. ASSUME NEW r \in Requests, Authorize(r) PROVE Goal
  BY <1>1, <1>3, AuthorizePermits
<1>4. ASSUME NEW r \in Requests, Refuse(r) PROVE Goal
  BY <1>1, <1>4, PermitsStable DEF Refuse, ReceiptOf
<1>5. ASSUME NEW p \in pending, Dispatch(p) PROVE Goal
  BY <1>1, <1>5, DispatchPermits
<1>6. ASSUME NEW p \in pending, Reject(p) PROVE Goal
  BY <1>1, <1>6, PermitsStable DEF Reject, ReceiptOf
<1>7. ASSUME NEW l \in LeaseIds, Suspend(l) \/ Resume(l) \/ Expire(l) \/ RevokeDelegationsOf(l)
      PROVE  Goal
  BY <1>1, <1>7, PermitsStable DEF Suspend, Resume, Expire, RevokeDelegationsOf
<1>8. ASSUME NEW l \in LeaseIds, Revoke(l) PROVE Goal
  <2>1. {l} \in SUBSET LeaseIds /\ \A k \in {l} : Stored(k)
    BY <1>8 DEF Revoke
  <2> QED
    BY <1>1, <1>8, <2>1, RevokeKeeps, RevokePermits DEF Revoke
<1>9. CASE RevokeAll
  <2> DEFINE S == {l \in LeaseIds : Live(l)}
  <2>1. S \in SUBSET LeaseIds /\ \A k \in S : Stored(k)
    BY DEF Live, Stored
  <2> QED
    BY <1>1, <1>9, <2>1, RevokeKeeps, RevokePermits DEF RevokeAll
<1>10. ASSUME NEW f \in Facts, NEW fact \in Reports, PutFact(f, fact) PROVE Goal
  BY <1>1, <1>10, PermitsStable DEF PutFact
<1>11. ASSUME NEW l \in LeaseIds, NEW terms \in ChildTerms, Delegate(l, terms) PROVE Goal
  BY <1>1, <1>11, PermitsStable DEF Delegate
<1>12. CASE Tick \/ ClockBack
  BY <1>1, <1>12, PermitsStable DEF Tick, ClockBack
<1>13. CASE UNCHANGED vars
  BY <1>1, <1>13, PermitsStable DEF vars
<1> QED
  BY <1>2, <1>3, <1>4, <1>5, <1>6, <1>7, <1>8, <1>9, <1>10, <1>11, <1>12, <1>13 DEF Next

\* Every step keeps the invariant.
LEMMA NextIInv == IInv /\ [Next]_vars => IInv'
<1> SUFFICES ASSUME IInv, [Next]_vars PROVE IInv'
  OBVIOUS
<1>1. TypeOK /\ StoredSound /\ SupersededStaysDown /\ DelegationEnvelope
  BY DEF IInv
<1>2. TypeOK' /\ StoredSound' /\ SupersededStaysDown' /\ DelegationEnvelope'
  BY <1>1, TypeNext, NextLeases, StoredNext, SupersededNext, EnvelopeNext
<1> QED
  BY <1>2, PermitsNext DEF IInv

\* The invariant holds throughout.
LEMMA SpecIInv == Spec => []IInv
  BY InitIInv, NextIInv, PTL DEF Spec

\* The stores hold what the code puts in them, in every state.
THEOREM TypeCorrect == Spec => []TypeOK
<1>1. IInv => TypeOK
  BY DEF IInv
<1> QED
  BY <1>1, SpecIInv, PTL

\* A terminal lease keeps its state through every call of the authority, the
\* invalidator and delegation: the table and the guards leave no way out.
THEOREM TerminalForever == Spec => TerminalSticky
<1>1. ASSUME IInv, [Next]_vars
      PROVE  [\A l \in LeaseIds :
                leases[l].state \in TERMINAL_STATES => leases'[l].state = leases[l].state]_vars
  <2>1. Evolves
    BY <1>1, NextLeases DEF IInv
  <2> QED
    BY <2>1 DEF Evolves, Stored, TERMINAL_STATES
<1> QED
  BY <1>1, SpecIInv, PTL DEF Spec, TerminalSticky

\* A lease that has a revocation receipt mints no permit, and no permit of it
\* is spent, whether authorize returned it before or not.
THEOREM RevocationEndsAuthority == Spec => RevokedNeverActs
<1>1. ASSUME IInv, [Next]_vars
      PROVE  [\A l \in LeaseIds :
                ReceiptOf(l, "LEASE_REVOKED") \in receipts =>
                  /\ minted'[l] = minted[l]
                  /\ \A s \in spent' \ spent : s.permit \notin minted'[l]]_vars
  <2> SUFFICES ASSUME NEW l \in LeaseIds, ReceiptOf(l, "LEASE_REVOKED") \in receipts
               PROVE  /\ minted'[l] = minted[l]
                      /\ \A s \in spent' \ spent : s.permit \notin minted'[l]
    OBVIOUS
  <2>1. leases[l].state \in TERMINAL_STATES /\ minted[l] \subseteq revoked
    BY <1>1 DEF IInv, RevokedSound
  <2>2. CASE minted' = minted /\ spent' = spent
    BY <2>2
  <2>3. ASSUME NEW r \in Requests, Authorize(r)
        PROVE  minted'[l] = minted[l] /\ spent' = spent
    <3>1. PICK k \in LeaseIds :
            /\ leases[k].state = "ACTIVE"
            /\ minted' = [minted EXCEPT ![k] = @ \union {<<r.id, clock>>}]
      BY <1>1, <2>3, AuthorizeFacts
    <3>2. k # l
      BY <2>1, <3>1 DEF TERMINAL_STATES
    <3> QED
      BY <1>1, <2>3, <3>1, <3>2 DEF Authorize, GPP!Issue, IInv, TypeOK
  <2>4. ASSUME NEW p \in pending, Dispatch(p)
        PROVE  /\ minted'[l] = minted[l]
               /\ \A s \in spent' \ spent : s.permit \notin minted'[l]
    BY <2>1, <2>4 DEF Dispatch, GPP!Spend
  <2>5. \/ minted' = minted /\ spent' = spent
        \/ \E r \in Requests : Authorize(r)
        \/ \E p \in pending : Dispatch(p)
    BY <1>1 DEF Next, vars, gpp, Mint, Refuse, Reject, Suspend, Resume, Expire, Revoke,
      RevokeAll, RevokeEach, PutFact, Delegate, RevokeDelegationsOf, Tick, ClockBack
  <2> QED
    BY <2>2, <2>3, <2>4, <2>5
<1> QED
  BY <1>1, SpecIInv, PTL DEF Spec, RevokedNeverActs

\* No request id gets two permits and no permit belongs to two leases, by the
\* evaluator's replay check and the set authorize keeps.
THEOREM NoReplay == Spec => []OnePermitPerRequest
<1>1. IInv => OnePermitPerRequest
  BY DEF IInv
<1> QED
  BY <1>1, SpecIInv, PTL

\* The lease that mint_lease was told to supersede is terminal for good.
THEOREM SupersededForGood == Spec => []SupersededStaysDown
<1>1. IInv => SupersededStaysDown
  BY DEF IInv
<1> QED
  BY <1>1, SpecIInv, PTL

\* Every child lease that delegate_lease derives, from a current or a stale
\* parent object, stays inside the parent's envelope.
THEOREM ChildrenInside == Spec => []DelegationEnvelope
<1>1. IInv => DelegationEnvelope
  BY DEF IInv
<1> QED
  BY <1>1, SpecIInv, PTL

\* A permit is spent less than TTL after the end of the window of the lease
\* that minted it, even if the wall clock was set back in between.
THEOREM ActsWithinTail == Spec => []BoundedTail
<1>1. ASSUME IInv, NEW s \in spent
      PROVE  \E l \in LeaseIds :
               /\ s.permit \in minted[l]
               /\ leases[l].from <= s.permit[2] /\ s.permit[2] < leases[l].until
               /\ s.at < leases[l].until + TTL
  <2>1. PICK l \in LeaseIds : s.permit \in minted[l] /\ s.at < GPP!Expiry(s.permit)
    BY <1>1 DEF IInv, SpentSound
  <2>2. leases[l].from <= s.permit[2] /\ s.permit[2] < leases[l].until
    BY <1>1, <2>1 DEF IInv, MintedInWindow
  <2>3. Stored(l)
    BY <1>1, <2>1 DEF IInv, MintedSound
  <2>4. leases[l].until \in Nat
    BY <1>1, <2>3, Slots DEF IInv, Lease
  <2>5. s.permit[2] \in Nat /\ s.at \in Nat
    BY <1>1, AuthorityAssumption DEF IInv, TypeOK, PermitId, Time
  <2>6. s.at < s.permit[2] + TTL
    BY <2>1 DEF GPP!Expiry
  <2> QED
    BY <2>1, <2>2, <2>4, <2>5, <2>6, AuthorityAssumption
<1>2. IInv => BoundedTail
  BY <1>1 DEF BoundedTail
<1> QED
  BY <1>2, SpecIInv, PTL

\* After the report of a fact, a lease that depends on it is active only if
\* all its policy asks of the facts holds: on_fact_changed suspends first and
\* resumes on what the store then says.
THEOREM ReportsAreHeeded == Spec => AfterFactChange
<1> DEFINE Heeded == \A f \in Facts, l \in LeaseIds :
             /\ facts'[f] # facts[f]
             /\ leases'[l].state = "ACTIVE"
             /\ f \in leases'[l].policy.cond \union leases'[l].policy.required
             => FactsOK(facts, leases[l].policy)'
<1>1. ASSUME IInv, [Next]_vars PROVE [Heeded]_vars
  <2>1. CASE facts' = facts
    BY <2>1
  <2>2. ASSUME NEW f \in Facts, NEW fact \in Reports, PutFact(f, fact) PROVE Heeded
    <3> SUFFICES ASSUME NEW g \in Facts, NEW l \in LeaseIds, facts'[g] # facts[g],
                        leases'[l].state = "ACTIVE",
                        g \in leases'[l].policy.cond \union leases'[l].policy.required
                 PROVE  FactsOK(facts, leases[l].policy)'
      OBVIOUS
    <3>1. g = f
      BY <1>1, <2>2 DEF PutFact, IInv, TypeOK
    <3>2. leases'[l] = Revalidated(leases[l], f, facts') /\ clock' = clock
      BY <2>2 DEF PutFact
    <3>3. Keeps
      BY <1>1, <2>2, PutFactKeeps DEF IInv
    <3>4. Stored(l)
      BY <1>1, <3>3 DEF Keeps, Stored, IInv, StoredSound
    <3>5. leases'[l].policy = leases[l].policy
      BY <3>3, <3>4 DEF Keeps, Evolves, SameTerms
    <3>6. leases[l].state \in {"ACTIVE", "SUSPENDED"}
      BY <1>1, <3>3, <3>4 DEF Keeps, Evolves, IInv, StoredSound, LeaseStates, TERMINAL_STATES
    <3>7. f \in Watched(leases[l].policy)
      BY <3>1, <3>5 DEF Watched
    <3>8. leases[l] \in Lease
      BY <1>1, <3>4, Slots DEF IInv
    <3>9. CASE ~ FactsOK(facts', leases[l].policy)
      <4>1. leases'[l] = [leases[l] EXCEPT !.state = "SUSPENDED"]
        BY <3>2, <3>6, <3>7, <3>9 DEF Revalidated
      <4> QED
        BY <3>8, <4>1 DEF Lease
    <3>10. CASE FactsOK(facts', leases[l].policy)
      BY <3>2, <3>5, <3>10 DEF FactsOK, Unknown, Violated, Missing, Snapshot
    <3> QED
      BY <3>9, <3>10
  <2>3. facts' = facts \/ \E f \in Facts, fact \in Reports : PutFact(f, fact)
    BY <1>1 DEF Next, vars, Mint, Authorize, Refuse, Dispatch, Reject, Suspend, Resume, Expire,
      Revoke, RevokeAll, RevokeEach, Delegate, RevokeDelegationsOf, Tick, ClockBack
  <2> QED
    BY <2>1, <2>2, <2>3
<1> QED
  BY <1>1, SpecIInv, PTL DEF Spec, AfterFactChange

-----------------------------------------------------------------------------
(* The budget of uses.                                                     *)

\* UseBudget counts the permits listed under a lease, so the lists are finite.
BudgetSound == UseBudget /\ \A l \in LeaseIds : IsFiniteSet(minted[l])

\* No call but authorize changes the uses a stored lease has left.
LEMMA UsesKept ==
  ASSUME TypeOK, StoredSound, [Next]_vars, ~ \E r \in Requests : Authorize(r),
         NEW l \in LeaseIds, Stored(l)
  PROVE  leases'[l].remaining = leases[l].remaining
<1>1. leases[l] \in Lease
  BY Slots
<1>2. \A s : [leases[l] EXCEPT !.state = s].remaining = leases[l].remaining
  BY <1>1 DEF Lease
<1>3. ASSUME NEW policy \in Policies, NEW old \in 0 .. count, Mint(policy, old)
      PROVE  leases'[l].remaining = leases[l].remaining
  <2>1. l # count + 1
    BY <1>3, NewSlot DEF Mint
  <2>2. Superseded(leases[l]).remaining = leases[l].remaining
    BY <1>1 DEF Superseded, Lease
  <2> QED
    BY <1>3, <2>1, <2>2 DEF Mint
<1>4. ASSUME NEW k \in LeaseIds, NEW s, SetState(k, s)
      PROVE  leases'[l].remaining = leases[l].remaining
  BY <1>1, <1>4 DEF SetState, TypeOK, Lease
<1>5. ASSUME NEW S \in SUBSET LeaseIds, RevokeEach(S)
      PROVE  leases'[l].remaining = leases[l].remaining
  <2>1. [leases[l] EXCEPT !.state = Transition(@, "revoke")].remaining = leases[l].remaining
    BY <1>1 DEF Lease
  <2> QED
    BY <1>5, <2>1 DEF RevokeEach
<1>6. ASSUME NEW f \in Facts, NEW fact \in Reports, PutFact(f, fact)
      PROVE  leases'[l].remaining = leases[l].remaining
  <2> DEFINE held == [leases[l] EXCEPT !.state = "SUSPENDED"]
  <2>1. held \in Lease /\ held.remaining = leases[l].remaining
    BY <1>1 DEF Lease, STATES
  <2>2. [held EXCEPT !.state = Resumed(held)].remaining = held.remaining
    BY <2>1 DEF Lease
  <2>3. Revalidated(leases[l], f, facts').remaining = leases[l].remaining
    BY <2>1, <2>2 DEF Revalidated
  <2> QED
    BY <1>6, <2>3 DEF PutFact
<1>7. ASSUME NEW k \in LeaseIds, NEW terms \in ChildTerms, Delegate(k, terms)
      PROVE  leases'[l].remaining = leases[l].remaining
  <2>1. count + 1 # l
    BY <1>7, NewSlot DEF Delegate
  <2> QED
    BY <1>7, <2>1, DelegateAdds
<1>8. ASSUME NEW k \in LeaseIds, RevokeDelegationsOf(k)
      PROVE  leases'[l].remaining = leases[l].remaining
  <2>1. [leases[l] EXCEPT !.state = Transition(@, "revoke")].remaining = leases[l].remaining
    BY <1>1 DEF Lease
  <2> QED
    BY <1>8, <2>1 DEF RevokeDelegationsOf
<1>9. ASSUME leases' = leases PROVE leases'[l].remaining = leases[l].remaining
  BY <1>9
<1>10. ASSUME NEW k \in LeaseIds, Revoke(k) PROVE leases'[l].remaining = leases[l].remaining
  BY <1>5, <1>10 DEF Revoke
<1>11. CASE RevokeAll
  BY <1>5, <1>11 DEF RevokeAll
<1> QED
  BY <1>3, <1>4, <1>6, <1>7, <1>8, <1>9, <1>10, <1>11
  DEF Next, vars, Refuse, Dispatch, Reject, Suspend, Resume, Expire, Tick, ClockBack

\* A new lease begins with the uses it was granted.
LEMMA NewBudget ==
  ASSUME TypeOK, StoredSound, [Next]_vars, Adds
  PROVE  leases'[count + 1].remaining = leases'[count + 1].granted
<1>1. ASSUME NEW policy \in Policies, NEW old \in 0 .. count, Mint(policy, old)
      PROVE  leases'[count + 1].remaining = leases'[count + 1].granted
  <2>1. leases'[count + 1] = NewLease(policy, old)
    BY <1>1, MintAdds
  <2> QED
    BY <2>1 DEF NewLease
<1>2. ASSUME NEW l \in LeaseIds, NEW terms \in ChildTerms, Delegate(l, terms)
      PROVE  leases'[count + 1].remaining = leases'[count + 1].granted
  <2>1. count + 1 \in LeaseIds
    BY <1>2, NewSlot DEF Delegate
  <2>2. PICK parent : leases' = [leases EXCEPT ![count + 1] = NewChild(l, parent, terms)]
    BY <1>2 DEF Delegate
  <2>3. leases'[count + 1] = NewChild(l, parent, terms)
    BY <2>1, <2>2 DEF TypeOK
  <2> QED
    BY <2>3 DEF NewChild
<1> QED
  BY <1>1, <1>2, Adders

\* authorize alone adds to a list of permits.
LEMMA MintedKept ==
  ASSUME [Next]_vars, ~ \E r \in Requests : Authorize(r)
  PROVE  minted' = minted
  BY DEF Next, vars, Mint, Refuse, Dispatch, Reject, Suspend, Resume, Expire, Revoke,
    RevokeAll, RevokeEach, PutFact, Delegate, RevokeDelegationsOf, Tick, ClockBack

\* authorize takes one use of the lease for the one permit it adds, which is
\* not on the list yet, since the request id is new.
LEMMA AuthorizeBudget ==
  ASSUME IInv, BudgetSound, NEW r \in Requests, Authorize(r)
  PROVE  BudgetSound'
<1> DEFINE new == <<r.id, clock>>
<1>1. PICK l \in LeaseIds :
        /\ Stored(l) /\ leases[l] \in Lease /\ leases[l].remaining # 0
        /\ r.id \notin seen
        /\ leases' = [leases EXCEPT ![l] = Consumed(@)]
        /\ minted' = [minted EXCEPT ![l] = @ \union {new}]
  BY AuthorizeFacts
<1>2. new[1] = r.id
  OBVIOUS
<1> HIDE DEF new
<1>3. new \notin minted[l]
  BY <1>1, <1>2 DEF IInv, SeenSound, MintedSound
<1>4. /\ minted'[l] = minted[l] \union {new} /\ leases'[l] = Consumed(leases[l])
      /\ \A k \in LeaseIds \ {l} : minted'[k] = minted[k] /\ leases'[k] = leases[k]
  BY <1>1 DEF IInv, TypeOK
<1>5. IsFiniteSet(minted[l])
  BY DEF BudgetSound
<1>6. /\ IsFiniteSet(minted'[l]) /\ Cardinality(minted[l]) \in Nat
      /\ Cardinality(minted'[l]) = Cardinality(minted[l]) + 1
  <2>1. /\ IsFiniteSet(minted[l] \union {new})
        /\ Cardinality(minted[l] \union {new}) = Cardinality(minted[l]) + 1
    BY <1>3, <1>5, FS_AddElement
  <2>2. Cardinality(minted[l]) \in Nat
    BY <1>5, FS_CardinalityType
  <2> QED
    BY <1>4, <2>1, <2>2
<1>7. /\ leases'[l].granted = leases[l].granted
      /\ leases'[l].remaining = UseOne(leases[l].remaining)
  <2>1. ASSUME NEW lease \in Lease
        PROVE  /\ Consumed(lease).granted = lease.granted
               /\ Consumed(lease).remaining = UseOne(lease.remaining)
    BY DEF Consumed, Lease
  <2> QED
    BY <1>1, <1>4, <2>1
<1>8. ASSUME leases[l].granted # NoLimit
      PROVE  leases'[l].remaining + Cardinality(minted'[l]) = leases[l].granted
  <2>1. leases[l].remaining \in Nat /\ leases[l].granted \in Nat
    BY <1>1, <1>8 DEF Lease, Uses, IInv, StoredSound, Bounded
  <2>2. leases'[l].remaining = leases[l].remaining - 1
    BY <1>1, <1>7, <2>1, NoLimitAssumption DEF UseOne
  <2>3. leases[l].remaining + Cardinality(minted[l]) = leases[l].granted
    BY <1>1, <1>8 DEF BudgetSound, UseBudget
  <2> QED
    BY <1>6, <2>1, <2>2, <2>3
<1>9. UseBudget'
  BY <1>4, <1>7, <1>8 DEF UseBudget, BudgetSound, Stored
<1> QED
  BY <1>4, <1>6, <1>9 DEF BudgetSound

\* Every step keeps the budget.
LEMMA BudgetNext ==
  ASSUME IInv, BudgetSound, [Next]_vars
  PROVE  BudgetSound'
<1>1. ASSUME NEW r \in Requests, Authorize(r) PROVE BudgetSound'
  BY <1>1, AuthorizeBudget
<1>2. ASSUME ~ \E r \in Requests : Authorize(r) PROVE BudgetSound'
  <2>1. minted' = minted
    BY <1>2, MintedKept
  <2>2. TypeOK /\ StoredSound /\ Evolves /\ ((Keeps /\ count' = count) \/ Adds)
    BY NextLeases DEF IInv
  <2>3. ASSUME NEW l \in LeaseIds, Stored(l)', leases'[l].granted # NoLimit
        PROVE  leases'[l].remaining + Cardinality(minted'[l]) = leases'[l].granted
    <3>1. CASE Stored(l)
      <4>1. leases'[l].remaining = leases[l].remaining /\ leases'[l].granted = leases[l].granted
        BY <1>2, <2>2, <3>1, UsesKept DEF Evolves, SameTerms
      <4> QED
        BY <2>1, <2>3, <3>1, <4>1 DEF BudgetSound, UseBudget
    <3>2. CASE ~ Stored(l)
      <4>1. Adds /\ l = count + 1
        BY <2>2, <2>3, <3>2 DEF Keeps, Adds, Stored
      <4>2. leases'[l].remaining = leases'[l].granted /\ leases'[l].granted \in Uses
        BY <2>2, <4>1, NewBudget DEF Adds, Lease
      <4>3. minted[l] = {}
        BY <3>2 DEF IInv, MintedSound
      <4>4. Cardinality(minted'[l]) = 0
        BY <2>1, <4>3, FS_EmptySet
      <4> QED
        BY <2>3, <4>2, <4>4 DEF Uses
    <3> QED
      BY <3>1, <3>2
  <2>4. UseBudget'
    BY <2>3 DEF UseBudget
  <2> QED
    BY <2>1, <2>4 DEF BudgetSound
<1> QED
  BY <1>1, <1>2

\* In every state the permits a lease minted and the uses it has left make up
\* what it was granted: authorize is the one call that takes a use, it takes
\* one for each permit, and a revocation, a suspension or a retirement
\* between two calls neither loses a use nor gives one back.
THEOREM BudgetExact == Spec => []UseBudget
<1>1. Init => BudgetSound
  BY FS_EmptySet DEF Init, BudgetSound, UseBudget, Stored, NoLease
<1>2. IInv /\ BudgetSound /\ [Next]_vars => BudgetSound'
  BY BudgetNext
<1>3. BudgetSound => UseBudget
  BY DEF BudgetSound
<1> QED
  BY <1>1, <1>2, <1>3, SpecIInv, PTL DEF Spec

============================================================================
