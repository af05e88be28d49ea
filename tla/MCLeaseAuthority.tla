-------------------------- MODULE MCLeaseAuthority --------------------------
(***************************************************************************)
(* Two leases, two agents, a request of each and one fact.  "tight" is     *)
(* conditional on the fact, asks where it is unknown, and is good for two  *)
(* uses until 3; "loose" only requires the fact to be reported, has no use *)
(* limit, a time window of its own, and ends at 2.  A report that the fact *)
(* holds lapses at 2.  The terms of a child fit inside one policy or both. *)
(***************************************************************************)
EXTENDS LeaseAuthority

CONSTANTS agent, helper, door, lamp, dark, q1, q2

tight == [subject |-> agent, scope |-> {door}, cond |-> {dark}, required |-> {},
          ask |-> TRUE, window |-> Time, from |-> 0, until |-> 3, uses |-> 2]
loose == [subject |-> agent, scope |-> {door, lamp}, cond |-> {}, required |-> {dark},
          ask |-> FALSE, window |-> {1, 2}, from |-> 0, until |-> 2, uses |-> NoLimit]

MCPolicies == {tight, loose}

MCRequests ==
  {[id |-> q1, subject |-> agent, target |-> door, fits |-> TRUE],
   [id |-> q2, subject |-> helper, target |-> door, fits |-> TRUE]}

MCReports == {[holds |-> TRUE, until |-> 2], [holds |-> FALSE, until |-> 3]}

MCTerms ==
  {[subject |-> helper, scope |-> {door}, until |-> 2, uses |-> 1],
   [subject |-> helper, scope |-> {door}, until |-> 3, uses |-> 1],
   [subject |-> helper, scope |-> {door, lamp}, until |-> 2, uses |-> NoLimit]}

\* No guard and no property reads the receipts of decisions, so states that
\* differ in them alone are explored once.
MCView ==
  <<leases, count, facts, seen, minted, gpp, pending, clock, mono,
    {rec \in receipts : rec.outcome = "LEASE_REVOKED"}>>

=============================================================================
