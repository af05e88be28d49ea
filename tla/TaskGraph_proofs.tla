-------------------------- MODULE TaskGraph_proofs --------------------------
(***************************************************************************)
(* For every set of validated graphs and every number of crashes and       *)
(* resumes: the types of the executor, that a node runs on what it depends *)
(* on, how often a node is tried and how often an effect is repeated, and  *)
(* what a skipped node and a completed run mean.                           *)
(***************************************************************************)
EXTENDS TaskGraph, FiniteSetTheorems, WellFoundedInduction, TLAPS

Saving == pc \in {"open", "write"}
Live   == pc \notin {"down", "lost"}

\* Where the executor is, with what in hand: a node is running only while it
\* is dispatched, or when the budget ended the run.
PlaceSound ==
  /\ pc = "node" => cur \in Node /\ st[cur] = "running"
  /\ pc = "top" \/ (Saving /\ cont = "top") => batch = {}
  /\ pc = "batch" \/ (Saving /\ cont = "batch") => batch # {}
  /\ pc \in {"paused", "ended"} =>
       st = snap.st /\ att = snap.att /\ loops = snap.loops /\ final = snap.final
  /\ \A n \in Node : st[n] = "running" =>
       /\ n = cur /\ att[n] > 0
       /\ pc \in {"node", "ended"} \/ (Saving /\ cont = "ended")

\* Only a loop that was run has iterations.
LoopSound(s, lp) ==
  \A l \in Node :
    /\ lp[l].active => lp[l].iteration > 0
    /\ dag.kind[l] # "loop" \/ s[l] # "done" => lp[l].iteration = 0

\* A body node comes after its loop.
LoopFirst(s) ==
  \A l \in Node : \A b \in dag.body[l] :
    s[b] \in {"running", "done", "failed"} => s[l] = "done"

\* A gate may have left the node out, or a failure is behind it.
Excused(s, n) ==
  n \in Gated \/ \E f \in Node : s[f] = "failed" /\ n \in Reachable(Mates(f))

SkipSound(s) == \A n \in Node : s[n] = "skipped" => Excused(s, n)

\* What is left of to_run waits for nothing, whatever its nodes do meanwhile.
BatchSound == \A n \in batch : \A d \in dag.deps[n] : st[d] = "done"

\* The graph part, which needs the loops apart.
ApartSound ==
  LoopsApart => /\ LoopFirst(st) /\ LoopFirst(snap.st)
                /\ SkipSound(st) /\ SkipSound(snap.st)
                /\ BatchSound

\* The attempts at a node that can still be tried stay below max_retries.
Low(a) == IF a <= dag.retries THEN a ELSE dag.retries
Tried(s, a) ==
  CASE s \in Waiting   -> Low(a)
    [] s = "running"   -> Low(a - 1)
    [] OTHER           -> dag.retries + 1

RetrySound ==
  \A n \in Node \ Bodies :
    tries[n] <= 2 * ((dag.retries + 1) * crashes + (IF Live THEN Tried(st[n], att[n]) ELSE 0))

\* What the file says is done, and what memory says is done.
StoredSound ==
  /\ Live => \A n \in Node \ Bodies : snap.st[n] = "done" => st[n] = "done"
  /\ \A n \in Node :
       dag.kind[n] = "task" /\ (st[n] = "done" \/ snap.st[n] = "done") => oks[n] > 0

\* Nothing is left to do.
AllOver(s, lp) ==
  /\ \A n \in Node : s[n] \in {"done", "skipped", "blocked"}
  /\ \A l \in Node : lp[l].active /\ dag.body[l] # {} =>
       \E b \in dag.body[l] : s[b] \notin {"done", "skipped"}

FinalSound ==
  /\ final = "completed" => /\ AllOver(st, loops) /\ pc \notin {"batch", "node"}
                            /\ Saving => cont = "ended"
  /\ snap.final = "completed" => AllOver(snap.st, snap.loops)

\* The successes that a memory accounts for: of a node in a body one for
\* every iteration that is through.
LoopOf(n) == CHOOSE l \in Node : n \in dag.body[l]
Rounded(s, lp, n) ==
  IF n \in Bodies /\ lp[LoopOf(n)].iteration > 0
    THEN lp[LoopOf(n)].iteration - (IF s[n] = "done" THEN 0 ELSE 1)
    ELSE IF s[n] = "done" THEN 1 ELSE 0

\* The successes that it does not account for.
Excess(o, s, lp) == UNION {{n} \X (1 .. o[n] - Rounded(s, lp, n)) : n \in Node}
Bounded(E, k) == IsFiniteSet(E) /\ Cardinality(E) <= k

\* Every crash lost at most one, and so may the next.
RepeatSound ==
  LoopsApart =>
    /\ Live => Bounded(Excess(oks, st, loops), crashes)
    /\ Bounded(Excess(oks, snap.st, snap.loops), crashes + (IF Saving THEN 1 ELSE 0))

\* The inductive invariant.
IInv ==
  /\ TypeOK
  /\ PlaceSound
  /\ LoopSound(st, loops) /\ LoopSound(snap.st, snap.loops)
  /\ ApartSound
  /\ DepsDone
  /\ RetrySound
  /\ StoredSound
  /\ FinalSound
  /\ RepeatSound
-----------------------------------------------------------------------------

\* A graph that validate_dag has passed.
LEMMA DagIs ==
  ASSUME TypeOK
  PROVE  /\ dag.kind \in [Node -> {"task", "gate", "loop"}]
         /\ dag.deps \in [Node -> SUBSET Node] /\ dag.body \in [Node -> SUBSET Node]
         /\ dag.yes \in [Node -> SUBSET Node] /\ dag.no \in [Node -> SUBSET Node]
         /\ dag.width \in Nat \ {0} /\ dag.iters \in Nat \ {0} /\ dag.retries \in Nat
         /\ dag.cap \in Nat /\ dag.mode \in {"fail_fast", "continue"}
         /\ Valid(dag)
<1>1. dag \in Dag /\ Valid(dag)
  BY TaskGraphAssumption DEF TypeOK
<1> QED
  BY <1>1 DEF Dag

\* A loop has a body and is in none; what a body node waits for is in there too.
LEMMA BodyIs ==
  ASSUME TypeOK, NEW l \in Node, NEW b \in dag.body[l]
  PROVE  /\ b \in Node /\ dag.kind[l] = "loop" /\ dag.kind[b] # "loop"
         /\ dag.deps[b] \subseteq dag.body[l] \cup {l}
         /\ b \in Bodies /\ l \notin Bodies
<1>1. Valid(dag) /\ b \in Node
  BY DagIs
<1>2. \A m \in Node : \A c \in dag.body[m] :
        dag.kind[m] = "loop" /\ dag.kind[c] # "loop" /\ dag.deps[c] \subseteq dag.body[m] \cup {m}
  BY <1>1 DEF Valid
<1>3. b \in Bodies
  BY DEF Bodies
<1>4. l \notin Bodies
  BY <1>2 DEF Bodies
<1> QED
  BY <1>1, <1>2, <1>3, <1>4

\* A set of node ids has a least one: the natural numbers are well-founded.
LEMMA LeastIs ==
  ASSUME NEW S, S \subseteq Nat, S # {}
  PROVE  Least(S) \in S /\ \A m \in S : Least(S) <= m
<1> DEFINE R == {ss \in Nat \X Nat : ss[1] < ss[2]}
<1>1. IsWellFoundedOn(R, Nat)
  BY NatLessThanWellFounded DEF OpToRel
<1>2. \A x, y \in Nat : y < x => <<y, x>> \in R
  OBVIOUS
<1> HIDE DEF R
<1>3. \E x \in S : \A y \in S : ~(<<y, x>> \in R)
  BY <1>1, WFMin
<1>4. PICK x \in S : \A y \in S : ~(<<y, x>> \in R)
  BY <1>3
<1>5. \A y \in S : x \in Nat /\ y \in Nat /\ ~(y < x)
  BY <1>2, <1>4
<1>6. \A y \in S : x <= y
  BY <1>5
<1> QED
  BY <1>6 DEF Least

\* Propagation skips waiting nodes and touches no other.
LEMMA PropagateIs ==
  ASSUME TypeOK, NEW s \in [Node -> Status]
  PROVE  /\ Propagate(s) \in [Node -> Status]
         /\ \A n \in Node : \/ Propagate(s)[n] = s[n]
                            \/ s[n] \in Waiting /\ Propagate(s)[n] = "skipped"
         /\ \A S \in SUBSET Node : SkipClosed(s, S) =>
              \A n \in Node : Propagate(s)[n] = "skipped" => n \in S
<1>1. "skipped" \in Status
  BY DEF Status
<1>2. Propagate(s) \in [Node -> Status]
  BY <1>1 DEF Propagate
<1>3. \A n \in Node : Propagate(s)[n] =
        IF \A S \in SUBSET Node : SkipClosed(s, S) => n \in S THEN "skipped" ELSE s[n]
  BY DEF Propagate
<1>4. ASSUME NEW S \in SUBSET Node, SkipClosed(s, S), NEW n \in Node, Propagate(s)[n] = "skipped"
      PROVE  n \in S
  <2>1. CASE s[n] = "skipped"
    BY <1>4, <2>1 DEF SkipClosed
  <2>2. CASE s[n] # "skipped"
    BY <1>3, <1>4, <2>2
  <2> QED
    BY <2>1, <2>2
<1>5. ASSUME NEW n \in Node, Propagate(s)[n] # s[n]
      PROVE  s[n] \in Waiting /\ Propagate(s)[n] = "skipped"
  <2> DEFINE W == {m \in Node : s[m] = "skipped" \/ s[m] \in Waiting}
  <2>1. W \in SUBSET Node /\ SkipClosed(s, W)
    BY DEF SkipClosed
  <2>2. Propagate(s)[n] = "skipped"
    BY <1>3, <1>5
  <2>3. n \in W
    BY <1>4, <2>1, <2>2
  <2> QED
    BY <1>5, <2>2, <2>3
<1> QED
  BY <1>2, <1>4, <1>5

\* Without a waiting node there is nothing to propagate.
LEMMA PropagateNothing ==
  ASSUME TypeOK, NEW s \in [Node -> Status], \A n \in Node : s[n] \notin Waiting
  PROVE  Propagate(s) = s
  BY PropagateIs

\* What is reachable holds the seeds and what depends on one of its nodes.
LEMMA ReachableIs ==
  ASSUME TypeOK, NEW A \in SUBSET Node
  PROVE  /\ Reachable(A) \in SUBSET Node /\ A \subseteq Reachable(A)
         /\ \A n \in Node : \A d \in dag.deps[n] : d \in Reachable(A) => n \in Reachable(A)
         /\ \A B \in SUBSET Node : A \subseteq B => Reachable(A) \subseteq Reachable(B)
<1>1. \A n : n \in Reachable(A) <=> n \in Node /\ \A S \in SUBSET Node : Closed(A, S) => n \in S
  BY DEF Reachable
<1>2. Reachable(A) \in SUBSET Node /\ A \subseteq Reachable(A)
  BY <1>1 DEF Closed
<1>3. ASSUME NEW n \in Node, NEW d \in dag.deps[n], d \in Reachable(A) PROVE n \in Reachable(A)
  <2>1. ASSUME NEW S \in SUBSET Node, Closed(A, S) PROVE n \in S
    <3>1. d \in S
      BY <1>1, <1>3, <2>1
    <3> QED
      BY <1>3, <2>1, <3>1 DEF Closed
  <2> QED
    BY <1>1, <2>1
<1>4. ASSUME NEW B \in SUBSET Node, A \subseteq B PROVE Reachable(A) \subseteq Reachable(B)
  <2>1. \A S \in SUBSET Node : Closed(B, S) => Closed(A, S)
    BY <1>4 DEF Closed
  <2>2. \A n : n \in Reachable(B) <=> n \in Node /\ \A S \in SUBSET Node : Closed(B, S) => n \in S
    BY DEF Reachable
  <2> QED
    BY <1>1, <2>1, <2>2
<1> QED
  BY <1>2, <1>3, <1>4

\* A node that went down with f is among the nodes f's failure excuses, and
\* so is what depends on such a node.
LEMMA ExcusedIs ==
  ASSUME TypeOK, NEW s, NEW n \in Node
  PROVE  /\ \A f \in Node : s[f] = "failed" /\ n \in Mates(f) => Excused(s, n)
         /\ \A d \in dag.deps[n] : s[d] = "failed" \/ Excused(s, d) => Excused(s, n)
<1>1. \A f \in Node : Mates(f) \in SUBSET Node /\ f \in Mates(f)
  BY DagIs DEF Mates
<1>2. UNION {dag.yes[g] \cup dag.no[g] : g \in Node} \in SUBSET Node
  BY DagIs
<1>3. ASSUME NEW f \in Node, s[f] = "failed", n \in Mates(f) PROVE Excused(s, n)
  BY <1>1, <1>3, ReachableIs DEF Excused
<1>4. ASSUME NEW d \in dag.deps[n], s[d] = "failed" PROVE Excused(s, n)
  <2>1. d \in Node
    BY DagIs
  <2>2. d \in Reachable(Mates(d))
    BY <1>1, <2>1, ReachableIs
  <2>3. n \in Reachable(Mates(d))
    BY <1>1, <2>1, <2>2, ReachableIs
  <2> QED
    BY <1>4, <2>1, <2>3 DEF Excused
<1>5. ASSUME NEW d \in dag.deps[n], Excused(s, d) PROVE Excused(s, n)
  <2>1. CASE d \in Gated
    <3>1. n \in Gated
      BY <1>2, <2>1, ReachableIs DEF Gated
    <3> QED
      BY <3>1 DEF Excused
  <2>2. ASSUME NEW f \in Node, s[f] = "failed", d \in Reachable(Mates(f)) PROVE Excused(s, n)
    <3>1. n \in Reachable(Mates(f))
      BY <1>1, <2>2, ReachableIs
    <3> QED
      BY <2>2, <3>1 DEF Excused
  <2> QED
    BY <1>5, <2>1, <2>2 DEF Excused
<1> QED
  BY <1>3, <1>4, <1>5

\* While failures last, an excuse does.
LEMMA ExcuseLasts ==
  ASSUME NEW s, NEW t, \A f \in Node : s[f] = "failed" => t[f] = "failed", NEW n \in Node,
         Excused(s, n)
  PROVE  Excused(t, n)
  BY DEF Excused

\* Propagation needs no other excuse than the ones there are.
LEMMA PropagateSkip ==
  ASSUME TypeOK, NEW s \in [Node -> Status], SkipSound(s)
  PROVE  SkipSound(Propagate(s))
<1> DEFINE E == {n \in Node : Excused(s, n)}
<1>1. SkipClosed(s, E)
  <2>1. ASSUME NEW n \in Node, dag.deps[n] # {}, dag.deps[n] \subseteq E PROVE n \in E
    <3>1. PICK d \in dag.deps[n] : d \in E
      BY <2>1
    <3> QED
      BY <3>1, ExcusedIs
  <2>2. \A n \in Node : s[n] = "skipped" => n \in E
    BY DEF SkipSound
  <2> HIDE DEF E
  <2> QED
    BY <2>1, <2>2 DEF SkipClosed
<1>2. \A n \in Node : Propagate(s)[n] = "skipped" => n \in E
  BY <1>1, PropagateIs
<1>3. \A f \in Node : s[f] = "failed" => Propagate(s)[f] = "failed"
  BY PropagateIs DEF Waiting
<1> QED
  BY <1>2, <1>3, ExcuseLasts DEF SkipSound
-----------------------------------------------------------------------------

\* No step changes the graph.
LEMMA DagFixed ==
  ASSUME [Next]_vars
  PROVE  dag' = dag
<1>1. ASSUME AtTop PROVE dag' = dag
  BY <1>1 DEF AtTop
<1>2. ASSUME NEW k, InNode(k) PROVE dag' = dag
  BY <1>2 DEF InNode
<1>3. CASE UNCHANGED vars
  BY <1>3 DEF vars
<1>4. CASE Cancelled \/ OverCap \/ Finish \/ RuntimeExceeded \/ \E l \in Node : AdvanceLoop(l)
  BY <1>1, <1>4 DEF Cancelled, OverCap, Finish, RuntimeExceeded, AdvanceLoop
<1>5. CASE RunGate \/ RunLoop \/ BlockTask \/ BudgetExceeded \/ StakesDenied \/ DispatchSucceeds
  BY <1>2, <1>5 DEF RunGate, RunLoop, BlockTask, BudgetExceeded, StakesDenied, DispatchSucceeds
<1>6. CASE Retry \/ FailFast \/ FailAndGoOn
  BY <1>2, <1>6 DEF Retry, FailFast, FailAndGoOn, DispatchFails
<1>7. CASE Schedule \/ PassOver \/ StartNode \/ SaveOpen \/ SaveDump
  BY <1>7 DEF Schedule, PassOver, StartNode, SaveOpen, SaveDump
<1>8. CASE Crash \/ Resume \/ ResumeFails \/ RequestCancel
  BY <1>8 DEF Crash, Resume, ResumeFails, RequestCancel
<1> QED
  BY <1>3, <1>4, <1>5, <1>6, <1>7, <1>8 DEF Next, Step

\* What is said of the graph is said of the next state too.
LEMMA GraphFixed ==
  ASSUME dag' = dag
  PROVE  /\ LoopsApart' <=> LoopsApart
         /\ Bodies' = Bodies
         /\ SkipSound(st)' <=> SkipSound(st')
         /\ SkipSound(snap.st)' <=> SkipSound(snap'.st)
         /\ LoopFirst(st)' <=> LoopFirst(st')
         /\ LoopFirst(snap.st)' <=> LoopFirst(snap'.st)
         /\ LoopSound(st, loops)' <=> LoopSound(st', loops')
         /\ LoopSound(snap.st, snap.loops)' <=> LoopSound(snap'.st, snap'.loops)
<1>1. (LoopsApart' <=> LoopsApart) /\ Bodies' = Bodies
  BY DEF LoopsApart, Bodies
<1>2. (SkipSound(st)' <=> SkipSound(st')) /\ (SkipSound(snap.st)' <=> SkipSound(snap'.st))
  BY DEF SkipSound, Excused, Gated, Reachable, Closed, Mates
<1>3. (LoopFirst(st)' <=> LoopFirst(st')) /\ (LoopFirst(snap.st)' <=> LoopFirst(snap'.st))
  BY DEF LoopFirst
<1>4. /\ LoopSound(st, loops)' <=> LoopSound(st', loops')
      /\ LoopSound(snap.st, snap.loops)' <=> LoopSound(snap'.st, snap'.loops)
  BY DEF LoopSound
<1> QED
  BY <1>1, <1>2, <1>3, <1>4
-----------------------------------------------------------------------------
\* Skipping on the way to an idle executor touches waiting nodes only.
LEMMA IdleIs ==
  ASSUME TypeOK
  PROVE  /\ Idle \in [Node -> Status]
         /\ \A n \in Node : Idle[n] = st[n] \/ (st[n] \in Waiting /\ Idle[n] = "skipped")
         /\ SkipSound(st) => SkipSound(Idle)
<1> DEFINE p == Propagate(st)
           q == SkipDownstream(p)
<1>1. st \in [Node -> Status]
  BY DEF TypeOK
<1>2. /\ p \in [Node -> Status]
      /\ \A n \in Node : p[n] = st[n] \/ (st[n] \in Waiting /\ p[n] = "skipped")
  BY <1>1, PropagateIs
<1>3. SkipSound(st) => SkipSound(p)
  BY <1>1, PropagateSkip
<1> HIDE DEF p
<1>4. \A n \in Node : q[n] = IF p[n] = "pending" /\ \E d \in dag.deps[n] : p[d] = "failed"
                               THEN "skipped" ELSE p[n]
  BY DEF SkipDownstream
<1>5. q \in [Node -> Status]
  <2>1. "skipped" \in Status
    BY DEF Status
  <2> QED
    BY <1>2, <2>1 DEF SkipDownstream
<1>6. \A n \in Node : q[n] = p[n] \/ (p[n] = "pending" /\ q[n] = "skipped")
  BY <1>4
<1>7. ASSUME SkipSound(p) PROVE SkipSound(q)
  <2>1. \A f \in Node : p[f] = "failed" => q[f] = "failed"
    BY <1>6
  <2>2. ASSUME NEW n \in Node, q[n] = "skipped" PROVE Excused(p, n)
    <3>1. CASE p[n] = "skipped"
      BY <1>7, <3>1 DEF SkipSound
    <3>2. CASE p[n] # "skipped"
      <4>1. PICK d \in dag.deps[n] : p[d] = "failed"
        BY <1>4, <2>2, <3>2
      <4> QED
        BY <4>1, ExcusedIs
    <3> QED
      BY <3>1, <3>2
  <2> HIDE DEF q
  <2> QED
    BY <2>1, <2>2, ExcuseLasts DEF SkipSound
<1>8. CASE dag.mode = "continue"
  <2>1. Idle = Propagate(q)
    BY <1>8 DEF Idle, p
  <2> HIDE DEF q
  <2>2. /\ Propagate(q) \in [Node -> Status]
        /\ \A n \in Node : Propagate(q)[n] = q[n] \/ (q[n] \in Waiting /\ Propagate(q)[n] = "skipped")
    BY <1>5, PropagateIs
  <2>3. SkipSound(q) => SkipSound(Propagate(q))
    BY <1>5, PropagateSkip
  <2>4. ASSUME NEW n \in Node
        PROVE  Propagate(q)[n] = st[n] \/ (st[n] \in Waiting /\ Propagate(q)[n] = "skipped")
    <3>1. p[n] = st[n] \/ (st[n] \in Waiting /\ p[n] = "skipped")
      BY <1>2
    <3>2. q[n] = p[n] \/ (p[n] = "pending" /\ q[n] = "skipped")
      BY <1>6
    <3>3. Propagate(q)[n] = q[n] \/ (q[n] \in Waiting /\ Propagate(q)[n] = "skipped")
      BY <2>2
    <3> QED
      BY <3>1, <3>2, <3>3 DEF Waiting
  <2> QED
    BY <1>3, <1>7, <2>1, <2>2, <2>3, <2>4
<1>9. CASE dag.mode # "continue"
  <2>1. Idle = p
    BY <1>9 DEF Idle, p
  <2> QED
    BY <1>2, <1>3, <2>1
<1> QED
  BY <1>8, <1>9

\* Some ready node is among the first of them.
LEMMA FirstOfIs ==
  ASSUME TypeOK, NEW S \in SUBSET Node, S # {}
  PROVE  FirstOf(S, dag.width) \in SUBSET S /\ FirstOf(S, dag.width) # {}
<1>1. S \subseteq Nat /\ dag.width \in Nat \ {0}
  BY DagIs, TaskGraphAssumption
<1>2. Least(S) \in S /\ \A m \in S : Least(S) <= m
  BY <1>1, LeastIs
<1>3. {m \in S : m < Least(S)} = {}
  <2>1. \A m \in S : m \in Nat /\ Least(S) \in Nat /\ Least(S) <= m
    BY <1>1, <1>2
  <2>2. \A m \in S : ~(m < Least(S))
    BY <2>1
  <2> QED
    BY <2>2
<1>4. Cardinality({m \in S : m < Least(S)}) < dag.width
  BY <1>1, <1>3, FS_EmptySet
<1> QED
  BY <1>2, <1>4 DEF FirstOf

\* What a step of an executor that lives may do to one node: nothing, skip
\* it, start it, end the attempt in hand, or put it back with its loop.
Turn(n) ==
  \/ /\ st'[n] = st[n] /\ att'[n] = att[n]
     /\ tries'[n] = tries[n] /\ oks'[n] = oks[n]
  \/ /\ st[n] \in {"pending", "ready", "blocked"} /\ st'[n] = "skipped"
     /\ att'[n] = att[n] /\ tries'[n] = tries[n] /\ oks'[n] = oks[n]
  \/ /\ st[n] \in Waiting /\ st'[n] = "running"
     /\ att'[n] = att[n] + 1 /\ tries'[n] = tries[n] /\ oks'[n] = oks[n]
     /\ n \in batch /\ pc = "batch" /\ pc' = "node" /\ cur' = n
  \/ /\ st[n] = "running" /\ st'[n] \in {"done", "failed", "blocked", "ready"}
     /\ pc = "node" /\ cur = n
     /\ att'[n] = att[n] /\ tries'[n] \in tries[n] .. tries[n] + 2
     /\ st'[n] = "ready" => att[n] <= dag.retries
     /\ oks'[n] = IF dag.kind[n] = "task" /\ st'[n] = "done" THEN oks[n] + 1 ELSE oks[n]
  \/ /\ n \in Bodies /\ st'[n] = "pending" /\ att'[n] = 0
     /\ tries'[n] = tries[n] /\ oks'[n] = oks[n]
     /\ \/ pc = "top" /\ st[n] # "failed"
        \/ pc = "node" /\ n \in dag.body[cur]

\* Such a step leaves the file's contents and the count of crashes alone.
Moves ==
  /\ snap' = snap /\ crashes' = crashes /\ pc' \notin {"down", "lost"}
  /\ Live
  /\ \A n \in Node : Turn(n)

\* The loops of the graph and where they are.
LoopType == [Node -> [active: BOOLEAN, iteration: 0 .. dag.iters]]
Kept == st' \in [Node -> Status] /\ att' \in [Node -> Nat] /\ loops' \in LoopType

\* The conjuncts of TypeOK that the steps of one node rest on.
LEMMA TypeIs ==
  ASSUME TypeOK
  PROVE  /\ st \in [Node -> Status] /\ att \in [Node -> Nat] /\ loops \in LoopType
         /\ tries \in [Node -> Nat] /\ oks \in [Node -> Nat]
         /\ batch \in SUBSET Node /\ Node \subseteq Nat
         /\ dag.iters \in Nat \ {0} /\ dag.retries \in Nat
         /\ {"pending", "ready", "running", "done", "failed", "skipped", "blocked"} \subseteq Status
  BY TaskGraphAssumption, DagIs DEF TypeOK, LoopType, Status

\* A step that only skips nodes that wait.
LEMMA SkipMoves ==
  ASSUME TypeOK, UNCHANGED <<att, tries, oks, snap, crashes>>, Live, pc' \notin {"down", "lost"},
         NEW s \in [Node -> Status], st' = s,
         \A n \in Node : s[n] = st[n] \/ (st[n] \in Waiting /\ s[n] = "skipped")
  PROVE  Moves /\ st' \in [Node -> Status] /\ att' \in [Node -> Nat]
<1>1. \A n \in Node : Turn(n)
  BY DEF Turn, Waiting
<1> QED
  BY <1>1, TypeIs DEF Moves

\* A step that leaves the nodes alone.
LEMMA StillMoves ==
  ASSUME TypeOK, UNCHANGED <<st, att, loops, tries, oks, snap, crashes>>,
         Live, pc' \notin {"down", "lost"}
  PROVE  Moves /\ Kept
<1>1. \A n \in Node : Turn(n)
  BY DEF Turn
<1> QED
  BY <1>1, TypeIs DEF Moves, Kept

LEMMA CancelledMoves ==
  ASSUME TypeOK, Cancelled \/ RuntimeExceeded \/ BudgetExceeded
  PROVE  Moves /\ Kept
<1>1. pc \in {"top", "node"} /\ pc' = "open" /\ UNCHANGED <<st, att, loops, tries, oks, snap, crashes>>
  BY DEF Cancelled, RuntimeExceeded, BudgetExceeded, AtTop, InNode, SaveThen, store, history
<1> QED
  BY <1>1, StillMoves DEF Live

LEMMA PassOverMoves ==
  ASSUME TypeOK, PassOver \/ SaveOpen
  PROVE  Moves /\ Kept
<1>1. /\ pc \in {"batch", "open"} /\ pc' \in {"top", "batch", "write"}
      /\ UNCHANGED <<st, att, loops, tries, oks, snap, crashes>>
  BY DEF PassOver, SaveOpen, After, store, history, memory
<1> QED
  BY <1>1, StillMoves DEF Live

LEMMA ScheduleMoves ==
  ASSUME TypeOK, OverCap \/ Schedule
  PROVE  Moves /\ Kept
<1>1. /\ pc = "top" /\ pc' \in {"open", "batch"} /\ st' = Propagate(st)
      /\ UNCHANGED <<att, loops, tries, oks, snap, crashes>>
  BY DEF OverCap, Schedule, AtTop, SaveThen, store, history
<1>2. Moves /\ st' \in [Node -> Status] /\ att' \in [Node -> Nat]
  BY <1>1, SkipMoves, PropagateIs, TypeIs DEF Live
<1> QED
  BY <1>1, <1>2, TypeIs DEF Kept

LEMMA FinishMoves ==
  ASSUME TypeOK, Finish
  PROVE  Moves /\ Kept
<1>1. /\ pc = "top" /\ pc' = "open" /\ st' = Idle
      /\ UNCHANGED <<att, loops, tries, oks, snap, crashes>>
  BY DEF Finish, AtTop, SaveThen, store, history
<1>2. Moves /\ st' \in [Node -> Status] /\ att' \in [Node -> Nat]
  BY <1>1, SkipMoves, IdleIs DEF Live
<1> QED
  BY <1>1, <1>2, TypeIs DEF Kept

\* The two outcomes of an advance, node by node.
LEMMA AdvanceLoopMoves ==
  ASSUME TypeOK, NEW l \in Node, AdvanceLoop(l)
  PROVE  Moves /\ Kept
<1>1. /\ pc = "top" /\ pc' = pc
      /\ UNCHANGED <<tries, oks, snap, crashes>>
  BY DEF AdvanceLoop, AtTop, store, history
<1>2. CASE /\ loops[l].iteration < dag.iters
           /\ loops' = [loops EXCEPT ![l].iteration = @ + 1]
           /\ st' = ResetBody(l, Idle) /\ att' = ResetAtt(l)
  <2>1. /\ st' = [n \in Node |-> IF n \in dag.body[l] THEN "pending" ELSE Idle[n]]
        /\ att' = [n \in Node |-> IF n \in dag.body[l] THEN 0 ELSE att[n]]
    BY <1>2 DEF ResetBody, ResetAtt
  <2>2. st' \in [Node -> Status] /\ att' \in [Node -> Nat]
    BY <2>1, IdleIs, TypeIs
  <2>3. loops' \in LoopType
    <3>1. loops[l].iteration + 1 \in 0 .. dag.iters
      BY <1>2, TypeIs DEF LoopType
    <3> QED
      BY <1>2, <3>1, TypeIs DEF LoopType
  <2>4. \A n \in dag.body[l] : n \in Node /\ n \in Bodies /\ Idle[n] \in {"done", "skipped"}
    BY BodyIs DEF AdvanceLoop, CompleteLoops
  <2>5. \A n \in Node : Turn(n)
    BY <1>1, <2>1, <2>4, IdleIs DEF Turn, Waiting
  <2> QED
    BY <1>1, <2>2, <2>3, <2>5 DEF Moves, Kept, Live
<1>3. CASE loops' = [loops EXCEPT ![l].active = FALSE] /\ st' = Idle /\ UNCHANGED att
  <2>1. Moves /\ st' \in [Node -> Status] /\ att' \in [Node -> Nat]
    BY <1>1, <1>3, SkipMoves, IdleIs DEF Live
  <2>2. loops' \in LoopType
    BY <1>3, TypeIs DEF LoopType
  <2> QED
    BY <2>1, <2>2 DEF Kept
<1> QED
  BY <1>2, <1>3 DEF AdvanceLoop

\* The first of what is left of to_run.
LEMMA FirstIs ==
  ASSUME TypeOK, PlaceSound, pc = "batch"
  PROVE  Least(batch) \in batch /\ Least(batch) \in Node
<1>1. batch \subseteq Nat /\ batch # {} /\ batch \in SUBSET Node
  BY TypeIs DEF PlaceSound
<1> QED
  BY <1>1, LeastIs

LEMMA StartNodeMoves ==
  ASSUME TypeOK, PlaceSound, StartNode
  PROVE  Moves /\ Kept
<1> DEFINE n == Least(batch)
<1>1. /\ pc = "batch" /\ pc' = "node" /\ cur' = n /\ st[n] \in Waiting
      /\ st' = [st EXCEPT ![n] = "running"] /\ att' = [att EXCEPT ![n] = @ + 1]
      /\ UNCHANGED <<loops, tries, oks, snap, crashes>>
  BY DEF StartNode, store, history
<1>2. n \in batch /\ n \in Node
  BY <1>1, FirstIs
<1> HIDE DEF n
<1>3. \A m \in Node : Turn(m)
  BY <1>1, <1>2, TypeIs DEF Turn
<1>4. st' \in [Node -> Status] /\ att' \in [Node -> Nat]
  BY <1>1, <1>2, TypeIs
<1> QED
  BY <1>1, <1>3, <1>4, TypeIs DEF Moves, Kept, Live

\* The steps that end the attempt in hand and touch no other node.
LEMMA EndMoves ==
  ASSUME TypeOK, PlaceSound, pc = "node", pc' \notin {"down", "lost"},
         UNCHANGED <<dag, att, loops, snap, crashes>>,
         NEW e \in {"done", "failed", "blocked", "ready"},
         st' = [st EXCEPT ![cur] = e],
         e = "ready" => att[cur] <= dag.retries,
         \A n \in Node \ {cur} : tries'[n] = tries[n] /\ oks'[n] = oks[n],
         tries'[cur] \in tries[cur] .. tries[cur] + 2,
         oks'[cur] = IF dag.kind[cur] = "task" /\ e = "done" THEN oks[cur] + 1 ELSE oks[cur]
  PROVE  Moves /\ Kept
<1>1. cur \in Node /\ st[cur] = "running"
  BY DEF PlaceSound
<1>2. st'[cur] = e
  BY <1>1, TypeIs
<1>3. Turn(cur)
  BY <1>1, <1>2 DEF Turn
<1>4. \A m \in Node \ {cur} : Turn(m)
  BY <1>1, TypeIs DEF Turn
<1>5. e \in Status
  BY DEF Status
<1>6. st' \in [Node -> Status]
  BY <1>1, <1>5, TypeIs
<1>7. \A m \in Node : Turn(m)
  BY <1>3, <1>4
<1> QED
  BY <1>6, <1>7, TypeIs DEF Moves, Kept, Live

\* Where a step of a node goes on.
LEMMA PlaceIs ==
  ASSUME TypeOK
  PROVE  /\ \A b : After(b) \in {"top", "batch"}
         /\ AfterNode \in {"top", "batch", "paused"}
  BY DEF After, AfterNode

LEMMA BlockMoves ==
  ASSUME TypeOK, PlaceSound, BlockTask \/ StakesDenied
  PROVE  Moves /\ Kept
<1>1. /\ pc = "node" /\ pc' = "open" /\ dag.kind[cur] = "task"
      /\ UNCHANGED <<dag, att, loops, snap, crashes, tries, oks>>
  BY DEF BlockTask, StakesDenied, InNode, SaveThen, store
<1>2. st' = [st EXCEPT ![cur] = "blocked"] \/ st' = [st EXCEPT ![cur] = "failed"]
  BY DEF BlockTask, StakesDenied
<1>3. tries[cur] \in Nat /\ tries'[cur] = tries[cur]
  BY <1>1, TypeIs DEF PlaceSound
<1>4. tries'[cur] \in tries[cur] .. tries[cur] + 2
  BY <1>3
<1>5. CASE st' = [st EXCEPT ![cur] = "blocked"]
  BY <1>1, <1>4, <1>5, EndMoves
<1>6. CASE st' = [st EXCEPT ![cur] = "failed"]
  BY <1>1, <1>4, <1>6, EndMoves
<1> QED
  BY <1>2, <1>5, <1>6

\* An attempt calls the dispatcher once or twice.
LEMMA CallsIs ==
  ASSUME TypeOK, cur \in Node, CallDispatcher
  PROVE  /\ tries' \in [Node -> Nat]
         /\ \A n \in Node \ {cur} : tries'[n] = tries[n]
         /\ tries'[cur] \in tries[cur] .. tries[cur] + 2
<1>1. PICK calls \in 1 .. (IF cur \in dag.typeerr THEN 2 ELSE 1) :
        tries' = [tries EXCEPT ![cur] = @ + calls]
  BY DEF CallDispatcher
<1>a. calls \in 1 .. 2
  BY <1>1
<1>2. tries[cur] \in Nat /\ calls \in Nat /\ tries'[cur] = tries[cur] + calls
  BY <1>1, <1>a, TypeIs
<1>3. tries'[cur] \in tries[cur] .. tries[cur] + 2
  BY <1>a, <1>2
<1>4. tries' \in [Node -> Nat]
  BY <1>1, <1>2, TypeIs
<1> QED
  BY <1>1, <1>3, <1>4, TypeIs

LEMMA SucceedsMoves ==
  ASSUME TypeOK, PlaceSound, DispatchSucceeds
  PROVE  Moves /\ Kept
<1>1. /\ pc = "node" /\ pc' = "open" /\ dag.kind[cur] = "task"
      /\ UNCHANGED <<dag, att, loops, snap, crashes>>
      /\ st' = [st EXCEPT ![cur] = "done"]
      /\ CallDispatcher /\ oks' = [oks EXCEPT ![cur] = @ + 1]
  BY DEF DispatchSucceeds, InNode, SaveThen, store
<1>2. cur \in Node
  BY <1>1 DEF PlaceSound
<1>3. \A n \in Node \ {cur} : tries'[n] = tries[n] /\ oks'[n] = oks[n]
  BY <1>1, <1>2, CallsIs, TypeIs
<1>4. tries'[cur] \in tries[cur] .. tries[cur] + 2 /\ oks'[cur] = oks[cur] + 1
  BY <1>1, <1>2, CallsIs, TypeIs
<1> QED
  BY <1>1, <1>3, <1>4, EndMoves

\* What a failed attempt leaves alone.
LEMMA FailsIs ==
  ASSUME TypeOK, PlaceSound, DispatchFails
  PROVE  /\ pc = "node" /\ dag.kind[cur] = "task" /\ cur \in Node /\ st[cur] = "running"
         /\ UNCHANGED <<dag, batch, cur, snap, crashes, oks>>
         /\ tries' \in [Node -> Nat]
         /\ \A n \in Node \ {cur} : tries'[n] = tries[n]
         /\ tries'[cur] \in tries[cur] .. tries[cur] + 2
<1>1. /\ pc = "node" /\ dag.kind[cur] = "task" /\ UNCHANGED <<dag, batch, cur, snap, crashes, oks>>
      /\ CallDispatcher
  BY DEF DispatchFails, InNode, store
<1>2. cur \in Node /\ st[cur] = "running"
  BY <1>1 DEF PlaceSound
<1>3. /\ tries' \in [Node -> Nat] /\ \A n \in Node \ {cur} : tries'[n] = tries[n]
      /\ tries'[cur] \in tries[cur] .. tries[cur] + 2
  BY <1>1, <1>2, CallsIs
<1> QED
  BY <1>1, <1>2, <1>3

LEMMA RetryMoves ==
  ASSUME TypeOK, PlaceSound, Retry
  PROVE  Moves /\ Kept
<1>1. DispatchFails /\ att[cur] <= dag.retries /\ st' = [st EXCEPT ![cur] = "ready"]
  BY DEF Retry
<1>2. UNCHANGED <<att, loops>> /\ pc' \in {"top", "batch"}
  BY PlaceIs DEF Retry
<1> QED
  BY <1>1, <1>2, FailsIs, EndMoves

\* The steps that fail the node in hand and skip nodes that wait.
LEMMA FailMoves ==
  ASSUME TypeOK, PlaceSound, DispatchFails, pc' = "open", UNCHANGED att, loops' \in LoopType,
         NEW K, st' = [n \in Node |-> IF n = cur THEN "failed"
                                      ELSE IF st[n] \in Waiting /\ n \in K THEN "skipped" ELSE st[n]]
  PROVE  Moves /\ Kept
<1>1. /\ cur \in Node /\ st[cur] = "running" /\ pc = "node"
      /\ dag' = dag /\ snap' = snap /\ crashes' = crashes /\ oks' = oks
      /\ \A n \in Node \ {cur} : tries'[n] = tries[n]
      /\ tries'[cur] \in tries[cur] .. tries[cur] + 2
  BY FailsIs
<1>2. st'[cur] = "failed"
  BY <1>1
<1>3. \A n \in Node \ {cur} : st'[n] = st[n] \/ (st[n] \in Waiting /\ st'[n] = "skipped")
  OBVIOUS
<1>4. st' \in [Node -> Status]
  BY TypeIs
<1>5. Turn(cur)
  BY <1>1, <1>2 DEF Turn
<1>6. \A n \in Node \ {cur} : Turn(n)
  BY <1>1, <1>3 DEF Turn, Waiting
<1>7. \A n \in Node : Turn(n)
  BY <1>5, <1>6
<1> QED
  BY <1>1, <1>4, <1>7, TypeIs DEF Moves, Kept, Live

LEMMA FailFastMoves ==
  ASSUME TypeOK, PlaceSound, FailFast
  PROVE  Moves /\ Kept
<1> DEFINE K == {n \in Node : st[n] = "pending" /\ cur \in dag.deps[n]}
<1>1. DispatchFails /\ pc' = "open" /\ UNCHANGED <<att, loops>>
  BY DEF FailFast, SaveThen
<1>2. st' = [n \in Node |-> IF n = cur THEN "failed"
                            ELSE IF st[n] = "pending" /\ cur \in dag.deps[n] THEN "skipped" ELSE st[n]]
  BY DEF FailFast
<1>3. st' = [n \in Node |-> IF n = cur THEN "failed"
                            ELSE IF st[n] \in Waiting /\ n \in K THEN "skipped" ELSE st[n]]
  BY <1>2 DEF Waiting
<1> HIDE DEF K
<1> QED
  BY <1>1, <1>3, TypeIs, FailMoves

LEMMA FailAndGoOnMoves ==
  ASSUME TypeOK, PlaceSound, FailAndGoOn
  PROVE  Moves /\ Kept
<1> DEFINE mine == {l \in Node : dag.stop /\ cur \in dag.body[l]}
           K == {n \in Node : \E l \in mine : n \in dag.body[l]}
<1>1. DispatchFails /\ pc' = "open" /\ UNCHANGED att
  BY DEF FailAndGoOn, SaveThen
<1>2. /\ st' = [n \in Node |-> IF n = cur THEN "failed"
                               ELSE IF st[n] \in Waiting /\ \E l \in mine : n \in dag.body[l]
                                 THEN "skipped" ELSE st[n]]
      /\ loops' = [l \in Node |-> IF l \in mine
                                    THEN [loops[l] EXCEPT !.active = FALSE] ELSE loops[l]]
  BY DEF FailAndGoOn
<1>3. st' = [n \in Node |-> IF n = cur THEN "failed"
                            ELSE IF st[n] \in Waiting /\ n \in K THEN "skipped" ELSE st[n]]
  BY <1>2
<1>4. loops' \in LoopType
  <2> HIDE DEF mine
  <2>1. \A l \in Node : [loops[l] EXCEPT !.active = FALSE] \in [active: BOOLEAN, iteration: 0 .. dag.iters]
    BY TypeIs DEF LoopType
  <2> QED
    BY <1>2, <2>1, TypeIs DEF LoopType
<1> HIDE DEF K
<1> QED
  BY <1>1, <1>3, <1>4, FailMoves

\* What a gate skips: only what it may leave out.
LEMMA GateSkipsIs ==
  ASSUME TypeOK, PlaceSound, NEW taken \in BOOLEAN, pc = "node", NEW x,
         x = [n \in Node |-> IF n \in GateSkips(cur, taken, st) THEN "skipped" ELSE st[n]]
  PROVE  /\ x \in [Node -> Status] /\ Propagate(x) \in [Node -> Status]
         /\ \A n \in Node \ {cur} :
              \/ Propagate(x)[n] = st[n]
              \/ st[n] \in {"pending", "ready", "blocked"} /\ Propagate(x)[n] = "skipped"
         /\ Propagate(x)[cur] # "failed"
         /\ SkipSound(st) => SkipSound(Propagate(x))
<1> DEFINE G == GateSkips(cur, taken, st)
<1>1. cur \in Node /\ st[cur] = "running" /\ \A n \in Node : st[n] = "running" => n = cur
  BY DEF PlaceSound
<1>2. G \subseteq Gated /\ \A n \in G : st[n] \notin {"done", "failed", "skipped"}
  <2> DEFINE on  == IF taken THEN dag.yes[cur] ELSE dag.no[cur]
             off == IF taken THEN dag.no[cur] ELSE dag.yes[cur]
             all == UNION {dag.yes[g] \cup dag.no[g] : g \in Node}
  <2>1. G = {m \in Reachable(off) \ Reachable(on) : st[m] \notin {"done", "failed", "skipped"}}
    BY DEF GateSkips
  <2>2. off \in SUBSET Node /\ all \in SUBSET Node /\ off \subseteq all
    BY <1>1, DagIs
  <2>3. Reachable(off) \subseteq Reachable(all)
    <3> HIDE DEF off, all
    <3> QED
      BY <2>2, ReachableIs
  <2>4. Reachable(off) \subseteq Gated
    BY <2>3 DEF Gated
  <2> HIDE DEF off, all, on, G
  <2> QED
    BY <2>1, <2>4
<1> HIDE DEF G
<1>3. \A n \in Node : x[n] = IF n \in G THEN "skipped" ELSE st[n]
  BY DEF G
<1>4. x \in [Node -> Status]
  BY TypeIs
<1>5. /\ Propagate(x) \in [Node -> Status]
      /\ \A n \in Node : Propagate(x)[n] = x[n] \/ (x[n] \in Waiting /\ Propagate(x)[n] = "skipped")
  BY <1>4, PropagateIs
<1>6. ASSUME NEW n \in Node \ {cur}
      PROVE  \/ Propagate(x)[n] = st[n]
             \/ st[n] \in {"pending", "ready", "blocked"} /\ Propagate(x)[n] = "skipped"
  <2>1. st[n] \in Status /\ st[n] # "running"
    BY <1>1, TypeIs
  <2>2. CASE n \in G
    <3>1. st[n] \in {"pending", "ready", "blocked"}
      BY <1>2, <2>1, <2>2 DEF Status
    <3>2. x[n] = "skipped"
      BY <1>3, <2>2
    <3>3. Propagate(x)[n] = "skipped"
      BY <1>5, <3>2
    <3> QED
      BY <3>1, <3>3
  <2>3. CASE n \notin G
    <3>1. x[n] = st[n]
      BY <1>3, <2>3
    <3> QED
      BY <1>5, <3>1 DEF Waiting
  <2> QED
    BY <2>2, <2>3
<1>7. ASSUME SkipSound(st) PROVE SkipSound(Propagate(x))
  <2>1. \A f \in Node : st[f] = "failed" => x[f] = "failed"
    BY <1>2, <1>3
  <2>2. ASSUME NEW n \in Node, x[n] = "skipped" PROVE Excused(x, n)
    <3>1. CASE n \in G
      BY <1>2, <3>1 DEF Excused
    <3>2. CASE n \notin G
      <4>1. Excused(st, n)
        BY <1>3, <1>7, <2>2, <3>2 DEF SkipSound
      <4> QED
        BY <2>1, <4>1, ExcuseLasts
    <3> QED
      BY <3>1, <3>2
  <2>3. SkipSound(x)
    BY <2>2 DEF SkipSound
  <2> QED
    BY <1>4, <2>3, PropagateSkip
<1>8. Propagate(x)[cur] # "failed"
  BY <1>1, <1>3, <1>5
<1> QED
  BY <1>4, <1>5, <1>6, <1>7, <1>8

LEMMA RunGateMoves ==
  ASSUME TypeOK, PlaceSound, RunGate
  PROVE  Moves /\ Kept
<1>1. /\ pc = "node" /\ pc' = "open" /\ dag.kind[cur] = "gate"
      /\ UNCHANGED <<dag, att, loops, snap, crashes, tries, oks>>
  BY DEF RunGate, InNode, SaveThen, store
<1>2. cur \in Node /\ st[cur] = "running"
  BY <1>1 DEF PlaceSound
<1>3. PICK taken \in BOOLEAN :
        st' = [Propagate([n \in Node |-> IF n \in GateSkips(cur, taken, st) THEN "skipped" ELSE st[n]])
               EXCEPT ![cur] = "done"]
  BY DEF RunGate
<1> DEFINE x == [n \in Node |-> IF n \in GateSkips(cur, taken, st) THEN "skipped" ELSE st[n]]
           p == Propagate(x)
<1>4. /\ p \in [Node -> Status]
      /\ \A n \in Node \ {cur} : \/ p[n] = st[n]
                                 \/ st[n] \in {"pending", "ready", "blocked"} /\ p[n] = "skipped"
  BY <1>1, GateSkipsIs
<1>5. st' = [p EXCEPT ![cur] = "done"]
  BY <1>3
<1> HIDE DEF p
<1>6. st' \in [Node -> Status] /\ st'[cur] = "done" /\ \A n \in Node \ {cur} : st'[n] = p[n]
  BY <1>2, <1>4, <1>5, TypeIs
<1>a. \A n \in Node : tries[n] \in Nat
  BY TypeIs
<1>7. Turn(cur)
  BY <1>1, <1>2, <1>6, <1>a DEF Turn
<1>8. \A n \in Node \ {cur} : Turn(n)
  BY <1>1, <1>4, <1>6, <1>a DEF Turn
<1>9. \A n \in Node : Turn(n)
  BY <1>7, <1>8
<1> QED
  BY <1>1, <1>6, <1>9, TypeIs DEF Moves, Kept, Live

LEMMA RunLoopMoves ==
  ASSUME TypeOK, PlaceSound, RunLoop
  PROVE  Moves /\ Kept
<1>1. /\ pc = "node" /\ pc' = "open" /\ dag.kind[cur] = "loop"
      /\ UNCHANGED <<dag, snap, crashes, tries, oks>>
  BY DEF RunLoop, InNode, SaveThen, store
<1>2. cur \in Node /\ st[cur] = "running"
  BY <1>1 DEF PlaceSound
<1>3. CASE /\ loops' = [loops EXCEPT ![cur] = [active |-> TRUE, iteration |-> 1]]
           /\ st' = [ResetBody(cur, st) EXCEPT ![cur] = "done"] /\ att' = ResetAtt(cur)
  <2>1. /\ st' = [n \in Node |-> IF n = cur THEN "done"
                                 ELSE IF n \in dag.body[cur] THEN "pending" ELSE st[n]]
        /\ att' = [n \in Node |-> IF n \in dag.body[cur] THEN 0 ELSE att[n]]
    BY <1>3 DEF ResetBody, ResetAtt
  <2>2. st' \in [Node -> Status] /\ att' \in [Node -> Nat]
    BY <2>1, TypeIs
  <2>3. loops' \in LoopType
    <3>1. [active |-> TRUE, iteration |-> 1] \in [active: BOOLEAN, iteration: 0 .. dag.iters]
      BY TypeIs
    <3> QED
      BY <1>2, <1>3, <3>1, TypeIs DEF LoopType
  <2>4. \A n \in dag.body[cur] : n \in Bodies /\ n # cur
    BY <1>2, BodyIs
  <2>a. \A n \in Node : tries[n] \in Nat
    BY TypeIs
  <2>5. \A n \in Node : Turn(n)
    BY <1>1, <1>2, <2>1, <2>4, <2>a DEF Turn
  <2> QED
    BY <1>1, <2>2, <2>3, <2>5 DEF Moves, Kept, Live
<1>4. CASE /\ loops' = [loops EXCEPT ![cur] = NoLoop]
           /\ st' = [st EXCEPT ![cur] = "done"] /\ UNCHANGED att
  <2>1. loops' \in LoopType
    <3>1. NoLoop \in [active: BOOLEAN, iteration: 0 .. dag.iters]
      BY TypeIs DEF NoLoop
    <3> QED
      BY <1>2, <1>4, <3>1, TypeIs DEF LoopType
  <2>2. st' \in [Node -> Status]
    BY <1>2, <1>4, TypeIs
  <2>3. \A n \in Node : Turn(n)
    BY <1>1, <1>2, <1>4, TypeIs DEF Turn
  <2> QED
    BY <1>1, <1>4, <2>1, <2>2, <2>3, TypeIs DEF Moves, Kept, Live
<1> QED
  BY <1>3, <1>4 DEF RunLoop
-----------------------------------------------------------------------------

\* The steps besides: nothing happens to the run, the state is stored, the
\* process dies, the run is resumed.
Rests ==
  /\ UNCHANGED <<memory, cont, snap, crashes, tries, oks>>
  /\ pc' = pc \/ (pc = "down" /\ pc' = "lost")

LEMMA StepKinds ==
  ASSUME TypeOK, PlaceSound, [Next]_vars
  PROVE  (Moves /\ Kept) \/ Rests \/ SaveDump \/ Crash \/ Resume
<1>1. CASE UNCHANGED vars
  BY <1>1 DEF vars, memory, store, history, Rests
<1>2. CASE ResumeFails \/ RequestCancel
  BY <1>2 DEF ResumeFails, RequestCancel, memory, store, history, Rests
<1>3. CASE Cancelled \/ RuntimeExceeded \/ BudgetExceeded
  BY <1>3, CancelledMoves
<1>4. CASE PassOver \/ SaveOpen
  BY <1>4, PassOverMoves
<1>5. CASE OverCap \/ Schedule
  BY <1>5, ScheduleMoves
<1>6. CASE Finish
  BY <1>6, FinishMoves
<1>7. CASE \E l \in Node : AdvanceLoop(l)
  BY <1>7, AdvanceLoopMoves
<1>8. CASE StartNode
  BY <1>8, StartNodeMoves
<1>9. CASE RunGate
  BY <1>9, RunGateMoves
<1>10. CASE RunLoop
  BY <1>10, RunLoopMoves
<1>11. CASE BlockTask \/ StakesDenied
  BY <1>11, BlockMoves
<1>12. CASE DispatchSucceeds
  BY <1>12, SucceedsMoves
<1>13. CASE Retry
  BY <1>13, RetryMoves
<1>14. CASE FailFast
  BY <1>14, FailFastMoves
<1>15. CASE FailAndGoOn
  BY <1>15, FailAndGoOnMoves
<1> QED
  BY <1>1, <1>2, <1>3, <1>4, <1>5, <1>6, <1>7, <1>8, <1>9, <1>10, <1>11, <1>12, <1>13, <1>14, <1>15
  DEF Next, Step

\* The conjuncts of TypeOK about everything but the nodes, the loops and the
\* file's contents.
PlaceType ==
  /\ final \in Final
  /\ pc \in {"top", "batch", "node", "open", "write", "paused", "ended", "down", "lost"}
  /\ cont \in {"top", "batch", "paused", "ended"}
  /\ batch \in SUBSET Node /\ cur \in Node \cup {0}
  /\ execs \in Nat
  /\ file \in {"absent", "torn", "whole"}
  /\ crashes \in 0 .. MaxCrashes /\ resumes \in 0 .. MaxResumes
  /\ tries \in [Node -> Nat] /\ oks \in [Node -> Nat]

LEMMA FlagsNext ==
  ASSUME TypeOK, [Next]_vars
  PROVE  resumed' \in BOOLEAN /\ cancel' \in BOOLEAN
<1>1. resumed \in BOOLEAN /\ cancel \in BOOLEAN
  BY DEF TypeOK
<1>2. CASE UNCHANGED vars
  BY <1>1, <1>2, Zenon DEF vars, memory
<1>3. CASE Cancelled \/ OverCap \/ Finish \/ RuntimeExceeded \/ \E l \in Node : AdvanceLoop(l)
  <2>1. AtTop
    BY <1>3, Zenon DEF Cancelled, OverCap, Finish, RuntimeExceeded, AdvanceLoop
  <2> QED
    BY <1>1, <2>1, Zenon DEF AtTop
<1>4. CASE \/ RunGate \/ RunLoop \/ BlockTask \/ BudgetExceeded \/ StakesDenied \/ DispatchSucceeds
           \/ Retry \/ FailFast \/ FailAndGoOn
  <2>1. InNode("gate") \/ InNode("loop") \/ InNode("task")
    BY <1>4, Zenon DEF RunGate, RunLoop, BlockTask, BudgetExceeded, StakesDenied, DispatchSucceeds,
                       Retry, FailFast, FailAndGoOn, DispatchFails
  <2> QED
    BY <1>1, <2>1, Zenon DEF InNode
<1>5. CASE Schedule \/ PassOver \/ StartNode
  BY <1>1, <1>5, Zenon DEF Schedule, PassOver, StartNode
<1>6. CASE SaveOpen \/ SaveDump \/ ResumeFails \/ Crash
  BY <1>1, <1>6, Zenon DEF SaveOpen, SaveDump, ResumeFails, Crash, memory
<1>7. CASE Resume \/ RequestCancel
  BY <1>1, <1>7, Zenon DEF Resume, RequestCancel, memory
<1> QED
  BY <1>2, <1>3, <1>4, <1>5, <1>6, <1>7 DEF Next, Step

LEMMA PlaceTypeNext ==
  ASSUME TypeOK, PlaceSound, [Next]_vars
  PROVE  PlaceType'
<1>1. PlaceType
  BY DEF TypeOK, PlaceType
<1>2. /\ MaxCrashes \in Nat /\ MaxResumes \in Nat
      /\ "cancelled" \in Final /\ "failed" \in Final /\ "none" \in Final
      /\ \A s : FinalStatus(s) \in Final
  BY TaskGraphAssumption DEF Final, FinalStatus
<1>3. CASE UNCHANGED vars
  BY <1>1, <1>3 DEF PlaceType, vars, memory, store, history
<1>4. CASE Cancelled \/ OverCap \/ RuntimeExceeded
  BY <1>1, <1>2, <1>4 DEF PlaceType, Cancelled, OverCap, RuntimeExceeded, AtTop, SaveThen, store, history
<1>5. CASE Finish
  BY <1>1, <1>2, <1>5 DEF PlaceType, Finish, AtTop, SaveThen, store, history
<1>6. ASSUME NEW l \in Node, AdvanceLoop(l) PROVE PlaceType'
  <2>1. UNCHANGED <<final, pc, cont, batch, cur, execs, file, crashes, resumes, tries, oks>>
    BY <1>6 DEF AdvanceLoop, AtTop, store, history
  <2> QED
    BY <1>1, <2>1 DEF PlaceType
<1>7. CASE Schedule
  <2>1. /\ batch' = FirstOf(Ready(Propagate(st)), dag.width) /\ Ready(Propagate(st)) # {} /\ pc' = "batch"
        /\ UNCHANGED <<final, cont, cur, execs, file, crashes, resumes, tries, oks>>
    BY <1>7 DEF Schedule, store, history
  <2>2. Ready(Propagate(st)) \in SUBSET Node
    BY DEF Ready
  <2>3. batch' \in SUBSET Node
    BY <2>1, <2>2, FirstOfIs
  <2> QED
    BY <1>1, <2>1, <2>3 DEF PlaceType
<1>8. CASE PassOver
  <2>1. /\ batch' = batch \ {Least(batch)} /\ pc' \in {"top", "batch"}
        /\ UNCHANGED <<final, cont, cur, execs, file, crashes, resumes, tries, oks>>
    BY <1>8 DEF PassOver, After, store, history
  <2> QED
    BY <1>1, <2>1 DEF PlaceType
<1>9. CASE StartNode
  <2>1. /\ batch' = batch \ {Least(batch)} /\ pc' = "node" /\ cur' = Least(batch)
        /\ execs' \in {execs, execs + 1}
        /\ UNCHANGED <<final, cont, file, crashes, resumes, tries, oks>>
    BY <1>9 DEF StartNode, store, history
  <2>2. Least(batch) \in Node
    BY <1>9, FirstIs DEF StartNode
  <2> QED
    BY <1>1, <2>1, <2>2 DEF PlaceType
<1>10. CASE RunGate \/ RunLoop \/ BlockTask \/ BudgetExceeded \/ StakesDenied
  <2>1. /\ pc' = "open" /\ cont' \in {After(batch), AfterNode, "ended"} /\ final' \in {final, "failed"}
        /\ UNCHANGED <<batch, cur, execs, file, crashes, resumes, tries, oks>>
    <3>1. CASE RunGate
      BY <3>1 DEF RunGate, InNode, SaveThen, store
    <3>2. CASE RunLoop
      BY <3>2 DEF RunLoop, InNode, SaveThen, store
    <3>3. CASE BlockTask
      BY <3>3 DEF BlockTask, InNode, SaveThen, store
    <3>4. CASE BudgetExceeded
      BY <3>4 DEF BudgetExceeded, InNode, SaveThen, store
    <3>5. CASE StakesDenied
      BY <3>5 DEF StakesDenied, InNode, SaveThen, store
    <3> QED
      BY <1>10, <3>1, <3>2, <3>3, <3>4, <3>5
  <2> QED
    BY <1>1, <1>2, <2>1, PlaceIs DEF PlaceType
<1>11. CASE DispatchSucceeds
  <2>1. /\ pc' = "open" /\ cont' = AfterNode
        /\ CallDispatcher /\ oks' = [oks EXCEPT ![cur] = @ + 1]
        /\ UNCHANGED <<final, batch, cur, execs, file, crashes, resumes>>
    BY <1>11 DEF DispatchSucceeds, InNode, SaveThen, store
  <2>2. tries' \in [Node -> Nat] /\ oks' \in [Node -> Nat]
    <3>1. cur \in Node
      BY <1>11 DEF DispatchSucceeds, InNode, PlaceSound
    <3> QED
      BY <2>1, <3>1, CallsIs, TypeIs
  <2> QED
    BY <1>1, <2>1, <2>2, PlaceIs DEF PlaceType
<1>12. CASE Retry \/ FailFast \/ FailAndGoOn
  <2>1. DispatchFails
    BY <1>12 DEF Retry, FailFast, FailAndGoOn
  <2>2. /\ UNCHANGED <<oks, batch, cur, execs, file, crashes, resumes>>
    BY <2>1 DEF DispatchFails, InNode, store
  <2>3. /\ pc' \in {"open", After(batch)} /\ cont' \in {cont, After(batch), "ended"}
        /\ final' \in {final, "failed"}
    <3>1. CASE Retry
      BY <3>1 DEF Retry
    <3>2. CASE FailFast
      BY <3>2 DEF FailFast, SaveThen
    <3>3. CASE FailAndGoOn
      BY <3>3 DEF FailAndGoOn, SaveThen
    <3> QED
      BY <1>12, <3>1, <3>2, <3>3
  <2>4. tries' \in [Node -> Nat]
    BY <2>1, FailsIs
  <2> QED
    BY <1>1, <1>2, <2>2, <2>3, <2>4, PlaceIs DEF PlaceType
<1>13. CASE SaveOpen \/ SaveDump \/ ResumeFails \/ RequestCancel
  BY <1>1, <1>13 DEF PlaceType, SaveOpen, SaveDump, ResumeFails, RequestCancel, memory, store, history
<1>14. CASE Crash
  <2>1. /\ crashes < MaxCrashes /\ crashes' = crashes + 1 /\ pc' = "down" /\ cont' = "top"
        /\ final' = "none" /\ batch' = {} /\ execs' = 0
        /\ UNCHANGED <<cur, file, resumes, tries, oks>>
    BY <1>14 DEF Crash, Fresh, store
  <2>2. crashes' \in 0 .. MaxCrashes
    BY <1>1, <1>2, <2>1 DEF PlaceType
  <2> QED
    BY <1>1, <1>2, <2>1, <2>2 DEF PlaceType
<1>15. CASE Resume
  <2>1. /\ resumes < MaxResumes /\ resumes' = resumes + 1 /\ pc' = "top"
        /\ final' = snap.final /\ batch' = {} /\ execs' = 0
        /\ UNCHANGED <<cur, cont, file, crashes, tries, oks>>
    BY <1>15 DEF Resume, store
  <2>2. snap.final \in Final
    BY DEF TypeOK
  <2>3. resumes' \in 0 .. MaxResumes
    BY <1>1, <1>2, <2>1 DEF PlaceType
  <2> QED
    BY <1>1, <2>1, <2>2, <2>3 DEF PlaceType
<1> QED
  BY <1>3, <1>4, <1>5, <1>6, <1>7, <1>8, <1>9, <1>10, <1>11, <1>12, <1>13, <1>14, <1>15 DEF Next, Step

LEMMA TypeNext ==
  ASSUME TypeOK, PlaceSound, [Next]_vars
  PROVE  TypeOK'
<1> DEFINE Shape == [st: [Node -> Status], att: [Node -> Nat], loops: LoopType, final: Final]
<1>1. dag' = dag /\ dag \in Dags /\ snap \in Shape
  BY DagFixed DEF TypeOK, LoopType
<1>2. Kept /\ snap' \in Shape
  <2>1. CASE Moves /\ Kept
    BY <1>1, <2>1 DEF Moves
  <2>2. CASE Rests
    BY <1>1, <2>2, TypeIs DEF Rests, memory, Kept
  <2>3. CASE SaveDump
    <3>1. /\ snap' = [st |-> st, att |-> att, loops |-> loops, final |-> final]
          /\ UNCHANGED <<st, att, loops, final>>
      BY <2>3 DEF SaveDump, memory
    <3>2. final \in Final
      BY DEF TypeOK
    <3> QED
      BY <3>1, <3>2, TypeIs DEF Kept
  <2>4. CASE Crash
    <3>1. /\ st' = [n \in Node |-> "pending"] /\ att' = [n \in Node |-> 0]
          /\ loops' = [n \in Node |-> NoLoop] /\ snap' = snap
      BY <2>4 DEF Crash, Fresh, store
    <3>2. NoLoop \in [active: BOOLEAN, iteration: 0 .. dag.iters]
      BY TypeIs DEF NoLoop
    <3> QED
      BY <1>1, <3>1, <3>2, TypeIs DEF Kept, LoopType
  <2>5. CASE Resume
    <3>1. /\ st' = [n \in Node |-> IF snap.st[n] = "running" THEN "ready" ELSE snap.st[n]]
          /\ att' = snap.att /\ loops' = snap.loops /\ snap' = snap
      BY <2>5 DEF Resume, store
    <3> QED
      BY <1>1, <3>1, TypeIs DEF Kept
  <2> QED
    BY <2>1, <2>2, <2>3, <2>4, <2>5, StepKinds
<1>3. PlaceType' /\ resumed' \in BOOLEAN /\ cancel' \in BOOLEAN
  BY PlaceTypeNext, FlagsNext
<1>4. /\ loops' \in [Node -> [active: BOOLEAN, iteration: 0 .. dag'.iters]]
      /\ snap' \in [st: [Node -> Status], att: [Node -> Nat],
                    loops: [Node -> [active: BOOLEAN, iteration: 0 .. dag'.iters]],
                    final: Final]
      /\ dag' \in Dags /\ st' \in [Node -> Status] /\ att' \in [Node -> Nat]
  BY <1>1, <1>2 DEF Kept, LoopType
<1> QED
  BY <1>3, <1>4, Zenon DEF TypeOK, PlaceType
-----------------------------------------------------------------------------

\* A node that runs after a move ran before it, or was started by it.
LEMMA RunningNext ==
  ASSUME TypeOK, Moves, NEW n \in Node, st'[n] = "running"
  PROVE  \/ st[n] = "running" /\ att'[n] = att[n]
         \/ pc = "batch" /\ pc' = "node" /\ cur' = n /\ att'[n] > 0 /\ n \in batch
<1>1. Turn(n) /\ att[n] \in Nat
  BY TypeIs DEF Moves
<1> QED
  BY <1>1 DEF Turn

\* Between two nodes there is only the rest of to_run to tell about.
LEMMA PlaceBetween ==
  ASSUME \A n \in Node : st'[n] # "running", pc' \notin {"node", "paused", "ended"},
         pc' = "top" \/ (pc' \in {"open", "write"} /\ cont' = "top") => batch' = {},
         pc' = "batch" \/ (pc' \in {"open", "write"} /\ cont' = "batch") => batch' # {}
  PROVE  PlaceSound'
  BY DEF PlaceSound, Saving

LEMMA PlaceNext ==
  ASSUME TypeOK, PlaceSound, [Next]_vars
  PROVE  PlaceSound'
<1>1. \A n \in Node : st[n] = "running" => n = cur /\ pc \in {"node", "ended", "open", "write"}
  BY DEF PlaceSound, Saving
<1>2. ASSUME Moves, pc \in {"top", "batch"}, pc' # "node", NEW n \in Node PROVE st'[n] # "running"
  BY <1>1, <1>2, RunningNext
<1>3. ASSUME Moves, pc = "node", pc' # "node", st'[cur] # "running", NEW n \in Node
      PROVE  st'[n] # "running"
  BY <1>1, <1>3, RunningNext
<1>4. After({}) = "top" /\ \A b : b # {} => After(b) = "batch"
  BY DEF After
<1>5. CASE Rests
  <2>1. UNCHANGED <<st, att, loops, final, batch, cur, cont, snap>>
    BY <1>5 DEF Rests, memory
  <2>2. CASE pc' = pc
    BY <2>1, <2>2 DEF PlaceSound, Saving
  <2>3. CASE pc = "down" /\ pc' = "lost"
    BY <2>1, <2>3 DEF PlaceSound, Saving
  <2> QED
    BY <1>5, <2>2, <2>3 DEF Rests
<1>6. CASE Cancelled \/ RuntimeExceeded \/ OverCap \/ Finish
  <2>1. pc = "top" /\ pc' = "open" /\ cont' = "ended"
    BY <1>6 DEF Cancelled, RuntimeExceeded, OverCap, Finish, AtTop, SaveThen
  <2>2. Moves
    BY <1>6, CancelledMoves, ScheduleMoves, FinishMoves
  <2> QED
    BY <1>2, <2>1, <2>2, PlaceBetween
<1>7. ASSUME NEW l \in Node, AdvanceLoop(l) PROVE PlaceSound'
  <2>1. pc = "top" /\ pc' = "top" /\ batch' = batch
    BY <1>7 DEF AdvanceLoop, AtTop
  <2>2. Moves /\ batch = {}
    BY <1>7, <2>1, AdvanceLoopMoves DEF PlaceSound
  <2> QED
    BY <1>2, <2>1, <2>2, PlaceBetween
<1>8. CASE Schedule
  <2>1. /\ pc = "top" /\ pc' = "batch" /\ Ready(Propagate(st)) # {}
        /\ batch' = FirstOf(Ready(Propagate(st)), dag.width)
    BY <1>8 DEF Schedule
  <2>2. Ready(Propagate(st)) \in SUBSET Node
    BY DEF Ready
  <2>3. Moves /\ batch' # {}
    BY <1>8, <2>1, <2>2, ScheduleMoves, FirstOfIs
  <2> QED
    BY <1>2, <2>1, <2>3, PlaceBetween
<1>9. CASE PassOver
  <2>1. pc = "batch" /\ pc' = After(batch')
    BY <1>9 DEF PassOver
  <2>2. Moves
    BY <1>9, PassOverMoves
  <2>3. pc' \in {"top", "batch"} /\ (pc' = "top" => batch' = {}) /\ (pc' = "batch" => batch' # {})
    BY <2>1 DEF After
  <2> QED
    BY <1>2, <2>1, <2>2, <2>3, PlaceBetween
<1>10. CASE StartNode
  <2>1. /\ pc = "batch" /\ pc' = "node" /\ cur' = Least(batch)
        /\ st' = [st EXCEPT ![Least(batch)] = "running"]
    BY <1>10 DEF StartNode
  <2>2. Moves /\ Least(batch) \in Node
    BY <1>10, <2>1, StartNodeMoves, FirstIs
  <2>3. cur' \in Node /\ st'[cur'] = "running"
    BY <2>1, <2>2, TypeIs
  <2>4. \A n \in Node : st'[n] = "running" => n = cur' /\ att'[n] > 0
    BY <1>1, <2>1, <2>2, RunningNext
  <2> QED
    BY <2>1, <2>3, <2>4 DEF PlaceSound, Saving
<1>11. CASE BudgetExceeded
  <2>1. /\ pc = "node" /\ pc' = "open" /\ cont' = "ended"
        /\ UNCHANGED <<st, att, cur>>
    BY <1>11 DEF BudgetExceeded, InNode, SaveThen
  <2> QED
    BY <2>1 DEF PlaceSound, Saving
<1>12. CASE RunGate \/ RunLoop \/ BlockTask \/ StakesDenied \/ DispatchSucceeds \/ FailFast \/ FailAndGoOn
  <2>1. /\ pc = "node" /\ pc' = "open" /\ cont' \in {After(batch), AfterNode, "ended"}
        /\ batch' = batch
    BY <1>12 DEF RunGate, RunLoop, BlockTask, StakesDenied, DispatchSucceeds, FailFast, FailAndGoOn,
                 DispatchFails, InNode, SaveThen
  <2>2. Moves /\ cur \in Node
    BY <1>12, <2>1, RunGateMoves, RunLoopMoves, BlockMoves, SucceedsMoves, FailFastMoves,
       FailAndGoOnMoves DEF PlaceSound
  <2>3. st'[cur] # "running"
    <3>1. CASE RunGate
      <4>1. PICK taken \in BOOLEAN :
              st' = [Propagate([n \in Node |-> IF n \in GateSkips(cur, taken, st) THEN "skipped" ELSE st[n]])
                     EXCEPT ![cur] = "done"]
        BY <3>1 DEF RunGate
      <4> DEFINE x == [n \in Node |-> IF n \in GateSkips(cur, taken, st) THEN "skipped" ELSE st[n]]
                 p == Propagate(x)
      <4>2. p \in [Node -> Status]
        BY <2>1, GateSkipsIs
      <4>3. st' = [p EXCEPT ![cur] = "done"]
        BY <4>1
      <4> HIDE DEF p
      <4> QED
        BY <2>2, <4>2, <4>3
    <3>2. CASE RunLoop
      BY <2>2, <3>2, TypeIs DEF RunLoop, ResetBody
    <3>3. CASE BlockTask \/ StakesDenied \/ DispatchSucceeds
      BY <2>2, <3>3, TypeIs DEF BlockTask, StakesDenied, DispatchSucceeds
    <3>4. CASE FailFast \/ FailAndGoOn
      BY <2>2, <3>4 DEF FailFast, FailAndGoOn
    <3> QED
      BY <1>12, <3>1, <3>2, <3>3, <3>4
  <2>4. (cont' = "top" => batch' = {}) /\ (cont' = "batch" => batch' # {})
    BY <1>4, <2>1 DEF AfterNode
  <2> QED
    BY <1>3, <2>1, <2>2, <2>3, <2>4, PlaceBetween
<1>13. CASE Retry
  <2>1. DispatchFails /\ st' = [st EXCEPT ![cur] = "ready"] /\ pc' = After(batch)
    BY <1>13 DEF Retry
  <2>2. pc = "node" /\ cur \in Node /\ batch' = batch /\ Moves
    BY <1>13, <2>1, FailsIs, RetryMoves
  <2>3. st'[cur] # "running"
    BY <2>1, <2>2, TypeIs
  <2>4. pc' \in {"top", "batch"} /\ (pc' = "top" => batch' = {}) /\ (pc' = "batch" => batch' # {})
    BY <2>1, <2>2 DEF After
  <2> QED
    BY <1>3, <2>2, <2>3, <2>4, PlaceBetween
<1>14. CASE SaveOpen
  <2>1. pc = "open" /\ pc' = "write" /\ UNCHANGED <<st, att, batch, cur, cont>>
    BY <1>14 DEF SaveOpen, memory
  <2> QED
    BY <2>1 DEF PlaceSound, Saving
<1>15. CASE SaveDump
  <2>1. /\ pc = "write" /\ pc' = cont /\ UNCHANGED <<st, att, loops, final, batch, cur, cont>>
        /\ snap' = [st |-> st, att |-> att, loops |-> loops, final |-> final]
    BY <1>15 DEF SaveDump, memory
  <2>2. snap'.st = st /\ snap'.att = att /\ snap'.loops = loops /\ snap'.final = final
    BY <2>1
  <2>3. cont \in {"top", "batch", "paused", "ended"}
    BY DEF TypeOK
  <2> QED
    BY <2>1, <2>2, <2>3 DEF PlaceSound, Saving
<1>16. CASE Crash
  <2>1. st' = [n \in Node |-> "pending"] /\ pc' = "down"
    BY <1>16 DEF Crash, Fresh
  <2> QED
    BY <2>1, PlaceBetween
<1>17. CASE Resume
  <2>1. /\ st' = [n \in Node |-> IF snap.st[n] = "running" THEN "ready" ELSE snap.st[n]]
        /\ pc' = "top" /\ batch' = {}
    BY <1>17 DEF Resume
  <2>2. \A n \in Node : st'[n] # "running"
    BY <2>1
  <2> QED
    BY <2>1, <2>2, PlaceBetween
<1>18. CASE UNCHANGED vars \/ ResumeFails \/ RequestCancel
  BY <1>5, <1>18 DEF vars, ResumeFails, RequestCancel, memory, store, history, Rests
<1> QED
  BY <1>6, <1>7, <1>8, <1>9, <1>10, <1>11, <1>12, <1>13, <1>14, <1>15, <1>16, <1>17, <1>18
  DEF Next, Step
-----------------------------------------------------------------------------

\* The attempts a node has had, by its status, are at most max_retries + 1.
LEMMA TriedIs ==
  ASSUME TypeOK, NEW s, NEW a \in Nat, s = "running" => a > 0
  PROVE  /\ Tried(s, a) \in 0 .. dag.retries + 1
         /\ s \in Waiting => Tried(s, a) = Low(a)
         /\ s = "running" => Tried(s, a) = Low(a - 1)
         /\ s \in {"done", "failed", "skipped", "blocked"} => Tried(s, a) = dag.retries + 1
         /\ Low(a) \in 0 .. dag.retries
         /\ s = "running" => Low(a - 1) \in 0 .. dag.retries /\ Low(a - 1) <= Low(a)
<1>1. dag.retries \in Nat
  BY TypeIs
<1>2. Low(a) \in 0 .. dag.retries
  BY <1>1 DEF Low
<1>3. s = "running" => Low(a - 1) \in 0 .. dag.retries /\ Low(a - 1) <= Low(a)
  BY <1>1 DEF Low
<1>4. s \in Waiting => Tried(s, a) = Low(a)
  BY DEF Tried, Waiting
<1>5. s = "running" => Tried(s, a) = Low(a - 1)
  BY DEF Tried, Waiting
<1>6. s \in {"done", "failed", "skipped", "blocked"} => Tried(s, a) = dag.retries + 1
  BY DEF Tried, Waiting
<1>7. s \notin Waiting /\ s # "running" => Tried(s, a) = dag.retries + 1
  BY DEF Tried
<1>8. Tried(s, a) \in 0 .. dag.retries + 1
  BY <1>1, <1>2, <1>3, <1>4, <1>5, <1>7
<1> QED
  BY <1>2, <1>3, <1>4, <1>5, <1>6, <1>8

\* A crash allows for all attempts at a node once more.
LEMMA Spent ==
  ASSUME TypeOK
  PROVE  /\ (dag.retries + 1) * crashes \in Nat
         /\ (dag.retries + 1) * (crashes + 1) = (dag.retries + 1) * crashes + (dag.retries + 1)
<1>1. dag.retries \in Nat /\ crashes \in Nat
  BY TypeIs, TaskGraphAssumption DEF TypeOK
<1>2. \A a, b \in Nat : a * b \in Nat /\ a * (b + 1) = a * b + a
  OBVIOUS
<1> QED
  BY <1>1, <1>2

LEMMA RetryNext ==
  ASSUME TypeOK, PlaceSound, RetrySound, [Next]_vars
  PROVE  RetrySound'
<1> DEFINE Base == (dag.retries + 1) * crashes
           So(n) == tries[n] <= 2 * (Base + (IF Live THEN Tried(st[n], att[n]) ELSE 0))
<1>1. dag' = dag /\ Bodies' = Bodies
  BY DagFixed, GraphFixed
<1>2. Base \in Nat /\ dag.retries \in Nat
  BY Spent, TypeIs
<1>3. \A n \in Node : /\ att[n] \in Nat /\ tries[n] \in Nat /\ (st[n] = "running" => att[n] > 0)
                      /\ st[n] \in Status
  BY TypeIs DEF PlaceSound
<1>4. \A n \in Node \ Bodies : So(n)
  BY DEF RetrySound
<1>5. ASSUME crashes' = crashes,
             \A n \in Node \ Bodies :
               tries'[n] <= 2 * (Base + (IF Live' THEN Tried(st'[n], att'[n]) ELSE 0))
      PROVE  RetrySound'
  BY <1>1, <1>5 DEF RetrySound, Tried, Low
<1>6. CASE Moves
  <2>1. Live /\ Live' /\ crashes' = crashes
    BY <1>6 DEF Moves, Live
  <2>2. ASSUME NEW n \in Node \ Bodies PROVE tries'[n] <= 2 * (Base + Tried(st'[n], att'[n]))
    <3> HIDE DEF Base
    <3>1. tries[n] <= 2 * (Base + Tried(st[n], att[n]))
      BY <1>4, <2>1
    <3>2. /\ Turn(n) /\ n \notin Bodies /\ att[n] \in Nat /\ tries[n] \in Nat
          /\ st[n] = "running" => att[n] > 0
      BY <1>3, <1>6 DEF Moves
    <3>3. /\ Tried(st[n], att[n]) \in 0 .. dag.retries + 1
          /\ st[n] \in Waiting => Tried(st[n], att[n]) = Low(att[n])
          /\ st[n] = "running" => /\ Tried(st[n], att[n]) = Low(att[n] - 1)
                                  /\ Low(att[n] - 1) \in 0 .. dag.retries
      BY <3>2, TriedIs
    <3>4. CASE st'[n] = st[n] /\ att'[n] = att[n] /\ tries'[n] = tries[n]
      BY <3>1, <3>4
    <3>5. CASE st'[n] = "skipped" /\ att'[n] = att[n] /\ tries'[n] = tries[n]
      <4>1. Tried(st'[n], att'[n]) = dag.retries + 1
        BY <3>2, <3>5, TriedIs
      <4> QED
        BY <1>2, <3>1, <3>2, <3>3, <3>5, <4>1
    <3>6. CASE st[n] \in Waiting /\ st'[n] = "running" /\ att'[n] = att[n] + 1 /\ tries'[n] = tries[n]
      <4>1. Tried(st'[n], att'[n]) = Low(att'[n] - 1)
        BY <3>2, <3>6, TriedIs
      <4>2. att'[n] - 1 = att[n]
        BY <3>2, <3>6
      <4> QED
        BY <3>1, <3>3, <3>6, <4>1, <4>2
    <3>7. CASE /\ st[n] = "running" /\ st'[n] \in {"done", "failed", "blocked"}
               /\ att'[n] = att[n] /\ tries'[n] \in tries[n] .. tries[n] + 2
      <4>1. Tried(st'[n], att'[n]) = dag.retries + 1
        BY <3>2, <3>7, TriedIs
      <4> QED
        BY <1>2, <3>1, <3>2, <3>3, <3>7, <4>1
    <3>8. CASE /\ st[n] = "running" /\ st'[n] = "ready" /\ att[n] <= dag.retries
               /\ att'[n] = att[n] /\ tries'[n] \in tries[n] .. tries[n] + 2
      <4>1. Tried(st'[n], att'[n]) = Low(att[n])
        BY <3>2, <3>8, TriedIs DEF Waiting
      <4>2. Low(att[n]) = att[n] /\ Low(att[n] - 1) = att[n] - 1
        BY <1>2, <3>2, <3>8 DEF Low
      <4> QED
        BY <1>2, <3>1, <3>2, <3>3, <3>8, <4>1, <4>2
    <3> QED
      BY <3>2, <3>4, <3>5, <3>6, <3>7, <3>8 DEF Turn
  <2> QED
    BY <1>5, <2>1, <2>2
<1>7. CASE Rests
  <2>1. UNCHANGED <<st, att, tries, crashes>> /\ (Live' <=> Live)
    BY <1>7 DEF Rests, memory, Live
  <2> QED
    BY <1>4, <1>5, <2>1
<1>8. CASE SaveDump
  <2>1. UNCHANGED <<st, att, tries, crashes>> /\ Live /\ Live'
    BY <1>8 DEF SaveDump, memory, history, Live, TypeOK
  <2> QED
    BY <1>4, <1>5, <2>1
<1>9. CASE Crash
  <2>1. crashes' = crashes + 1 /\ tries' = tries /\ Live /\ ~Live'
    BY <1>9 DEF Crash, Working, Live
  <2>2. \A n \in Node \ Bodies : tries'[n] <= 2 * ((dag.retries + 1) * crashes')
    <3> SUFFICES ASSUME NEW n \in Node \ Bodies PROVE tries'[n] <= 2 * ((dag.retries + 1) * (crashes + 1))
      BY <2>1
    <3>1. (dag.retries + 1) * (crashes + 1) = Base + (dag.retries + 1)
      BY Spent
    <3> HIDE DEF Base
    <3>2. tries[n] <= 2 * (Base + Tried(st[n], att[n]))
      BY <1>4, <2>1
    <3>3. Tried(st[n], att[n]) \in 0 .. dag.retries + 1 /\ tries[n] \in Nat
      BY <1>3, TriedIs
    <3>4. tries[n] <= 2 * (Base + (dag.retries + 1))
      BY <1>2, <3>2, <3>3
    <3> QED
      BY <2>1, <3>1, <3>4
  <2>3. (dag.retries + 1) * crashes' \in Nat
    BY <1>2, <2>1, Spent
  <2>4. \A n \in Node \ Bodies : tries'[n] <= 2 * ((dag.retries + 1) * crashes' + 0)
    BY <2>2, <2>3
  <2> QED
    BY <1>1, <2>1, <2>4 DEF RetrySound
<1>10. CASE Resume
  <2>1. /\ st' = [n \in Node |-> IF snap.st[n] = "running" THEN "ready" ELSE snap.st[n]]
        /\ att' = snap.att /\ tries' = tries /\ crashes' = crashes /\ Live'
        /\ pc \in {"down", "paused", "ended"}
    BY <1>10 DEF Resume, Live
  <2>2. snap.att \in [Node -> Nat] /\ snap.st \in [Node -> Status]
    BY DEF TypeOK
  <2>3. ASSUME NEW n \in Node \ Bodies PROVE tries'[n] <= 2 * (Base + Tried(st'[n], att'[n]))
    <3> HIDE DEF Base
    <3>1. att'[n] \in Nat /\ tries[n] \in Nat /\ tries' = tries /\ st'[n] # "running"
      BY <1>3, <2>1, <2>2
    <3>2. Tried(st'[n], att'[n]) \in 0 .. dag.retries + 1
      BY <3>1, TriedIs
    <3>3. CASE pc = "down"
      <4>1. tries[n] <= 2 * Base
        BY <1>2, <1>4, <3>1, <3>3 DEF Live
      <4> QED
        BY <1>2, <3>1, <3>2, <4>1
    <3>4. CASE pc # "down"
      <4>1. tries[n] <= 2 * (Base + Tried(st[n], att[n])) /\ st = snap.st /\ att = snap.att
        BY <1>4, <2>1, <3>4 DEF Live, PlaceSound
      <4>2. CASE st[n] # "running"
        <5>1. st'[n] = st[n] /\ att'[n] = att[n]
          BY <2>1, <4>1, <4>2
        <5> QED
          BY <3>1, <4>1, <5>1
      <4>3. CASE st[n] = "running"
        <5>1. st'[n] = "ready" /\ att'[n] = att[n] /\ att[n] \in Nat /\ att[n] > 0
          BY <1>3, <2>1, <4>1, <4>3
        <5>2. /\ Tried(st[n], att[n]) = Low(att[n] - 1) /\ Low(att[n] - 1) <= Low(att[n])
              /\ Low(att[n]) \in 0 .. dag.retries /\ Low(att[n] - 1) \in 0 .. dag.retries
          BY <4>3, <5>1, TriedIs
        <5>3. Tried(st'[n], att'[n]) = Low(att[n])
          BY <5>1, TriedIs DEF Waiting
        <5> QED
          BY <1>2, <3>1, <4>1, <5>2, <5>3
      <4> QED
        BY <4>2, <4>3
    <3> QED
      BY <3>3, <3>4
  <2> QED
    BY <1>5, <2>1, <2>3
<1> QED
  BY <1>6, <1>7, <1>8, <1>9, <1>10, StepKinds

\* A node that is done stays done, outside the loops.
LEMMA DoneStays ==
  ASSUME Moves, NEW n \in Node \ Bodies, st[n] = "done"
  PROVE  st'[n] = "done" /\ tries'[n] = tries[n] /\ oks'[n] = oks[n]
<1>1. Turn(n)
  BY DEF Moves
<1> QED
  BY <1>1 DEF Turn, Waiting

LEMMA StoredNext ==
  ASSUME TypeOK, PlaceSound, StoredSound, [Next]_vars
  PROVE  StoredSound'
<1>1. dag' = dag /\ Bodies' = Bodies
  BY DagFixed, GraphFixed
<1>2. \A n \in Node : oks[n] \in Nat
  BY TypeIs
<1>3. CASE Moves
  <2>1. Live /\ snap' = snap
    BY <1>3 DEF Moves
  <2>2. \A n \in Node \ Bodies : snap'.st[n] = "done" => st'[n] = "done"
    BY <1>3, <2>1, DoneStays DEF StoredSound
  <2>3. ASSUME NEW n \in Node, dag.kind[n] = "task", st'[n] = "done" \/ snap'.st[n] = "done"
        PROVE  oks'[n] > 0
    <3>1. Turn(n) /\ oks[n] \in Nat
      BY <1>2, <1>3 DEF Moves
    <3>2. st[n] = "done" \/ snap.st[n] = "done" => oks[n] > 0
      BY <2>3 DEF StoredSound
    <3>3. oks'[n] = oks[n] \/ oks'[n] = oks[n] + 1
      BY <3>1 DEF Turn
    <3>4. CASE st[n] = "done" \/ snap.st[n] = "done"
      BY <3>1, <3>2, <3>3, <3>4
    <3>5. CASE st[n] # "done" /\ snap.st[n] # "done"
      <4>1. st'[n] = "done" /\ st[n] # "done"
        BY <2>1, <2>3, <3>5
      <4>2. oks'[n] = oks[n] + 1
        BY <2>3, <3>1, <4>1 DEF Turn
      <4> QED
        BY <3>1, <4>2
    <3> QED
      BY <3>4, <3>5
  <2> QED
    BY <1>1, <2>2, <2>3 DEF StoredSound
<1>4. CASE Rests
  <2>1. UNCHANGED <<st, snap, oks>> /\ (Live' <=> Live)
    BY <1>4 DEF Rests, memory, Live
  <2> QED
    BY <1>1, <2>1 DEF StoredSound
<1>5. CASE SaveDump
  <2>1. UNCHANGED <<st, oks>> /\ snap' = [st |-> st, att |-> att, loops |-> loops, final |-> final]
    BY <1>5 DEF SaveDump, memory, history
  <2>2. snap'.st = st
    BY <2>1
  <2> QED
    BY <1>1, <2>1, <2>2 DEF StoredSound
<1>6. CASE Crash
  <2>1. UNCHANGED <<snap, oks>> /\ ~Live' /\ st' = [n \in Node |-> "pending"]
    BY <1>6 DEF Crash, Live, Fresh, store
  <2> QED
    BY <1>1, <2>1 DEF StoredSound
<1>7. CASE Resume
  <2>1. /\ st' = [n \in Node |-> IF snap.st[n] = "running" THEN "ready" ELSE snap.st[n]]
        /\ UNCHANGED <<snap, oks>>
    BY <1>7 DEF Resume, store
  <2> QED
    BY <1>1, <2>1 DEF StoredSound
<1> QED
  BY <1>3, <1>4, <1>5, <1>6, <1>7, StepKinds
-----------------------------------------------------------------------------

\* Loops are in no body.
LEMMA LoopsOutside ==
  ASSUME TypeOK, NEW l \in Node, dag.kind[l] = "loop"
  PROVE  l \notin Bodies
<1>1. \A m \in Node : \A b \in dag.body[m] : dag.kind[b] # "loop"
  BY BodyIs
<1> QED
  BY <1>1 DEF Bodies

\* A move that gives no loop an iteration.
LEMMA LoopSoundKept ==
  ASSUME TypeOK, Moves, LoopSound(st, loops),
         \A l \in Node : loops'[l].iteration = loops[l].iteration /\ (loops'[l].active => loops[l].active)
  PROVE  LoopSound(st', loops')
<1> SUFFICES ASSUME NEW l \in Node
             PROVE  /\ loops'[l].active => loops'[l].iteration > 0
                    /\ dag.kind[l] # "loop" \/ st'[l] # "done" => loops'[l].iteration = 0
  BY DEF LoopSound
<1>1. /\ loops[l].active => loops[l].iteration > 0
      /\ dag.kind[l] # "loop" \/ st[l] # "done" => loops[l].iteration = 0
  BY DEF LoopSound
<1>2. dag.kind[l] = "loop" /\ st[l] = "done" => st'[l] = "done"
  BY LoopsOutside, DoneStays
<1> QED
  BY <1>1, <1>2

\* Only a loop that is run or goes on gets an iteration.
LEMMA LoopsKept ==
  ASSUME TypeOK, PlaceSound, [Next]_vars, ~Crash, ~Resume, ~RunLoop, \A l \in Node : ~AdvanceLoop(l)
  PROVE  \A l \in Node : /\ loops'[l].iteration = loops[l].iteration
                         /\ loops'[l].active => loops[l].active
<1>1. CASE UNCHANGED loops
  BY <1>1
<1>2. CASE UNCHANGED vars \/ ResumeFails \/ RequestCancel \/ SaveDump \/ SaveOpen
  BY <1>1, <1>2 DEF vars, ResumeFails, RequestCancel, SaveDump, SaveOpen, memory
<1>3. CASE Cancelled \/ OverCap \/ Schedule \/ Finish \/ RuntimeExceeded \/ PassOver \/ StartNode
  BY <1>1, <1>3 DEF Cancelled, OverCap, Schedule, Finish, RuntimeExceeded, PassOver, StartNode
<1>4. CASE \/ RunGate \/ BlockTask \/ BudgetExceeded \/ StakesDenied \/ DispatchSucceeds
           \/ Retry \/ FailFast
  BY <1>1, <1>4 DEF RunGate, BlockTask, BudgetExceeded, StakesDenied, DispatchSucceeds, Retry, FailFast
<1>5. CASE FailAndGoOn
  <2>1. PICK mine : loops' = [l \in Node |-> IF l \in mine
                                THEN [loops[l] EXCEPT !.active = FALSE] ELSE loops[l]]
    BY <1>5 DEF FailAndGoOn
  <2>2. \A l \in Node : loops[l] \in [active: BOOLEAN, iteration: 0 .. dag.iters]
    BY TypeIs DEF LoopType
  <2> QED
    BY <2>1, <2>2
<1> QED
  BY <1>2, <1>3, <1>4, <1>5 DEF Next, Step

LEMMA LoopSoundNext ==
  ASSUME TypeOK, PlaceSound, LoopSound(st, loops), LoopSound(snap.st, snap.loops), [Next]_vars
  PROVE  LoopSound(st, loops)' /\ LoopSound(snap.st, snap.loops)'
<1>1. dag' = dag
  BY DagFixed
<1> SUFFICES LoopSound(st', loops') /\ LoopSound(snap'.st, snap'.loops)
  BY <1>1, GraphFixed
<1>2. \A l \in Node : loops[l] \in [active: BOOLEAN, iteration: 0 .. dag.iters]
  BY TypeIs DEF LoopType
<1>4. CASE Rests
  BY <1>4 DEF Rests, memory
<1>5. CASE SaveDump
  <2>1. /\ UNCHANGED <<st, loops>>
        /\ snap' = [st |-> st, att |-> att, loops |-> loops, final |-> final]
    BY <1>5 DEF SaveDump, memory
  <2>2. snap'.st = st /\ snap'.loops = loops
    BY <2>1
  <2> QED
    BY <2>1, <2>2
<1>6. CASE Crash
  <2>1. snap' = snap /\ loops' = [n \in Node |-> NoLoop]
    BY <1>6 DEF Crash, Fresh, store
  <2>2. \A l \in Node : loops'[l].active = FALSE /\ loops'[l].iteration = 0
    BY <2>1 DEF NoLoop
  <2> QED
    BY <2>1, <2>2 DEF LoopSound
<1>7. CASE Resume
  <2>1. /\ st' = [n \in Node |-> IF snap.st[n] = "running" THEN "ready" ELSE snap.st[n]]
        /\ loops' = snap.loops /\ snap' = snap
    BY <1>7 DEF Resume, store
  <2> QED
    BY <2>1 DEF LoopSound
<1>8. ASSUME NEW l \in Node, AdvanceLoop(l) PROVE LoopSound(st', loops') /\ LoopSound(snap'.st, snap'.loops)
  <2>1. Moves /\ snap' = snap
    BY <1>8, AdvanceLoopMoves DEF Moves
  <2>2. CASE loops' = [loops EXCEPT ![l].iteration = @ + 1]
    <3>1. loops[l].active /\ loops[l].iteration > 0 /\ dag.kind[l] = "loop" /\ st[l] = "done"
      BY <1>8 DEF AdvanceLoop, CompleteLoops, LoopSound
    <3>2. st'[l] = "done"
      BY <2>1, <3>1, LoopsOutside, DoneStays
    <3>3. /\ loops'[l].active = loops[l].active /\ loops'[l].iteration = loops[l].iteration + 1
          /\ \A m \in Node \ {l} : loops'[m] = loops[m]
      BY <1>2, <2>2, TypeIs DEF LoopType
    <3>4. loops'[l].iteration > 0
      BY <1>2, <3>3
    <3>5. ASSUME NEW m \in Node \ {l}
          PROVE  /\ loops'[m].active => loops'[m].iteration > 0
                 /\ dag.kind[m] # "loop" \/ st'[m] # "done" => loops'[m].iteration = 0
      <4>1. dag.kind[m] = "loop" /\ st[m] = "done" => st'[m] = "done"
        BY <2>1, LoopsOutside, DoneStays
      <4> QED
        BY <3>3, <4>1 DEF LoopSound
    <3> QED
      BY <2>1, <3>1, <3>2, <3>4, <3>5 DEF LoopSound
  <2>3. CASE loops' = [loops EXCEPT ![l].active = FALSE]
    <3>1. \A m \in Node : loops'[m].iteration = loops[m].iteration /\ (loops'[m].active => loops[m].active)
      BY <1>2, <2>3, TypeIs DEF LoopType
    <3> QED
      BY <2>1, <3>1, LoopSoundKept
  <2> QED
    BY <1>8, <2>2, <2>3 DEF AdvanceLoop
<1>9. CASE RunLoop
  <2>1. Moves /\ snap' = snap
    BY <1>9, RunLoopMoves DEF Moves
  <2>2. dag.kind[cur] = "loop" /\ cur \in Node /\ st'[cur] = "done"
    <3>1. dag.kind[cur] = "loop" /\ cur \in Node
      BY <1>9 DEF RunLoop, InNode, PlaceSound
    <3> QED
      BY <1>9, <3>1, TypeIs DEF RunLoop, ResetBody
  <2>3. PICK r : /\ r = [active |-> TRUE, iteration |-> 1] \/ r = NoLoop
                 /\ loops' = [loops EXCEPT ![cur] = r]
    BY <1>9 DEF RunLoop
  <2>4. loops'[cur] = r /\ \A m \in Node \ {cur} : loops'[m] = loops[m]
    BY <2>2, <2>3, TypeIs DEF LoopType
  <2>5. r.active => r.iteration > 0
    BY <2>3 DEF NoLoop
  <2>6. ASSUME NEW m \in Node \ {cur}
        PROVE  /\ loops'[m].active => loops'[m].iteration > 0
               /\ dag.kind[m] # "loop" \/ st'[m] # "done" => loops'[m].iteration = 0
    <3>1. dag.kind[m] = "loop" /\ st[m] = "done" => st'[m] = "done"
      BY <2>1, LoopsOutside, DoneStays
    <3> QED
      BY <2>4, <3>1 DEF LoopSound
  <2> QED
    BY <2>1, <2>2, <2>4, <2>5, <2>6 DEF LoopSound
<1>10. CASE ~Crash /\ ~Resume /\ ~RunLoop /\ \A l \in Node : ~AdvanceLoop(l)
  BY <1>4, <1>5, <1>10, StepKinds, LoopsKept, LoopSoundKept DEF Moves
<1> QED
  BY <1>6, <1>7, <1>8, <1>9, <1>10

\* Outside the main loop's top nothing that is done is put back, and a
\* failure stays one: a loop that is run has no body node behind it yet.
LEMMA DoneKept ==
  ASSUME TypeOK, PlaceSound, LoopFirst(st), Moves, NEW n \in Node
  PROVE  /\ pc # "top" /\ st[n] = "done" => st'[n] = "done"
         /\ st[n] = "failed" => st'[n] = "failed"
<1>1. Turn(n)
  BY DEF Moves
<1>2. pc = "node" /\ n \in dag.body[cur] => st[n] \notin {"done", "failed"}
  BY DEF PlaceSound, LoopFirst
<1> QED
  BY <1>1, <1>2 DEF Turn, Waiting

LEMMA LoopFirstNext ==
  ASSUME TypeOK, PlaceSound, LoopsApart, LoopFirst(st), LoopFirst(snap.st), BatchSound, [Next]_vars
  PROVE  LoopFirst(st') /\ LoopFirst(snap'.st)
<1>1. CASE Moves
  <2>1. snap' = snap
    BY <1>1 DEF Moves
  <2>2. ASSUME NEW l \in Node, NEW b \in dag.body[l], st'[b] \in {"running", "done", "failed"}
        PROVE  st'[l] = "done"
    <3>1. /\ b \in Node /\ dag.deps[b] \subseteq dag.body[l] \cup {l} /\ l \notin Bodies
          /\ dag.deps[b] # {}
      BY BodyIs DEF LoopsApart
    <3>2. Turn(b)
      BY <1>1, <3>1 DEF Moves
    <3>3. st[b] \in {"running", "done", "failed"} \/ b \in batch
      BY <2>2, <3>2 DEF Turn
    <3>4. ASSUME b \in batch PROVE st[l] = "done"
      <4>1. PICK d \in dag.deps[b] : st[d] = "done"
        BY <3>1, <3>4 DEF BatchSound
      <4> QED
        BY <3>1, <4>1 DEF LoopFirst
    <3>5. st[l] = "done"
      BY <3>3, <3>4 DEF LoopFirst
    <3> QED
      BY <1>1, <3>1, <3>5, DoneStays
  <2> QED
    BY <2>1, <2>2 DEF LoopFirst
<1>2. CASE Rests
  BY <1>2 DEF Rests, memory
<1>3. CASE SaveDump
  <2>1. UNCHANGED st /\ snap' = [st |-> st, att |-> att, loops |-> loops, final |-> final]
    BY <1>3 DEF SaveDump, memory
  <2>2. snap'.st = st
    BY <2>1
  <2> QED
    BY <2>1, <2>2
<1>4. CASE Crash
  <2>1. snap' = snap /\ st' = [n \in Node |-> "pending"]
    BY <1>4 DEF Crash, Fresh, store
  <2>2. \A l \in Node : \A b \in dag.body[l] : st'[b] = "pending"
    BY <2>1, BodyIs
  <2> QED
    BY <2>1, <2>2 DEF LoopFirst
<1>5. CASE Resume
  <2>1. /\ st' = [n \in Node |-> IF snap.st[n] = "running" THEN "ready" ELSE snap.st[n]]
        /\ snap' = snap
    BY <1>5 DEF Resume, store
  <2>2. ASSUME NEW l \in Node, NEW b \in dag.body[l], st'[b] \in {"running", "done", "failed"}
        PROVE  st'[l] = "done"
    <3>1. b \in Node
      BY BodyIs
    <3>2. snap.st[l] = "done"
      BY <2>1, <2>2, <3>1 DEF LoopFirst
    <3> QED
      BY <2>1, <3>2
  <2> QED
    BY <2>1, <2>2 DEF LoopFirst
<1> QED
  BY <1>1, <1>2, <1>3, <1>4, <1>5, StepKinds

LEMMA BatchNext ==
  ASSUME TypeOK, PlaceSound, LoopFirst(st), BatchSound, [Next]_vars
  PROVE  BatchSound'
<1>1. dag' = dag
  BY DagFixed
<1>2. CASE Schedule
  <2>1. /\ st' = Propagate(st) /\ Ready(Propagate(st)) # {}
        /\ batch' = FirstOf(Ready(Propagate(st)), dag.width)
    BY <1>2 DEF Schedule
  <2>2. Ready(Propagate(st)) \in SUBSET Node
    BY DEF Ready
  <2>3. batch' \subseteq Ready(st')
    BY <2>1, <2>2, FirstOfIs
  <2> QED
    BY <1>1, <2>3 DEF BatchSound, Ready
<1>3. CASE Moves /\ pc # "top" /\ batch' \subseteq batch
  <2>1. ASSUME NEW n \in batch', NEW d \in dag.deps[n] PROVE st'[d] = "done"
    <3>1. n \in batch /\ n \in Node /\ d \in Node
      BY <1>3, TypeIs, DagIs
    <3> QED
      BY <1>3, <3>1, DoneKept DEF BatchSound
  <2> QED
    BY <1>1, <2>1 DEF BatchSound
<1>4. CASE batch' = {}
  BY <1>4 DEF BatchSound
<1>5. CASE UNCHANGED <<st, batch>>
  BY <1>1, <1>5 DEF BatchSound
<1>6. CASE UNCHANGED vars \/ ResumeFails \/ RequestCancel \/ SaveDump \/ SaveOpen
  BY <1>5, <1>6 DEF vars, ResumeFails, RequestCancel, SaveDump, SaveOpen, memory
<1>7. CASE Crash \/ Resume
  BY <1>4, <1>7 DEF Crash, Resume
<1>8. CASE Cancelled \/ OverCap \/ Finish \/ RuntimeExceeded \/ \E l \in Node : AdvanceLoop(l)
  <2>1. AtTop
    BY <1>8 DEF Cancelled, OverCap, Finish, RuntimeExceeded, AdvanceLoop
  <2> QED
    BY <1>4, <2>1 DEF AtTop, PlaceSound
<1>9. CASE PassOver \/ StartNode
  <2>1. pc = "batch" /\ batch' \subseteq batch
    BY <1>9 DEF PassOver, StartNode
  <2> QED
    BY <1>3, <1>9, <2>1, PassOverMoves, StartNodeMoves
<1>10. CASE \/ RunGate \/ RunLoop \/ BlockTask \/ BudgetExceeded \/ StakesDenied \/ DispatchSucceeds
            \/ Retry \/ FailFast \/ FailAndGoOn
  <2>1. InNode("gate") \/ InNode("loop") \/ InNode("task")
    BY <1>10 DEF RunGate, RunLoop, BlockTask, BudgetExceeded, StakesDenied, DispatchSucceeds,
                 Retry, FailFast, FailAndGoOn, DispatchFails
  <2>2. pc = "node" /\ batch' = batch
    BY <2>1 DEF InNode
  <2>3. Moves
    BY <1>10, CancelledMoves, RunGateMoves, RunLoopMoves, BlockMoves, SucceedsMoves, RetryMoves,
       FailFastMoves, FailAndGoOnMoves
  <2> QED
    BY <1>3, <2>2, <2>3
<1> QED
  BY <1>2, <1>6, <1>7, <1>8, <1>9, <1>10 DEF Next, Step

\* A node runs on what it depends on.
LEMMA DepsNext ==
  ASSUME TypeOK, PlaceSound, LoopFirst(st), BatchSound, [Next]_vars,
         \A n \in Node : st[n] = "running" => \A d \in dag.deps[n] : st[d] = "done"
  PROVE  \A n \in Node : st'[n] = "running" => \A d \in dag.deps[n] : st'[d] = "done"
<1>1. CASE Moves
  <2> SUFFICES ASSUME NEW n \in Node, st'[n] = "running", NEW d \in dag.deps[n]
               PROVE  st'[d] = "done"
    OBVIOUS
  <2>1. d \in Node
    BY DagIs
  <2>2. CASE st[n] = "running"
    <3>1. pc # "top" /\ st[d] = "done"
      BY <2>2 DEF PlaceSound, Saving
    <3> QED
      BY <1>1, <2>1, <3>1, DoneKept
  <2>3. CASE pc = "batch" /\ n \in batch
    <3>1. pc # "top" /\ st[d] = "done"
      BY <2>3 DEF BatchSound
    <3> QED
      BY <1>1, <2>1, <3>1, DoneKept
  <2> QED
    BY <1>1, <2>2, <2>3, RunningNext
<1>2. CASE Rests \/ SaveDump
  <2>1. st' = st
    BY <1>2 DEF Rests, SaveDump, memory
  <2> QED
    BY <2>1
<1>3. CASE Crash \/ Resume
  <2>1. \A n \in Node : st'[n] # "running"
    BY <1>3 DEF Crash, Resume, Fresh
  <2> QED
    BY <2>1
<1> QED
  BY <1>1, <1>2, <1>3, StepKinds

\* A node is skipped for a reason.
LEMMA SkipNext ==
  ASSUME TypeOK, PlaceSound, LoopFirst(st), SkipSound(st), SkipSound(snap.st), [Next]_vars
  PROVE  SkipSound(st') /\ SkipSound(snap'.st)
<1>1. ASSUME Moves, \A n \in Node : st'[n] = "skipped" => Excused(st, n) \/ Excused(st', n)
      PROVE  SkipSound(st') /\ SkipSound(snap'.st)
  <2>1. \A f \in Node : st[f] = "failed" => st'[f] = "failed"
    BY <1>1, DoneKept
  <2>2. \A n \in Node : Excused(st, n) => Excused(st', n)
    BY <2>1, ExcuseLasts
  <2> QED
    BY <1>1, <2>2 DEF SkipSound, Moves
<1>2. ASSUME Moves, \A n \in Node : st'[n] = "skipped" => st[n] = "skipped"
      PROVE  SkipSound(st') /\ SkipSound(snap'.st)
  BY <1>1, <1>2 DEF SkipSound
<1>3. CASE Rests
  BY <1>3 DEF Rests, memory
<1>4. CASE SaveDump
  <2>1. UNCHANGED st /\ snap' = [st |-> st, att |-> att, loops |-> loops, final |-> final]
    BY <1>4 DEF SaveDump, memory
  <2>2. snap'.st = st
    BY <2>1
  <2> QED
    BY <2>1, <2>2
<1>5. CASE Crash
  <2>1. snap' = snap /\ st' = [n \in Node |-> "pending"]
    BY <1>5 DEF Crash, Fresh, store
  <2> QED
    BY <2>1 DEF SkipSound
<1>6. CASE Resume
  <2>1. /\ st' = [n \in Node |-> IF snap.st[n] = "running" THEN "ready" ELSE snap.st[n]]
        /\ snap' = snap
    BY <1>6 DEF Resume, store
  <2>2. \A n \in Node : /\ snap.st[n] = "failed" => st'[n] = "failed"
                        /\ st'[n] = "skipped" => snap.st[n] = "skipped"
    BY <2>1
  <2>3. \A n \in Node : Excused(snap.st, n) => Excused(st', n)
    BY <2>2, ExcuseLasts
  <2> QED
    BY <2>1, <2>2, <2>3 DEF SkipSound
<1>7. CASE OverCap \/ Schedule
  <2>1. st' = Propagate(st) /\ Moves
    BY <1>7, ScheduleMoves DEF OverCap, Schedule
  <2> QED
    BY <2>1, TypeIs, PropagateSkip DEF Moves
<1>8. CASE Finish
  <2>1. st' = Idle /\ Moves
    BY <1>8, FinishMoves DEF Finish
  <2> QED
    BY <2>1, IdleIs DEF Moves
<1>9. ASSUME NEW l \in Node, AdvanceLoop(l) PROVE SkipSound(st') /\ SkipSound(snap'.st)
  <2>1. Moves /\ snap' = snap /\ SkipSound(Idle)
    BY <1>9, AdvanceLoopMoves, IdleIs DEF Moves
  <2>2. CASE st' = ResetBody(l, Idle)
    <3>1. st' = [n \in Node |-> IF n \in dag.body[l] THEN "pending" ELSE Idle[n]]
      BY <2>2 DEF ResetBody
    <3>2. \A n \in dag.body[l] : Idle[n] \in {"done", "skipped"}
      BY <1>9 DEF AdvanceLoop, CompleteLoops
    <3>3. \A n \in Node : /\ Idle[n] = "failed" => st'[n] = "failed"
                          /\ st'[n] = "skipped" => Idle[n] = "skipped"
      BY <3>1, <3>2
    <3>4. \A n \in Node : Excused(Idle, n) => Excused(st', n)
      BY <3>3, ExcuseLasts
    <3> QED
      BY <2>1, <3>3, <3>4 DEF SkipSound
  <2>3. CASE st' = Idle
    BY <2>1, <2>3
  <2> QED
    BY <1>9, <2>2, <2>3 DEF AdvanceLoop
<1>10. CASE RunGate
  <2>1. Moves /\ cur \in Node /\ st[cur] = "running" /\ pc = "node"
    BY <1>10, RunGateMoves DEF RunGate, InNode, PlaceSound
  <2>2. PICK taken \in BOOLEAN :
          st' = [Propagate([n \in Node |-> IF n \in GateSkips(cur, taken, st) THEN "skipped" ELSE st[n]])
                 EXCEPT ![cur] = "done"]
    BY <1>10 DEF RunGate
  <2> DEFINE x == [n \in Node |-> IF n \in GateSkips(cur, taken, st) THEN "skipped" ELSE st[n]]
             p == Propagate(x)
  <2>3. p \in [Node -> Status] /\ p[cur] # "failed" /\ SkipSound(p)
    BY <2>1, GateSkipsIs
  <2>4. st' = [p EXCEPT ![cur] = "done"]
    BY <2>2
  <2> HIDE DEF p
  <2>5. \A n \in Node : /\ p[n] = "failed" => st'[n] = "failed"
                        /\ st'[n] = "skipped" => p[n] = "skipped"
    BY <2>1, <2>3, <2>4
  <2>6. \A n \in Node : Excused(p, n) => Excused(st', n)
    BY <2>5, ExcuseLasts
  <2> QED
    BY <2>1, <2>3, <2>5, <2>6 DEF SkipSound, Moves
<1>11. CASE FailFast
  <2>1. Moves /\ cur \in Node
    BY <1>11, FailFastMoves, FailsIs DEF FailFast
  <2>2. st' = [n \in Node |-> IF n = cur THEN "failed"
                              ELSE IF st[n] = "pending" /\ cur \in dag.deps[n] THEN "skipped" ELSE st[n]]
    BY <1>11 DEF FailFast
  <2>3. ASSUME NEW n \in Node, st'[n] = "skipped" PROVE Excused(st, n) \/ Excused(st', n)
    <3>1. CASE st[n] = "skipped"
      BY <3>1 DEF SkipSound
    <3>2. CASE st[n] # "skipped"
      <4>1. cur \in dag.deps[n] /\ st'[cur] = "failed"
        BY <2>1, <2>2, <2>3, <3>2
      <4> QED
        BY <4>1, ExcusedIs
    <3> QED
      BY <3>1, <3>2
  <2> QED
    BY <1>1, <2>1, <2>3
<1>12. CASE FailAndGoOn
  <2> DEFINE mine == {l \in Node : dag.stop /\ cur \in dag.body[l]}
  <2>1. Moves /\ cur \in Node
    BY <1>12, FailAndGoOnMoves, FailsIs DEF FailAndGoOn
  <2>2. st' = [n \in Node |-> IF n = cur THEN "failed"
                              ELSE IF st[n] \in Waiting /\ \E l \in mine : n \in dag.body[l]
                                THEN "skipped" ELSE st[n]]
    BY <1>12 DEF FailAndGoOn
  <2>3. ASSUME NEW n \in Node, st'[n] = "skipped" PROVE Excused(st, n) \/ Excused(st', n)
    <3>1. CASE st[n] = "skipped"
      BY <3>1 DEF SkipSound
    <3>2. CASE st[n] # "skipped"
      <4>1. PICK l \in mine : n \in dag.body[l]
        BY <2>2, <2>3, <3>2
      <4>2. n \in Mates(cur)
        BY <4>1 DEF Mates
      <4>3. st'[cur] = "failed"
        BY <2>1, <2>2
      <4> QED
        BY <2>1, <4>2, <4>3, ExcusedIs
    <3> QED
      BY <3>1, <3>2
  <2> QED
    BY <1>1, <2>1, <2>3
<1>13. CASE Cancelled \/ RuntimeExceeded \/ BudgetExceeded \/ PassOver \/ SaveOpen
  <2>1. Moves /\ st' = st
    BY <1>13, CancelledMoves, PassOverMoves
    DEF Cancelled, RuntimeExceeded, BudgetExceeded, PassOver, SaveOpen, memory
  <2> QED
    BY <1>2, <2>1
<1>14. CASE StartNode \/ BlockTask \/ StakesDenied \/ DispatchSucceeds \/ Retry
  <2>1. Moves
    BY <1>14, StartNodeMoves, BlockMoves, SucceedsMoves, RetryMoves
  <2>2. PICK m, e : e # "skipped" /\ st' = [st EXCEPT ![m] = e]
    BY <1>14 DEF StartNode, BlockTask, StakesDenied, DispatchSucceeds, Retry
  <2>3. \A n \in Node : st'[n] = "skipped" => st[n] = "skipped"
    BY <2>2, TypeIs
  <2> QED
    BY <1>2, <2>1, <2>3
<1>15. CASE RunLoop
  <2>1. Moves
    BY <1>15, RunLoopMoves
  <2>2. \A n \in Node : st'[n] = "skipped" => st[n] = "skipped"
    BY <1>15, TypeIs DEF RunLoop, ResetBody
  <2> QED
    BY <1>2, <2>1, <2>2
<1>16. CASE UNCHANGED vars \/ ResumeFails \/ RequestCancel
  BY <1>3, <1>16 DEF vars, ResumeFails, RequestCancel, memory, store, history, Rests
<1> QED
  BY <1>4, <1>5, <1>6, <1>7, <1>8, <1>9, <1>10, <1>11, <1>12, <1>13, <1>14, <1>15, <1>16
  DEF Next, Step

\* A run that is over stays over.
LEMMA FinalNext ==
  ASSUME TypeOK, PlaceSound, FinalSound, [Next]_vars
  PROVE  FinalSound'
<1>1. dag' = dag
  BY DagFixed
<1> DEFINE Rest == snap'.final = "completed" => AllOver(snap'.st, snap'.loops)
           Now  == final' = "completed" =>
                     /\ AllOver(st', loops') /\ pc' \notin {"batch", "node"}
                     /\ pc' \in {"open", "write"} => cont' = "ended"
<1> SUFFICES Rest /\ Now
  BY <1>1 DEF FinalSound, AllOver, Saving
<1>2. ASSUME snap' = snap PROVE Rest
  BY <1>2 DEF FinalSound
<1>3. ASSUME Moves PROVE Rest
  BY <1>2, <1>3 DEF Moves
<1>4. ASSUME final = "completed"
      PROVE  /\ AllOver(st, loops) /\ pc \notin {"batch", "node"} /\ (Saving => cont = "ended")
             /\ Propagate(st) = st /\ Ready(Propagate(st)) = {}
             /\ \A n \in Node : Idle[n] = st[n]
  <2>1. AllOver(st, loops) /\ pc \notin {"batch", "node"} /\ (Saving => cont = "ended")
    BY <1>4 DEF FinalSound
  <2>2. \A n \in Node : st[n] \notin Waiting
    BY <2>1 DEF AllOver, Waiting
  <2>3. Propagate(st) = st
    BY <2>2, TypeIs, PropagateNothing
  <2>4. Ready(st) = {}
    BY <2>2 DEF Ready
  <2>5. \A n \in Node : Idle[n] = st[n]
    BY <2>2, IdleIs
  <2> QED
    BY <2>1, <2>3, <2>4, <2>5
<1>5. CASE Rests
  <2>1. UNCHANGED <<st, loops, final, cont, snap>> /\ (pc' = pc \/ pc' = "lost")
    BY <1>5 DEF Rests, memory
  <2> QED
    BY <1>2, <1>4, <2>1 DEF Saving
<1>6. CASE Cancelled \/ RuntimeExceeded \/ OverCap \/ BudgetExceeded \/ FailFast
  <2>1. Moves
    BY <1>6, CancelledMoves, ScheduleMoves, FailFastMoves
  <2>2. final' # "completed"
    BY <1>6 DEF Cancelled, RuntimeExceeded, OverCap, BudgetExceeded, FailFast
  <2> QED
    BY <1>3, <2>1, <2>2
<1>7. CASE Finish
  <2>1. Moves
    BY <1>7, FinishMoves
  <2>2. /\ st' = Idle /\ loops' = loops /\ final' = FinalStatus(Idle) /\ pc' = "open" /\ cont' = "ended"
        /\ CompleteLoops(Idle) = {}
    BY <1>7 DEF Finish, SaveThen
  <2>3. FinalStatus(Idle) = "completed" => \A n \in Node : Idle[n] \in {"done", "skipped", "blocked"}
    BY DEF FinalStatus
  <2>4. \A l \in Node : loops[l].active /\ dag.body[l] # {} =>
          \E b \in dag.body[l] : Idle[b] \notin {"done", "skipped"}
    BY <2>2 DEF CompleteLoops
  <2> QED
    BY <1>3, <2>1, <2>2, <2>3, <2>4 DEF AllOver
<1>8. CASE Schedule
  <2>1. Moves
    BY <1>8, ScheduleMoves
  <2> QED
    BY <1>3, <1>4, <1>8, <2>1 DEF Schedule
<1>9. ASSUME NEW l \in Node, AdvanceLoop(l) PROVE Rest /\ Now
  <2>1. Moves
    BY <1>9, AdvanceLoopMoves
  <2>2. final' = final /\ l \in CompleteLoops(Idle)
    BY <1>9 DEF AdvanceLoop
  <2>3. final # "completed"
    <3> SUFFICES ASSUME final = "completed" PROVE FALSE
      OBVIOUS
    <3>1. /\ loops[l].active /\ dag.body[l] # {}
          /\ \A b \in dag.body[l] : b \in Node /\ st[b] \in {"done", "skipped"}
      BY <1>4, <2>2, BodyIs DEF CompleteLoops
    <3> QED
      BY <1>4, <3>1 DEF AllOver
  <2> QED
    BY <1>3, <2>1, <2>2, <2>3
<1>10. CASE PassOver \/ StartNode
  <2>1. Moves
    BY <1>10, PassOverMoves, StartNodeMoves
  <2>2. final' = final /\ pc = "batch"
    BY <1>10 DEF PassOver, StartNode
  <2> QED
    BY <1>3, <1>4, <2>1, <2>2
<1>11. CASE RunGate \/ RunLoop \/ BlockTask \/ StakesDenied \/ DispatchSucceeds \/ Retry \/ FailAndGoOn
  <2>1. Moves
    BY <1>11, RunGateMoves, RunLoopMoves, BlockMoves, SucceedsMoves, RetryMoves, FailAndGoOnMoves
  <2>2. final' = final
    BY <1>11 DEF RunGate, RunLoop, BlockTask, StakesDenied, DispatchSucceeds, Retry, FailAndGoOn
  <2>3. pc = "node"
    BY <1>11 DEF RunGate, RunLoop, BlockTask, StakesDenied, DispatchSucceeds, Retry, FailAndGoOn,
                 DispatchFails, InNode
  <2> QED
    BY <1>3, <1>4, <2>1, <2>2, <2>3
<1>12. CASE SaveOpen
  <2>1. pc = "open" /\ pc' = "write" /\ UNCHANGED <<st, loops, final, cont, snap>>
    BY <1>12 DEF SaveOpen, memory
  <2> QED
    BY <1>2, <1>4, <2>1 DEF Saving
<1>13. CASE SaveDump
  <2>1. /\ pc = "write" /\ pc' = cont /\ UNCHANGED <<st, loops, final, cont>>
        /\ snap' = [st |-> st, att |-> att, loops |-> loops, final |-> final]
    BY <1>13 DEF SaveDump, memory
  <2>2. snap'.st = st /\ snap'.loops = loops /\ snap'.final = final
    BY <2>1
  <2> QED
    BY <1>4, <2>1, <2>2 DEF Saving
<1>14. CASE Crash
  <2>1. final' = "none" /\ snap' = snap
    BY <1>14 DEF Crash, Fresh, store
  <2> QED
    BY <1>2, <2>1
<1>15. CASE Resume
  <2>1. /\ st' = [n \in Node |-> IF snap.st[n] = "running" THEN "ready" ELSE snap.st[n]]
        /\ loops' = snap.loops /\ final' = snap.final /\ pc' = "top" /\ snap' = snap
    BY <1>15 DEF Resume, store
  <2>2. ASSUME snap.final = "completed" PROVE AllOver(st', loops')
    <3>1. AllOver(snap.st, snap.loops)
      BY <2>2 DEF FinalSound
    <3>2. \A n \in Node : st'[n] = snap.st[n]
      BY <2>1, <3>1 DEF AllOver
    <3>3. \A l \in Node : dag.body[l] \subseteq Node
      BY DagIs
    <3> QED
      BY <2>1, <3>1, <3>2, <3>3 DEF AllOver
  <2> QED
    BY <1>2, <2>1, <2>2
<1>16. CASE UNCHANGED vars \/ ResumeFails \/ RequestCancel
  BY <1>5, <1>16 DEF vars, ResumeFails, RequestCancel, memory, store, history, Rests
<1> QED
  BY <1>6, <1>7, <1>8, <1>9, <1>10, <1>11, <1>12, <1>13, <1>14, <1>15, <1>16
  DEF Next, Step
-----------------------------------------------------------------------------

LEMMA ExcessFixed ==
  ASSUME dag' = dag
  PROVE  /\ Excess(oks, st, loops)' = Excess(oks', st', loops')
         /\ Excess(oks, snap.st, snap.loops)' = Excess(oks', snap'.st, snap'.loops)
<1>1. \A n : LoopOf(n)' = LoopOf(n)
  BY DEF LoopOf
<1>2. Bodies' = Bodies
  BY GraphFixed
<1> QED
  BY <1>1, <1>2 DEF Excess, Rounded

\* What the executor has done, one node at a time.
LEMMA RoundedIs ==
  ASSUME TypeOK, NEW s, NEW lp \in LoopType, NEW n \in Node
  PROVE  /\ Rounded(s, lp, n) \in Nat /\ Rounds(n) \in Nat /\ Rounded(s, lp, n) <= Rounds(n)
         /\ n \in Bodies => /\ LoopOf(n) \in Node /\ n \in dag.body[LoopOf(n)]
                            /\ lp[LoopOf(n)].iteration \in 0 .. dag.iters
<1>1. dag.iters \in Nat \ {0}
  BY TypeIs
<1>2. n \in Bodies => /\ LoopOf(n) \in Node /\ n \in dag.body[LoopOf(n)]
                      /\ lp[LoopOf(n)].iteration \in 0 .. dag.iters
  <2>1. n \in Bodies => \E l \in Node : n \in dag.body[l]
    BY DEF Bodies
  <2>2. n \in Bodies => LoopOf(n) \in Node /\ n \in dag.body[LoopOf(n)]
    BY <2>1 DEF LoopOf
  <2>3. \A l \in Node : lp[l].iteration \in 0 .. dag.iters
    BY DEF LoopType
  <2> QED
    BY <2>2, <2>3
<1> QED
  BY <1>1, <1>2 DEF Rounded, Rounds

LEMMA ExcessIs ==
  ASSUME NEW o, NEW s, NEW lp, NEW x
  PROVE  x \in Excess(o, s, lp) <=>
           \E n \in Node : \E k \in 1 .. o[n] - Rounded(s, lp, n) : x = <<n, k>>
  BY DEF Excess

LEMMA ExcessShrinks ==
  ASSUME NEW o, NEW s, NEW lp, NEW p, NEW t, NEW lq,
         \A n \in Node : /\ o[n] \in Nat /\ p[n] \in Nat
                         /\ Rounded(s, lp, n) \in Nat /\ Rounded(t, lq, n) \in Nat
                         /\ p[n] - Rounded(t, lq, n) <= o[n] - Rounded(s, lp, n)
  PROVE  Excess(p, t, lq) \subseteq Excess(o, s, lp)
<1>1. \A n \in Node : 1 .. p[n] - Rounded(t, lq, n) \subseteq 1 .. o[n] - Rounded(s, lp, n)
  OBVIOUS
<1>2. ASSUME NEW x \in Excess(p, t, lq) PROVE x \in Excess(o, s, lp)
  <2>1. PICK n \in Node : \E k \in 1 .. p[n] - Rounded(t, lq, n) : x = <<n, k>>
    BY ExcessIs
  <2>2. \E k \in 1 .. o[n] - Rounded(s, lp, n) : x = <<n, k>>
    BY <1>1, <2>1
  <2> QED
    BY <2>1, <2>2, ExcessIs
<1> QED
  BY <1>2

LEMMA BoundedSub ==
  ASSUME NEW A, NEW B, A \subseteq B, NEW k \in Nat, NEW m \in Nat, k <= m, Bounded(B, k)
  PROVE  Bounded(A, m)
<1>1. IsFiniteSet(B) /\ Cardinality(B) <= k
  BY DEF Bounded
<1>2. IsFiniteSet(A) /\ Cardinality(A) <= Cardinality(B)
  BY <1>1, FS_Subset
<1>3. Cardinality(A) \in Nat /\ Cardinality(B) \in Nat
  BY <1>1, <1>2, FS_CardinalityType
<1> QED
  BY <1>1, <1>2, <1>3 DEF Bounded

\* Only a dispatch that succeeds counts as one.
LEMMA OksKept ==
  ASSUME [Next]_vars, ~DispatchSucceeds
  PROVE  oks' = oks
<1>1. CASE \/ UNCHANGED vars \/ ResumeFails \/ RequestCancel \/ SaveDump \/ SaveOpen
           \/ Crash \/ Resume \/ Schedule \/ PassOver \/ StartNode
  BY <1>1 DEF vars, ResumeFails, RequestCancel, SaveDump, SaveOpen, Crash, Resume,
              Schedule, PassOver, StartNode, history
<1>2. CASE Cancelled \/ OverCap \/ Finish \/ RuntimeExceeded \/ \E l \in Node : AdvanceLoop(l)
  <2>1. AtTop
    BY <1>2 DEF Cancelled, OverCap, Finish, RuntimeExceeded, AdvanceLoop
  <2> QED
    BY <2>1 DEF AtTop, history
<1>3. CASE RunGate \/ RunLoop \/ BlockTask \/ BudgetExceeded \/ StakesDenied
  BY <1>3 DEF RunGate, RunLoop, BlockTask, BudgetExceeded, StakesDenied
<1>4. CASE Retry \/ FailFast \/ FailAndGoOn
  BY <1>4 DEF Retry, FailFast, FailAndGoOn, DispatchFails
<1> QED
  BY <1>1, <1>2, <1>3, <1>4 DEF Next, Step

\* Only a loop that goes on puts back what is done.
LEMMA DoneKeptNext ==
  ASSUME TypeOK, PlaceSound, LoopFirst(st), [Next]_vars, ~Crash, ~Resume,
         \A l \in Node : ~AdvanceLoop(l), NEW n \in Node, st[n] = "done"
  PROVE  st'[n] = "done"
<1>1. CASE pc # "top"
  <2>1. CASE Moves
    BY <1>1, <2>1, DoneKept
  <2>2. CASE Rests \/ SaveDump
    BY <2>2 DEF Rests, SaveDump, memory
  <2> QED
    BY <2>1, <2>2, StepKinds
<1>2. CASE pc = "top"
  <2>1. CASE OverCap \/ Schedule
    BY <2>1, TypeIs, PropagateIs DEF OverCap, Schedule, Waiting
  <2>2. CASE Finish
    BY <2>2, IdleIs DEF Finish, Waiting
  <2>3. CASE Cancelled \/ RuntimeExceeded \/ RequestCancel \/ ResumeFails \/ UNCHANGED vars
    BY <2>3 DEF Cancelled, RuntimeExceeded, RequestCancel, ResumeFails, vars, memory
  <2>4. ~(PassOver \/ StartNode \/ SaveOpen \/ SaveDump)
    BY <1>2 DEF PassOver, StartNode, SaveOpen, SaveDump
  <2>5. ~(\/ RunGate \/ RunLoop \/ BlockTask \/ BudgetExceeded \/ StakesDenied \/ DispatchSucceeds
          \/ Retry \/ FailFast \/ FailAndGoOn)
    BY <1>2 DEF RunGate, RunLoop, BlockTask, BudgetExceeded, StakesDenied, DispatchSucceeds,
                Retry, FailFast, FailAndGoOn, DispatchFails, InNode
  <2> QED
    BY <2>1, <2>2, <2>3, <2>4, <2>5 DEF Next, Step
<1> QED
  BY <1>1, <1>2

\* Where the loop of a node stays in its iteration, a success that counts is
\* one that memory accounts for.
LEMMA RoundStep ==
  ASSUME TypeOK, Moves, loops' \in LoopType, NEW n \in Node,
         n \in Bodies => loops'[LoopOf(n)].iteration = loops[LoopOf(n)].iteration,
         st[n] = "done" => st'[n] = "done"
  PROVE  oks'[n] - Rounded(st', loops', n) <= oks[n] - Rounded(st, loops, n)
<1>1. Turn(n) /\ oks[n] \in Nat
  BY TypeIs DEF Moves
<1>2. \/ oks'[n] = oks[n]
      \/ oks'[n] = oks[n] + 1 /\ st[n] # "done" /\ st'[n] = "done"
  BY <1>1 DEF Turn
<1>3. n \in Bodies => loops[LoopOf(n)].iteration \in Nat
  BY TypeIs, RoundedIs
<1>4. Rounded(st', loops', n) \in Nat /\ Rounded(st, loops, n) \in Nat
  BY TypeIs, RoundedIs
<1>5. /\ Rounded(st', loops', n) >= Rounded(st, loops, n)
      /\ st[n] # "done" /\ st'[n] = "done" => Rounded(st', loops', n) = Rounded(st, loops, n) + 1
  BY <1>3 DEF Rounded
<1> QED
  BY <1>1, <1>2, <1>4, <1>5

\* No move of the executor loses a success.
LEMMA MemoryRounds ==
  ASSUME TypeOK, PlaceSound, LoopsApart, LoopSound(st, loops), LoopFirst(st), [Next]_vars,
         Moves, Kept, ~Crash, ~Resume, NEW n \in Node
  PROVE  oks'[n] - Rounded(st', loops', n) <= oks[n] - Rounded(st, loops, n)
<1>1. loops' \in LoopType /\ Turn(n) /\ oks[n] \in Nat
  BY TypeIs DEF Kept, Moves
<1>2. \A l \in Node : n \in dag.body[l] => n \in Bodies /\ LoopOf(n) = l
  <2> SUFFICES ASSUME NEW l \in Node, n \in dag.body[l] PROVE n \in Bodies /\ LoopOf(n) = l
    OBVIOUS
  <2>1. n \in Bodies
    BY DEF Bodies
  <2>2. LoopOf(n) \in Node /\ n \in dag.body[LoopOf(n)]
    BY <2>1, TypeIs, RoundedIs
  <2> QED
    BY <2>1, <2>2 DEF LoopsApart
<1>3. n \in Bodies => LoopOf(n) \in Node /\ n \in dag.body[LoopOf(n)]
  BY TypeIs, RoundedIs
<1>4. \A l \in Node : loops[l] \in [active: BOOLEAN, iteration: 0 .. dag.iters] /\ dag.iters \in Nat
  BY TypeIs DEF LoopType
<1>5. ASSUME NEW l \in Node, AdvanceLoop(l)
      PROVE  oks'[n] - Rounded(st', loops', n) <= oks[n] - Rounded(st, loops, n)
  <2>1. CASE /\ loops' = [loops EXCEPT ![l].iteration = @ + 1]
             /\ st' = ResetBody(l, Idle)
    <3>1. /\ st' = [m \in Node |-> IF m \in dag.body[l] THEN "pending" ELSE Idle[m]]
          /\ loops'[l].iteration = loops[l].iteration + 1
          /\ \A m \in Node \ {l} : loops'[m] = loops[m]
      BY <1>4, <2>1, TypeIs DEF ResetBody, LoopType
    <3>2. CASE n \in dag.body[l]
      <4>1. LoopOf(n) = l /\ n \in Bodies /\ st'[n] = "pending"
        BY <1>2, <3>1, <3>2
      <4>2. loops[l].iteration > 0 /\ loops[l].iteration \in Nat
        BY <1>4, <1>5 DEF AdvanceLoop, CompleteLoops, LoopSound
      <4>3. oks' = oks
        <5>1. ~DispatchSucceeds
          BY <1>5 DEF AdvanceLoop, AtTop, DispatchSucceeds, InNode
        <5> QED
          BY <5>1, OksKept
      <4>4. Rounded(st', loops', n) = loops[l].iteration
        BY <3>1, <4>1, <4>2 DEF Rounded
      <4>5. Rounded(st, loops, n) \in Nat /\ Rounded(st, loops, n) <= loops[l].iteration
        BY <4>1, <4>2 DEF Rounded
      <4> QED
        BY <1>1, <4>2, <4>3, <4>4, <4>5
    <3>3. CASE n \notin dag.body[l]
      <4>1. n \in Bodies => loops'[LoopOf(n)].iteration = loops[LoopOf(n)].iteration
        BY <1>3, <3>1, <3>3
      <4>2. st[n] = "done" => st'[n] = "done"
        BY <3>1, <3>3, IdleIs DEF Waiting
      <4> QED
        BY <1>1, <4>1, <4>2, RoundStep
    <3> QED
      BY <3>2, <3>3
  <2>2. CASE loops' = [loops EXCEPT ![l].active = FALSE] /\ st' = Idle
    <3>1. \A m \in Node : loops'[m].iteration = loops[m].iteration
      BY <1>4, <2>2, TypeIs DEF LoopType
    <3>2. st[n] = "done" => st'[n] = "done"
      BY <2>2, IdleIs DEF Waiting
    <3> QED
      BY <1>1, <1>3, <3>1, <3>2, RoundStep
  <2> QED
    BY <1>5, <2>1, <2>2 DEF AdvanceLoop
<1>6. CASE RunLoop /\ \A l \in Node : ~AdvanceLoop(l)
  <2>1. cur \in Node /\ st[cur] = "running" /\ loops[cur].iteration = 0
    <3>1. cur \in Node /\ st[cur] = "running"
      BY <1>6 DEF RunLoop, InNode, PlaceSound
    <3> QED
      BY <3>1 DEF LoopSound
  <2>2. st[n] = "done" => st'[n] = "done"
    BY <1>6, DoneKeptNext
  <2>3. CASE /\ loops' = [loops EXCEPT ![cur] = [active |-> TRUE, iteration |-> 1]]
             /\ st' = [ResetBody(cur, st) EXCEPT ![cur] = "done"]
    <3>1. loops'[cur].iteration = 1 /\ \A m \in Node \ {cur} : loops'[m] = loops[m]
      BY <2>1, <2>3, TypeIs DEF LoopType
    <3>2. CASE n \in dag.body[cur]
      <4>1. LoopOf(n) = cur /\ n \in Bodies
        BY <1>2, <2>1, <3>2
      <4>2. st[n] # "done" /\ st'[n] # "done"
        <5>1. st[n] # "done"
          BY <2>1, <3>2 DEF LoopFirst
        <5>2. n # cur
          BY <2>1, <3>2, BodyIs
        <5> QED
          BY <2>1, <2>3, <3>2, <5>1, <5>2, TypeIs DEF ResetBody
      <4>3. oks' = oks
        BY <1>6 DEF RunLoop
      <4>4. Rounded(st', loops', n) = 0
        BY <3>1, <4>1, <4>2 DEF Rounded
      <4>5. Rounded(st, loops, n) = 0
        BY <2>1, <4>1, <4>2 DEF Rounded
      <4> QED
        BY <1>1, <4>3, <4>4, <4>5
    <3>3. CASE n \notin dag.body[cur]
      <4>1. n \in Bodies => loops'[LoopOf(n)].iteration = loops[LoopOf(n)].iteration
        BY <1>3, <3>1, <3>3
      <4> QED
        BY <1>1, <2>2, <4>1, RoundStep
    <3> QED
      BY <3>2, <3>3
  <2>4. CASE loops' = [loops EXCEPT ![cur] = NoLoop]
    <3>1. \A m \in Node : loops'[m].iteration = loops[m].iteration
      BY <2>1, <2>4, TypeIs DEF LoopType, NoLoop
    <3> QED
      BY <1>1, <1>3, <2>2, <3>1, RoundStep
  <2> QED
    BY <1>6, <2>3, <2>4 DEF RunLoop
<1>7. CASE ~RunLoop /\ \A l \in Node : ~AdvanceLoop(l)
  <2>1. \A m \in Node : loops'[m].iteration = loops[m].iteration
    BY <1>7, LoopsKept
  <2>2. st[n] = "done" => st'[n] = "done"
    BY <1>7, DoneKeptNext
  <2> QED
    BY <1>1, <1>3, <2>1, <2>2, RoundStep
<1> QED
  BY <1>5, <1>6, <1>7

\* What the file does not account for: one success more for each that is not
\* saved yet.
LEMMA StoredRounds ==
  ASSUME TypeOK, PlaceSound, DispatchSucceeds, snap' = snap, NEW k \in Nat,
         Bounded(Excess(oks, snap.st, snap.loops), k)
  PROVE  Bounded(Excess(oks', snap.st, snap.loops), k + 1)
<1> DEFINE E == Excess(oks, snap.st, snap.loops)
           r == Rounded(snap.st, snap.loops, cur)
           x == <<cur, oks[cur] + 1 - r>>
<1>1. cur \in Node /\ oks' = [oks EXCEPT ![cur] = @ + 1]
  BY DEF DispatchSucceeds, InNode, PlaceSound
<1>2. snap.loops \in LoopType
  BY DEF TypeOK, LoopType
<1>3. \A n \in Node : Rounded(snap.st, snap.loops, n) \in Nat /\ oks[n] \in Nat
  BY <1>2, TypeIs, RoundedIs
<1>4. oks'[cur] = oks[cur] + 1 /\ \A n \in Node \ {cur} : oks'[n] = oks[n]
  BY <1>1, TypeIs
<1>5. ASSUME NEW y \in Excess(oks', snap.st, snap.loops) PROVE y \in E \cup {x}
  <2>0. PICK n \in Node : \E j \in 1 .. oks'[n] - Rounded(snap.st, snap.loops, n) : y = <<n, j>>
    BY ExcessIs
  <2>1. PICK j \in 1 .. oks'[n] - Rounded(snap.st, snap.loops, n) : y = <<n, j>>
    BY <2>0
  <2>2. CASE n # cur
    BY <1>4, <2>1, <2>2, ExcessIs
  <2>3. CASE n = cur
    <3>1. j \in 1 .. oks[cur] - r \/ j = oks[cur] + 1 - r
      BY <1>1, <1>3, <1>4, <2>1, <2>3
    <3>2. CASE j \in 1 .. oks[cur] - r
      BY <1>1, <2>1, <2>3, <3>2, ExcessIs
    <3>3. CASE j = oks[cur] + 1 - r
      BY <2>1, <2>3, <3>3
    <3> QED
      BY <3>1, <3>2, <3>3
  <2> QED
    BY <2>2, <2>3
<1> HIDE DEF E, x
<1>6. IsFiniteSet(E) /\ Cardinality(E) <= k
  BY DEF Bounded, E
<1>7. /\ IsFiniteSet(E \cup {x}) /\ Cardinality(E) \in Nat
      /\ Cardinality(E \cup {x}) \in {Cardinality(E), Cardinality(E) + 1}
  BY <1>6, FS_AddElement, FS_CardinalityType
<1>8. Bounded(E \cup {x}, k + 1)
  BY <1>6, <1>7 DEF Bounded
<1>9. Excess(oks', snap.st, snap.loops) \subseteq E \cup {x}
  BY <1>5
<1> QED
  BY <1>8, <1>9, BoundedSub

LEMMA RepeatNext ==
  ASSUME TypeOK, PlaceSound, LoopSound(st, loops), LoopsApart => LoopFirst(st), RepeatSound,
         TypeOK', [Next]_vars
  PROVE  RepeatSound'
<1>1. dag' = dag /\ (LoopsApart' <=> LoopsApart)
  BY DagFixed, GraphFixed
<1>2. /\ Excess(oks, st, loops)' = Excess(oks', st', loops')
      /\ Excess(oks, snap.st, snap.loops)' = Excess(oks', snap'.st, snap'.loops)
  BY <1>1, ExcessFixed
<1> DEFINE Mem  == Live' => Bounded(Excess(oks', st', loops'), crashes')
           Disk == Bounded(Excess(oks', snap'.st, snap'.loops), crashes' + (IF Saving' THEN 1 ELSE 0))
<1>3. SUFFICES ASSUME LoopsApart PROVE Mem /\ Disk
  BY <1>1, <1>2 DEF RepeatSound, Bounded
<1>4. /\ Live => Bounded(Excess(oks, st, loops), crashes)
      /\ Bounded(Excess(oks, snap.st, snap.loops), crashes + (IF Saving THEN 1 ELSE 0))
      /\ LoopFirst(st)
  BY <1>3 DEF RepeatSound
<1>5. crashes \in Nat /\ oks \in [Node -> Nat] /\ oks' \in [Node -> Nat]
  BY TypeIs, TaskGraphAssumption DEF TypeOK
<1>6. CASE Moves /\ Kept /\ ~Crash /\ ~Resume /\ ~SaveDump
  <2>1. Live /\ crashes' = crashes /\ snap' = snap
    BY <1>6 DEF Moves
  <2>2. Excess(oks', st', loops') \subseteq Excess(oks, st, loops)
    <3>1. \A n \in Node : /\ oks[n] \in Nat /\ oks'[n] \in Nat
                          /\ Rounded(st, loops, n) \in Nat /\ Rounded(st', loops', n) \in Nat
      BY <1>5, <1>6, TypeIs, RoundedIs DEF Kept
    <3>2. \A n \in Node : oks'[n] - Rounded(st', loops', n) <= oks[n] - Rounded(st, loops, n)
      BY <1>3, <1>4, <1>6, MemoryRounds
    <3> QED
      BY <3>1, <3>2, ExcessShrinks
  <2>3. Mem
    BY <1>4, <1>5, <2>1, <2>2, BoundedSub
  <2>4. CASE DispatchSucceeds
    <3>1. pc = "node" /\ pc' = "open"
      BY <2>4 DEF DispatchSucceeds, InNode, SaveThen
    <3>2. Bounded(Excess(oks, snap.st, snap.loops), crashes)
      BY <1>4, <1>5, <3>1 DEF Saving
    <3>3. Bounded(Excess(oks', snap.st, snap.loops), crashes + 1)
      BY <1>5, <2>1, <2>4, <3>2, StoredRounds
    <3> QED
      BY <2>1, <2>3, <3>1, <3>3 DEF Saving
  <2>5. CASE ~DispatchSucceeds
    <3>1. oks' = oks
      BY <2>5, OksKept
    <3>2. Saving => Saving'
      <4>1. CASE SaveOpen \/ RequestCancel \/ UNCHANGED vars
        BY <4>1 DEF SaveOpen, RequestCancel, vars, Saving
      <4>2. CASE ~(SaveOpen \/ RequestCancel \/ UNCHANGED vars)
        <5>1. ASSUME \E k : InNode(k) PROVE ~Saving
          BY <5>1 DEF InNode, Saving
        <5>2. ASSUME AtTop PROVE ~Saving
          BY <5>2 DEF AtTop, Saving
        <5>3. CASE Cancelled \/ OverCap \/ Finish \/ RuntimeExceeded \/ \E l \in Node : AdvanceLoop(l)
          BY <5>2, <5>3 DEF Cancelled, OverCap, Finish, RuntimeExceeded, AdvanceLoop
        <5>4. CASE \/ RunGate \/ RunLoop \/ BlockTask \/ BudgetExceeded \/ StakesDenied
                   \/ Retry \/ FailFast \/ FailAndGoOn
          BY <5>1, <5>4 DEF RunGate, RunLoop, BlockTask, BudgetExceeded, StakesDenied,
                            Retry, FailFast, FailAndGoOn, DispatchFails
        <5>5. CASE Schedule \/ PassOver \/ StartNode \/ ResumeFails
          BY <5>5 DEF Schedule, PassOver, StartNode, ResumeFails, Saving
        <5> QED
          BY <1>6, <2>5, <4>2, <5>3, <5>4, <5>5 DEF Next, Step
      <4> QED
        BY <4>1, <4>2
    <3>3. /\ crashes + (IF Saving THEN 1 ELSE 0) \in Nat /\ crashes + (IF Saving' THEN 1 ELSE 0) \in Nat
          /\ crashes + (IF Saving THEN 1 ELSE 0) <= crashes + (IF Saving' THEN 1 ELSE 0)
      BY <1>5, <3>2
    <3> QED
      BY <1>4, <2>1, <2>3, <3>1, <3>3, BoundedSub
  <2> QED
    BY <2>4, <2>5
<1>7. CASE Rests
  <2>1. UNCHANGED <<st, loops, snap, crashes, oks>> /\ (Live' <=> Live) /\ (Saving' <=> Saving)
    BY <1>7 DEF Rests, memory, Live, Saving
  <2> QED
    BY <1>4, <2>1
<1>8. CASE SaveDump
  <2>1. /\ UNCHANGED <<st, loops, crashes, oks>> /\ Live /\ pc' = cont
        /\ snap' = [st |-> st, att |-> att, loops |-> loops, final |-> final]
    BY <1>8 DEF SaveDump, memory, history, Live
  <2>2. snap'.st = st /\ snap'.loops = loops /\ ~Saving'
    BY <2>1 DEF TypeOK, Saving
  <2>3. Bounded(Excess(oks, st, loops), crashes) /\ crashes + 0 = crashes
    BY <1>4, <1>5, <2>1
  <2> QED
    BY <2>1, <2>2, <2>3
<1>9. CASE Crash
  <2>1. snap' = snap /\ oks' = oks /\ crashes' = crashes + 1 /\ ~Live' /\ ~Saving'
    BY <1>9 DEF Crash, store, Live, Saving
  <2>2. /\ crashes + (IF Saving THEN 1 ELSE 0) \in Nat /\ crashes' + (IF Saving' THEN 1 ELSE 0) \in Nat
        /\ crashes + (IF Saving THEN 1 ELSE 0) <= crashes' + (IF Saving' THEN 1 ELSE 0)
    BY <1>5, <2>1
  <2> QED
    BY <1>4, <2>1, <2>2, BoundedSub
<1>10. CASE Resume
  <2>1. /\ st' = [n \in Node |-> IF snap.st[n] = "running" THEN "ready" ELSE snap.st[n]]
        /\ loops' = snap.loops /\ snap' = snap /\ oks' = oks /\ crashes' = crashes
        /\ ~Saving /\ ~Saving'
    BY <1>10 DEF Resume, store, Saving
  <2>2. Bounded(Excess(oks, snap.st, snap.loops), crashes)
    BY <1>4, <1>5, <2>1
  <2>3. \A n \in Node : Rounded(st', loops', n) = Rounded(snap.st, snap.loops, n)
    BY <2>1 DEF Rounded
  <2>4. snap.loops \in LoopType
    BY DEF TypeOK, LoopType
  <2>5. \A n \in Node : oks[n] \in Nat /\ Rounded(snap.st, snap.loops, n) \in Nat
    BY <1>5, <2>4, RoundedIs
  <2>6. Excess(oks', st', loops') \subseteq Excess(oks, snap.st, snap.loops)
    BY <2>1, <2>3, <2>5, ExcessShrinks
  <2>7. Mem
    BY <1>5, <2>1, <2>2, <2>6, BoundedSub
  <2>8. crashes + 0 = crashes
    BY <1>5
  <2> QED
    BY <2>1, <2>2, <2>7, <2>8
<1> QED
  BY <1>6, <1>7, <1>8, <1>9, <1>10, StepKinds
-----------------------------------------------------------------------------

LEMMA InitInv == Init => IInv
<1> SUFFICES ASSUME Init PROVE IInv
  OBVIOUS
<1>1. /\ dag \in Dags
      /\ st = [n \in Node |-> "pending"] /\ att = [n \in Node |-> 0]
      /\ loops = [n \in Node |-> NoLoop] /\ final = "none"
      /\ pc = "top" /\ batch = {} /\ cur = 0 /\ cont = "top" /\ execs = 0
      /\ file = "absent" /\ snap = Fresh /\ crashes = 0 /\ resumes = 0
      /\ tries = [n \in Node |-> 0] /\ oks = [n \in Node |-> 0]
  BY DEF Init, Fresh
<1>2. snap.st = st /\ snap.att = att /\ snap.loops = loops /\ snap.final = final
  BY <1>1 DEF Fresh
<1>3. dag \in Dag
  BY <1>1, TaskGraphAssumption
<1>4. dag.iters \in Nat \ {0} /\ dag.retries \in Nat /\ dag.body \in [Node -> SUBSET Node]
  BY <1>3 DEF Dag
<1>5. NoLoop \in [active: BOOLEAN, iteration: 0 .. dag.iters]
  BY <1>4 DEF NoLoop
<1>6. TypeOK
  <2>1. resumed \in BOOLEAN /\ cancel \in BOOLEAN
    BY Zenon DEF Init
  <2>2. st \in [Node -> Status] /\ att \in [Node -> Nat] /\ final \in Final
    BY <1>1 DEF Status, Final
  <2>3. loops \in [Node -> [active: BOOLEAN, iteration: 0 .. dag.iters]]
    BY <1>1, <1>5
  <2>4. snap \in [st: [Node -> Status], att: [Node -> Nat],
                  loops: [Node -> [active: BOOLEAN, iteration: 0 .. dag.iters]], final: Final]
    BY <1>1, <2>2, <2>3 DEF Fresh
  <2>5. PlaceType
    BY <1>1, <2>2, TaskGraphAssumption DEF PlaceType
  <2> QED
    BY <1>1, <2>1, <2>2, <2>3, <2>4, <2>5, Zenon DEF TypeOK, PlaceType
<1>7. \A n \in Node : /\ st[n] = "pending" /\ snap.st[n] = "pending" /\ tries[n] = 0 /\ oks[n] = 0
                      /\ loops[n].active = FALSE /\ loops[n].iteration = 0
  BY <1>1, <1>2 DEF NoLoop
<1>8. PlaceSound
  BY <1>1, <1>7 DEF PlaceSound, Saving
<1>9. LoopSound(st, loops) /\ LoopSound(snap.st, snap.loops)
  BY <1>2, <1>7 DEF LoopSound
<1>10. ApartSound /\ DepsDone
  <2>1. \A l \in Node : \A b \in dag.body[l] : st[b] = "pending"
    BY <1>4, <1>7
  <2> QED
    BY <1>1, <1>2, <1>7, <2>1 DEF ApartSound, DepsDone, LoopFirst, SkipSound, BatchSound
<1>11. RetrySound
  <2>1. \A n \in Node : Tried(st[n], att[n]) \in Nat
    BY <1>1, <1>6, <1>7, TriedIs, TypeIs
  <2>2. (dag.retries + 1) * crashes \in Nat
    BY <1>6, Spent
  <2> QED
    BY <1>7, <2>1, <2>2 DEF RetrySound
<1>12. StoredSound
  BY <1>2, <1>7 DEF StoredSound
<1>13. FinalSound
  BY <1>1, <1>2 DEF FinalSound
<1>14. RepeatSound
  <2>1. \A n \in Node : Rounded(st, loops, n) \in Nat
    BY <1>6, TypeIs, RoundedIs
  <2>2. \A n \in Node : 1 .. oks[n] - Rounded(st, loops, n) = {}
    BY <1>7, <2>1
  <2>3. Excess(oks, st, loops) = {}
    BY <2>2 DEF Excess
  <2> QED
    BY <1>1, <1>2, <2>3, FS_EmptySet DEF RepeatSound, Bounded, Saving
<1> QED
  BY <1>6, <1>8, <1>9, <1>10, <1>11, <1>12, <1>13, <1>14 DEF IInv

LEMMA NextInv == IInv /\ [Next]_vars => IInv'
<1> SUFFICES ASSUME IInv, [Next]_vars PROVE IInv'
  OBVIOUS
<1>1. /\ TypeOK /\ PlaceSound /\ LoopSound(st, loops) /\ LoopSound(snap.st, snap.loops)
      /\ ApartSound /\ DepsDone /\ RetrySound /\ StoredSound /\ FinalSound /\ RepeatSound
  BY DEF IInv
<1>2. dag' = dag
  BY DagFixed
<1>3. TypeOK' /\ PlaceSound'
  BY <1>1, TypeNext, PlaceNext
<1>4. LoopSound(st, loops)' /\ LoopSound(snap.st, snap.loops)'
  BY <1>1, LoopSoundNext
<1>5. ASSUME LoopsApart
      PROVE  /\ LoopFirst(st') /\ LoopFirst(snap'.st) /\ SkipSound(st') /\ SkipSound(snap'.st)
             /\ BatchSound'
             /\ \A n \in Node : st'[n] = "running" => \A d \in dag.deps[n] : st'[d] = "done"
  <2>1. /\ LoopFirst(st) /\ LoopFirst(snap.st) /\ SkipSound(st) /\ SkipSound(snap.st) /\ BatchSound
        /\ \A n \in Node : st[n] = "running" => \A d \in dag.deps[n] : st[d] = "done"
    BY <1>1, <1>5 DEF ApartSound, DepsDone
  <2>2. LoopFirst(st') /\ LoopFirst(snap'.st)
    BY <1>1, <1>5, <2>1, LoopFirstNext
  <2>3. SkipSound(st') /\ SkipSound(snap'.st)
    BY <1>1, <2>1, SkipNext
  <2>4. BatchSound'
    BY <1>1, <2>1, BatchNext
  <2>5. \A n \in Node : st'[n] = "running" => \A d \in dag.deps[n] : st'[d] = "done"
    BY <1>1, <2>1, DepsNext
  <2> QED
    BY <2>2, <2>3, <2>4, <2>5
<1>6. ApartSound'
  <2>1. LoopsApart' => /\ LoopFirst(st)' /\ LoopFirst(snap.st)' /\ SkipSound(st)' /\ SkipSound(snap.st)'
                       /\ BatchSound'
    BY <1>2, <1>5, GraphFixed
  <2> QED
    BY <2>1 DEF ApartSound
<1>7. DepsDone'
  <2>1. LoopsApart' => LoopsApart
    BY <1>2, GraphFixed
  <2> QED
    BY <1>2, <1>5, <2>1 DEF DepsDone
<1>8. RetrySound' /\ StoredSound' /\ FinalSound'
  BY <1>1, RetryNext, StoredNext, FinalNext
<1>9. RepeatSound'
  <2>1. LoopsApart => LoopFirst(st)
    BY <1>1 DEF ApartSound
  <2> QED
    BY <1>1, <1>3, <2>1, RepeatNext
<1> QED
  BY <1>3, <1>4, <1>6, <1>7, <1>8, <1>9 DEF IInv

LEMMA Invariance == Spec => []IInv
  BY InitInv, NextInv, PTL DEF Spec

\* The memory of the executor, its place and the file always have their
\* types; in particular no loop passes its max_iterations.
THEOREM TypeCorrect == Spec => []TypeOK
<1>1. IInv => TypeOK
  BY DEF IInv
<1> QED
  BY <1>1, Invariance, PTL

\* Whatever gates, loops, crashes and resumes did since get_ready_nodes was
\* asked: while a node runs, every node it depends on is done.
THEOREM DepsDoneHolds == Spec => []DepsDone
<1>1. IInv => DepsDone
  BY DEF IInv
<1> QED
  BY <1>1, Invariance, PTL

\* _persist_after_node: n crashes repeat the effects of at most n nodes, for
\* any graph, any width of the batch and any number of resumes.
THEOREM RepeatsBounded == Spec => []RepeatsBoundedByCrashes
<1>1. ASSUME IInv PROVE RepeatsBoundedByCrashes
  <2> SUFFICES ASSUME LoopsApart PROVE Cardinality(Repeats) <= crashes
    BY DEF RepeatsBoundedByCrashes
  <2>1. TypeOK /\ PlaceSound /\ RepeatSound
    BY <1>1 DEF IInv
  <2>2. crashes \in Nat /\ snap.loops \in LoopType
    BY <2>1, TaskGraphAssumption DEF TypeOK, LoopType
  <2>3. \A s : \A lp \in LoopType : Repeats \subseteq Excess(oks, s, lp)
    <3> SUFFICES ASSUME NEW s, NEW lp \in LoopType, NEW x \in Repeats PROVE x \in Excess(oks, s, lp)
      OBVIOUS
    <3>1. PICK n \in Node : \E k \in 1 .. oks[n] - Rounds(n) : x = <<n, k>>
      BY DEF Repeats
    <3>2. /\ oks[n] \in Nat /\ Rounds(n) \in Nat /\ Rounded(s, lp, n) \in Nat
          /\ Rounded(s, lp, n) <= Rounds(n)
      BY <2>1, TypeIs, RoundedIs
    <3>3. 1 .. oks[n] - Rounds(n) \subseteq 1 .. oks[n] - Rounded(s, lp, n)
      BY <3>2
    <3>4. \E k \in 1 .. oks[n] - Rounded(s, lp, n) : x = <<n, k>>
      BY <3>1, <3>3
    <3> QED
      BY <3>4, ExcessIs
  <2>4. \E s : \E lp \in LoopType : Bounded(Excess(oks, s, lp), crashes)
    <3>1. CASE Live
      BY <2>1, <3>1, TypeIs DEF RepeatSound
    <3>2. CASE ~Live
      <4>1. ~Saving /\ crashes + 0 = crashes
        BY <2>2, <3>2 DEF Live, Saving
      <4>2. Bounded(Excess(oks, snap.st, snap.loops), crashes)
        BY <2>1, <4>1 DEF RepeatSound
      <4> QED
        BY <2>2, <4>2
    <3> QED
      BY <3>1, <3>2
  <2>5. Bounded(Repeats, crashes)
    BY <2>2, <2>3, <2>4, BoundedSub
  <2> QED
    BY <2>5 DEF Bounded
<1> QED
  BY <1>1, Invariance, PTL

\* max_retries holds over crashes and resumes, in calls of the dispatcher:
\* each crash allows for at most max_retries + 1 attempts more, of two calls.
THEOREM RetryBounded == Spec => []RetryBound
<1>1. ASSUME IInv PROVE RetryBound
  <2> SUFFICES ASSUME NEW n \in Node \ Bodies
               PROVE  tries[n] <= 2 * ((dag.retries + 1) * (crashes + 1))
    BY DEF RetryBound
  <2> DEFINE Base == (dag.retries + 1) * crashes
  <2>1. TypeOK /\ PlaceSound /\ RetrySound
    BY <1>1 DEF IInv
  <2>2. tries[n] <= 2 * (Base + (IF Live THEN Tried(st[n], att[n]) ELSE 0))
    BY <2>1 DEF RetrySound
  <2>3. Base \in Nat /\ (dag.retries + 1) * (crashes + 1) = Base + (dag.retries + 1)
    BY <2>1, Spent
  <2> HIDE DEF Base
  <2>4. tries[n] \in Nat /\ att[n] \in Nat /\ dag.retries \in Nat /\ (st[n] = "running" => att[n] > 0)
    BY <2>1, TypeIs DEF PlaceSound
  <2>5. Tried(st[n], att[n]) \in 0 .. dag.retries + 1
    BY <2>1, <2>4, TriedIs
  <2>6. tries[n] <= 2 * (Base + (dag.retries + 1))
    BY <2>2, <2>3, <2>4, <2>5
  <2> QED
    BY <2>3, <2>6
<1> QED
  BY <1>1, Invariance, PTL

\* What the state file says is done is not dispatched again, by the run that
\* wrote it or by a resume.
THEOREM StoredDoneKept == Spec => StoredDoneStays
<1>1. ASSUME IInv, [Next]_vars
      PROVE  [\A n \in Node \ Bodies : snap.st[n] = "done" => tries'[n] = tries[n]]_vars
  <2>1. TypeOK /\ PlaceSound /\ StoredSound
    BY <1>1 DEF IInv
  <2>2. CASE Moves
    <3>1. \A n \in Node \ Bodies : snap.st[n] = "done" => st[n] = "done"
      BY <2>1, <2>2 DEF StoredSound, Moves
    <3>2. \A n \in Node \ Bodies : snap.st[n] = "done" => tries'[n] = tries[n]
      BY <2>2, <3>1, DoneStays
    <3> QED
      BY <3>2
  <2>3. CASE Rests \/ SaveDump \/ Crash \/ Resume
    <3>1. tries' = tries
      BY <2>3 DEF Rests, SaveDump, Crash, Resume, history
    <3> QED
      BY <3>1
  <2> QED
    BY <1>1, <2>1, <2>2, <2>3, StepKinds
<1> QED
  BY <1>1, Invariance, PTL DEF Spec, StoredDoneStays

\* compute_final_run_status: a run that is stored as completed left out only
\* what a gate decided against, and a task that is done was dispatched.
THEOREM CompletedHolds == Spec => []CompletedMeansDone
<1>1. ASSUME IInv PROVE CompletedMeansDone
  <2> SUFFICES ASSUME LoopsApart, snap.final = "completed", NEW n \in Node \ Gated
               PROVE  /\ snap.st[n] \in {"done", "blocked"}
                      /\ dag.kind[n] = "task" /\ snap.st[n] = "done" => oks[n] > 0
    BY DEF CompletedMeansDone
  <2>1. AllOver(snap.st, snap.loops) /\ SkipSound(snap.st) /\ StoredSound
    BY <1>1 DEF IInv, FinalSound, ApartSound
  <2>2. \A f \in Node : snap.st[f] \in {"done", "skipped", "blocked"}
    BY <2>1 DEF AllOver
  <2>3. snap.st[n] # "skipped"
    <3>1. \A f \in Node : snap.st[f] # "failed"
      BY <2>2
    <3>2. ~Excused(snap.st, n)
      BY <3>1 DEF Excused
    <3> QED
      BY <2>1, <3>2 DEF SkipSound
  <2> QED
    BY <2>1, <2>2, <2>3 DEF StoredSound
<1> QED
  BY <1>1, Invariance, PTL

\* get_ready_nodes and the failure modes: what no gate left out is skipped
\* only behind a node that has failed.
THEOREM SkippedHolds == Spec => []SkippedBehindFailure
<1>1. ASSUME IInv PROVE SkippedBehindFailure
  <2>1. LoopsApart => SkipSound(st)
    BY <1>1 DEF IInv, ApartSound
  <2> QED
    BY <2>1 DEF SkipSound, Excused, SkippedBehindFailure
<1> QED
  BY <1>1, Invariance, PTL
=============================================================================
