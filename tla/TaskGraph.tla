----------------------------- MODULE TaskGraph -----------------------------
(***************************************************************************)
(* The DAG executor of hg_core/task_graph: TaskGraphExecutor.run and its   *)
(* _run_loop, resume, and the StateStore file that carries a run over a    *)
(* crash.  The executor is one thread.  What can happen to it from outside *)
(* is a cancel request (a file an operator writes), a crash at any point   *)
(* and a later resume.                                                     *)
(*                                                                         *)
(* What a dispatched task does is data: an attempt succeeds, fails or      *)
(* raises, is blocked (steering, or unresolved inputs under the "blocked"  *)
(* binding mode), is denied by the stakes gate, or exceeds the budget, and *)
(* every one of these is a choice.  The condition of a gate or a loop is a *)
(* choice as well.  Node ids are numbers, because the executor sorts them. *)
(***************************************************************************)
EXTENDS Naturals, FiniteSets

CONSTANTS
  Node,         \* the node ids of the graph
  Dags,         \* the validated graphs, each with its run policy
  MaxCrashes,   \* bound on crashes
  MaxResumes    \* bound on calls of resume

Status == {"pending", "ready", "running", "done", "failed", "skipped", "blocked"}
Final  == {"none", "completed", "partial", "failed", "cancelled"}

(* A graph of tasks, gates and loops with its run policy.  cap = 0 stands  *)
(* for no max_node_executions, timed for a max_total_runtime_s, stop for   *)
(* loop_policy_on_body_failure = "stop_loop", typeerr for the tasks whose  *)
(* dispatch may raise a TypeError.                                         *)
Dag ==
  [kind: [Node -> {"task", "gate", "loop"}],
   deps: [Node -> SUBSET Node],
   yes: [Node -> SUBSET Node], no: [Node -> SUBSET Node],
   body: [Node -> SUBSET Node],
   mode: {"fail_fast", "continue"}, width: Nat \ {0}, cap: Nat,
   retries: Nat, iters: Nat \ {0}, stop: BOOLEAN, pause: SUBSET Node, timed: BOOLEAN,
   typeerr: SUBSET Node]

(* validate_dag: without cycles; a gate has a target; the body of a loop   *)
(* holds no loop, and its nodes depend on the loop and each other only.    *)
Valid(d) ==
  /\ \A S \in SUBSET Node \ {{}} : \E n \in S : d.deps[n] \cap S = {}
  /\ \A n \in Node :
       /\ d.kind[n] = "gate" => d.yes[n] \cup d.no[n] # {}
       /\ d.kind[n] # "gate" => d.yes[n] \cup d.no[n] = {}
       /\ d.kind[n] # "loop" => d.body[n] = {}
       /\ \A b \in d.body[n] : d.kind[b] # "loop" /\ d.deps[b] \subseteq d.body[n] \cup {n}

ASSUME TaskGraphAssumption ==
  /\ Node \subseteq Nat
  /\ IsFiniteSet(Node)
  /\ Dags \subseteq Dag
  /\ \A d \in Dags : Valid(d)
  /\ MaxCrashes \in Nat
  /\ MaxResumes \in Nat

VARIABLES
  dag,      \* the graph of this run
  st, att,  \* node.status and node.attempt_count
  loops,    \* run_state.loop_state
  final,    \* run_state.final_status
  pc,       \* where the executor is
  batch,    \* what is left of to_run
  cur,      \* the node in hand, 0 before the first
  cont,     \* where the executor goes once the state is saved
  execs,    \* execution_count
  resumed,  \* the executor is in resume, not in run
  cancel,   \* cancel.requested.json exists
  file,     \* the state file: absent, torn (truncated, not yet written), whole
  snap,     \* what was last written to it
  crashes, resumes,
  tries,    \* history: calls of the dispatcher for each node
  oks       \* history: dispatches of each node that succeeded

memory  == <<st, att, loops, final, batch, cur, execs, resumed>>
store   == <<file, snap>>
history == <<crashes, resumes, tries, oks>>
vars    == <<dag, memory, pc, cont, cancel, store, history>>

NoLoop == [active |-> FALSE, iteration |-> 0]
Fresh  == [st    |-> [n \in Node |-> "pending"],
           att   |-> [n \in Node |-> 0],
           loops |-> [n \in Node |-> NoLoop],
           final |-> "none"]

Bodies == UNION {dag.body[l] : l \in Node}
Least(S) == CHOOSE n \in S : \A m \in S : n <= m
----------------------------------------------------------------------------
(* The graph algorithms. *)

Waiting == {"pending", "ready"}

(* _propagate_deps_all_skipped: a waiting node all of whose dependencies   *)
(* are skipped is skipped, until nothing changes.  What is skipped in the  *)
(* end is the least set that is closed under that.                         *)
SkipClosed(s, S) ==
  /\ \A n \in Node : s[n] = "skipped" => n \in S
  /\ \A n \in Node : s[n] \in Waiting /\ dag.deps[n] # {} /\ dag.deps[n] \subseteq S => n \in S
Propagate(s) ==
  [n \in Node |-> IF \A S \in SUBSET Node : SkipClosed(s, S) => n \in S THEN "skipped" ELSE s[n]]

(* Mutant: a skipped dependency counts as done. *)
MutReady(s) == {n \in Node : /\ s[n] \in Waiting
                             /\ \A d \in dag.deps[n] : s[d] \in {"done", "skipped"}}

(* Mutant: a blocked node is offered again. *)
MutReadyBlocked(s) == {n \in Node : /\ s[n] \in {"pending", "ready", "blocked"}
                                    /\ \A d \in dag.deps[n] : s[d] = "done"}

(* get_ready_nodes, after its propagation: the waiting nodes whose         *)
(* dependencies are all done.  (A node with a failed dependency is never   *)
(* among them, so the test for continue mode excludes nothing more.)       *)
Ready(s) == {n \in Node : /\ s[n] \in Waiting
                          /\ \A d \in dag.deps[n] : s[d] = "done"}

(* ready[:max_concurrency] of the sorted list. *)
FirstOf(S, k) == {n \in S : Cardinality({m \in S : m < n}) < k}

(* _reachable_from over _successors_by_id: the least set with the seeds    *)
(* that holds what depends on one of its nodes.                            *)
Closed(seeds, S) ==
  seeds \subseteq S /\ \A n \in Node : dag.deps[n] \cap S # {} => n \in S
Reachable(seeds) == {n \in Node : \A S \in SUBSET Node : Closed(seeds, S) => n \in S}

(* What a gate that took one side skips: what only the other side reaches. *)
GateSkips(n, taken, s) ==
  LET on  == IF taken THEN dag.yes[n] ELSE dag.no[n]
      off == IF taken THEN dag.no[n] ELSE dag.yes[n]
  IN  {m \in Reachable(off) \ Reachable(on) : s[m] \notin {"done", "failed", "skipped"}}

(* Mutant: what waits for a blocked node is skipped as well. *)
MutSkipDownstream(s) ==
  [n \in Node |-> IF s[n] = "pending" /\ \E d \in dag.deps[n] : s[d] \in {"failed", "blocked"}
                    THEN "skipped" ELSE s[n]]

(* continue mode, nothing ready: what waits for a failed node is skipped. *)
SkipDownstream(s) ==
  [n \in Node |-> IF s[n] = "pending" /\ \E d \in dag.deps[n] : s[d] = "failed"
                    THEN "skipped" ELSE s[n]]

(* _get_loop_body_complete *)
CompleteLoops(s) ==
  {l \in Node : /\ loops[l].active
                /\ dag.body[l] # {}
                /\ \A b \in dag.body[l] : s[b] \in {"done", "skipped"}}

ResetBody(l, s) == [n \in Node |-> IF n \in dag.body[l] THEN "pending" ELSE s[n]]
ResetAtt(l)     == [n \in Node |-> IF n \in dag.body[l] THEN 0 ELSE att[n]]

(* Mutant: only failures are looked at. *)
MutFinalStatus(s) ==
  IF \A n \in Node : s[n] # "failed" THEN "completed"
  ELSE IF dag.mode = "fail_fast" THEN "failed" ELSE "partial"

(* compute_final_run_status *)
FinalStatus(s) ==
  CASE \E n \in Node : s[n] = "failed" ->
         IF dag.mode = "fail_fast" THEN "failed" ELSE "partial"
    [] \A n \in Node : s[n] \in {"done", "skipped", "blocked"} -> "completed"
    [] OTHER -> "partial"
----------------------------------------------------------------------------
(* run: every node is pending and nothing is on disk. *)
Init ==
  /\ dag \in Dags
  /\ st = Fresh.st /\ att = Fresh.att /\ loops = Fresh.loops /\ final = Fresh.final
  /\ pc = "top" /\ batch = {} /\ cur = 0 /\ cont = "top"
  /\ execs = 0 /\ resumed = FALSE /\ cancel = FALSE
  /\ file = "absent" /\ snap = Fresh
  /\ crashes = 0 /\ resumes = 0
  /\ tries = [n \in Node |-> 0] /\ oks = [n \in Node |-> 0]

(* Every exit and every finished node saves the state and then goes on at  *)
(* the place given.                                                        *)
SaveThen(place) == pc' = "open" /\ cont' = place

(* Within to_run the loop goes on; at its end the main loop starts again. *)
After(b) == IF b = {} THEN "top" ELSE "batch"
----------------------------------------------------------------------------
(* The top of the main loop. *)

AtTop == pc = "top" /\ UNCHANGED <<dag, batch, cur, execs, resumed, cancel, store, history>>

(* _handle_cancel *)
Cancelled ==
  /\ AtTop /\ cancel
  /\ final' = "cancelled" /\ SaveThen("ended")
  /\ UNCHANGED <<st, att, loops>>

(* _check_runtime_cap *)
RuntimeExceeded ==
  /\ AtTop /\ ~cancel /\ dag.timed
  /\ final' = "failed" /\ SaveThen("ended")
  /\ UNCHANGED <<st, att, loops>>

(* The cap on node executions, which only _run_loop tests. *)
CapReached == ~resumed /\ dag.cap > 0 /\ execs >= dag.cap

OverCap ==
  /\ AtTop /\ ~cancel /\ CapReached
  /\ st' = Propagate(st)
  /\ final' = "failed" /\ SaveThen("ended")
  /\ UNCHANGED <<att, loops>>

Schedule ==
  /\ pc = "top" /\ ~cancel /\ ~CapReached
  /\ Ready(Propagate(st)) # {}
  /\ st' = Propagate(st)
  /\ batch' = FirstOf(Ready(Propagate(st)), dag.width)
  /\ pc' = "batch"
  /\ UNCHANGED <<dag, att, loops, final, cur, cont, execs, resumed, cancel, store, history>>

(* Nothing is ready; no node is running here, so that test never breaks    *)
(* the loop, and skipping makes no node ready.                             *)
Idle == IF dag.mode = "continue"
          THEN Propagate(SkipDownstream(Propagate(st))) ELSE Propagate(st)
NothingReady == ~cancel /\ ~CapReached /\ Ready(Propagate(st)) = {}

(* Mutant: one iteration too many. *)
MutAdvanceLoop(l) ==
  /\ AtTop /\ NothingReady
  /\ l \in CompleteLoops(Idle)
  /\ loops[l].iteration <= dag.iters
  /\ loops' = [loops EXCEPT ![l].iteration = @ + 1]
  /\ st' = ResetBody(l, Idle) /\ att' = ResetAtt(l)
  /\ UNCHANGED <<final, pc, cont>>

(* _advance_loop: the next iteration, or the loop is over. *)
AdvanceLoop(l) ==
  /\ AtTop /\ NothingReady
  /\ l \in CompleteLoops(Idle)
  /\ \/ /\ loops[l].iteration < dag.iters
        /\ loops' = [loops EXCEPT ![l].iteration = @ + 1]
        /\ st' = ResetBody(l, Idle) /\ att' = ResetAtt(l)
     \/ /\ loops' = [loops EXCEPT ![l].active = FALSE]
        /\ st' = Idle /\ UNCHANGED att
  /\ UNCHANGED <<final, pc, cont>>

Finish ==
  /\ AtTop /\ NothingReady
  /\ CompleteLoops(Idle) = {}
  /\ st' = Idle
  /\ final' = FinalStatus(Idle) /\ SaveThen("ended")
  /\ UNCHANGED <<att, loops>>
----------------------------------------------------------------------------
(* One node of to_run. *)

(* A node that a gate or a stopped loop has skipped since to_run was       *)
(* computed is passed over: can_transition refuses it.                     *)
PassOver ==
  /\ pc = "batch"
  /\ st[Least(batch)] \notin Waiting
  /\ batch' = batch \ {Least(batch)}
  /\ pc' = After(batch')
  /\ UNCHANGED <<dag, st, att, loops, final, cur, cont, execs, resumed, cancel, store, history>>

StartNode ==
  /\ pc = "batch"
  /\ LET n == Least(batch) IN
       /\ st[n] \in Waiting
       /\ st' = [st EXCEPT ![n] = "running"]
       /\ att' = [att EXCEPT ![n] = @ + 1]
       /\ batch' = batch \ {n}
       /\ cur' = n
  /\ execs' = IF resumed THEN execs ELSE execs + 1
  /\ pc' = "node"
  /\ UNCHANGED <<dag, loops, final, cont, resumed, cancel, store, history>>

InNode(kind) ==
  /\ pc = "node" /\ dag.kind[cur] = kind
  /\ UNCHANGED <<dag, batch, cur, execs, resumed, cancel, store, crashes, resumes>>

(* _should_pause(..., "after"), for a gate and for a task. *)
AfterNode == IF cur \in dag.pause THEN "paused" ELSE After(batch)

RunGate ==
  /\ InNode("gate")
  /\ \E taken \in BOOLEAN :
       st' = [Propagate([n \in Node |->
                IF n \in GateSkips(cur, taken, st) THEN "skipped" ELSE st[n]])
              EXCEPT ![cur] = "done"]
  /\ SaveThen(AfterNode)
  /\ UNCHANGED <<att, loops, final, tries, oks>>

(* A loop node is done at once; its body runs while the loop is active. *)
RunLoop ==
  /\ InNode("loop")
  /\ \/ /\ loops' = [loops EXCEPT ![cur] = [active |-> TRUE, iteration |-> 1]]
        /\ st' = [ResetBody(cur, st) EXCEPT ![cur] = "done"] /\ att' = ResetAtt(cur)
     \/ /\ loops' = [loops EXCEPT ![cur] = NoLoop]
        /\ st' = [st EXCEPT ![cur] = "done"] /\ UNCHANGED att
  /\ SaveThen(After(batch))
  /\ UNCHANGED <<final, tries, oks>>

(* Steering blocks the node, or its inputs stay unresolved under the       *)
(* "blocked" binding mode.                                                 *)
BlockTask ==
  /\ InNode("task")
  /\ st' = [st EXCEPT ![cur] = "blocked"]
  /\ SaveThen(After(batch))
  /\ UNCHANGED <<att, loops, final, tries, oks>>

(* check_before_dispatch refuses: the run fails with the node running. *)
BudgetExceeded ==
  /\ InNode("task")
  /\ final' = "failed" /\ SaveThen("ended")
  /\ UNCHANGED <<st, att, loops, tries, oks>>

(* The stakes gate, which only _run_loop asks, denies the node.  The run   *)
(* goes on, in either failure mode.                                        *)
StakesDenied ==
  /\ InNode("task") /\ ~resumed
  /\ st' = [st EXCEPT ![cur] = "failed"]
  /\ SaveThen(After(batch))
  /\ UNCHANGED <<att, loops, final, tries, oks>>

(* _call_dispatcher: a TypeError, also one from inside the task, makes it  *)
(* call the dispatcher again, within the same attempt.                     *)
CallDispatcher ==
  \E calls \in 1 .. (IF cur \in dag.typeerr THEN 2 ELSE 1) :
    tries' = [tries EXCEPT ![cur] = @ + calls]

(* Mutant: nothing is saved before the batch is through. *)
MutDispatchSucceeds ==
  /\ InNode("task")
  /\ CallDispatcher
  /\ oks' = [oks EXCEPT ![cur] = @ + 1]
  /\ st' = [st EXCEPT ![cur] = "done"]
  /\ IF batch = {} THEN SaveThen(AfterNode) ELSE pc' = "batch" /\ UNCHANGED cont
  /\ UNCHANGED <<att, loops, final>>

DispatchSucceeds ==
  /\ InNode("task")
  /\ CallDispatcher
  /\ oks' = [oks EXCEPT ![cur] = @ + 1]
  /\ st' = [st EXCEPT ![cur] = "done"]
  /\ SaveThen(AfterNode)
  /\ UNCHANGED <<att, loops, final>>

(* The dispatcher fails or raises, or is not called because the inputs     *)
(* are unresolved under the "strict" binding mode, which counts the same.  *)
DispatchFails ==
  /\ InNode("task")
  /\ CallDispatcher
  /\ UNCHANGED oks

(* Mutant: off by one. *)
MutRetry ==
  /\ DispatchFails
  /\ att[cur] <= dag.retries + 1
  /\ st' = [st EXCEPT ![cur] = "ready"]
  /\ pc' = After(batch)
  /\ UNCHANGED <<att, loops, final, cont>>

(* attempt_count <= max_retries: back to ready, and nothing is saved. *)
Retry ==
  /\ DispatchFails
  /\ att[cur] <= dag.retries
  /\ st' = [st EXCEPT ![cur] = "ready"]
  /\ pc' = After(batch)
  /\ UNCHANGED <<att, loops, final, cont>>

FailFast ==
  /\ DispatchFails
  /\ att[cur] > dag.retries /\ dag.mode = "fail_fast"
  /\ st' = [n \in Node |-> IF n = cur THEN "failed"
                           ELSE IF st[n] = "pending" /\ cur \in dag.deps[n] THEN "skipped"
                           ELSE st[n]]
  /\ final' = "failed" /\ SaveThen("ended")
  /\ UNCHANGED <<att, loops>>

(* continue mode; under "stop_loop" the failure of a body node stops its   *)
(* loop, under the other two policies nothing more happens.                *)
FailAndGoOn ==
  /\ DispatchFails
  /\ att[cur] > dag.retries /\ dag.mode = "continue"
  /\ LET mine == {l \in Node : dag.stop /\ cur \in dag.body[l]} IN
       /\ st' = [n \in Node |->
                  IF n = cur THEN "failed"
                  ELSE IF st[n] \in Waiting /\ \E l \in mine : n \in dag.body[l]
                    THEN "skipped" ELSE st[n]]
       /\ loops' = [l \in Node |-> IF l \in mine
                                     THEN [loops[l] EXCEPT !.active = FALSE] ELSE loops[l]]
  /\ SaveThen(After(batch))
  /\ UNCHANGED <<att, final>>
----------------------------------------------------------------------------
(* StateStore.save: open(path, "w") truncates the file, json.dump writes   *)
(* it.  In between there is no whole state on disk.                        *)
SaveOpen ==
  /\ pc = "open"
  /\ file' = "torn" /\ pc' = "write"
  /\ UNCHANGED <<dag, memory, cont, cancel, snap, history>>

SaveDump ==
  /\ pc = "write"
  /\ file' = "whole"
  /\ snap' = [st |-> st, att |-> att, loops |-> loops, final |-> final]
  /\ pc' = cont
  /\ UNCHANGED <<dag, memory, cont, cancel, history>>

Working == pc \in {"top", "batch", "node", "open", "write"}

(* The process dies: only the file is left. *)
Crash ==
  /\ Working /\ crashes < MaxCrashes
  /\ crashes' = crashes + 1
  /\ pc' = "down"
  /\ st' = Fresh.st /\ att' = Fresh.att /\ loops' = Fresh.loops /\ final' = Fresh.final
  /\ batch' = {} /\ execs' = 0 /\ cont' = "top"
  /\ UNCHANGED <<dag, cur, resumed, cancel, store, resumes, tries, oks>>

(* Mutant: only the attempt counts are taken over. *)
MutResume ==
  /\ pc \in {"down", "paused", "ended"} /\ resumes < MaxResumes
  /\ file = "whole"
  /\ st' = Fresh.st
  /\ att' = snap.att /\ loops' = snap.loops /\ final' = snap.final
  /\ batch' = {} /\ execs' = 0 /\ resumed' = TRUE /\ pc' = "top"
  /\ resumes' = resumes + 1
  /\ UNCHANGED <<dag, cur, cont, cancel, store, crashes, tries, oks>>

(* resume: load the file; what was running is ready again. *)
Resume ==
  /\ pc \in {"down", "paused", "ended"} /\ resumes < MaxResumes
  /\ file = "whole"
  /\ st' = [n \in Node |-> IF snap.st[n] = "running" THEN "ready" ELSE snap.st[n]]
  /\ att' = snap.att /\ loops' = snap.loops /\ final' = snap.final
  /\ batch' = {} /\ execs' = 0 /\ resumed' = TRUE /\ pc' = "top"
  /\ resumes' = resumes + 1
  /\ UNCHANGED <<dag, cur, cont, cancel, store, crashes, tries, oks>>

(* No file: run_not_found.  A torn file: json.load raises.  Either way the *)
(* run cannot be resumed.                                                  *)
ResumeFails ==
  /\ pc = "down" /\ file # "whole"
  /\ pc' = "lost"
  /\ UNCHANGED <<dag, memory, cont, cancel, store, history>>

(* An operator writes cancel.requested.json. *)
RequestCancel ==
  /\ Working /\ ~cancel
  /\ cancel' = TRUE
  /\ UNCHANGED <<dag, memory, pc, cont, store, history>>
----------------------------------------------------------------------------
(* A step of the executor by itself. *)
Step ==
  \/ Cancelled \/ OverCap \/ Schedule \/ Finish
  \/ \E l \in Node : AdvanceLoop(l)
  \/ PassOver \/ StartNode \/ RunGate \/ RunLoop
  \/ BlockTask \/ BudgetExceeded \/ StakesDenied
  \/ DispatchSucceeds \/ Retry \/ FailFast \/ FailAndGoOn
  \/ SaveOpen \/ SaveDump

Next == Step \/ RuntimeExceeded \/ Crash \/ Resume \/ ResumeFails \/ RequestCancel

Spec == Init /\ [][Next]_vars

(* The executor thread keeps running unless it crashes. *)
FairSpec == Spec /\ WF_vars(Step)
----------------------------------------------------------------------------
(* The memory, the file and the place of the executor have their types. *)
TypeOK ==
  /\ dag \in Dags
  /\ st \in [Node -> Status] /\ att \in [Node -> Nat]
  /\ loops \in [Node -> [active: BOOLEAN, iteration: 0 .. dag.iters]]
  /\ final \in Final
  /\ pc \in {"top", "batch", "node", "open", "write", "paused", "ended", "down", "lost"}
  /\ cont \in {"top", "batch", "paused", "ended"}
  /\ batch \in SUBSET Node /\ cur \in Node \cup {0}
  /\ execs \in Nat /\ resumed \in BOOLEAN /\ cancel \in BOOLEAN
  /\ file \in {"absent", "torn", "whole"}
  /\ snap \in [st: [Node -> Status], att: [Node -> Nat],
               loops: [Node -> [active: BOOLEAN, iteration: 0 .. dag.iters]],
               final: Final]
  /\ crashes \in 0 .. MaxCrashes /\ resumes \in 0 .. MaxResumes
  /\ tries \in [Node -> Nat] /\ oks \in [Node -> Nat]

(* The loops keep to themselves: a body node waits for its loop, and no    *)
(* two loops share it.  validate_dag asks for neither.                     *)
LoopsApart ==
  \A l \in Node : \A b \in dag.body[l] :
    dag.deps[b] # {} /\ \A m \in Node : b \in dag.body[m] => m = l

(* A node only runs on what it depends on: while it runs every dependency  *)
(* is done, whatever a gate of the same batch, a loop that started over, a *)
(* crash or a resume did since the batch was computed.  (A body node that  *)
(* does not wait for its loop may be done before the loop is run, which    *)
(* puts it back; a node of the same batch that depends on it starts all    *)
(* the same.)                                                              *)
DepsDone ==
  LoopsApart =>
    \A n \in Node : st[n] = "running" => \A d \in dag.deps[n] : st[d] = "done"

(* How often a node may succeed in a run without crashes: once, in a loop  *)
(* body once per iteration.                                                *)
Rounds(n) == IF n \in Bodies THEN dag.iters ELSE 1

(* The successes beyond that, over all nodes. *)
Repeats == UNION {{n} \X (1 .. oks[n] - Rounds(n)) : n \in Node}

(* _persist_after_node writes after every node: over all crashes, pauses   *)
(* and resumes of a run, each crash repeats the effect of at most one      *)
(* node, the one in hand, however wide the batch is.                       *)
RepeatsBoundedByCrashes == LoopsApart => Cardinality(Repeats) <= crashes

(* max_retries holds over the whole run: a node outside a loop has         *)
(* max_retries + 1 attempts, of two calls of the dispatcher at most, and   *)
(* that many again only for a crash that took the attempt count with it.   *)
RetryBound ==
  \A n \in Node \ Bodies : tries[n] <= 2 * ((dag.retries + 1) * (crashes + 1))

(* A node that the file says is done is not dispatched again, by the run   *)
(* that goes on or by any resume, unless a loop starts it over.            *)
StoredDoneStays ==
  [][\A n \in Node \ Bodies :
       snap.st[n] = "done" => tries'[n] = tries[n]]_vars

(* What a gate may leave out, and what hangs off that. *)
Gated == Reachable(UNION {dag.yes[g] \cup dag.no[g] : g \in Node})

(* A run that is stored as completed did everything no gate left out:      *)
(* every other node is done, a task among them after a successful          *)
(* dispatch, or was blocked.  In particular no node was skipped because of *)
(* a failure.                                                              *)
CompletedMeansDone ==
  LoopsApart /\ snap.final = "completed" =>
    \A n \in Node \ Gated :
      /\ snap.st[n] \in {"done", "blocked"}
      /\ dag.kind[n] = "task" /\ snap.st[n] = "done" => oks[n] > 0

(* The nodes that a failure of f takes down with it: under "stop_loop" the *)
(* rest of the body it is in.                                              *)
Mates(f) == {f} \cup UNION {dag.body[l] : l \in {m \in Node : dag.stop /\ f \in dag.body[m]}}

(* A node is skipped for a reason: if no gate left it out, some node it    *)
(* depends on, directly or not, has failed or went down with one that has. *)
SkippedBehindFailure ==
  LoopsApart =>
    \A n \in Node \ Gated :
      st[n] = "skipped" =>
        \E f \in Node : st[f] = "failed" /\ n \in Reachable(Mates(f))

(* max_node_executions, as the contract for execution artifacts states it: *)
(* no further node starts once the count is reached.                       *)
NodeExecutionCap == dag.cap > 0 => execs <= dag.cap

(* The executor always stops: no gate, retry or loop keeps it running.     *)
Termination == Working ~> ~Working
============================================================================
