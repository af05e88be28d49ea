# Hydrogenuine: authority path, admission, task graphs and run scheduling in TLA+

Hydrogenuine runs agents under governance. An agent acts on the world only
through an authority path: an operator confirms a policy, a *capability lease* is
minted from it, each action request is evaluated against a lease, an allowed
request gets a short-lived single-use *governed permit*, and the permit is
verified and consumed when the action is dispatched. Effects pass an *admission
controller* that serialises what must not overlap. Work arrives as DAG runs,
which a real-time *scheduler* launches from events and operators' requests, and
which the *task graph executor* carries out node by node over crashes and
resumes. This project models these four parts, checks them with TLC on small
instances and proves their safety with TLAPS for every size. `hg_lease/README.md`
names TLA+ modelling of the lease state machine as future work; this is that work.

## 1. Inventory

| Part (source) | State | Operations | Interacts with |
|---|---|---|---|
| Permit store (`hg_gpp/store.py`, `verifier.py`) | `_permits`, `_revocations`, `_consumed`, `_consume_lock` | `put`, `get`, `revoke`, `consume`; `verify_permit` | called by the permit authority, the lease crossing, the slice-2 dispatch |
| Permit authority (`hg_gpp/engine.py`, `validation.py`) | the store | `issue`, `revoke` | called by the lease authority |
| Lease lifecycle (`hg_lease/lease.py`) | none: a table over immutable leases | `apply_transition`, `consume_use` | used by everything that changes a lease |
| Lease authority (`hg_lease/gpp_bridge.py`) | `_policies`, `_seen_request_ids`, `_minted_permits`, the lease and receipt stores | `mint_lease`, `authorize`, `suspend/resume/expire/revoke_lease`, `revoke_all` | evaluator, permit authority, stores |
| Evaluator (`hg_lease/evaluator.py`), policy language (`policy.py`) | none | `evaluate` | called by `authorize` |
| Situation store and invalidator (`stores.py`, `invalidation.py`) | facts with expiry | `put` → `on_fact_changed` | callback that suspends and resumes leases |
| Delegation (`delegation.py`) | the lease store | `delegate_lease`, `revoke_delegations_of` | writes leases past the authority |
| Crossing (`oea_crossing.py`) | none | `request_action` | authority, permit store, adapters |
| Slice-2 dispatch (`hg_oea/sandbox_dispatch.py`) | none | consumes a permit, then the effect | permit store |
| Admission controller (`hg_core/admission`) | `_locks` with lease ends, `_capability_counts`, `_ter_sandbox_holders`, `_queue`, panic and recovery flags, idempotency records | `request`, `complete`, `release`, `assert_panic`, `begin/end_crr_recovery`, `drain_queues` | asked by the OEA executor and `admission_scope` |
| Task graph executor (`hg_core/task_graph/executor.py`, `state_store.py`, `cancel.py`) | node statuses and attempts, loop state, execution count; the state file; `cancel.requested.json` | `run`, `resume`, the main loop, `save`, `load`, `write_cancel_request` | dispatcher, stakes gate, budget, overseer; run inside a DAG process |
| Scheduler and bus (`hg_realtime/scheduler`, `bus`) | the polled batch, the coalescer's window; the Redis stream and its pending entries | `tick_once`, `publish`, `poll`, `ack` | launcher, runs table |
| Swarm controller (`hg_realtime/swarm/controller.py`) | the children of the plan it runs, in the scheduler thread | `run`, `_wait_for_run` | launcher; reads the children's `summary.json` |
| Launcher, waiter, tracker, cancel, guard (`hg_realtime/integrations`, `leases/store.py`) | run leases, tracker entries, one waiter thread and one process per run | `launch`, `waiter`, `cancel`, `acquire`, `release`, `should_skip_launch` | scheduler, console, runs table |
| Run index (`operator_console/.../run_index_db.py`, `run_ops.py`, `replay_ops.py`) | the runs table: status and run directory | `record_start`, `record_completion`, reconcile, approve, deny, cancel, bulk cancel | shared by worker and console |
| Posting mutex (`hg_core/posting_mutex.py`) | a lock file, pending hashes | `posting_lock` | social posting |
| Gateway, runtime queues, ledgers, HAL, SOAR, LLM, knowledge, memory, CLI, UIs | see `PROJECT.json` | | |

What is hard here: `revoke()` of the permit store takes no lock while `consume()`
does; the lease store locks each `put` and nothing spans a read and the write
that follows it; a revocation, a change of a fact or the passing of time can fall
between a decision and its use; an exception of one transition ends the call it
is in; leases are immutable objects, so callers hold copies that grow old; two
clocks, of which the wall clock may be set back. An admitted request may outlive
the lease of its lock and release it late. The executor may crash between the
effect of a node and the record of it, or in the middle of writing the record; a
gate, a loop or a failure changes nodes that a batch still holds. Worker and
console share a table and a lease store without a lock over both, either may
crash at any point of a launch, and the processes they spawned go on. A process
rewrites its `summary.json` after every node, and reconcile, swarm and waiters read
it without knowing whether the process still works. `PROJECT.json`
lists each of these hazards at its line.

What makes the parts correct: a permit is spent at most once, never after its
revocation, never at or past its expiry; a lease mints no more permits than it
has uses, and none after it ended; a request id is good for one permit; ended
leases stay ended; a child lease stays inside its parent; a lease is not active
on facts that fail its policy; every call ends. A lock stays with its holder until
the lease of the lock ends; counters agree with locks; nothing but panic handling
is admitted in a panic. A node runs on finished dependencies, a crash repeats one
effect at most, a completed run did what it had to, and every run ends. A run is
launched once, the runs table says of a working process only what the disk or an
operator said, one social-media run works at a time, and a run that ended does not
stay active.

## 2. Modules

| Module | Models | Grain |
|---|---|---|
| `SingleUsePermits` | what GPP promises: issue, revoke, spend once before expiry | atomic calls; the abstract specification |
| `PermitStore` | `store.py`, the mint, `verify_permit` and both consuming callers | one step per access to shared state, any number of threads |
| `PermitStore_proofs` | theorems about `PermitStore` | |
| `LeaseLifecycle` | the transition table and the use counter | constant operators |
| `LeaseAuthority` | authority, evaluator, invalidator, delegation, crossing | one action per call |
| `LeaseAuthority_proofs` | theorems about `LeaseAuthority` | |
| `LeaseThreads` | the same calls for threads that share one authority | one step per access to shared state |
| `LeaseThreads_proofs` | theorems about `LeaseThreads` | |
| `AdmissionControl` | `hg_core/admission` with its callers | one step per call under the mutex; the reading of the clock and the recovery flag, which are outside it, are steps of their own |
| `AdmissionControl_proofs` | theorems about `AdmissionControl` | |
| `TaskGraph` | `TaskGraphExecutor.run`, `_run_loop`, `resume`, `StateStore` | one step per node outcome, truncation and writing of the state file apart; crash anywhere |
| `TaskGraph_proofs` | theorems about `TaskGraph` | |
| `RunScheduler` | scheduler, swarm, bus, launcher, waiters, run index, console | one step per database read or write that others can come between, process event or bus call |
| `RunScheduler_proofs` | theorems about `RunScheduler` | |
| `MC…` | instances for TLC | |

`LeaseAuthority` composes the abstract permits by `INSTANCE SingleUsePermits`;
`PermitStore` refines them, so the permits of the lease model are the ones the
code implements. `LeaseThreads` uses an atomic permit store on the same grounds.

### PermitStore

A permit object is immutable and all of it but the status follows from its id, a
hash of the request and the instant of issue; so `permits` maps ids (pairs) to a
status, `revocations` and `consumed` are the other two dictionaries, and each
thread has a program counter and its locals. `IssueMint`/`IssuePut`,
`RevokeGet`/`RevokeMark`/`RevokeWrite`, `CrossingGet`/`CrossingVerified`/
`CrossingRejected`, `Slice2Dispatch` and `ConsumeLock`/`ConsumeAccept`/
`ConsumeReject`/`ConsumeCommit` are the steps. The checks of `consume()` are one
step because only `_revocations` can change while the lock is held. `wins` and
`late` are auxiliary: how many calls were told "consumed", and whether the
permit was already revoked when a call began.

### LeaseAuthority

State: the lease store (`leases`, ids are ranks in insertion order, as the dict
keeps it), `facts`, `seen`, `minted`, the permits, the permits `authorize`
returned and no dispatch has used (`pending`), the receipts, and both clocks.
The crossing is two actions (`Authorize`/`Refuse`, then `Dispatch`/`Reject`),
since anything may happen between the two. `Evaluate` follows the order of the
evaluator's checks; `Refuse` also covers a veto of a restriction hook and a
denial by GPP. `PutFact` runs the invalidator to the end of its loop. `Delegate`
takes the parent object its caller holds, which may be the one `mint_lease`
returned long ago (`ParentObjects`). `ClockBack` sets the wall clock back or
starts the monotonic clock over. `granted` is auxiliary.

Data abstracted: a policy is identified with its hash; a condition is a
conjunction of fact tests and a time window, a part of the language: the compiler also
takes `any_of` and `not` (`condition_from_payload`), which are left to the plan's
`Conditions`; a fact's value is whether its test passes; purpose and numeric limits depend on
the request alone (`fits`); action and object together are a target; receipts
are a set of (subject, outcome) without the hash chain.

### LeaseThreads

Threads are agents (`authorize` and the crossing), operators (`revoke_lease`)
and sensors (`SituationStore.put` with `on_fact_changed`). `TransitionGet`/`Put`
are the two halves of `_transition`; `TransitionRaise` is the exception of
`apply_transition`, which ends the caller. The loop of `revoke_lease` runs over
the live list and sees what is appended meanwhile. A thread makes calls of one kind:
one that asks and revokes in turn does nothing that two threads could not do, since
no call reads what an earlier call of its thread left in locals. `overlap` is auxiliary:
whether a call of an agent or a sensor, the calls that may write a lease back in force,
has begun while another was under way. Leases are minted
before the threads start and no window ends: time is covered by `LeaseAuthority`.

### AdmissionControl

`locks`, `counts`, `holders`, `queue`, `panic`, `crr` and `records` are the fields of
the controller and of its idempotency store; a lock key is the pair of the prefix
`_lock_key` gives it and a resource or request id, so that a capability and a sandbox
of one name have two locks. A thread reads the clock (`Arrive`),
gets the mutex and is refused, queued or granted on that reading (`Refuse`,
`Enqueue`, `Grant`, each of which frees what had expired by then and purges the
records), executes as long as it likes, and then completes and releases or, when
the execution failed, only releases (`Complete`, `ReleaseToken`): that is the
`try/finally` of `OEABoundedExecutor._execute_binding` and of `admission_scope`. Of
the fates of the preemption matrix only "refuse" has an effect in the code;
"preempt", "queue" and "wait" fall through to the grant, and so they do here. A
workload says which requests each thread may make.

### TaskGraph

The state is that of `RunState` and its nodes; `file` and `snap` are what is on disk.
`pc` walks through the main loop: at its top `Cancelled`, `RuntimeExceeded`, `OverCap`,
`Schedule`, `AdvanceLoop` and `Finish`; for a node of the batch `PassOver` or
`StartNode`, then `RunGate`, `RunLoop` or one of the outcomes of a task. Every outcome
but a retry saves: `SaveOpen` truncates the file, `SaveDump` writes it. `Crash` leaves
only the file, `Resume` loads it and enters the copy of the main loop that `resume`
has, which tests neither the cap nor the stakes gate (`resumed`). What a task computes, a
condition evaluates to, or budget, overseer and stakes gate decide is a choice. `Valid`
is `validate_dag` for the parts of a graph that are modelled. What the loop of
`_propagate_deps_all_skipped` and the search of `_reachable_from` compute is defined as the
least set closed under their step, which needs no recursion. `CallDispatcher` is
`_call_dispatcher`: after a TypeError, which a task of `typeerr` may raise from inside, it
calls the dispatcher once more in the same attempt. `tries` (calls of the dispatcher) and
`oks` (successes) are history.

Four properties suppose `LoopsApart`: a body node waits for something, and no two loops
share it. `validate_dag` asks for neither, and section 4 says what happens otherwise;
all graphs of the run satisfy it. `Gated` is what some gate may leave out and what
hangs off that, `Mates` the body nodes a failure takes down with it under "stop_loop".

### RunScheduler

`status` and `dir` are the columns of the runs table that guards read, `stream` and
`pending` the Redis consumer group, `job` the launch each process is in. The worker
is one scheduler thread (`FetchApproved` selects approved rows, `MarkLaunching` marks them
without looking again, `LaunchApproved`, `Poll`, `Handle`), its launch (`Acquire`,
`RecordStart`, `Spawn`, `Register`, or `LaunchRaises` in between), one waiter per run
(`WaiterReturns`, `WaiterReleases`, `RecordCompletion`, `Announce`) and the reconcile
thread. An event for the workflow "swarm" is handed to the controller, which launches the
children one after the other without asking the guard (`SwarmLaunch`) and waits in the
scheduler thread until each has a summary or the plan's time is over (`SwarmWait`,
`SwarmDeadline`, `SwarmEnds`). `GuardPasses` has the guard's two ways to let a run pass:
nothing is in flight, or the table cannot be read (the mishap "blind"; `unseen` remembers
the run). The console launches what its API is asked for, approves, denies, cancels
(`CancelStart`, `CancelStatus`, `CancelFile`) and bulk-cancels. A DAG process writes
summary "completed" after each node (`SaveNode`), then its final one (`WriteSummary`) and
exits, or dies anywhere before that and leaves what the last node wrote, or a torn file
(`Die`); the script it runs is not in the repository. A reconcile goes over a row in two
ways, each in steps that the other writers of the row may come between: the backfill
reads the disk, then the row, then writes (`BackfillDisk`, `BackfillRow`, `FixWrite`); the
repair selects the row, reads the disk, then writes (`RepairSelect`, `RepairRead`,
`FixWrite`). Both may have a row in hand at any time, since the age test of the repair
and the period of the thread are left out; `load.rows` are the rows that are within a
reconcile's limit. `Crash` of worker or console loses what they had in memory.
Routing and the policy gate are choices; a batch of `poll` is the whole stream and the
five rows of an approved batch are all rows, which are larger bounds than any instance.

## 3. Runs

| Run | Instance | Shows |
|---|---|---|
| `permits` | 3 threads, one request, clock 0..1, TTL 1 | `AtMostOneWin`, `RevocationHolds`, `SpentWhileLive`, the refinement of `SingleUsePermits`, `LockReleased` |
| `authority` | 2 leases of 2 policies, 3 terms for a child, 2 agents with a request each, 1 fact, wall clock 0..2, monotonic clock 0..1 | `UseBudget`, `OnePermitPerRequest`, `BoundedTail`, `RevokedNeverActs`, `AfterFactChange`, `SupersededStaysDown`, `DelegationEnvelope`, `TerminalSticky` |
| `lease_threads` | 1 agent, 1 operator, 1 sensor on one lease with one use, clock 0..1 | `EffectsAccounted` |
| `use_limit` | 1 agent with 3 requests, 1 operator, on one lease with two uses | `UseLimit`, `RevokeReaches`, `CallsEnd`, with a list that grows under the loop of `revoke_lease` |
| `admission` | 3 threads, 6 workloads, 4 arrivals, lease and retention 1, queue 1, clock 0..3 | `HolderKeepsLock`, `CapacityRespected`, `CountersMatchLocks`, `PanicClearsLocks`, `CompletedOnce` |
| `task_graph` | 9 graphs of 4 nodes, 1 crash, 2 resumes | `DepsDone`, `RepeatsBoundedByCrashes`, `RetryBound`, `StoredDoneStays`, `CompletedMeansDone`, `SkippedBehindFailure`, `Termination` |
| `run_scheduler` | 9 workloads: 2 runs or a swarm of 2 children and 1 mishap, 1 run and 2 mishaps | `LaunchedOnce`, `OneInSight`, `LeaseTracksRun`, `IndexFollowsDisk` |
| `run_settles` | one run of each kind, 2 mishaps | `RunSettles` |
| `revocation_final`, `execution_cap`, `at_least_once`, `guarded_exclusive` | the smallest instance of each | the four findings below |

Why the bounds suffice. Permits: three threads put an issuer, a revoker and a consumer,
or three consumers, on one permit, and the store treats permits independently; the
approval ends at 1, so the permit is minted at 0 (once or twice, under the same id) and
is used before, at and after its expiry, and the id of instant 1 is never known to the
store. Authority: two leases are a lease and its successor, child or competitor, and the
clock reaches the last instant and the end of a lease's window, of a time window and of
a fact; both clocks move and go back. `TTL` is as long as the clock, so permits outlive
the lease. A lease of two uses loses one and a child with one use is exhausted; a family
of three leases (parent, child and successor) is left to the proofs, which cover any
number. Threads: the lost updates are between two threads on one lease; `Granted = 1`
makes the last use, and with it the exhaust transition, happen; with three requests and
two uses a permit is added to the list that `revoke_lease` is walking, and a third is
refused. Several agents that take turns, and a sensor beside them, are in the theorem
`LimitHolds` only: with a second agent or a second request beside the sensor the run is
too large for liveness. `MCView` leaves out receipts of decisions, which no guard and no
property of that run reads. The bounds `MaxClock`, `MaxMono` and `MaxLeases` are guards
of `Tick`, `Mint` and `Delegate` alone. Admission: three threads are a holder that
outlived its lease, its successor and a third that asks with an old reading of the
clock; the workloads put them on a singleton, on capabilities of concurrency one and
two, on a sandbox and on a recovery, with a repeated idempotency key, a repeated request
id and a panic request; with a lease and a retention of 1 and a clock to 3 both end and
are used again. Task graphs: one graph for each thing the executor treats differently (a
diamond with a retry, the same under "continue" with a pause and a runtime cap, a branch
with a join, a gate beside the task it skips, a loop, a loop with independent body nodes
that goes on or stops after a failure, with a node behind one of them, a gate in a loop,
a cap); width 2 makes batches with something left in them, and a run needs two resumes
to be paused, crash and be resumed again. Scheduler: two events with one key, an API
request, a gated run and the children of a swarm in pairs, since the guard and the table
relate runs in pairs; a mishap is a crash, a raising launch, a cancellation or a guard
that cannot read the table, and two on one run are, for instance, a crash after a
cancel. A reconcile works on each row by itself, so one row within its limit is enough
to have it between the steps of every other writer; liveness is checked on one run of
each kind, with its row within the limit.

Fairness. `FairSpec` of `PermitStore` and of `LeaseThreads` gives each thread weak
fairness for the steps inside a call: a thread that runs is scheduled again.
Nothing obliges a caller to make a call, and the clock need not tick. Weak
fairness suffices for `LockReleased`, since the holder of the lock never waits; a
particular waiter may starve, which `threading.Lock` allows, and no property says
otherwise. In `LeaseThreads` no step waits for another thread.

`FairSpec` of `TaskGraph` is weak fairness of the executor's own steps: it is one
thread that nothing makes wait. A crash, a cancel request and a resume need not
come. In `RunScheduler` the scheduler, a launch, a waiter, a cancellation and the
reconciliation of each row are weakly fair, as threads of a process that is up; a
process that crashed is restarted (the worker is run under a supervisor), and a DAG
process ends. Events need not be published, nothing need be approved or cancelled,
and the coalescer's window need not pass.

Deadlock is checked except where the system may stop: a task graph run ends, and the
admission run ends when the bound on arrivals is used up.

## 4. Findings

1. A permit listed after the loop of `revoke_lease` has gone by is spent after
   the revocation is on record (`revocation_final`). What the call does guarantee
   under any interleaving is `RevokeReaches`; called one at a time it guarantees
   `RevokedNeverActs`. It takes calls from several threads: the stores have locks and
   the README lists "revocation survival" among what is closed, while the demos use one
   thread.
2. `max_node_executions` is tested before a batch, not before a node: the batch may
   step over it by `max_concurrency - 1` (`execution_cap`), against the contract
   for execution artifacts.
3. An event whose launch raised is not acknowledged, "allow retry", and is never
   delivered again (`at_least_once`): `poll` reads new entries only.
4. `summary.json` says "completed" from a run's first node on (`executor.py:1809`), and a
   reconcile takes that over "running": the working run is called completed, the launch
   guard does not see it any more and starts the next social-media run beside it
   (`guarded_exclusive`). What holds is `IndexFollowsDisk` and `OneInSight`.

The models have more behaviours that a document speaks against; they are reached in a few
steps and no run is kept for them:

- `revoke_lease` leaves existing children of the lease ACTIVE, and only tests call
  `revoke_delegations_of`; `hg_lease/README.md:48` says "parent revocation cascades".
- Two agents that ask together on a lease with one use get a permit each, because the use
  is taken after the permit was minted; the summary an operator confirms says "at most N
  uses" (`compiler.py:52`). Until such calls overlap the limit holds (`UseLimit`).
- `_consume` writes the ACTIVE lease it read back over a revocation that came in between;
  `invalidation.py:9` says "Revocation events always win over concurrent execution".
- A TypeError from inside a task makes `_call_dispatcher` run the task again within one
  attempt; `dag_timeout_retry_contract.md:17` has `attempt_count` "incremented on each
  dispatch". `RetryBound` is what is left: twice the attempts.
- A node that took effect just before a crash is run again by the resume;
  `durable_dag_workflows_contract.md:21` says "resume never reruns A". It is one node per
  crash (`RepeatsBoundedByCrashes`).
- A swarm takes a child for finished on the summary of its first node, and waits for ever
  for one that dies before that when the plan has no `max_wall_clock_s`;
  `swarm/controller.py:258` says "Poll until run completes or deadline".

Seen in the models, without a statement of the repository to hold against it: with
overlapping calls one request id may get two permits (excluded for calls that do not
overlap by the theorems below); a loop whose condition is false at the start is done at
once and its body then runs once, since it depends on the loop alone; a body node that
waits for nothing may be done before its loop is run, the loop then puts it back to
pending, and a node of the same batch that depends on it starts all the same (it had
"all deps done" when `get_ready_nodes` returned it); under "stop_loop" a failure skips
the rest of the body, and with it what waits for that outside the loop, which does not
depend on the node that failed (these two came up when the invariants of `TaskGraph`
turned out not to be inductive); a join of two branches of a gate never runs, because
one of its dependencies is skipped, and the run ends "partial"; the policies "fail_run"
and "continue_iteration" for loop bodies do the same, nothing; an approved social run
counts itself as in flight ("launching") and is never launched; an approved row that an
operator cancels between the scheduler's select and its update is marked "launching" all
the same; a run killed after its first node is recorded as completed, whatever its exit
code; a repair may write what it read over a status that came later; a cancel's
"cancelled" is replaced by the waiter's "completed" or "failed"; a stub that was
bulk-cancelled after the scheduler fetched it is launched all the same; a capability of
concurrency two loses a slot when its holders overlap.

## 5. Proofs

Every invariant and every action property of the passing runs is a theorem, for every
number of threads, requests, leases, nodes, runs, crashes and ticks, from the `ASSUME`s of
the modules alone: types of the constants; that the lock's free value is no thread, "no
limit" no number and "none" no request id; that threads, nodes and runs are finite sets,
kinds of threads and of runs disjoint, and the graphs ones `validate_dag` passes. Each
inductive invariant was checked by TLC on the instances of the runs before it was proved.

`PermitStore_proofs`: `TypeCorrect`, `SingleWinner`, `RevocationFinal`,
`SpentBeforeExpiry`, and `Implements`, the refinement. The inductive invariant
adds to the types: a thread holds the lock exactly between `lock` and its return
(`LockOwner`), so one thread at most is at the commit; no call works with an id
or a time of the future (`CallSound`); a permit a call found stays on file
(`FoundSound`), and so does a revocation it began after (`LateSound`); at the
commit the permit has no receipt, the time is before expiry and the call did not
begin after a revocation (`CommitSound`); wins are counted by receipts
(`WinsSound`). `AtMostOneWin` alone is not inductive: without the mutual exclusion
two threads at the commit would both win. For the refinement a use counts as
spent from the check on, not from the write of the receipt, because that is when
`consume()` reads `_revocations`.

`LeaseAuthority_proofs`: `TypeCorrect`, `TerminalForever`,
`RevocationEndsAuthority`, `NoReplay`, `SupersededForGood`, `ChildrenInside`,
`ActsWithinTail`, `ReportsAreHeeded`, `BudgetExact`. The invariant `IInv` adds: stored
leases are a prefix of the ids and link to earlier ones (`StoredSound`); the id of every
issued permit was seen (`SeenSound`); permits of leases are issued
(`MintedSound`) at an instant inside the window of their lease
(`MintedInWindow`); a lease whose revocation is on record is terminal and its
permits are revoked (`RevokedSound`); spent permits are of some lease and before
expiry (`SpentSound`). `Evolves` says what a step may do to a lease (state along
the table, uses, never its terms), `Keeps` and `Adds` classify the actions; each
property then follows from the classification and not from each action anew.
`BudgetExact` counts: the lists of permits are finite (`BudgetSound`), `authorize` alone
changes the uses of a stored lease (`UsesKept`), and the permit it lists is new, because
its request id was not seen before.

`LeaseThreads_proofs`: `TypeCorrect`, `EffectsOnRecord`, `RevocationReaches` and
`LimitHolds`. The first three hold under every interleaving. Their invariant follows one
thread at a time: the permit an agent carries is on file from the grant on and on the
lease's list from "record" on, and the ALLOW is on record before the dispatch
(`AskSound`); everything the loop of `revoke_lease` has behind its index is revoked, and
what the call owes was on the list (`RevokeSound`). What other threads do to it is one
fact, `Grows`: lists, permits, revocations and receipts only grow, and a list only at its
end. Nothing about the lease store itself is needed, which is why lost updates do no harm
here. `LimitHolds` is where they could. With overlapping calls of agents the limit fails
(section 4), so its statement is about behaviours up to the first overlap (`overlap`), for
any number of agents, sensors and operators: then at most one thread that could write a
lease back in force is inside a call (`Alone`). An operator's stale `put` may bring back a
lease object with a use that has been spent, but only a REVOKED one; so `LimitSound` bounds
the uses left by the length of the list (`Counted`) only in objects, stored or copied, that
may be in force, and allows for the use that the agent has listed and not yet written.

`AdmissionControl_proofs`: `TypeCorrect`, `HolderSafe`, `CapacitySafe`, `CountersSafe`,
`PanicSafe`, `IdempotencySafe`. Every step either grants one request or frees a set of
keys and grants nothing (`StepKinds`): keys whose lease is over, whose request gives them
back, of the recovery that ends, or all of them in a panic (`Reason`). Outside a panic this
set never holds the entry of a thread inside its lease (`HolderNotFreed`).
For an exclusive lock the invariant ties the thread to the entry its own grant made, id
and lease end (`HolderSound`), and keeps two such threads apart also while a panic has
emptied the table (`MutexSound`). A capability has one lock entry and one counter for
several threads, so `CapacityRespected` is far from inductive: `CountSound` says that the
counter counts every user, and beside them the entry when it belongs to none, so whoever
frees the entry takes nothing from the users that remain. Idempotency rests on
the record naming the last completion of a key (`RecordSound`) and on a thread having been
let in when no other request had completed under its key, and none having done so since
(`AdmitSound`); the second part needs the mutual exclusion of the lock.

`TaskGraph_proofs`: `TypeCorrect`, `DepsDoneHolds`, `RepeatsBounded`, `RetryBounded`,
`StoredDoneKept`, `CompletedHolds`, `SkippedHolds`. A step moves nodes (`Moves`), leaves
them alone (`Rests`), writes the file, crashes or resumes (`StepKinds`); most facts are
stated of a memory, so that one lemma serves the executor and the file. `PlaceSound`
says what the executor has in hand at each place; a body node comes after its loop
(`LoopFirst`), which keeps a loop that starts over from taking away a dependency of the
rest of the batch (`BatchSound`); skips have an excuse (`SkipSound`), where propagation
and reachability are used through the two facts of a least closed set, that it is closed
and inside every closed set (`PropagateIs`, `ReachableIs`). `RetrySound` charges a
node's dispatches, two for each attempt, to crashes and to its attempt count.
`RepeatsBoundedByCrashes` says nothing of what is in memory or on disk, so `RepeatSound`
counts the successes that a memory does not account for (`Excess`): of the executor's
memory at most one per crash, of the file one more while a save is under way, and a
resume makes the second the first.

`RunScheduler_proofs`: `TypeCorrect`, `OneProcessPerRun`, `GuardHolds`,
`LeaseFollowsWaiter`, `IndexNotAhead`, and `AcquireNeverBlocked`, which no run states:
the branches of `RunLeaseStore.acquire` that raise or take over a lease are unreachable
from a launch. An event is in one place of one queue (`QueuesSound`), a swarm in
progress is that of an unacknowledged event (`SwarmSound`), a run that is still to be
launched has left no trace anywhere (`DueSound`), a launch has done what its place says
(`JobSound`), summary and waiter agree with the process (`ProcSound`), and what a
reconcile has in hand ends the run and had a summary or an operator behind it, so that
writing it late says no more than `IndexFollowsDisk` allows (`FixSound`).
`IndexFollowsDisk` alone is not inductive: a reconcile could hold a "failed" from
nowhere, a cancel be about to write the row of a run nobody cancelled (`CancelSound`).
The guard looks at the table before the launch and the process starts three steps later:
between the two `GuardSound` holds because the scheduler is one thread, which launches
the children of a swarm too; and what a reconcile writes is never an active status, so
the row of a working run that has left the guard's sight does not come back.

Only model-checked: `LockReleased`, `CallsEnd`, `Termination` and `RunSettles`, which are
liveness under fairness and outside the prover; and the violations of section 4, which are
single behaviours.

## 6. Not modelled

Authority path: the policy compiler, the setup wizard and the dashboard (text, files,
reports; the dashboard's revocations are the modelled calls); adapters (simulated
devices); the context store (no authority); hash chains of receipts; close obligations,
which go to a sink the stores never read; role tables and `resolve_conflict`. Task
graphs: what tasks do (`native_task_tools.py` and the other tools), planning, input
binding, artifacts of a run directory but the summary, steering injections. Runtime:
heartbeats and the age of run leases, which nothing reads (`reap_stale` has no caller);
the in-memory bus; tool tasks and the reduction of a swarm; the console's replay and
in-process resume. Most of the repository is data processing, I/O, demos and user
interfaces around these parts; `PROJECT.json` lists every subsystem with the reason.

Hazards left without a property: `find_lease` takes the first ACTIVE candidate, which may
hide a valid lease behind one past its window (a refusal, which is safe);
`revoke_delegations_of` leaves the children's permits alone, and children together may
have more uses than their parent (no doc claims otherwise); `LeaseStore.active`
iterates while a mint may add a key; and those `PROJECT.json` lists with a note.

## 7. Plan

Order: the authority path first (done), then the gates before it, then the
runtime around it.

1. Done: `SingleUsePermits`, `PermitStore`, `LeaseLifecycle`, `LeaseAuthority`,
   `LeaseThreads`, with the proofs above; `AdmissionControl`, `TaskGraph`,
   `RunScheduler`.
2. Done: the proofs of section 5 for all of these.
3. `PostingMutex` (`hg_core/posting_mutex.py`): flock and unlink.
4. `Conditions` (`policy.py`, `evaluator.py`): the whole condition language as
   operators against a three-valued reference, over bounded syntax trees.
5. Candidates after that: `run_lock` and `circuit_breaker` of the
   task graph, the operator action queue, gateway approvals and idempotency keys.
