----------------------------- MODULE RunScheduler -----------------------------
(***************************************************************************)
(* hg_realtime and the run index it shares with the operator console.      *)
(* The worker's scheduler thread consumes timer and UI events from a       *)
(* Redis stream and launches DAG runs; the console launches runs its API   *)
(* is asked for, approves gated ones and cancels.  A launch takes a lease, *)
(* writes the row of the run, spawns a process and leaves a waiter thread  *)
(* with it; a reconcile thread of the worker repairs rows from what the    *)
(* processes left on disk.  A swarm event has several children launched,   *)
(* by the scheduler thread itself, which then waits for their summaries.   *)
(* Worker and console may crash and restart; the processes they spawned go *)
(* on.                                                                     *)
(*                                                                         *)
(* A run is named after what asked for it: an event, a task of a swarm, an *)
(* API request, or a row that waits for approval.  Nothing reads the age   *)
(* of a lease (its only reader, reap_stale, has no caller), so heartbeats  *)
(* are left out; so are the tool tasks of a swarm, which start no run.     *)
(***************************************************************************)
EXTENDS Naturals, Sequences, FiniteSets

CONSTANTS
  Event, Request, Gated,   \* what asks for a run
  Key,                     \* dedup_key of an event
  Unrouted,                \* the events no workflow answers to
  Swarms, Deadline,        \* those for the workflow "swarm"; with a max_wall_clock_s
  Child, Parent,           \* the DAG tasks of the swarms' plans, and whose they are
  Workloads,               \* the runs asked for, the social-media ones of them, those
                           \* within the limit of a reconcile, a bound on the mishaps
  Mishaps                  \* which of "crash", "raise", "cancel", "blind" may happen

Run     == Event \cup Request \cup Gated \cup Child
Proc    == {"worker", "console"}
Owner(r) == IF r \in Request THEN "console" ELSE "worker"

(* _ACTIVE_STATUSES of launch_guard; nothing writes its "pending". *)
Active   == {"running", "launching", "approved_pending_launch", "pending_approval"}
Terminal == {"completed", "failed", "cancelled"}
Status   == Active \cup Terminal \cup {"none", "blocked"}

ASSUME SchedulerAssumption ==
  /\ IsFiniteSet(Run)
  /\ Event \cap Request = {} /\ Event \cap Gated = {} /\ Request \cap Gated = {}
  /\ Child \cap (Event \cup Request \cup Gated) = {}
  /\ Key \in [Event -> STRING] /\ Unrouted \subseteq Event
  /\ Swarms \subseteq Event \ Unrouted /\ Deadline \subseteq Swarms /\ "none" \notin Event
  /\ Parent \in [Child -> Swarms]
  /\ Workloads \subseteq [asked: SUBSET Run, social: SUBSET Run, rows: SUBSET Run, mishaps: Nat]

VARIABLES
  load,                \* the workload of this behaviour
  sent,                \* events published and API requests made
  stream, pending,     \* Redis: not yet delivered; delivered and not acknowledged
  at, batch, todo,     \* scheduler: its place, events polled, runs it is still to see to
  swarm,               \* the event whose swarm it runs
  recent,              \* coalescer: the keys seen within the window
  job,                 \* launch() of each process: its next step and its run
  status, dir,         \* runs table: status, and whether run_dir is set
  lease,               \* run_leases: the runs that have a row
  proc, summary, stop, \* a DAG process, the summary it wrote, cancel.requested.json
  tracked, waiter,     \* RunTracker entries and waiter threads
  fix,                 \* reconcile, for each row: its next step, what it is about to write
  cancel,              \* cancel_run of the console
  announced,           \* run_completed events on the bus
  up,                  \* the processes that run
  mishaps,             \* those so far
  launches, cancelled, \* history: processes spawned per run; runs a cancel was asked for
  unseen               \* history: runs launched on a guard that could not read the table

bus   == <<stream, pending>>
sched == <<at, batch, todo, swarm, recent>>
table == <<status, dir>>
dag   == <<proc, summary, stop>>
after == <<tracked, waiter, announced>>
ops   == <<cancel, cancelled>>
hist  == <<launches, unseen>>
vars  == <<load, sent, bus, sched, job, table, lease, dag, after, up, ops, fix, mishaps, hist>>

Idle     == [at |-> "none", run |-> "none"]
NoCancel == [at |-> "none", run |-> "none", dir |-> FALSE]
NoFix    == [at |-> "none", to |-> "none"]

Init ==
  /\ load \in Workloads
  /\ sent = {} /\ stream = <<>> /\ pending = {}
  /\ at = "batch" /\ batch = <<>> /\ todo = {} /\ swarm = "none" /\ recent = {}
  /\ job = [p \in Proc |-> Idle]
  /\ status = [r \in Run |-> IF r \in Gated \cap load.asked THEN "pending_approval" ELSE "none"]
  /\ dir = [r \in Run |-> FALSE]
  /\ lease = {}
  /\ proc = [r \in Run |-> "none"] /\ summary = [r \in Run |-> "none"]
  /\ stop = [r \in Run |-> FALSE]
  /\ tracked = {} /\ waiter = [r \in Run |-> "none"] /\ announced = {}
  /\ cancel = NoCancel /\ fix = [r \in Run |-> NoFix]
  /\ up = Proc /\ mishaps = 0
  /\ launches = [r \in Run |-> 0] /\ cancelled = {} /\ unseen = {}

Mishap(kind) == kind \in Mishaps /\ mishaps < load.mishaps /\ mishaps' = mishaps + 1

SetStatus(R, s) == status' = [r \in Run |-> IF r \in R THEN s ELSE status[r]]
----------------------------------------------------------------------------
(* The bus and the coalescer's window. *)
Publish(e) ==
  /\ e \in (Event \cap load.asked) \ sent
  /\ sent' = sent \cup {e}
  /\ stream' = Append(stream, e)
  /\ UNCHANGED <<load, pending, sched, job, table, lease, dag, after, up, ops, fix, mishaps, hist>>

(* More than coalesce_window_s have passed since k was last seen. *)
WindowPasses(k) ==
  /\ k \in recent
  /\ recent' = recent \ {k}
  /\ UNCHANGED <<load, sent, bus, at, batch, todo, swarm, job, table, lease, dag, after, up, ops,
                 fix, mishaps, hist>>
----------------------------------------------------------------------------
(* The scheduler thread, while no launch is under way. *)
Scheduling == "worker" \in up /\ job["worker"] = Idle

Children(e) == {c \in Child : Parent[c] = e}

(* Mutant: a run that is running does not count. *)
MutInFlight == \E r \in load.social : status[r] \in Active \ {"running"}
(* social_workflow_in_flight *)
InFlight == \E r \in load.social : status[r] \in Active
ShouldSkipLaunch(r) == r \in load.social /\ InFlight

(* The guard lets r pass: nothing is in flight, or the table cannot be     *)
(* read and the exception counts as nothing in flight.                     *)
GuardPasses(r) ==
  \/ ~ShouldSkipLaunch(r) /\ UNCHANGED <<mishaps, unseen>>
  \/ ShouldSkipLaunch(r) /\ Mishap("blind") /\ unseen' = unseen \cup {r}

BeginLaunch(p, r) == job' = [job EXCEPT ![p] = [at |-> "acquire", run |-> r]]

(* _process_approved_runs: the approved rows are selected... *)
FetchApproved ==
  /\ Scheduling /\ at = "batch" /\ batch = <<>>
  /\ todo' = {r \in Gated : status[r] = "approved_pending_launch"}
  /\ at' = IF todo' = {} THEN "approved" ELSE "mark"
  /\ UNCHANGED <<load, sent, bus, batch, swarm, recent, job, table, lease, dag, after, up, ops,
                 fix, mishaps, hist>>

(* ...marked in one transaction, whatever they say by then... *)
MarkLaunching ==
  /\ Scheduling /\ at = "mark"
  /\ SetStatus(todo, "launching")
  /\ at' = "approved"
  /\ UNCHANGED <<load, sent, bus, batch, todo, swarm, recent, job, dir, lease, dag, after, up,
                 ops, fix, mishaps, hist>>

(* ...and then launched or left as they are. *)
LaunchApproved(r) ==
  /\ Scheduling /\ at = "approved" /\ r \in todo
  /\ todo' = todo \ {r}
  /\ \/ ShouldSkipLaunch(r) /\ UNCHANGED <<job, mishaps, unseen>>
     \/ GuardPasses(r) /\ BeginLaunch("worker", r)
  /\ UNCHANGED <<load, sent, bus, at, batch, swarm, recent, table, lease, dag, after, up, ops,
                 fix, launches>>

(* Mutant: the group reads from the start of the stream. *)
MutPoll ==
  /\ Scheduling /\ at = "approved" /\ todo = {}
  /\ batch' = stream
  /\ pending' = pending \cup {stream[i] : i \in 1..Len(stream)}
  /\ at' = "batch"
  /\ UNCHANGED <<load, sent, stream, todo, swarm, recent, job, table, lease, dag, after, up, ops,
                 fix, mishaps, hist>>

(* Mutant: delivery without acknowledgement (NOACK). *)
MutPollNoAck ==
  /\ Scheduling /\ at = "approved" /\ todo = {}
  /\ batch' = stream /\ stream' = <<>>
  /\ at' = "batch"
  /\ UNCHANGED <<load, sent, pending, todo, swarm, recent, job, table, lease, dag, after, up, ops,
                 fix, mishaps, hist>>

(* bus.poll: XREADGROUP with ">" delivers what was never delivered. *)
Poll ==
  /\ Scheduling /\ at = "approved" /\ todo = {}
  /\ batch' = stream /\ stream' = <<>>
  /\ pending' = pending \cup {stream[i] : i \in 1..Len(stream)}
  /\ at' = "batch"
  /\ UNCHANGED <<load, sent, todo, swarm, recent, job, table, lease, dag, after, up, ops,
                 fix, mishaps, hist>>

(* One event of tick_once up to the launch: coalesced, without a workflow, *)
(* denied by the policy, deferred by the launch guard, launched, or handed *)
(* to the swarm controller, which asks no guard.                           *)
Handle(e) ==
  /\ Scheduling /\ at = "batch" /\ batch # <<>> /\ e = Head(batch)
  /\ batch' = Tail(batch)
  /\ recent' = recent \cup {Key[e]}
  /\ \/ /\ Key[e] \in recent \/ e \in Unrouted
        /\ pending' = pending \ {e}
        /\ UNCHANGED <<at, todo, swarm, status, job, mishaps, unseen>>
     \/ /\ Key[e] \notin recent /\ e \notin Unrouted
        /\ \/ /\ SetStatus({e}, "blocked")
              /\ pending' = pending \ {e}
              /\ UNCHANGED <<at, todo, swarm, job, mishaps, unseen>>
           \/ /\ e \notin Swarms /\ ShouldSkipLaunch(e)
              /\ pending' = pending \ {e}
              /\ UNCHANGED <<at, todo, swarm, status, job, mishaps, unseen>>
           \/ /\ e \notin Swarms /\ GuardPasses(e)
              /\ BeginLaunch("worker", e)
              /\ UNCHANGED <<at, todo, swarm, status, pending>>
           \/ /\ e \in Swarms
              /\ at' = "spawn" /\ todo' = Children(e) /\ swarm' = e
              /\ UNCHANGED <<status, pending, job, mishaps, unseen>>
  /\ UNCHANGED <<load, sent, stream, dir, lease, dag, after, up, ops, fix, launches>>
----------------------------------------------------------------------------
(* SwarmController.run: the children are launched one after the other... *)
SwarmLaunch(c) ==
  /\ Scheduling /\ at = "spawn" /\ c \in todo
  /\ todo' = todo \ {c}
  /\ BeginLaunch("worker", c)
  /\ UNCHANGED <<load, sent, bus, at, batch, swarm, recent, table, lease, dag, after, up, ops,
                 fix, mishaps, hist>>

SwarmLaunched ==
  /\ Scheduling /\ at = "spawn" /\ todo = {}
  /\ at' = "await" /\ todo' = Children(swarm)
  /\ UNCHANGED <<load, sent, bus, batch, swarm, recent, job, table, lease, dag, after, up, ops,
                 fix, mishaps, hist>>

(* ..._wait_for_run polls for the summary of each (the scheduler gives the *)
(* controller no run index)...                                             *)
SwarmWait(c) ==
  /\ Scheduling /\ at = "await" /\ c \in todo
  /\ summary[c] # "none"
  /\ todo' = todo \ {c}
  /\ UNCHANGED <<load, sent, bus, at, batch, swarm, recent, job, table, lease, dag, after, up,
                 ops, fix, mishaps, hist>>

(* ...or until max_wall_clock_s are over, for all that are left... *)
SwarmDeadline ==
  /\ Scheduling /\ at = "await" /\ todo # {} /\ swarm \in Deadline
  /\ todo' = {}
  /\ UNCHANGED <<load, sent, bus, at, batch, swarm, recent, job, table, lease, dag, after, up,
                 ops, fix, mishaps, hist>>

(* ...and the event is acknowledged, unless writing the result raises. *)
SwarmEnds ==
  /\ Scheduling /\ at = "await" /\ todo = {}
  /\ at' = "batch" /\ swarm' = "none"
  /\ \/ pending' = pending \ {swarm} /\ UNCHANGED mishaps
     \/ UNCHANGED pending /\ Mishap("raise")
  /\ UNCHANGED <<load, sent, stream, batch, todo, recent, job, table, lease, dag, after, up, ops,
                 fix, hist>>
----------------------------------------------------------------------------
(* DagLauncher.launch, for the scheduler and for the console. *)

(* POST /runs/request: the console asks no guard. *)
RunRequest(r) ==
  /\ r \in (Request \cap load.asked) \ sent
  /\ "console" \in up /\ job["console"] = Idle
  /\ sent' = sent \cup {r}
  /\ BeginLaunch("console", r)
  /\ UNCHANGED <<load, bus, sched, table, lease, dag, after, up, ops, fix, mishaps, hist>>

Step(p, from, to) ==
  /\ p \in up /\ job[p].at = from
  /\ job' = [job EXCEPT ![p].at = to]

(* A run id is acquired once, so there is no lease to take over or to      *)
(* raise about.                                                            *)
Acquire(p) ==
  /\ Step(p, "acquire", "record")
  /\ job[p].run \notin lease
  /\ lease' = lease \cup {job[p].run}
  /\ UNCHANGED <<load, sent, bus, sched, table, dag, after, up, ops, fix, mishaps, hist>>

(* record_start replaces the row, whatever it said. *)
RecordStart(p) ==
  /\ Step(p, "record", "spawn")
  /\ SetStatus({job[p].run}, "running")
  /\ dir' = [dir EXCEPT ![job[p].run] = TRUE]
  /\ UNCHANGED <<load, sent, bus, sched, lease, dag, after, up, ops, fix, mishaps, hist>>

(* The process, its heartbeat and its waiter start. *)
Spawn(p) ==
  LET r == job[p].run IN
  /\ Step(p, "spawn", "register")
  /\ proc' = [proc EXCEPT ![r] = "alive"]
  /\ waiter' = [waiter EXCEPT ![r] = "waiting"]
  /\ launches' = [launches EXCEPT ![r] = @ + 1]
  /\ UNCHANGED <<load, sent, bus, sched, table, lease, summary, stop, tracked, announced, up,
                 ops, fix, mishaps, unseen>>

(* tracker.register, the return and the acknowledgement of the event. *)
Register(p) ==
  /\ p \in up /\ job[p].at = "register"
  /\ tracked' = tracked \cup {job[p].run}
  /\ pending' = pending \ {job[p].run}
  /\ job' = [job EXCEPT ![p] = Idle]
  /\ UNCHANGED <<load, sent, stream, sched, table, lease, dag, waiter, announced, up, ops,
                 fix, mishaps, hist>>

(* A call of launch raises: the lease store, the run index or Popen.       *)
(* Nothing that was done is undone and the event is not acknowledged; a    *)
(* swarm is given up, with the children it has.                            *)
LaunchRaises(p) ==
  /\ p \in up /\ job[p].at \in {"acquire", "record", "spawn"}
  /\ Mishap("raise")
  /\ job' = [job EXCEPT ![p] = Idle]
  /\ IF p = "worker" /\ at = "spawn"
       THEN at' = "batch" /\ todo' = {} /\ swarm' = "none"
       ELSE UNCHANGED <<at, todo, swarm>>
  /\ UNCHANGED <<load, sent, bus, batch, recent, table, lease, dag, after, up, ops, fix, hist>>
----------------------------------------------------------------------------
(* The DAG process. *)

(* _persist_after_node: while there is no final status, it says completed. *)
SaveNode(r) ==
  /\ proc[r] = "alive"
  /\ summary' = [summary EXCEPT ![r] = "completed"]
  /\ UNCHANGED <<load, sent, bus, sched, job, table, lease, proc, stop, after, up, ops, fix,
                 mishaps, hist>>

(* The last summary, with the final status ("failed" stands for "partial"  *)
(* as well); a run that finds the cancel file may stop there.              *)
WriteSummary(r) ==
  /\ proc[r] = "alive"
  /\ proc' = [proc EXCEPT ![r] = "wrapping"]
  /\ \E s \in {"completed", "failed"} \cup IF stop[r] THEN {"cancelled"} ELSE {} :
        summary' = [summary EXCEPT ![r] = s]
  /\ UNCHANGED <<load, sent, bus, sched, job, table, lease, stop, after, up, ops, fix, mishaps,
                 hist>>

Exit(r) ==
  /\ proc[r] = "wrapping"
  /\ proc' = [proc EXCEPT ![r] = "ok"]
  /\ UNCHANGED <<load, sent, bus, sched, job, table, lease, summary, stop, after, up, ops,
                 fix, mishaps, hist>>

(* It ends without a final status: it raises, pauses or is killed.  What   *)
(* the last node saved stays, but for a file it was about to rewrite.      *)
Die(r) ==
  /\ proc[r] = "alive"
  /\ \E code \in {"ok", "bad"} : proc' = [proc EXCEPT ![r] = code]
  /\ \E s \in {summary[r], "none"} : summary' = [summary EXCEPT ![r] = s]
  /\ UNCHANGED <<load, sent, bus, sched, job, table, lease, stop, after, up, ops,
                 fix, mishaps, hist>>
----------------------------------------------------------------------------
(* The waiter thread of a run, in the process that launched it. *)
WaiterStep(r, from, to) ==
  /\ waiter[r] = from
  /\ waiter' = [waiter EXCEPT ![r] = to]

(* Mutant: it does not wait. *)
MutWaiterReturns(r) ==
  /\ WaiterStep(r, "waiting", "release")
  /\ tracked' = tracked \ {r}
  /\ UNCHANGED <<load, sent, bus, sched, job, table, lease, dag, announced, up, ops,
                 fix, mishaps, hist>>

WaiterReturns(r) ==
  /\ WaiterStep(r, "waiting", "release")
  /\ proc[r] \in {"ok", "bad"}
  /\ tracked' = tracked \ {r}
  /\ UNCHANGED <<load, sent, bus, sched, job, table, lease, dag, announced, up, ops,
                 fix, mishaps, hist>>

(* Mutant: the lease stays. *)
MutWaiterReleases(r) ==
  /\ WaiterStep(r, "release", "record")
  /\ UNCHANGED <<load, sent, bus, sched, job, table, lease, dag, tracked, announced, up, ops,
                 fix, mishaps, hist>>

WaiterReleases(r) ==
  /\ WaiterStep(r, "release", "record")
  /\ lease' = lease \ {r}
  /\ UNCHANGED <<load, sent, bus, sched, job, table, dag, tracked, announced, up, ops,
                 fix, mishaps, hist>>

(* _publish_run_completed: the summary's status or else the exit code's... *)
RecordCompletion(r) ==
  /\ WaiterStep(r, "record", "announce")
  /\ SetStatus({r}, IF summary[r] # "none" THEN summary[r]
                    ELSE IF proc[r] = "ok" THEN "completed" ELSE "failed")
  /\ UNCHANGED <<load, sent, bus, sched, job, dir, lease, dag, tracked, announced, up, ops,
                 fix, mishaps, hist>>

(* ...and the event, which the scheduler's own group finds no workflow     *)
(* for.  The console's launcher has no bus.                                *)
Announce(r) ==
  /\ WaiterStep(r, "announce", "done")
  /\ announced' = IF Owner(r) = "worker" THEN announced \cup {r} ELSE announced
  /\ UNCHANGED <<load, sent, bus, sched, job, table, lease, dag, tracked, up, ops,
                 fix, mishaps, hist>>

(* Mutant: only rows that say failed are repaired. *)
MutMerges(row, disk) == row = "failed" /\ disk \in {"cancelled", "completed"}
(* _merge_run_rows: when the disk's final status replaces the row's.  Of   *)
(* the module's two _ACTIVE_RUN_STATUSES the later holds, without blocked. *)
Merges(row, disk) ==
  \/ row \in Active /\ disk \in Terminal
  \/ row = "failed" /\ disk \in {"cancelled", "completed"}

(* reconcile_runs_from_disk, one row: steps of the worker's thread. *)
FixStep(r, from, at_, to) ==
  /\ "worker" \in up /\ r \in load.rows /\ fix[r].at = from
  /\ fix' = [fix EXCEPT ![r] = [at |-> at_, to |-> to]]
  /\ UNCHANGED <<load, sent, bus, sched, job, dir, lease, dag, after, up, ops, mishaps, hist>>

(* backfill_discovered_runs reads the disk... *)
BackfillDisk(r) ==
  /\ summary[r] # "none"
  /\ FixStep(r, "none", "row", summary[r])
  /\ UNCHANGED status

(* ...then the row, of which it keeps the status or takes the disk's; a    *)
(* row with nothing to add is not written.                                 *)
BackfillRow(r) ==
  /\ \/ Merges(status[r], fix[r].to) /\ FixStep(r, "row", "write", fix[r].to)
     \/ ~Merges(status[r], fix[r].to) /\ FixStep(r, "row", "write", status[r])
     \/ ~Merges(status[r], fix[r].to) /\ FixStep(r, "row", "none", "none")
  /\ UNCHANGED status

(* The repair of stale rows selects first and reads the disk then. *)
RepairSelect(r) ==
  /\ status[r] \in Active /\ dir[r]
  /\ FixStep(r, "none", "read", "none")
  /\ UNCHANGED status

RepairRead(r) ==
  /\ IF summary[r] # "none" THEN FixStep(r, "read", "write", summary[r])
                            ELSE FixStep(r, "read", "none", "none")
  /\ UNCHANGED status

(* Either writes what it holds over whatever the row says by then. *)
FixWrite(r) ==
  /\ FixStep(r, "write", "none", "none")
  /\ SetStatus({r}, fix[r].to)

Reconcile(r) ==
  BackfillDisk(r) \/ BackfillRow(r) \/ RepairSelect(r) \/ RepairRead(r) \/ FixWrite(r)
----------------------------------------------------------------------------
(* The operator's console. *)
Approve(r) ==
  /\ "console" \in up /\ status[r] = "pending_approval"
  /\ SetStatus({r}, "approved_pending_launch")
  /\ UNCHANGED <<load, sent, bus, sched, job, dir, lease, dag, after, up, ops, fix, mishaps, hist>>

Deny(r) ==
  /\ "console" \in up /\ status[r] = "pending_approval"
  /\ SetStatus({r}, "blocked")
  /\ UNCHANGED <<load, sent, bus, sched, job, dir, lease, dag, after, up, ops, fix, mishaps, hist>>

(* bulk_cancel_gate_queue_stubs *)
Stubs == {r \in Run : ~dir[r] /\ status[r] \in {"blocked", "pending_approval",
                                                "approved_pending_launch", "launching"}}
BulkCancel ==
  /\ "console" \in up /\ Stubs # {}
  /\ SetStatus(Stubs, "cancelled")
  /\ UNCHANGED <<load, sent, bus, sched, job, dir, lease, dag, after, up, ops, fix, mishaps, hist>>

(* cancel_run reads the row; RunTracker.cancel ends a process this console *)
(* launched, knows nothing of the worker's, and releases the lease.        *)
CancelStart(r) ==
  /\ "console" \in up /\ cancel.at = "none" /\ Mishap("cancel")
  /\ status[r] # "none"
  /\ cancel' = [at |-> "status", run |-> r, dir |-> dir[r]]
  /\ cancelled' = cancelled \cup {r}
  /\ proc' = [proc EXCEPT ![r] = IF r \in tracked /\ Owner(r) = "console"
                                    /\ @ \in {"alive", "wrapping"} THEN "bad" ELSE @]
  /\ tracked' = IF Owner(r) = "console" THEN tracked \ {r} ELSE tracked
  /\ lease' = lease \ {r}
  /\ UNCHANGED <<load, sent, bus, sched, job, table, summary, stop, waiter, announced, up,
                 fix, hist>>

(* A run the tracker did not know has its lease released once more; one    *)
(* that it knew has none by now.                                           *)
CancelStatus ==
  /\ "console" \in up /\ cancel.at = "status"
  /\ SetStatus({cancel.run}, "cancelled")
  /\ lease' = lease \ {cancel.run}
  /\ cancel' = [cancel EXCEPT !.at = "file"]
  /\ UNCHANGED <<load, sent, bus, sched, job, dir, dag, after, up, cancelled,
                 fix, mishaps, hist>>

CancelFile ==
  /\ "console" \in up /\ cancel.at = "file"
  /\ stop' = [stop EXCEPT ![cancel.run] = @ \/ cancel.dir]
  /\ cancel' = NoCancel
  /\ UNCHANGED <<load, sent, bus, sched, job, table, lease, proc, summary, after, up, 
                 cancelled, fix, mishaps, hist>>
----------------------------------------------------------------------------
(* What a process keeps in memory is lost: its launch, its waiters and its *)
(* tracker, the worker's batch, swarm, coalescer and reconcile thread, the *)
(* console's cancel_run.                                                   *)
Crash(p) ==
  /\ p \in up /\ Mishap("crash")
  /\ up' = up \ {p}
  /\ job' = [job EXCEPT ![p] = Idle]
  /\ waiter' = [r \in Run |-> IF Owner(r) = p /\ waiter[r] \notin {"none", "done"}
                                THEN "lost" ELSE waiter[r]]
  /\ tracked' = {r \in tracked : Owner(r) # p}
  /\ IF p = "worker"
       THEN /\ at' = "batch" /\ batch' = <<>> /\ todo' = {} /\ swarm' = "none" /\ recent' = {}
            /\ fix' = [r \in Run |-> NoFix]
            /\ UNCHANGED cancel
       ELSE cancel' = NoCancel /\ UNCHANGED <<sched, fix>>
  /\ UNCHANGED <<load, sent, bus, table, lease, dag, announced, cancelled, hist>>

Restart(p) ==
  /\ p \in Proc \ up
  /\ up' = up \cup {p}
  /\ UNCHANGED <<load, sent, bus, sched, job, table, lease, dag, after, ops, fix, mishaps, hist>>

Launching(p) == Acquire(p) \/ RecordStart(p) \/ Spawn(p) \/ Register(p) \/ LaunchRaises(p)
Waiting(r) == WaiterReturns(r) \/ WaiterReleases(r) \/ RecordCompletion(r) \/ Announce(r)
Ending(r) == WriteSummary(r) \/ Exit(r) \/ Die(r)
Swarming == \/ SwarmLaunched \/ SwarmDeadline \/ SwarmEnds
            \/ \E c \in Child : SwarmLaunch(c) \/ SwarmWait(c)
Scheduler == \/ FetchApproved \/ MarkLaunching \/ Poll \/ Swarming
             \/ \E r \in Gated : LaunchApproved(r)
             \/ \E e \in Event : Handle(e)
Cancelling == CancelStatus \/ CancelFile

Next ==
  \/ Scheduler \/ Cancelling \/ BulkCancel
  \/ \E e \in Event : Publish(e)
  \/ \E e \in Event : WindowPasses(Key[e])
  \/ \E r \in Request : RunRequest(r)
  \/ \E r \in Gated : Approve(r) \/ Deny(r)
  \/ \E r \in Run : Waiting(r) \/ SaveNode(r) \/ Ending(r) \/ Reconcile(r) \/ CancelStart(r)
  \/ \E p \in Proc : Launching(p) \/ Crash(p) \/ Restart(p)

(* Threads of a process that is up run on; a supervisor restarts a process *)
(* that crashed; a DAG process ends.                                       *)
Fairness ==
  /\ WF_vars(Scheduler) /\ WF_vars(Cancelling)
  /\ \A p \in Proc : WF_vars(Launching(p)) /\ WF_vars(Restart(p))
  /\ \A r \in Run : WF_vars(Waiting(r)) /\ WF_vars(Ending(r)) /\ WF_vars(Reconcile(r))

Spec == Init /\ [][Next]_vars /\ Fairness
----------------------------------------------------------------------------
Live == {"alive", "wrapping"}

(* Types; besides, a launch under way is a launch of a process that is up, *)
(* and what the scheduler polled and still holds is unacknowledged.        *)
TypeOK ==
  /\ load \in Workloads /\ sent \subseteq Event \cup Request
  /\ stream \in Seq(Event) /\ batch \in Seq(Event)
  /\ pending \subseteq sent \cap Event /\ {batch[i] : i \in 1..Len(batch)} \subseteq pending
  /\ \/ at \in {"mark", "approved", "batch"} /\ todo \subseteq Gated /\ swarm = "none"
     \/ at \in {"spawn", "await"} /\ todo \subseteq Children(swarm) /\ swarm \in pending \cap Swarms
  /\ recent \subseteq {Key[e] : e \in Event}
  /\ job \in [Proc -> {Idle} \cup [at: {"acquire", "record", "spawn", "register"}, run: Run]]
  /\ \A p \in Proc : job[p] # Idle => p \in up /\ Owner(job[p].run) = p
  /\ status \in [Run -> Status] /\ dir \in [Run -> BOOLEAN] /\ lease \subseteq Run
  /\ proc \in [Run -> Live \cup {"none", "ok", "bad"}]
  /\ summary \in [Run -> Terminal \cup {"none"}] /\ stop \in [Run -> BOOLEAN]
  /\ tracked \subseteq Run /\ announced \subseteq Run
  /\ waiter \in [Run -> {"none", "waiting", "release", "record", "announce", "done", "lost"}]
  /\ cancel \in {NoCancel} \cup [at: {"status", "file"}, run: Run, dir: BOOLEAN]
  /\ up \subseteq Proc /\ mishaps \in 0..load.mishaps
  /\ fix \in [Run -> [at: {"none", "row", "read", "write"}, to: Status]]
  /\ cancelled \subseteq Run /\ unseen \subseteq Run /\ launches \in [Run -> Nat]

(* However worker and console crash and whatever raises, an event, a       *)
(* request or an approved run gets at most one process (XREADGROUP ">",    *)
(* the status "launching").                                                *)
LaunchedOnce == \A r \in Run : launches[r] <= 1

(* The social-media runs whose launch asks the launch guard: neither the   *)
(* console's requests nor the children of a swarm.                         *)
Guarded == load.social \ (Request \cup Child)

(* launch_guard, for what it can see: of the social-media processes it     *)
(* was asked about, and could read the table for, at most one is at work   *)
(* with a row in an active status, over crashes, cancels and approvals.    *)
(* A second one works only beside one whose row a reconcile or a cancel    *)
(* has ended too early.                                                    *)
OneInSight ==
  \A a, b \in Guarded \ unseen :
     /\ proc[a] = "alive" /\ status[a] \in Active
     /\ proc[b] = "alive" /\ status[b] \in Active
     => a = b

(* A run somebody waits for holds its lease until it is cancelled or ends, *)
(* and one whose waiter came to its record holds none.                     *)
LeaseTracksRun ==
  \A r \in Run :
    /\ waiter[r] = "waiting" /\ r \notin cancelled => r \in lease
    /\ waiter[r] \in {"record", "announce", "done"} => r \notin lease

(* What the run index says of a process at work: no waiter has announced   *)
(* its end and no one has called it failed; a row that says completed has  *)
(* a node's summary behind it, one that says cancelled an operator.        *)
IndexFollowsDisk ==
  \A r \in Run : proc[r] = "alive" =>
    /\ r \notin announced /\ status[r] # "failed"
    /\ status[r] = "completed" => summary[r] = "completed"
    /\ status[r] = "cancelled" => r \in cancelled

(* A run whose process has ended and left a summary leaves the active      *)
(* statuses for good, also when the process that waited for it crashed and *)
(* only a reconcile comes to its row: it does not block social launches    *)
(* for ever.                                                               *)
RunSettles ==
  \A r \in Run :
    proc[r] \in {"ok", "bad"} /\ summary[r] # "none" /\ r \in load.rows
      ~> [](status[r] \in Terminal)

(* launch_guard.py: "prevent duplicate concurrent runs for shared          *)
(* workflows".  No two social-media runs the guard let pass are at work.   *)
GuardedExclusive ==
  \A a, b \in Guarded : proc[a] = "alive" /\ proc[b] = "alive" => a = b

(* The scheduler "does not ack on error, allow retry": an event that was   *)
(* delivered is acknowledged in the end.                                   *)
AtLeastOnce == \A e \in Event : e \in pending ~> e \notin pending
=============================================================================
