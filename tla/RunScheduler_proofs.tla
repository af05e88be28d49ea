------------------------- MODULE RunScheduler_proofs -------------------------
(***************************************************************************)
(* For every set of events, swarms, requests and gated runs, every         *)
(* workload and any number of crashes, raising launches, unreadable tables *)
(* and cancellations: the types of the run scheduler, and what it promises *)
(* of launches, leases, the launch guard and the run index.                *)
(***************************************************************************)
EXTENDS RunScheduler, TLAPS

Elems(s)    == {s[i] : i \in 1..Len(s)}
Distinct(s) == \A i, j \in 1..Len(s) : s[i] = s[j] => i = j

\* An event is in one place of one queue at a time, and was published; the
\* event of the swarm in hand is in none.
QueuesSound ==
  /\ Distinct(stream) /\ Distinct(batch)
  /\ Elems(stream) \cap Elems(batch) = {}
  /\ Elems(stream) \subseteq sent
  /\ swarm \notin Elems(stream) \cup Elems(batch)
  /\ at = "batch" => todo = {}

\* While a swarm is in hand the scheduler launches its children only.
SwarmSound ==
  /\ at = "spawn" /\ job["worker"] # Idle => job["worker"].run \in Child
  /\ at = "await" => job["worker"] = Idle

\* A run that is still to be launched: a request not made, an event not yet
\* handled, a gated run not yet taken from the approved ones, a child of an
\* event not yet handled or of the swarm in hand.
EventDue(e) == e \notin sent \/ e \in Elems(stream) \/ e \in Elems(batch)
Awaiting(r) == status[r] \in {"pending_approval", "approved_pending_launch"}
Due(r) ==
  \/ r \in Request /\ r \notin sent
  \/ r \in Event /\ EventDue(r)
  \/ r \in Gated /\ (Awaiting(r) \/ r \in todo)
  \/ r \in Child /\ (EventDue(Parent[r]) \/ (at = "spawn" /\ r \in todo))

\* Such a run has left no trace; one that was marked no longer awaits anything.
DueSound ==
  \A r \in Run :
    /\ Due(r) => launches[r] = 0 /\ r \notin lease
    /\ Due(r) => \A p \in Proc : job[p] # Idle => job[p].run # r
    /\ at = "approved" /\ r \in todo => ~Awaiting(r)

\* What a launch has done of its run, step by step.
JobSound ==
  \A p \in Proc : job[p] # Idle =>
    LET r == job[p].run IN
      /\ job[p].at \in {"acquire", "record", "spawn"} => launches[r] = 0
      /\ job[p].at = "acquire" => r \notin lease
      /\ job[p].at \in {"record", "spawn"} /\ r \notin cancelled => r \in lease
      /\ job[p].at = "spawn" => /\ dir[r] /\ status[r] \in {"running", "cancelled"}
                                /\ status[r] = "cancelled" => r \in cancelled

\* What the row, the summary and the waiter of a run say of its process.
ProcSound ==
  \A r \in Run :
    /\ launches[r] = IF proc[r] = "none" THEN 0 ELSE 1
    /\ proc[r] = "none" =>
         waiter[r] = "none" /\ summary[r] = "none" /\ status[r] # "completed"
    /\ proc[r] \in {"none", "alive"} =>
         summary[r] \in {"none", "completed"} /\ r \notin announced /\ status[r] # "failed"
    /\ waiter[r] \in {"release", "record", "announce", "done"} => proc[r] \in {"ok", "bad"}
    /\ proc[r] = "alive" =>
         /\ dir[r] /\ (status[r] = "completed" => summary[r] = "completed")
         /\ status[r] = "cancelled" => r \in cancelled

\* What a reconcile holds of a row ends it and had a summary behind it.
FixSound ==
  \A r \in Run : fix[r].at \in {"row", "write"} =>
    /\ proc[r] # "none" /\ fix[r].to \notin Active
    /\ fix[r].at = "row" => fix[r].to \in Terminal
    /\ proc[r] = "alive" =>
         /\ summary[r] = "completed" /\ fix[r].to # "failed"
         /\ fix[r].to = "cancelled" => r \in cancelled

\* A cancel under way is on record.
CancelSound == cancel # NoCancel => cancel.run \in cancelled

\* A social-media process at work that the guard sees.
InSight(r) == r \in Guarded \ unseen /\ proc[r] = "alive" /\ status[r] \in Active

\* While the scheduler launches a social-media run it sees no other one at work.
GuardSound ==
  LET j == job["worker"] IN
    j # Idle /\ j.at # "register" /\ j.run \in Guarded \ unseen => \A b \in Run : ~InSight(b)

\* The inductive invariant.
IInv ==
  /\ TypeOK
  /\ QueuesSound
  /\ SwarmSound
  /\ DueSound
  /\ JobSound
  /\ ProcSound
  /\ FixSound
  /\ CancelSound
  /\ LeaseTracksRun
  /\ GuardSound
  /\ OneInSight
-----------------------------------------------------------------------------

\* The empty queue.
LEMMA ElemsEmpty == Elems(<<>>) = {} /\ Distinct(<<>>)
  BY DEF Elems, Distinct

\* What xadd does to the stream.
LEMMA ElemsAppend ==
  ASSUME NEW S, NEW s \in Seq(S), NEW e \in S
  PROVE  /\ Elems(Append(s, e)) = Elems(s) \cup {e}
         /\ Distinct(s) /\ e \notin Elems(s) => Distinct(Append(s, e))
<1>1. Len(Append(s, e)) = Len(s) + 1 /\ Len(s) \in Nat
  OBVIOUS
<1>2. \A i \in 1..Len(s) : Append(s, e)[i] = s[i]
  OBVIOUS
<1>3. Append(s, e)[Len(s) + 1] = e
  OBVIOUS
<1>4. Elems(Append(s, e)) = Elems(s) \cup {e}
  <2>1. ASSUME NEW x \in Elems(Append(s, e)) PROVE x \in Elems(s) \cup {e}
    <3>1. PICK i \in 1..(Len(s) + 1) : x = Append(s, e)[i]
      BY <2>1, <1>1 DEF Elems
    <3> QED
      BY <3>1, <1>1, <1>2, <1>3 DEF Elems
  <2>2. ASSUME NEW x \in Elems(s) PROVE x \in Elems(Append(s, e))
    <3>1. PICK i \in 1..Len(s) : x = s[i]
      BY <2>2 DEF Elems
    <3>2. i \in 1..Len(Append(s, e))
      BY <3>1, <1>1
    <3> QED
      BY <3>1, <3>2, <1>2 DEF Elems
  <2>3. e \in Elems(Append(s, e))
    <3>1. Len(s) + 1 \in 1..Len(Append(s, e))
      BY <1>1
    <3> QED
      BY <3>1, <1>3 DEF Elems
  <2> QED
    BY <2>1, <2>2, <2>3
<1>5. ASSUME Distinct(s), e \notin Elems(s) PROVE Distinct(Append(s, e))
  BY <1>1, <1>2, <1>3, <1>5 DEF Elems, Distinct
<1> QED
  BY <1>4, <1>5

\* What taking the next event does to the batch.
LEMMA ElemsTail ==
  ASSUME NEW S, NEW s \in Seq(S), s # <<>>, Distinct(s)
  PROVE  /\ Head(s) \in Elems(s) /\ Tail(s) \in Seq(S)
         /\ Elems(Tail(s)) = Elems(s) \ {Head(s)} /\ Distinct(Tail(s))
<1>1. Len(s) \in Nat \ {0} /\ Head(s) = s[1] /\ Tail(s) \in Seq(S)
  OBVIOUS
<1>2. Len(Tail(s)) = Len(s) - 1 /\ \A i \in 1..(Len(s) - 1) : Tail(s)[i] = s[i + 1]
  OBVIOUS
<1>3. Head(s) \in Elems(s)
  <2>1. 1 \in 1..Len(s)
    BY <1>1
  <2> QED
    BY <1>1, <2>1 DEF Elems
<1>4. ASSUME NEW x \in Elems(Tail(s)) PROVE x \in Elems(s) \ {Head(s)}
  <2>1. PICK i \in 1..(Len(s) - 1) : x = s[i + 1]
    BY <1>2, <1>4 DEF Elems
  <2>2. i + 1 \in 1..Len(s) /\ 1 \in 1..Len(s) /\ i + 1 # 1
    BY <1>1, <2>1
  <2> QED
    BY <1>1, <2>1, <2>2 DEF Elems, Distinct
<1>5. ASSUME NEW x \in Elems(s) \ {Head(s)} PROVE x \in Elems(Tail(s))
  <2>1. PICK i \in 1..Len(s) : x = s[i]
    BY <1>5 DEF Elems
  <2>2. i - 1 \in 1..(Len(s) - 1) /\ (i - 1) + 1 = i
    BY <1>1, <1>5, <2>1
  <2>3. x = Tail(s)[i - 1]
    BY <1>2, <2>1, <2>2
  <2> QED
    BY <1>2, <2>2, <2>3 DEF Elems
<1>6. Distinct(Tail(s))
  BY <1>1, <1>2 DEF Distinct
<1> QED
  BY <1>1, <1>3, <1>4, <1>5, <1>6
-----------------------------------------------------------------------------

\* Nothing is published, launched or cancelled yet.
LEMMA InitIInv == Init => IInv
<1> SUFFICES ASSUME Init PROVE IInv
  OBVIOUS
<1> USE SchedulerAssumption DEF Init
<1>1. TypeOK
  <2>1. fix \in [Run -> [at: {"none", "row", "read", "write"}, to: Status]]
    BY DEF NoFix, Status
  <2> QED
    BY <2>1 DEF TypeOK, Status, Active, Terminal, Live, Idle, NoCancel, Proc
<1>2. QueuesSound /\ SwarmSound
  BY ElemsEmpty DEF QueuesSound, SwarmSound, Proc
<1>3. DueSound /\ JobSound /\ ProcSound /\ CancelSound
  BY DEF DueSound, Due, JobSound, ProcSound, CancelSound
<1>4. LeaseTracksRun /\ GuardSound /\ OneInSight
  BY DEF LeaseTracksRun, GuardSound, OneInSight, Proc, Run, Guarded, InSight
<1>5. FixSound
  BY DEF FixSound, NoFix
<1> QED
  BY <1>1, <1>2, <1>3, <1>4, <1>5 DEF IInv

\* The launches under way, as the types have them.
JobTyped ==
  /\ job \in [Proc -> {Idle} \cup [at: {"acquire", "record", "spawn", "register"}, run: Run]]
  /\ \A p \in Proc : job[p] # Idle => p \in up /\ Owner(job[p].run) = p

\* The launch of a process goes one step on.
LEMMA JobSteps ==
  ASSUME TypeOK, NEW p \in Proc, NEW from \in {"acquire", "record", "spawn"},
         NEW to \in {"record", "spawn", "register"}, Step(p, from, to), up' = up
  PROVE  /\ JobTyped' /\ job[p] # Idle /\ job'[p] # Idle
         /\ job[p].run \in Run /\ Owner(job[p].run) = p
         /\ job[p].at = from /\ job'[p].at = to /\ job'[p].run = job[p].run
         /\ \A q \in Proc : q # p => job'[q] = job[q]
<1>1. job[p] # Idle /\ job[p].at = from
  BY DEF Step, Idle
<1>2. /\ job[p] \in [at: {"acquire", "record", "spawn", "register"}, run: Run]
      /\ Owner(job[p].run) = p /\ p \in up
  BY <1>1 DEF TypeOK
<1>3. job'[p] = [job[p] EXCEPT !.at = to] /\ \A q \in Proc : q # p => job'[q] = job[q]
  BY DEF Step, TypeOK
<1>4. /\ job'[p] \in [at: {"acquire", "record", "spawn", "register"}, run: Run]
      /\ job'[p].at = to /\ job'[p].run = job[p].run
  BY <1>2, <1>3
<1>5. job'[p] # Idle
  BY <1>4 DEF Idle
<1>6. job' = [q \in Proc |-> job'[q]]
  BY DEF Step, TypeOK
<1>7. job' \in [Proc -> {Idle} \cup [at: {"acquire", "record", "spawn", "register"}, run: Run]]
  BY <1>3, <1>4, <1>6 DEF TypeOK
<1>8. JobTyped'
  BY <1>2, <1>3, <1>4, <1>7 DEF JobTyped, TypeOK
<1> QED
  BY <1>1, <1>2, <1>3, <1>4, <1>5, <1>8

\* A launch begins in a process that had none.
LEMMA JobBegins ==
  ASSUME TypeOK, NEW p \in Proc, p \in up, NEW r \in Run, Owner(r) = p,
         BeginLaunch(p, r), up' = up
  PROVE  /\ JobTyped' /\ job'[p] # Idle /\ job'[p].run = r /\ job'[p].at = "acquire"
         /\ \A q \in Proc : q # p => job'[q] = job[q]
<1>1. job'[p] = [at |-> "acquire", run |-> r] /\ \A q \in Proc : q # p => job'[q] = job[q]
  BY DEF BeginLaunch, TypeOK
<1>2. job'[p] # Idle
  BY <1>1 DEF Idle
<1>3. job' \in [Proc -> {Idle} \cup [at: {"acquire", "record", "spawn", "register"}, run: Run]]
  BY DEF BeginLaunch, TypeOK
<1> QED
  BY <1>1, <1>2, <1>3 DEF JobTyped, TypeOK

\* A launch ends: it returned, raised or its process died.
LEMMA JobEnds ==
  ASSUME TypeOK, NEW p \in Proc, job' = [job EXCEPT ![p] = Idle], up \ {p} \subseteq up'
  PROVE  JobTyped' /\ job'[p] = Idle /\ \A q \in Proc : q # p => job'[q] = job[q]
<1>1. job'[p] = Idle /\ \A q \in Proc : q # p => job'[q] = job[q]
  BY DEF TypeOK
<1>2. job' \in [Proc -> {Idle} \cup [at: {"acquire", "record", "spawn", "register"}, run: Run]]
  BY DEF TypeOK
<1> QED
  BY <1>1, <1>2 DEF JobTyped, TypeOK

\* Owners of the runs.
LEMMA Owners ==
  /\ \A r \in Event \cup Gated \cup Child : r \in Run /\ Owner(r) = "worker" /\ r \notin Request
  /\ \A r \in Request : r \in Run /\ Owner(r) = "console"
  /\ Proc = {"worker", "console"}
  BY SchedulerAssumption DEF Run, Owner, Proc

\* No event is called "none".
LEMMA NoneQueued == TypeOK => "none" \notin Elems(stream) \cup Elems(batch)
<1> SUFFICES ASSUME TypeOK PROVE "none" \notin Elems(stream) \cup Elems(batch)
  OBVIOUS
<1>1. \A i \in 1..Len(stream) : stream[i] \in Event
  BY DEF TypeOK
<1>2. \A i \in 1..Len(batch) : batch[i] \in Event
  BY DEF TypeOK
<1> QED
  BY <1>1, <1>2, SchedulerAssumption DEF Elems

\* An event at the head of the batch is one of its elements.
LEMMA HeadOfBatch ==
  ASSUME TypeOK, QueuesSound, NEW e, Handle(e)
  PROVE  /\ e \in Event /\ e \in Elems(batch) /\ batch' \in Seq(Event)
         /\ Elems(batch') = Elems(batch) \ {e} /\ Distinct(batch')
<1>1. batch \in Seq(Event) /\ batch # <<>> /\ e = Head(batch) /\ batch' = Tail(batch)
  BY DEF TypeOK, Handle
<1>2. Distinct(batch)
  BY DEF QueuesSound
<1>3. Head(batch) \in Event
  BY <1>1
<1> QED
  BY <1>1, <1>2, <1>3, ElemsTail

\* What a step of a reconcile does to the row and to what it holds of it.
LEMMA FixSteps ==
  ASSUME TypeOK, NEW r \in Run, Reconcile(r)
  PROVE  /\ UNCHANGED <<load, sent, bus, sched, job, dir, lease, dag, after, up, ops, mishaps, hist>>
         /\ fix' \in [Run -> [at: {"none", "row", "read", "write"}, to: Status]]
         /\ status' \in [Run -> Status]
         /\ \A x \in Run \ {r} : fix'[x] = fix[x] /\ status'[x] = status[x]
         /\ \/ status'[r] = status[r] /\ fix'[r].at \in {"none", "read"}
            \/ status'[r] = status[r] /\ fix'[r].at = "row" /\ summary[r] # "none"
                 /\ fix'[r].to = summary[r]
            \/ status'[r] = status[r] /\ fix'[r].at = "write" /\ fix[r].at = "row"
                 /\ (fix'[r].to = fix[r].to \/ (fix'[r].to = status[r] /\ ~Merges(status[r], fix[r].to)))
            \/ status'[r] = status[r] /\ fix'[r].at = "write" /\ summary[r] # "none"
                 /\ fix'[r].to = summary[r]
            \/ fix[r].at = "write" /\ fix'[r].at = "none" /\ status'[r] = fix[r].to
<1>1. ASSUME NEW from, NEW a \in {"none", "row", "read", "write"}, NEW t \in Status,
             FixStep(r, from, a, t)
      PROVE  /\ UNCHANGED <<load, sent, bus, sched, job, dir, lease, dag, after, up, ops, mishaps, hist>>
             /\ fix' \in [Run -> [at: {"none", "row", "read", "write"}, to: Status]]
             /\ \A x \in Run \ {r} : fix'[x] = fix[x]
             /\ fix[r].at = from /\ fix'[r].at = a /\ fix'[r].to = t
  BY <1>1 DEF FixStep, TypeOK
<1>2. summary[r] \in Status /\ status[r] \in Status /\ fix[r].to \in Status /\ "none" \in Status
  BY DEF TypeOK, Status
<1>3. CASE BackfillDisk(r)
  BY <1>1, <1>2, <1>3 DEF BackfillDisk, TypeOK
<1>4. CASE BackfillRow(r)
  BY <1>1, <1>2, <1>4 DEF BackfillRow, TypeOK
<1>5. CASE RepairSelect(r)
  BY <1>1, <1>2, <1>5 DEF RepairSelect, TypeOK
<1>6. CASE RepairRead(r)
  BY <1>1, <1>2, <1>6 DEF RepairRead, TypeOK
<1>7. CASE FixWrite(r)
  BY <1>1, <1>2, <1>7 DEF FixWrite, SetStatus, TypeOK
<1> QED
  BY <1>3, <1>4, <1>5, <1>6, <1>7 DEF Reconcile

\* Every step keeps the types, and the worker's batch unacknowledged.
LEMMA TypePreserved == IInv /\ [Next]_vars => TypeOK'
<1> SUFFICES ASSUME IInv, [Next]_vars PROVE TypeOK'
  OBVIOUS
<1> USE SchedulerAssumption DEF TypeOK, IInv, bus, sched, table, dag, after, ops, hist, SetStatus
<1>a. CASE FetchApproved \/ MarkLaunching
  <2>1. CASE FetchApproved
    BY <2>1 DEF FetchApproved
  <2>2. CASE MarkLaunching
    BY <2>2 DEF MarkLaunching, Status, Active
  <2> QED
    BY <1>a, <2>1, <2>2
<1>b. CASE Poll
  <2>1. Elems(batch') \subseteq pending' /\ stream' \in Seq(Event) /\ batch' \in Seq(Event)
    BY <1>b DEF Poll, Elems
  <2>2. pending' \subseteq sent' \cap Event
    BY <1>b DEF Poll, QueuesSound, Elems
  <2> QED
    BY <1>b, <2>1, <2>2 DEF Poll, Elems
<1>c. ASSUME NEW r \in Gated, LaunchApproved(r) PROVE TypeOK'
  <2>1. JobTyped'
    BY <1>c, JobBegins, Owners DEF LaunchApproved, Scheduling, JobTyped
  <2>2. mishaps' \in 0..load.mishaps /\ unseen' \subseteq Run
    BY <1>c, Owners DEF LaunchApproved, GuardPasses, Mishap
  <2> QED
    BY <1>c, <2>1, <2>2 DEF LaunchApproved, JobTyped
<1>d. ASSUME NEW e \in Event, Handle(e) PROVE TypeOK'
  <2>0. pending' = pending \/ pending' = pending \ {e}
    BY <1>d DEF Handle
  <2>1. Elems(batch') \subseteq pending' /\ batch' \in Seq(Event)
    BY <1>d, <2>0, HeadOfBatch DEF Elems
  <2>2. \/ UNCHANGED <<status, job>>
        \/ SetStatus({e}, "blocked") /\ UNCHANGED job
        \/ BeginLaunch("worker", e) /\ UNCHANGED status
    BY <1>d DEF Handle
  <2>3. /\ UNCHANGED <<load, sent, stream, dir, lease, dag, after, up, ops, fix, launches>>
        /\ recent' = recent \cup {Key[e]} /\ "worker" \in up /\ pending' \subseteq pending
    BY <1>d DEF Handle, Scheduling
  <2>4. status' \in [Run -> Status]
    BY <2>2 DEF Status
  <2>5. JobTyped'
    BY <2>2, <2>3, JobBegins, Owners DEF JobTyped
  <2>6. recent' \subseteq {Key[x] : x \in Event}
    BY <2>3
  <2>7. mishaps' \in 0..load.mishaps /\ unseen' \subseteq Run
    BY <1>d, Owners DEF Handle, GuardPasses, Mishap
  <2>8. \/ UNCHANGED <<at, todo, swarm>> /\ at = "batch"
        \/ at' = "spawn" /\ todo' = Children(e) /\ swarm' = e /\ e \in Swarms /\ pending' = pending
    BY <1>d DEF Handle
  <2>9. e \in pending
    BY <1>d, HeadOfBatch DEF Elems
  <2>10. \/ at' \in {"mark", "approved", "batch"} /\ todo' \subseteq Gated /\ swarm' = "none"
         \/ at' \in {"spawn", "await"} /\ todo' \subseteq Children(swarm') /\ swarm' \in pending' \cap Swarms
    BY <2>8, <2>9
  <2> QED
    BY <2>1, <2>3, <2>4, <2>5, <2>6, <2>7, <2>10 DEF Elems, JobTyped
<1>e. CASE CancelStatus
  <2>1. cancel \in [at: {"status", "file"}, run: Run, dir: BOOLEAN]
    BY <1>e DEF CancelStatus, NoCancel
  <2>2. cancel' \in [at: {"status", "file"}, run: Run, dir: BOOLEAN]
    BY <1>e, <2>1 DEF CancelStatus
  <2>3. status' \in [Run -> Status] /\ lease' \subseteq Run
    BY <1>e DEF CancelStatus, Status, Terminal
  <2> QED
    BY <1>e, <2>2, <2>3 DEF CancelStatus
<1>f. CASE CancelFile
  BY <1>f DEF CancelFile, NoCancel
<1>g. CASE BulkCancel
  BY <1>g DEF BulkCancel, Status, Terminal
<1>h. ASSUME NEW e \in Event, Publish(e) PROVE TypeOK'
  BY <1>h DEF Publish
<1>i. ASSUME NEW k, WindowPasses(k) PROVE TypeOK'
  BY <1>i DEF WindowPasses
<1>j. ASSUME NEW r \in Request, RunRequest(r) PROVE TypeOK'
  <2>1. JobTyped'
    BY <1>j, JobBegins, Owners DEF RunRequest
  <2> QED
    BY <1>j, <2>1 DEF RunRequest, JobTyped
<1>k. ASSUME NEW r \in Gated, Approve(r) PROVE TypeOK'
  BY <1>k DEF Approve, Status, Active
<1>l. ASSUME NEW r \in Gated, Deny(r) PROVE TypeOK'
  BY <1>l DEF Deny, Status
<1>m. ASSUME NEW r \in Run, Waiting(r) PROVE TypeOK'
  <2>1. CASE WaiterReturns(r)
    BY <2>1 DEF WaiterReturns, WaiterStep
  <2>2. CASE WaiterReleases(r)
    BY <2>2 DEF WaiterReleases, WaiterStep
  <2>3. CASE RecordCompletion(r)
    BY <2>3 DEF RecordCompletion, WaiterStep, Status, Terminal
  <2>4. CASE Announce(r)
    BY <2>4 DEF Announce, WaiterStep
  <2> QED
    BY <1>m, <2>1, <2>2, <2>3, <2>4 DEF Waiting
<1>n. ASSUME NEW r \in Run, SaveNode(r) \/ Ending(r) PROVE TypeOK'
  <2>1. CASE WriteSummary(r)
    <3>1. PICK s \in Terminal : summary' = [summary EXCEPT ![r] = s]
      BY <2>1 DEF WriteSummary, Terminal
    <3> QED
      BY <2>1, <3>1 DEF WriteSummary, Live
  <2>2. CASE Exit(r)
    BY <2>2 DEF Exit
  <2>3. CASE Die(r)
    BY <2>3 DEF Die
  <2>4. CASE SaveNode(r)
    BY <2>4 DEF SaveNode, Terminal
  <2> QED
    BY <1>n, <2>1, <2>2, <2>3, <2>4 DEF Ending
<1>o. ASSUME NEW r \in Run, Reconcile(r) PROVE TypeOK'
  <2>1. UNCHANGED <<load, sent, bus, sched, job, dir, lease, dag, after, up, ops, mishaps, hist>>
    BY <1>o, FixSteps
  <2>2. /\ fix' \in [Run -> [at: {"none", "row", "read", "write"}, to: Status]]
        /\ status' \in [Run -> Status]
    BY <1>o, FixSteps
  <2> QED
    BY <2>1, <2>2
<1>p. ASSUME NEW r \in Run, CancelStart(r) PROVE TypeOK'
  BY <1>p DEF CancelStart, Mishap
<1>q. ASSUME NEW p \in Proc, Launching(p) PROVE TypeOK'
  <2>1. CASE Acquire(p)
    <3>1. JobTyped' /\ job[p].run \in Run
      BY <2>1, JobSteps DEF Acquire
    <3> QED
      BY <2>1, <3>1 DEF Acquire, JobTyped
  <2>2. CASE RecordStart(p)
    <3>1. JobTyped' /\ job[p].run \in Run
      BY <2>2, JobSteps DEF RecordStart
    <3> QED
      BY <2>2, <3>1 DEF RecordStart, JobTyped, Status, Active
  <2>3. CASE Spawn(p)
    <3>1. JobTyped' /\ job[p].run \in Run
      BY <2>3, JobSteps DEF Spawn
    <3> QED
      BY <2>3, <3>1 DEF Spawn, JobTyped, Live
  <2>4. CASE Register(p)
    <3>1. job[p] # Idle /\ job[p].run \in Run
      BY <2>4 DEF Register, Idle
    <3>0. JobTyped'
      BY <2>4, JobEnds DEF Register
    <3>2. job[p].run \notin Elems(batch)
      BY <3>1, Owners DEF DueSound, Due, EventDue, Elems
    <3>3. at \in {"spawn", "await"} => job[p].run # swarm
      <4>1. CASE p = "worker"
        BY <3>1, <4>1, Owners DEF SwarmSound
      <4>2. CASE p = "console"
        <5>1. job[p].run \in Request
          BY <3>1, <4>2 DEF Owner
        <5> QED
          BY <5>1
      <4> QED
        BY <4>1, <4>2, Owners
    <3> QED
      BY <2>4, <3>0, <3>1, <3>2, <3>3 DEF Register, JobTyped, Elems
  <2>5. CASE LaunchRaises(p)
    <3>1. JobTyped'
      BY <2>5, JobEnds DEF LaunchRaises
    <3>2. \/ at' = "batch" /\ todo' = {} /\ swarm' = "none"
          \/ UNCHANGED <<at, todo, swarm>>
      BY <2>5 DEF LaunchRaises
    <3> QED
      BY <2>5, <3>1, <3>2 DEF LaunchRaises, Mishap, JobTyped
  <2> QED
    BY <1>q, <2>1, <2>2, <2>3, <2>4, <2>5 DEF Launching
<1>r. ASSUME NEW p \in Proc, Crash(p) PROVE TypeOK'
  <2>1. JobTyped'
    BY <1>r, JobEnds DEF Crash
  <2>2. waiter' \in [Run -> {"none", "waiting", "release", "record", "announce", "done", "lost"}]
    BY <1>r DEF Crash
  <2>3. /\ batch' \in Seq(Event) /\ {batch'[i] : i \in 1..Len(batch')} \subseteq pending
        /\ \/ at' \in {"mark", "approved", "batch"} /\ todo' \subseteq Gated /\ swarm' = "none"
           \/ at' \in {"spawn", "await"} /\ todo' \subseteq Children(swarm') /\ swarm' \in pending \cap Swarms
        /\ fix' \in [Run -> [at: {"none", "row", "read", "write"}, to: Status]]
        /\ recent' \subseteq {Key[e] : e \in Event}
        /\ cancel' \in {NoCancel} \cup [at: {"status", "file"}, run: Run, dir: BOOLEAN]
    <3>1. CASE p = "worker"
      BY <1>r, <3>1 DEF Crash, NoFix, Status
    <3>2. CASE p # "worker"
      BY <1>r, <3>2 DEF Crash
    <3> QED
      BY <3>1, <3>2
  <2> QED
    BY <1>r, <2>1, <2>2, <2>3 DEF Crash, Mishap, JobTyped
<1>s. ASSUME NEW p \in Proc, Restart(p) PROVE TypeOK'
  BY <1>s DEF Restart
<1>t. CASE UNCHANGED vars
  BY <1>t DEF vars
<1>u. CASE Swarming
  <2>1. ASSUME NEW c \in Child, SwarmLaunch(c) PROVE TypeOK'
    <3>1. JobTyped'
      BY <2>1, JobBegins, Owners DEF SwarmLaunch, Scheduling
    <3>2. todo' \subseteq todo
      BY <2>1 DEF SwarmLaunch
    <3> QED
      BY <2>1, <3>1, <3>2 DEF SwarmLaunch, JobTyped
  <2>2. CASE SwarmLaunched
    BY <2>2 DEF SwarmLaunched
  <2>3. ASSUME NEW c \in Child, SwarmWait(c) PROVE TypeOK'
    BY <2>3 DEF SwarmWait
  <2>4. CASE SwarmDeadline
    BY <2>4 DEF SwarmDeadline
  <2>5. CASE SwarmEnds
    <3>1. Elems(batch) \subseteq pending'
      BY <2>5 DEF SwarmEnds, QueuesSound, Elems
    <3>2. mishaps' \in 0..load.mishaps /\ pending' \subseteq pending
      BY <2>5 DEF SwarmEnds, Mishap
    <3> QED
      BY <2>5, <3>1, <3>2 DEF SwarmEnds, Elems
  <2> QED
    BY <1>u, <2>1, <2>2, <2>3, <2>4, <2>5 DEF Swarming
<1> QED
  BY <1>a, <1>b, <1>c, <1>d, <1>e, <1>f, <1>g, <1>h, <1>i, <1>j, <1>k, <1>l, <1>m, <1>n, <1>o,
     <1>p, <1>q, <1>r, <1>s, <1>t, <1>u DEF Next, Scheduler, Cancelling

\* The parts that say what a launch, a process and a reconcile leave behind.
Rest == /\ QueuesSound /\ SwarmSound /\ DueSound /\ JobSound /\ ProcSound /\ FixSound
        /\ CancelSound /\ LeaseTracksRun

\* Every step keeps them.
LEMMA RestPreserved == IInv /\ [Next]_vars => Rest'
<1> SUFFICES ASSUME IInv, [Next]_vars PROVE Rest'
  OBVIOUS
<1>0. TypeOK /\ TypeOK'
  BY TypePreserved DEF IInv
<1>00. Rest
  BY DEF IInv, Rest
<1> USE <1>0, <1>00, Owners, SchedulerAssumption
    DEF Rest, TypeOK, QueuesSound, SwarmSound, DueSound, Due, EventDue, Awaiting, JobSound,
        ProcSound, FixSound, CancelSound, LeaseTracksRun,
        bus, sched, table, dag, after, ops, hist, SetStatus
<1>a. CASE FetchApproved \/ MarkLaunching
  <2>1. CASE FetchApproved
    BY <2>1 DEF FetchApproved, Scheduling
  <2>2. CASE MarkLaunching
    <3>1. todo \subseteq Gated /\ \A r \in todo : Due(r) /\ r \in Run
      BY <2>2 DEF MarkLaunching
    <3>2. \A r \in todo : proc[r] = "none" /\ fix[r].at \notin {"row", "write"}
      BY <3>1
    <3> QED
      BY <2>2, <3>1, <3>2 DEF MarkLaunching, Scheduling
  <2> QED
    BY <1>a, <2>1, <2>2
<1>b. CASE Poll
  BY <1>b, ElemsEmpty DEF Poll, Scheduling
<1>c. ASSUME NEW r \in Gated, LaunchApproved(r) PROVE Rest'
  <2>1. CASE UNCHANGED job
    BY <1>c, <2>1 DEF LaunchApproved
  <2>2. CASE BeginLaunch("worker", r)
    <3>1. /\ job'["worker"] # Idle /\ job'["worker"].run = r /\ job'["worker"].at = "acquire"
          /\ job'["console"] = job["console"]
      BY <1>c, <2>2, JobBegins DEF LaunchApproved, Scheduling
    <3>2. Due(r) /\ ~Due(r)'
      BY <1>c DEF LaunchApproved
    <3> QED
      BY <1>c, <3>1, <3>2 DEF LaunchApproved
  <2> QED
    BY <1>c, <2>1, <2>2 DEF LaunchApproved
<1>d. ASSUME NEW e \in Event, Handle(e) PROVE Rest'
  <2>1. Elems(batch') = Elems(batch) \ {e} /\ Distinct(batch') /\ e \in Elems(batch)
    BY <1>d, HeadOfBatch
  <2>2. e \in sent /\ EventDue(e) /\ Due(e)
    BY <2>1 DEF Elems
  <2>3. e \notin Elems(stream) /\ stream' = stream /\ sent' = sent /\ ~EventDue(e)'
    BY <1>d, <2>1, <2>2 DEF Handle
  <2>4. \A x \in Event \ {e} : EventDue(x)' <=> EventDue(x)
    BY <1>d, <2>1, <2>3
  <2>5. /\ UNCHANGED <<load, dir, lease, dag, after, up, ops, fix, launches>>
        /\ at = "batch" /\ todo = {} /\ job["worker"] = Idle
    BY <1>d DEF Handle, Scheduling
  <2>6. CASE UNCHANGED <<at, todo, swarm, status, job>>
    BY <2>1, <2>3, <2>4, <2>5, <2>6
  <2>7. CASE SetStatus({e}, "blocked") /\ UNCHANGED <<at, todo, swarm, job>>
    BY <2>1, <2>2, <2>3, <2>4, <2>5, <2>7
  <2>8. CASE BeginLaunch("worker", e) /\ UNCHANGED <<at, todo, swarm, status>>
    <3>1. /\ job'["worker"] # Idle /\ job'["worker"].run = e /\ job'["worker"].at = "acquire"
          /\ job'["console"] = job["console"]
      BY <1>d, <2>8, JobBegins DEF Handle, Scheduling
    <3> QED
      BY <2>1, <2>2, <2>3, <2>4, <2>5, <2>8, <3>1
  <2>9. CASE e \in Swarms /\ at' = "spawn" /\ todo' = Children(e) /\ swarm' = e /\ UNCHANGED <<status, job>>
    <3>1. \A x \in Run : Due(x)' => Due(x)
      BY <2>2, <2>3, <2>4, <2>5, <2>9 DEF Children
    <3>2. QueuesSound' /\ SwarmSound'
      BY <2>1, <2>3, <2>5, <2>9
    <3> QED
      BY <2>5, <2>9, <3>1, <3>2
  <2> QED
    BY <1>d, <2>6, <2>7, <2>8, <2>9 DEF Handle
<1>e. CASE CancelStatus
  BY <1>e DEF CancelStatus, NoCancel
<1>f. CASE CancelFile
  BY <1>f DEF CancelFile
<1>g. CASE BulkCancel
  BY <1>g DEF BulkCancel, Stubs
<1>h. ASSUME NEW e \in Event, Publish(e) PROVE Rest'
  <2>1. e \notin sent /\ e \notin Elems(stream)
    BY <1>h DEF Publish
  <2>2. Elems(stream') = Elems(stream) \cup {e} /\ Distinct(stream')
    BY <1>h, <2>1, ElemsAppend DEF Publish
  <2>3. e \notin Elems(batch)
    BY <2>1 DEF Elems
  <2>4. QueuesSound'
    BY <1>h, <2>2, <2>3 DEF Publish
  <2> QED
    BY <1>h, <2>1, <2>2, <2>4 DEF Publish
<1>i. ASSUME NEW k, WindowPasses(k) PROVE Rest'
  BY <1>i DEF WindowPasses
<1>j. ASSUME NEW r \in Request, RunRequest(r) PROVE Rest'
  BY <1>j, JobBegins DEF RunRequest
<1>k. ASSUME NEW r \in Gated, Approve(r) PROVE Rest'
  BY <1>k DEF Approve
<1>l. ASSUME NEW r \in Gated, Deny(r) PROVE Rest'
  BY <1>l DEF Deny
<1>m. ASSUME NEW r \in Run, Waiting(r) PROVE Rest'
  <2>1. CASE WaiterReturns(r)
    BY <2>1 DEF WaiterReturns, WaiterStep
  <2>2. CASE WaiterReleases(r)
    <3>1. /\ waiter[r] = "release" /\ waiter' = [waiter EXCEPT ![r] = "record"] /\ lease' = lease \ {r}
          /\ UNCHANGED <<load, sent, bus, sched, job, table, dag, announced, up, ops, fix, launches>>
      BY <2>2 DEF WaiterReleases, WaiterStep
    <3>2. launches[r] = 1
      BY <3>1
    <3>3. QueuesSound' /\ SwarmSound' /\ FixSound' /\ CancelSound'
      BY <3>1
    <3>4. DueSound'
      BY <3>1
    <3>5. JobSound'
      BY <3>1, <3>2
    <3>6. ProcSound' /\ LeaseTracksRun'
      BY <3>1
    <3> QED
      BY <3>3, <3>4, <3>5, <3>6
  <2>3. CASE RecordCompletion(r)
    BY <2>3 DEF RecordCompletion, WaiterStep, Terminal
  <2>4. CASE Announce(r)
    BY <2>4 DEF Announce, WaiterStep
  <2> QED
    BY <1>m, <2>1, <2>2, <2>3, <2>4 DEF Waiting
<1>n. ASSUME NEW r \in Run, SaveNode(r) \/ Ending(r) PROVE Rest'
  <2>1. CASE WriteSummary(r)
    BY <2>1 DEF WriteSummary
  <2>2. CASE Exit(r)
    BY <2>2 DEF Exit
  <2>3. CASE Die(r)
    BY <2>3 DEF Die
  <2>4. CASE SaveNode(r)
    BY <2>4 DEF SaveNode
  <2> QED
    BY <1>n, <2>1, <2>2, <2>3, <2>4 DEF Ending
<1>o. ASSUME NEW r \in Run, Reconcile(r) PROVE Rest'
  <2>1. UNCHANGED <<load, sent, bus, sched, job, dir, lease, dag, after, up, ops, mishaps, hist>>
    BY <1>o, FixSteps
  <2>2. \A x \in Run \ {r} : fix'[x] = fix[x] /\ status'[x] = status[x]
    BY <1>o, FixSteps
  <2>3. \/ status'[r] = status[r] /\ fix'[r].at \in {"none", "read"}
        \/ status'[r] = status[r] /\ fix'[r].at \in {"row", "write"} /\ summary[r] # "none"
             /\ fix'[r].to = summary[r]
        \/ status'[r] = status[r] /\ fix'[r].at = "write" /\ fix[r].at = "row"
             /\ (fix'[r].to = fix[r].to \/ (fix'[r].to = status[r] /\ ~Merges(status[r], fix[r].to)))
        \/ fix[r].at = "write" /\ fix'[r].at = "none" /\ status'[r] = fix[r].to
    BY <1>o, FixSteps
  <2>4. status'[r] = status[r] \/ (proc[r] # "none" /\ status'[r] = fix[r].to /\ fix[r].at = "write")
    BY <2>3
  <2>5. QueuesSound' /\ SwarmSound' /\ CancelSound' /\ LeaseTracksRun'
    BY <2>1
  <2>6. DueSound'
    <3>1. \A x \in Run : Awaiting(x)' => Awaiting(x)
      BY <2>2, <2>4 DEF Active
    <3> QED
      BY <2>1, <3>1
  <2>7. JobSound'
    BY <2>1, <2>2, <2>4
  <2>8. ProcSound'
    BY <2>1, <2>2, <2>4
  <2>9. FixSound'
    <3>1. fix'[r].at \in {"row", "write"} =>
            /\ proc[r] # "none" /\ fix'[r].to \notin Active
            /\ fix'[r].at = "row" => fix'[r].to \in Terminal
            /\ proc[r] = "alive" =>
                 /\ summary[r] = "completed" /\ fix'[r].to # "failed"
                 /\ fix'[r].to = "cancelled" => r \in cancelled
      BY <2>3 DEF Merges, Active, Terminal
    <3>2. ASSUME NEW x \in Run \ {r}, fix'[x].at \in {"row", "write"}
          PROVE  /\ proc[x] # "none" /\ fix'[x].to \notin Active
                 /\ fix'[x].at = "row" => fix'[x].to \in Terminal
                 /\ proc[x] = "alive" =>
                      /\ summary[x] = "completed" /\ fix'[x].to # "failed"
                      /\ fix'[x].to = "cancelled" => x \in cancelled
      BY <2>2, <3>2
    <3>3. UNCHANGED <<proc, summary, cancelled>>
      BY <2>1
    <3> QED
      BY <3>1, <3>2, <3>3 DEF FixSound
  <2> QED
    BY <2>5, <2>6, <2>7, <2>8, <2>9
<1>p. ASSUME NEW r \in Run, CancelStart(r) PROVE Rest'
  BY <1>p DEF CancelStart
<1>q. ASSUME NEW p \in Proc, Launching(p) PROVE Rest'
  <2>1. CASE Acquire(p)
    <3>1. /\ job[p] # Idle /\ job'[p] # Idle /\ job[p].run \in Run /\ Owner(job[p].run) = p
          /\ job[p].at = "acquire" /\ job'[p].at = "record" /\ job'[p].run = job[p].run
          /\ \A q \in Proc : q # p => job'[q] = job[q]
      BY <2>1, JobSteps DEF Acquire
    <3>2. /\ ~Due(job[p].run)
          /\ \A q \in Proc : q # p /\ job[q] # Idle => job[q].run # job[p].run
      BY <3>1
    <3>3. QueuesSound' /\ DueSound'
      <4>1. QueuesSound' /\ \A x \in Run : (Due(x)' <=> Due(x)) /\ (Awaiting(x)' <=> Awaiting(x))
        BY <2>1 DEF Acquire
      <4> QED
        BY <2>1, <3>1, <3>2, <4>1 DEF Acquire
    <3>4. JobSound'
      BY <2>1, <3>1, <3>2 DEF Acquire
    <3>5. ProcSound' /\ CancelSound' /\ LeaseTracksRun'
      <4>1. proc[job[p].run] = "none"
        BY <3>1
      <4>2. waiter[job[p].run] = "none"
        BY <3>1, <4>1
      <4>3. ProcSound' /\ CancelSound'
        BY <2>1 DEF Acquire
      <4>4. LeaseTracksRun'
        BY <2>1, <4>2 DEF Acquire
      <4> QED
        BY <4>3, <4>4
    <3>6. SwarmSound' /\ FixSound'
      BY <2>1, <3>1 DEF Acquire
    <3> QED
      BY <3>3, <3>4, <3>5, <3>6
  <2>2. CASE RecordStart(p)
    BY <2>2, JobSteps DEF RecordStart
  <2>3. CASE Spawn(p)
    <3>1. /\ job[p] # Idle /\ job'[p] # Idle /\ job[p].run \in Run /\ Owner(job[p].run) = p
          /\ job[p].at = "spawn" /\ job'[p].at = "register" /\ job'[p].run = job[p].run
          /\ \A q \in Proc : q # p => job'[q] = job[q]
      BY <2>3, JobSteps DEF Spawn
    <3>2. /\ ~Due(job[p].run)
          /\ \A q \in Proc : q # p /\ job[q] # Idle => job[q].run # job[p].run
      BY <3>1
    <3>3. QueuesSound' /\ DueSound'
      <4>1. QueuesSound' /\ \A x \in Run : (Due(x)' <=> Due(x)) /\ (Awaiting(x)' <=> Awaiting(x))
        BY <2>3 DEF Spawn
      <4> QED
        BY <2>3, <3>1, <3>2, <4>1 DEF Spawn
    <3>4. JobSound'
      BY <2>3, <3>1, <3>2 DEF Spawn
    <3>5. ProcSound' /\ CancelSound' /\ LeaseTracksRun'
      BY <2>3, <3>1, <3>2 DEF Spawn
    <3>6. SwarmSound'
      BY <2>3, <3>1 DEF Spawn
    <3>7. FixSound'
      BY <2>3, <3>1, <3>2 DEF Spawn
    <3> QED
      BY <3>3, <3>4, <3>5, <3>6, <3>7
  <2>4. CASE Register(p)
    BY <2>4, JobEnds DEF Register
  <2>5. CASE LaunchRaises(p)
    <3>1. job'[p] = Idle /\ \A q \in Proc : q # p => job'[q] = job[q]
      BY <2>5, JobEnds DEF LaunchRaises
    <3>2. \/ p = "worker" /\ at = "spawn" /\ at' = "batch" /\ todo' = {} /\ swarm' = "none"
          \/ ~(p = "worker" /\ at = "spawn") /\ UNCHANGED <<at, todo, swarm>>
      BY <2>5 DEF LaunchRaises
    <3>3. UNCHANGED <<load, sent, bus, batch, table, lease, dag, after, up, ops, fix, hist>>
      BY <2>5 DEF LaunchRaises
    <3>4. QueuesSound' /\ SwarmSound'
      BY <3>1, <3>2, <3>3, NoneQueued
    <3>5. \A x \in Run : Due(x)' => Due(x)
      BY <3>2, <3>3
    <3>6. DueSound'
      BY <3>1, <3>2, <3>3, <3>5
    <3> QED
      BY <3>1, <3>3, <3>4, <3>6
  <2> QED
    BY <1>q, <2>1, <2>2, <2>3, <2>4, <2>5 DEF Launching
<1>r. ASSUME NEW p \in Proc, Crash(p) PROVE Rest'
  <2>1. job'[p] = Idle /\ \A q \in Proc : q # p => job'[q] = job[q]
    BY <1>r, JobEnds DEF Crash
  <2>2. \/ /\ p = "worker" /\ at' = "batch" /\ batch' = <<>> /\ todo' = {} /\ swarm' = "none"
           /\ fix' = [r \in Run |-> NoFix] /\ UNCHANGED cancel
        \/ p # "worker" /\ cancel' = NoCancel /\ UNCHANGED <<at, batch, todo, swarm, fix>>
    BY <1>r DEF Crash
  <2>3. QueuesSound' /\ Elems(batch') \subseteq Elems(batch) /\ todo' \subseteq todo
    <3>1. UNCHANGED <<stream, sent>>
      BY <1>r DEF Crash
    <3>2. CASE batch' = <<>> /\ todo' = {} /\ swarm' = "none"
      <4>1. Elems(batch') = {} /\ Distinct(batch')
        BY ONLY <3>2, ElemsEmpty
      <4>2. swarm' \notin Elems(stream')
        BY ONLY <3>1, <3>2, <1>0, NoneQueued
      <4> QED
        BY ONLY <4>1, <4>2, <3>1, <3>2, <1>00 DEF Rest, QueuesSound
    <3>3. CASE UNCHANGED <<at, batch, todo, swarm>>
      BY ONLY <3>1, <3>3, <1>00 DEF Rest, QueuesSound
    <3> QED
      BY <2>2, <3>2, <3>3
  <2>4. DueSound' /\ JobSound' /\ CancelSound' /\ SwarmSound'
    BY <1>r, <2>1, <2>2, <2>3 DEF Crash
  <2>7. FixSound'
    BY <1>r, <2>2 DEF Crash, NoFix
  <2>5. ProcSound' /\ LeaseTracksRun'
    BY <1>r DEF Crash
  <2> QED
    BY <2>3, <2>4, <2>5, <2>7
<1>s. ASSUME NEW p \in Proc, Restart(p) PROVE Rest'
  BY <1>s DEF Restart
<1>t. CASE UNCHANGED vars
  BY <1>t DEF vars
<1>u. CASE Swarming
  <2>1. ASSUME NEW c \in Child, SwarmLaunch(c) PROVE Rest'
    <3>1. /\ job'["worker"] # Idle /\ job'["worker"].run = c /\ job'["worker"].at = "acquire"
          /\ job'["console"] = job["console"]
      BY <2>1, JobBegins DEF SwarmLaunch, Scheduling
    <3>2. Due(c) /\ ~Due(c)'
      BY <2>1 DEF SwarmLaunch, Children
    <3> QED
      BY <2>1, <3>1, <3>2 DEF SwarmLaunch
  <2>2. CASE SwarmLaunched
    <3>1. \A x \in Run : Due(x)' => Due(x)
      BY <2>2 DEF SwarmLaunched, Children
    <3> QED
      BY <2>2, <3>1 DEF SwarmLaunched, Scheduling
  <2>3. ASSUME NEW c \in Child, SwarmWait(c) PROVE Rest'
    BY <2>3 DEF SwarmWait
  <2>4. CASE SwarmDeadline
    BY <2>4 DEF SwarmDeadline
  <2>5. CASE SwarmEnds
    <3>1. QueuesSound' /\ SwarmSound'
      BY <2>5, NoneQueued DEF SwarmEnds, Scheduling
    <3>2. \A x \in Run : Due(x)' => Due(x)
      BY <2>5 DEF SwarmEnds
    <3> QED
      BY <2>5, <3>1, <3>2 DEF SwarmEnds
  <2> QED
    BY <1>u, <2>1, <2>2, <2>3, <2>4, <2>5 DEF Swarming
<1> QED
  BY <1>a, <1>b, <1>c, <1>d, <1>e, <1>f, <1>g, <1>h, <1>i, <1>j, <1>k, <1>l, <1>m, <1>n, <1>o,
     <1>p, <1>q, <1>r, <1>s, <1>t, <1>u DEF Next, Scheduler, Cancelling

\* No social-media process comes into sight and no launch begins.
LEMMA Calm ==
  ASSUME IInv, \A b \in Run : InSight(b)' => InSight(b),
         load' = load, unseen \subseteq unseen',
         \/ job'["worker"] = job["worker"] \/ job'["worker"] = Idle
         \/ /\ job["worker"] # Idle /\ job["worker"].at # "register"
            /\ job'["worker"].run = job["worker"].run
  PROVE  GuardSound' /\ OneInSight'
<1>1. Guarded' = Guarded /\ Guarded \subseteq Run
  BY SchedulerAssumption DEF Guarded, IInv, TypeOK
<1>2. GuardSound'
  BY <1>1 DEF IInv, GuardSound
<1>3. \A a, b \in Run : InSight(a) /\ InSight(b) => a = b
  BY DEF IInv, OneInSight, InSight
<1>4. OneInSight'
  BY <1>1, <1>3 DEF OneInSight, InSight
<1> QED
  BY <1>2, <1>4

\* The scheduler begins a launch: the guard saw nothing at work, or could not
\* look, or was not asked.
LEMMA Begins ==
  ASSUME IInv, NEW r \in Run, job' = [job EXCEPT !["worker"] = [at |-> "acquire", run |-> r]],
         UNCHANGED <<load, proc, status>>, unseen \subseteq unseen',
         r \notin Guarded \/ r \in unseen' \/ ~ShouldSkipLaunch(r)
  PROVE  GuardSound' /\ OneInSight'
<1>1. Guarded' = Guarded /\ Guarded \subseteq Run /\ Guarded \subseteq load.social
  BY SchedulerAssumption DEF Guarded, IInv, TypeOK
<1>2. \A b \in Run : InSight(b)' => InSight(b)
  BY <1>1 DEF InSight
<1>3. \A a, b \in Run : InSight(a) /\ InSight(b) => a = b
  BY DEF IInv, OneInSight, InSight
<1>4. OneInSight'
  BY <1>1, <1>2, <1>3 DEF OneInSight, InSight
<1>5. job'["worker"].run = r
  BY DEF IInv, TypeOK, Proc
<1>6. ~ShouldSkipLaunch(r) /\ r \in Guarded => \A b \in Run : ~InSight(b)
  BY <1>1 DEF ShouldSkipLaunch, InFlight, InSight
<1>7. GuardSound'
  BY <1>1, <1>2, <1>5, <1>6 DEF GuardSound
<1> QED
  BY <1>4, <1>7

\* Every step keeps what the launch guard sees.
LEMMA GuardPreserved == IInv /\ [Next]_vars => GuardSound' /\ OneInSight'
<1> SUFFICES ASSUME IInv, [Next]_vars PROVE GuardSound' /\ OneInSight'
  OBVIOUS
<1> DEFINE Same == job'["worker"] = job["worker"] /\ load' = load /\ unseen' = unseen
<1>0. TypeOK /\ DueSound /\ JobSound /\ ProcSound /\ FixSound
  BY DEF IInv
<1>1. Guarded \subseteq Run /\ \A r \in Guarded : r \notin Request /\ r \notin Child
  BY <1>0, SchedulerAssumption DEF Guarded, TypeOK
<1>2. ASSUME Same, UNCHANGED <<proc, status>> PROVE GuardSound' /\ OneInSight'
  BY <1>2, Calm DEF InSight, Guarded
<1>3. ASSUME Same, proc' = proc,
             \A r \in Run : status'[r] = status[r] \/ status'[r] \notin Active \/ status[r] \in Active
      PROVE  GuardSound' /\ OneInSight'
  BY <1>3, Calm DEF InSight, Guarded
<1> USE SchedulerAssumption, Owners DEF bus, sched, table, dag, after, ops, hist, SetStatus
<1>a. CASE FetchApproved \/ Poll \/ SwarmLaunched \/ SwarmDeadline \/ SwarmEnds
           \/ CancelFile \/ UNCHANGED vars
  BY <1>a, <1>2 DEF FetchApproved, Poll, SwarmLaunched, SwarmDeadline, SwarmEnds, CancelFile, vars
<1>b. ASSUME NEW r, \/ Publish(r) \/ WindowPasses(r) \/ SwarmWait(r) \/ WaiterReturns(r)
                    \/ WaiterReleases(r) \/ Announce(r) \/ Restart(r)
      PROVE  GuardSound' /\ OneInSight'
  BY <1>b, <1>2 DEF Publish, WindowPasses, SwarmWait, WaiterReturns, WaiterReleases, Announce, Restart
<1>c. CASE CancelStatus \/ BulkCancel
  BY <1>c, <1>3 DEF CancelStatus, BulkCancel, Active
<1>d. ASSUME NEW r \in Run, Approve(r) \/ Deny(r) \/ RecordCompletion(r)
      PROVE  GuardSound' /\ OneInSight'
  <2>1. CASE Approve(r)
    BY <2>1, <1>3 DEF Approve, Active
  <2>2. CASE Deny(r)
    BY <2>2, <1>3 DEF Deny, Active
  <2>3. CASE RecordCompletion(r)
    <3>1. \A x \in Run : status'[x] = status[x] \/ status'[x] \notin Active
      BY <2>3, <1>0 DEF RecordCompletion, TypeOK, Active, Terminal
    <3> QED
      BY <2>3, <3>1, <1>3 DEF RecordCompletion
  <2> QED
    BY <1>d, <2>1, <2>2, <2>3
<1>e. ASSUME NEW r \in Run, Reconcile(r) PROVE GuardSound' /\ OneInSight'
  BY <1>e, <1>3, <1>0, FixSteps DEF FixSound
<1>f. CASE MarkLaunching
  <2>0. todo \subseteq Gated
    BY <1>f, <1>0 DEF MarkLaunching, TypeOK
  <2>1. \A r \in todo : r \in Run /\ proc[r] # "alive"
    BY <2>0, <1>0 DEF DueSound, Due, ProcSound
  <2>2. \A b \in Run : InSight(b)' => InSight(b)
    BY <1>f, <2>1 DEF MarkLaunching, InSight, Guarded
  <2> QED
    BY <1>f, <2>2, Calm DEF MarkLaunching
<1>g. ASSUME NEW r \in Run, SaveNode(r) \/ Ending(r) PROVE GuardSound' /\ OneInSight'
  <2>1. Same /\ status' = status /\ \A b \in Run : proc'[b] = "alive" => proc[b] = "alive"
    BY <1>g, <1>0 DEF SaveNode, Ending, WriteSummary, Exit, Die, TypeOK
  <2> QED
    BY <2>1, Calm DEF InSight, Guarded
<1>h. ASSUME NEW r \in Run, CancelStart(r) PROVE GuardSound' /\ OneInSight'
  <2>1. Same /\ status' = status /\ \A b \in Run : proc'[b] = "alive" => proc[b] = "alive"
    BY <1>h, <1>0 DEF CancelStart, TypeOK
  <2> QED
    BY <2>1, Calm DEF InSight, Guarded
<1>i. ASSUME NEW r \in Request, RunRequest(r) PROVE GuardSound' /\ OneInSight'
  BY <1>i, <1>2, <1>0 DEF RunRequest, BeginLaunch, TypeOK
<1>j. ASSUME NEW r \in Gated, LaunchApproved(r) PROVE GuardSound' /\ OneInSight'
  <2>1. CASE UNCHANGED <<job, unseen>>
    BY <1>j, <2>1, <1>2 DEF LaunchApproved
  <2>2. CASE GuardPasses(r) /\ BeginLaunch("worker", r)
    BY <1>j, <2>2, Begins DEF LaunchApproved, GuardPasses, BeginLaunch
  <2> QED
    BY <1>j, <2>1, <2>2 DEF LaunchApproved
<1>k. ASSUME NEW e \in Event, Handle(e) PROVE GuardSound' /\ OneInSight'
  <2>1. CASE UNCHANGED <<job, unseen, status>>
    BY <1>k, <2>1, <1>2 DEF Handle
  <2>2. CASE SetStatus({e}, "blocked") /\ UNCHANGED <<job, unseen>>
    BY <1>k, <2>2, <1>3 DEF Handle, Active
  <2>3. CASE GuardPasses(e) /\ BeginLaunch("worker", e) /\ UNCHANGED status
    BY <1>k, <2>3, Begins DEF Handle, GuardPasses, BeginLaunch
  <2> QED
    BY <1>k, <2>1, <2>2, <2>3 DEF Handle
<1>l. ASSUME NEW c \in Child, SwarmLaunch(c) PROVE GuardSound' /\ OneInSight'
  BY <1>l, <1>1, Begins DEF SwarmLaunch, BeginLaunch
<1>m. ASSUME NEW p \in Proc, Register(p) \/ LaunchRaises(p) \/ Crash(p)
      PROVE  GuardSound' /\ OneInSight'
  <2>1. /\ load' = load /\ unseen' = unseen /\ UNCHANGED <<proc, status>>
        /\ job' = [job EXCEPT ![p] = Idle]
    BY <1>m DEF Register, LaunchRaises, Crash
  <2>2. job'["worker"] = job["worker"] \/ job'["worker"] = Idle
    BY <2>1, <1>0 DEF TypeOK
  <2> QED
    BY <2>1, <2>2, Calm DEF InSight, Guarded
<1>n. ASSUME NEW p \in Proc, Acquire(p) \/ RecordStart(p)
      PROVE  GuardSound' /\ OneInSight'
  <2>1. PICK from \in {"acquire", "record"}, to \in {"record", "spawn"} : Step(p, from, to)
    BY <1>n DEF Acquire, RecordStart
  <2>2. /\ load' = load /\ unseen' = unseen /\ proc' = proc /\ up' = up
        /\ \A b \in Run : status'[b] = status[b] \/ b = job[p].run
    BY <1>n, <1>0 DEF Acquire, RecordStart, TypeOK
  <2>3. /\ job[p] # Idle /\ job[p].at = from /\ job'[p].run = job[p].run /\ job[p].run \in Run
        /\ \A q \in Proc : q # p => job'[q] = job[q]
    BY <2>1, <2>2, <1>0, JobSteps
  <2>4. proc[job[p].run] # "alive"
    BY <2>3, <1>0 DEF JobSound, ProcSound
  <2>5. \A b \in Run : InSight(b)' => InSight(b)
    BY <2>2, <2>4 DEF InSight, Guarded
  <2>6. \/ job'["worker"] = job["worker"]
        \/ /\ job["worker"] # Idle /\ job["worker"].at # "register"
           /\ job'["worker"].run = job["worker"].run
    BY <2>3
  <2> QED
    BY <2>2, <2>5, <2>6, Calm
<1>o. ASSUME NEW p \in Proc, Spawn(p) PROVE GuardSound' /\ OneInSight'
  <2> DEFINE r == job[p].run
  <2>1. /\ job[p] # Idle /\ job[p].at = "spawn" /\ r \in Run /\ Owner(r) = p
        /\ job'[p] # Idle /\ job'[p].at = "register"
        /\ \A q \in Proc : q # p => job'[q] = job[q]
    BY <1>o, <1>0, JobSteps DEF Spawn
  <2>2. load' = load /\ unseen' = unseen /\ status' = status /\ Guarded' = Guarded
    BY <1>o DEF Spawn, Guarded
  <2>3. \A b \in Run \ {r} : proc'[b] = proc[b]
    BY <1>o, <1>0 DEF Spawn, TypeOK
  <2> HIDE DEF r
  <2>4. \A b \in Run \ {r} : InSight(b)' => InSight(b)
    BY <2>2, <2>3 DEF InSight
  <2>5. CASE r \notin Guarded \ unseen
    <3>1. \A b \in Run : InSight(b)' => InSight(b)
      BY <2>2, <2>4, <2>5 DEF InSight
    <3>2. job'["worker"] = job["worker"] \/ job'["worker"].at = "register"
      BY <2>1
    <3>3. CASE job'["worker"] = job["worker"]
      BY <3>1, <3>3, <2>2, Calm
    <3>4. CASE job'["worker"].at = "register"
      <4>1. \A a, b \in Run : InSight(a) /\ InSight(b) => a = b
        BY DEF IInv, OneInSight, InSight
      <4>2. OneInSight'
        BY <3>1, <4>1, <2>2, <1>1 DEF OneInSight, InSight
      <4> QED
        BY <3>4, <4>2 DEF GuardSound
    <3> QED
      BY <3>2, <3>3, <3>4
  <2>6. CASE r \in Guarded \ unseen
    <3>1. p = "worker"
      BY <2>1, <2>6, <1>1 DEF Owner
    <3>2. \A b \in Run : ~InSight(b)
      BY <2>1, <2>6, <3>1 DEF IInv, GuardSound, r
    <3>3. \A b \in Run : InSight(b)' => b = r
      BY <2>4, <3>2
    <3>4. OneInSight'
      BY <3>3, <2>2, <1>1 DEF OneInSight, InSight
    <3>5. GuardSound'
      BY <2>1, <3>1 DEF GuardSound
    <3> QED
      BY <3>4, <3>5
  <2> QED
    BY <2>5, <2>6
<1> QED
  BY <1>a, <1>b, <1>c, <1>d, <1>e, <1>f, <1>g, <1>h, <1>i, <1>j, <1>k, <1>l, <1>m, <1>n, <1>o
     DEF Next, Scheduler, Swarming, Cancelling, Waiting, Launching

\* Every step keeps the inductive invariant.
LEMMA NextIInv == IInv /\ [Next]_vars => IInv'
  BY TypePreserved, RestPreserved, GuardPreserved DEF IInv, Rest

\* The inductive invariant holds for ever.
LEMMA Inductive == Spec => []IInv
  BY InitIInv, NextIInv, PTL DEF Spec

\* The queues, the tables, the launches and the threads have their types, and
\* what the scheduler polled and still holds is unacknowledged.
THEOREM TypeCorrect == Spec => []TypeOK
<1>1. IInv => TypeOK
  BY DEF IInv
<1> QED
  BY <1>1, Inductive, PTL

\* XREADGROUP ">" and the status "launching": however worker and console
\* crash, and whatever raises or is cancelled, a run gets at most one process.
THEOREM OneProcessPerRun == Spec => []LaunchedOnce
<1>1. IInv => LaunchedOnce
  BY DEF IInv, ProcSound, LaunchedOnce
<1> QED
  BY <1>1, Inductive, PTL

\* launch_guard: of the social-media runs it let pass with the table before
\* it, one at most works with an active row; so a second process needs a row
\* that was ended before its process, by a reconcile or by a cancel.
THEOREM GuardHolds == Spec => []OneInSight
<1>1. IInv => OneInSight
  BY DEF IInv
<1> QED
  BY <1>1, Inductive, PTL

\* run_leases follows the waiter of a run.
THEOREM LeaseFollowsWaiter == Spec => []LeaseTracksRun
<1>1. IInv => LeaseTracksRun
  BY DEF IInv
<1> QED
  BY <1>1, Inductive, PTL

\* The run index and the bus run ahead of a process at work in one way only:
\* a reconcile takes the summary of a node for that of the run.
THEOREM IndexNotAhead == Spec => []IndexFollowsDisk
<1>1. IInv => IndexFollowsDisk
  BY DEF IInv, ProcSound, IndexFollowsDisk
<1> QED
  BY <1>1, Inductive, PTL

\* acquire never meets a lease of the same run, so the branches of
\* RunLeaseStore.acquire that raise or take over a stale lease are not
\* reached from a launch.
AcquireFree == \A p \in Proc : job[p].at = "acquire" => job[p].run \notin lease

\* Every launch gets its lease, over all crashes and cancellations.
THEOREM AcquireNeverBlocked == Spec => []AcquireFree
<1>1. IInv => AcquireFree
  BY DEF IInv, JobSound, AcquireFree, Idle
<1> QED
  BY <1>1, Inductive, PTL
=============================================================================
