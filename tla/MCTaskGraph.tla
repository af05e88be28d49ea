----------------------------- MODULE MCTaskGraph -----------------------------
(***************************************************************************)
(* Small graphs for TLC, one for each thing the executor treats            *)
(* differently.                                                            *)
(***************************************************************************)
EXTENDS TaskGraph

MCNode == 1 .. 4
None   == [n \in MCNode |-> {}]
Tasks  == [n \in MCNode |-> "task"]

Base == [kind |-> Tasks, deps |-> None, yes |-> None, no |-> None, body |-> None,
         mode |-> "fail_fast", width |-> 2, cap |-> 0, retries |-> 0, iters |-> 1,
         stop |-> TRUE, pause |-> {}, timed |-> FALSE, typeerr |-> {}]

(* 1 -> {2, 3} -> 4, with one retry. *)
Diamond == [Base EXCEPT !.deps = [None EXCEPT ![2] = {1}, ![3] = {1}, ![4] = {2, 3}],
                        !.retries = 1, !.typeerr = {2}]
DiamondOn == [Diamond EXCEPT !.mode = "continue", !.retries = 0, !.pause = {2}, !.timed = TRUE]

(* Gate 1 chooses between 2 and 3, and 4 joins them. *)
Branch == [Base EXCEPT !.kind = [Tasks EXCEPT ![1] = "gate"],
                       !.deps = [None EXCEPT ![2] = {1}, ![3] = {1}, ![4] = {2, 3}],
                       !.yes = [None EXCEPT ![1] = {2}], !.no = [None EXCEPT ![1] = {3}],
                       !.mode = "continue", !.pause = {1}]

(* Gate 1 and task 2 are ready together, and the gate may skip the task. *)
SideGate == [Base EXCEPT !.kind = [Tasks EXCEPT ![1] = "gate"],
                         !.deps = [None EXCEPT ![3] = {2}, ![4] = {3}],
                         !.yes = [None EXCEPT ![1] = {2}]]

(* Loop 1 with body {2, 3}, and 4 after the body. *)
Cycle == [Base EXCEPT !.kind = [Tasks EXCEPT ![1] = "loop"],
                      !.deps = [None EXCEPT ![2] = {1}, ![3] = {2}, ![4] = {3}],
                      !.body = [None EXCEPT ![1] = {2, 3}],
                      !.mode = "continue", !.iters = 2]
CycleOn == [Cycle EXCEPT !.deps = [None EXCEPT ![2] = {1}, ![3] = {1}, ![4] = {1}],
                         !.stop = FALSE]

(* Both body nodes wait for loop 1 only, and 4 for one of them. *)
CycleStop == [Cycle EXCEPT !.deps = [None EXCEPT ![2] = {1}, ![3] = {1}, ![4] = {3}],
                           !.iters = 1]

(* Gate 2 inside the body of loop 1. *)
GateInLoop == [Cycle EXCEPT !.kind = [Tasks EXCEPT ![1] = "loop", ![2] = "gate"],
                            !.yes = [None EXCEPT ![2] = {3}]]

Capped == [Diamond EXCEPT !.cap = 3, !.retries = 0]

AllDags == {Diamond, DiamondOn, Branch, SideGate, Cycle, CycleOn, CycleStop, GateInLoop, Capped}

(* A cap that a batch of two steps over. *)
CapDags == {[Diamond EXCEPT !.cap = 2, !.retries = 0]}
=============================================================================
