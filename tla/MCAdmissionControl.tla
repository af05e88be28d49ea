-------------------------- MODULE MCAdmissionControl --------------------------
(***************************************************************************)
(* Three threads that compete for a singleton, a capability, a sandbox and *)
(* a recovery.                                                             *)
(***************************************************************************)
EXTENDS AdmissionControl

Ask(id, kind, key, res, conc) ==
  [id |-> id, kind |-> kind, key |-> key, res |-> res, conc |-> conc, stale |-> FALSE]

MCClient == {"c1", "c2", "c3"}

Workload(A1, A2, A3) ==
  [c \in MCClient |-> CASE c = "c1" -> A1 [] c = "c2" -> A2 [] c = "c3" -> A3]

Cycle(id) == Ask(id, "mel_cycle", "k1", "none", 1)
Write(id) == Ask(id, "oea_effect", "k2", "write", 1)
Post(id)  == Ask(id, "oea_effect", "k3", "post", 2)
Shell(id) == Ask(id, "ter_command", "k4", "box", 1)
Crr(id)   == Ask(id, "crr_recovery", "k5", "none", 1)
Alarm(id) == Ask(id, "panic", "k6", "none", 1)
Stale(r)  == [r EXCEPT !.stale = TRUE]

MCAskSets == {
  \* a singleton, with a retry under the same idempotency key
  Workload({Cycle("m1")}, {Cycle("m2")}, {Stale(Cycle("m3")), Crr("r3")}),
  \* a capability of concurrency one; c1 and c2 retry the same request
  Workload({Write("w1")}, {Write("w1")}, {Write("w3")}),
  Workload({Write("w1")}, {Write("w2")}, {Write("w3")}),
  \* a capability of concurrency two
  Workload({Post("p1")}, {Post("p2")}, {Post("p3")}),
  \* a sandbox, a recovery and a panic
  Workload({Shell("t1")}, {Shell("t2")}, {Alarm("e3"), Write("w3")}),
  Workload({Crr("r1")}, {Crr("r2")}, {Cycle("m3")})}

MCAsks == UNION {UNION {w[c] : c \in MCClient} : w \in MCAskSets}
MCRequestId == {r.id : r \in MCAsks}
MCIdemKey   == {r.key : r \in MCAsks}
MCResource  == {r.res : r \in MCAsks} \ {"none"}
=============================================================================
