---------------------------- MODULE MCRunScheduler ----------------------------
(***************************************************************************)
(* One or two runs and one mishap, or one run and two: events that share a *)
(* dedup key, an event that no workflow answers to, a swarm of two         *)
(* children, an API request, a gated run.                                  *)
(***************************************************************************)
EXTENDS RunScheduler

MCKey    == [e \in Event |-> "k"]
MCParent == [c \in Child |-> "s1"]

Load(A, S, R, n) == [asked |-> A, social |-> S, rows |-> R, mishaps |-> n]

(* Two runs, of which a reconcile comes to one at most; one run. *)
MCWorkloads == {
  Load({"e1", "e2"}, {"e1", "e2"}, {"e1"}, 1), Load({"e1", "e3"}, {}, {"e1"}, 1),
  Load({"e1", "q1"}, {"e1", "q1"}, {}, 1), Load({"e1", "g1"}, {"e1", "g1"}, {}, 1),
  Load({"s1"}, {"c1"}, {"c1"}, 0), Load({"s1"}, {"c1"}, {}, 1),
  Load({"e1"}, {}, {"e1"}, 2), Load({"q1"}, {}, {"q1"}, 2), Load({"g1"}, {}, {"g1"}, 2)}

(* One run, to which a reconcile comes. *)
SingleWorkloads == {Load({r}, {}, {r}, 2) : r \in {"e1", "q1", "g1"}}

(* Two social-media events and no mishap. *)
PairWorkloads == {Load({"e1", "e2"}, {"e1", "e2"}, {"e1"}, 0)}

(* An event whose launch may raise. *)
RaiseWorkloads == {Load({"e1"}, {}, {"e1"}, 1)}
=============================================================================
