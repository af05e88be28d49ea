--------------------------- MODULE MCLeaseThreads ---------------------------
(***************************************************************************)
(* One lease and the threads each question needs: an agent, an operator    *)
(* and a sensor; or an agent with more requests than uses and an operator  *)
(* (an operator and an agent with one request for the violation).          *)
(***************************************************************************)
EXTENDS LeaseThreads

MCLeaseOf == [r \in Requests |-> 1]

=============================================================================
