--------------------------- MODULE MCPermitStore ---------------------------
(***************************************************************************)
(* Three threads, so that an issuer, a revoker and a consumer, or three    *)
(* consumers, meet on one permit.  One request: its approval ends at 1, so *)
(* its one permit is minted at 0, once or twice, and expires at 1, and the *)
(* id of a permit issued at 1 stays unknown to the store.                  *)
(***************************************************************************)
EXTENDS PermitStore, TLC

CONSTANT r1

MCApproval == r1 :> 1

=============================================================================
