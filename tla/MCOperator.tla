----------------------------- MODULE MCOperator -----------------------------
(* Small instances of Operator. *)
EXTENDS Operator

CONSTANTS r1, n1

(* The one routing claims the one network. *)
ClaimsOne == [r \in Routings |-> {n1}]
=============================================================================
