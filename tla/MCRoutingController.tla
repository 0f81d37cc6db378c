------------------------ MODULE MCRoutingController ------------------------
(***************************************************************************)
(* Instances of RoutingController for TLC: two routings, two networks.     *)
(***************************************************************************)
EXTENDS RoutingControllerInv, TLC

CONSTANTS r1, r2, n1, n2

(* Every routing has its own network. *)
ClaimsDistinct == r1 :> {n1} @@ r2 :> {n2}

(* Both routings claim the same network, and keep to it. *)
ClaimsSame == [r \in Routings |-> {n1}]

(* Both routings may be given either network, and renamed. *)
ClaimsAny == [r \in Routings |-> Networks]

(* The routings, and the networks, are interchangeable. *)
SwapAny == Permutations(Routings) \cup Permutations(Networks)
=============================================================================
