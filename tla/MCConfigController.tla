------------------------ MODULE MCConfigController ------------------------
(* Small instances of ConfigController. *)
EXTENDS ConfigControllerInv

CONSTANTS cluster, other
=============================================================================
