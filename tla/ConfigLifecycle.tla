--------------------------- MODULE ConfigLifecycle ---------------------------
(***************************************************************************)
(* What the CUDNBgpConfig controller promises: the life of the object      *)
(* "cluster" and of what is built for it, without the calls in between.    *)
(*                                                                         *)
(* ConfigController implements this specification; Operator composes it    *)
(* with the CUDNBgpRouting controller.                                     *)
(***************************************************************************)
VARIABLES
    object,       \* absent; bare, without the finalizer; held by it; deleting
    ready,        \* its phase is Ready
    cachedReady,  \* it is cached, and Ready there
    built,        \* there are FRRConfigurations of the operator
    cleared,      \* the reconcile of a deletion has seen no CUDNBgpRouting
    routedCache   \* a CUDNBgpRouting is cached

vars == <<object, ready, cachedReady, built, cleared>>

Init ==
    /\ object = "absent" /\ ready = FALSE /\ cachedReady = FALSE
    /\ built = FALSE /\ cleared = FALSE

Create ==
    /\ object = "absent" /\ object' = "bare"
    /\ UNCHANGED <<ready, cachedReady, built, cleared>>

(* The finalizer turns a deletion into a mark. *)
Delete ==
    /\ \/ object = "bare" /\ object' = "absent"
       \/ object = "held" /\ object' = "deleting"
    /\ UNCHANGED <<ready, cachedReady, built, cleared>>

(* The controller's writes are made from a copy that is not outdated, so    *)
(* that no two changes of the phase are ever on their way to the cache.    *)
UpToDate == cachedReady = ready

Hold ==
    /\ UpToDate /\ object = "bare" /\ object' = "held"
    /\ UNCHANGED <<ready, cachedReady, built, cleared>>

(* A reconcile ends in a status; that of a deletion writes none. *)
Report(r) ==
    /\ UpToDate /\ object = "held" /\ ready # r /\ ready' = r
    /\ UNCHANGED <<object, cachedReady, built, cleared>>

(* The cache hears of it. *)
Hear ==
    /\ ~UpToDate /\ cachedReady' = ready
    /\ UNCHANGED <<object, ready, built, cleared>>

(* FRRConfigurations are built only for an object that will clean them up. *)
Build ==
    /\ object \in {"held", "deleting"} /\ ~built /\ built' = TRUE
    /\ UNCHANGED <<object, ready, cachedReady, cleared>>

(* The answer to a deletion may be lost, which ends the reconcile too. *)
Unbuild ==
    /\ built /\ built' = FALSE /\ cleared' \in {cleared, FALSE}
    /\ UNCHANGED <<object, ready, cachedReady>>

Clear ==
    /\ ~cleared /\ ~routedCache /\ cleared' = TRUE
    /\ UNCHANGED <<object, ready, cachedReady, built>>

(* An error or a conflict ends the reconcile. *)
GiveUp ==
    /\ cleared /\ cleared' = FALSE
    /\ UNCHANGED <<object, ready, cachedReady, built>>

Release ==
    /\ UpToDate /\ object = "deleting" /\ cleared /\ ~built
    /\ object' = "absent" /\ ready' = FALSE /\ cleared' = FALSE
    /\ UNCHANGED <<cachedReady, built>>

Restart ==
    /\ cleared' = FALSE /\ cachedReady' = ready
    /\ UNCHANGED <<object, ready, built>>

(* Most steps of the controller are calls that this specification omits. *)
Next ==
    \/ UNCHANGED vars
    \/ Create \/ Delete \/ Hold \/ Build \/ Unbuild \/ Clear \/ GiveUp
    \/ Release \/ Hear \/ Restart \/ \E r \in BOOLEAN : Report(r)

Spec == Init /\ [][Next]_vars
=============================================================================
