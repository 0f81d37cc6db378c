------------------------------ MODULE Operator ------------------------------
(***************************************************************************)
(* Both controllers in the one manager that src/cmd/main.go starts.        *)
(*                                                                         *)
(* They meet in two places.  A routing is built only once the cached       *)
(* CUDNBgpConfig is Ready, and a deleted CUDNBgpConfig keeps its finalizer *)
(* while a CUDNBgpRouting is cached.  Informers and a restart are common   *)
(* to both, queues and workers are not.  The CUDNBgpConfig controller is   *)
(* here by its promise, which ConfigController implements.                 *)
(***************************************************************************)
EXTENDS RoutingController

VARIABLES
    object,       \* the CUDNBgpConfig, as in ConfigLifecycle
    ready,        \* its phase is Ready
    cachedReady,  \* it is cached, and Ready there
    built,        \* there are FRRConfigurations of the operator
    cleared       \* the reconcile of its deletion has seen no CUDNBgpRouting

RoutingCached == \E r \in Routings : cache[r] # Absent

Config == INSTANCE ConfigLifecycle WITH routedCache <- RoutingCached

configVars == <<object, ready, cachedReady, built, cleared>>
operatorVars == <<vars, configVars>>

OperatorInit == Init /\ Config!Init

-----------------------------------------------------------------------------
(* The check of the config reads the cache both controllers share. *)
RoutingCalls(ok) ==
    \/ pc # "checkConfig" /\ Calls(ok)
    \/ ok /\ NoFault /\ ConfigSeen(cachedReady)

RoutingStep ==
    /\ \/ Users \/ Outsiders \/ Watches \/ CallFails
       \/ \E r \in Routings : Reconcile(r)
       \/ \E ok \in BOOLEAN : RoutingCalls(ok)
    /\ UNCHANGED configVars

(* Users act on the config, its reconcile fails, or it goes on.  A Ready   *)
(* config is not Ready any more only because something failed.             *)
ConfigUsers == UserActs /\ (Config!Create \/ Config!Delete)
ConfigFails == Fault /\ (Config!Report(FALSE) \/ Config!GiveUp)

(* A worker with an outdated copy still builds for a config being deleted, *)
(* or tears down for one that is gone or new; others delete what is built. *)
(* Each needs a step of someone else, and is counted like a failure.       *)
ConfigOutdated ==
    /\ Fault
    /\ \/ object = "deleting" /\ Config!Build
       \/ object # "deleting" /\ Config!Clear
       \/ ~(object = "deleting" /\ cleared) /\ Config!Unbuild

(* The reconcile of the config builds, and that of its deletion tears down: *)
(* a conflict ends the one whose config is no longer the one deleted.       *)
ConfigBuilds == Config!Hold \/ (object = "held" /\ Config!Build) \/ Config!Report(TRUE)
ConfigTearsDown ==
    \/ /\ object = "deleting"
       /\ Config!Clear \/ (cleared /\ Config!Unbuild) \/ Config!Release
    \/ object # "deleting" /\ Config!GiveUp

ConfigGoesOn == NoFault /\ (ConfigBuilds \/ ConfigTearsDown \/ Config!Hear)

ConfigStep ==
    /\ ConfigUsers \/ ConfigFails \/ ConfigOutdated \/ ConfigGoesOn
    /\ UNCHANGED <<api, events, requeues, worker>>

RestartBoth == Restart /\ Config!Restart

OperatorNext == RoutingStep \/ ConfigStep \/ RestartBoth

(* The CUDNBgpRouting controller as in its own specification.  The other   *)
(* one goes on to Ready, or to letting go, unless it fails: that is what   *)
(* the liveness of ConfigController says.                                  *)
OperatorFairness ==
    /\ WF_operatorVars(DeliverRouting /\ UNCHANGED configVars)
    /\ WF_operatorVars(DeliverRA /\ UNCHANGED configVars)
    /\ \A n \in Networks : WF_operatorVars(DeliverCUDN(n) /\ UNCHANGED configVars)
    /\ WF_operatorVars(RoutingCalls(TRUE) /\ UNCHANGED configVars)
    /\ \A r \in Routings : /\ WF_operatorVars(DelayOver(r) /\ UNCHANGED configVars)
                           /\ SF_operatorVars(Reconcile(r) /\ UNCHANGED configVars)
    /\ WF_operatorVars(ConfigGoesOn /\ UNCHANGED <<api, events, requeues, worker>>)

OperatorSpec == OperatorInit /\ [][OperatorNext]_operatorVars
OperatorFairSpec == OperatorSpec /\ OperatorFairness

-----------------------------------------------------------------------------
(***************************************************************************)
(* Properties.                                                             *)
(***************************************************************************)

(* Once users and failures stop, neither controller waits for the other    *)
(* for ever: a deleted routing is gone, and so is a deleted config unless  *)
(* routings stay; a config that stays is Ready; and every routing is       *)
(* Pending while there is no config and else Ready with its CUDN and the   *)
(* RouteAdvertisements in place, although no watch tells its controller of *)
(* a change of the config.                                                 *)
FollowsConfig ==
    <>[](/\ object = "deleting" => \E r \in Routings : Exists(r)
         /\ object \in {"absent", "deleting"} \/ ready
         /\ \A r \in Routings : Exists(r) =>
               /\ ~routings[r].del
               /\ IF ready
                  THEN /\ Settled(r) /\ ra = "managed"
                       /\ cudns[routings[r].net] = [by |-> r, gen |-> routings[r].gen]
                  ELSE routings[r].phase = "Pending")
=============================================================================
