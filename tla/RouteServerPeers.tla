-------------------------- MODULE RouteServerPeers --------------------------
(***************************************************************************)
(* The AWS platform (src/internal/platform/aws) of operators that share    *)
(* Route Servers: discovery of endpoints, reconciliation of their peers,   *)
(* source/dest checks and cleanup.                                         *)
(*                                                                         *)
(* One action is one EC2 call that writes, or one that lists, so that      *)
(* operators, outsiders and node changes interleave with the calls of one  *)
(* reconcile.  EC2 refuses a second peer with the same endpoint and        *)
(* address, so a peer is known by these, and an ID listed for it is        *)
(* outdated once that peer is deleted.                                     *)
(***************************************************************************)
EXTENDS Naturals

CONSTANTS
    Clusters,      \* the clusters, one operator each
    RouteServers,  \* Route Server IDs
    Endpoints,     \* Route Server endpoints
    IPs,           \* private IPs of router nodes
    ServerOf,      \* the Route Server of an endpoint
    EndpointAZ,    \* the availability zone of an endpoint's subnet
    NodeAZ,        \* the availability zone of the subnet of an IP
    Homes,         \* Homes[ip]: the clusters a node with this IP may join
    Broken,        \* IPs of nodes whose primary interface is never found
    MaxChanges,    \* bound on changes of nodes and of CUDNBgpConfigs
    MaxMeddling,   \* bound on what outsiders do to peers and interfaces
    MaxFaults,     \* bound on failed calls and restarts
    Manual,        \* the owner of a peer without the managed-by tag
    None           \* no peer, no cluster, no endpoint

ASSUME TopologyAssumption ==
    /\ RouteServers # {} /\ ServerOf \in [Endpoints -> RouteServers]
    /\ DOMAIN EndpointAZ = Endpoints /\ DOMAIN NodeAZ = IPs
    /\ Homes \in [IPs -> SUBSET Clusters] /\ Broken \subseteq IPs
    /\ Manual \notin Clusters /\ None \notin Clusters \cup Endpoints \cup {Manual}
ASSUME BudgetAssumption ==
    MaxChanges \in Nat /\ MaxMeddling \in Nat /\ MaxFaults \in Nat

VARIABLES
    peers,       \* EC2: whose tag the peer of an endpoint and an IP carries
    checked,     \* EC2: IPs whose primary interface checks source/dest
    owner,       \* the cluster that has a router node with this IP
    config,      \* the cluster's CUDNBgpConfig, as its operator sees it
    serverIDs,   \* its spec.aws.routeServerIDs
    pc,          \* the operator's next call
    used,        \* the endpoints this reconcile discovered
    todo,        \* those it has not finished
    endpoint,    \* the one it works on
    wanted,      \* the router nodes it listed
    plan,        \* what it still means to do about each IP
    gone,        \* IPs whose listed peer ID is outdated
    changes, meddling, faults

ec2 == <<peers, checked>>
cluster == <<owner, config, serverIDs>>
local == <<pc, used, todo, endpoint, wanted, plan>>
budgets == <<changes, meddling, faults>>
vars == <<ec2, cluster, local, gone, budgets>>

Idle == [ip \in IPs |-> "none"]

(* Peers made by hand may be there before any operator is. *)
Init ==
    /\ peers \in [Endpoints -> [IPs -> {None, Manual}]] /\ checked = IPs
    /\ owner = [ip \in IPs |-> None]
    /\ config = [c \in Clusters |-> "live"]
    /\ serverIDs = [c \in Clusters |-> RouteServers]
    /\ pc = [c \in Clusters |-> "idle"]
    /\ used = [c \in Clusters |-> {}] /\ todo = used /\ wanted = used /\ gone = used
    /\ endpoint = [c \in Clusters |-> None]
    /\ plan = [c \in Clusters |-> Idle]
    /\ changes = 0 /\ meddling = 0 /\ faults = 0

Change == changes < MaxChanges /\ changes' = changes + 1 /\ UNCHANGED <<meddling, faults>>
Meddle == meddling < MaxMeddling /\ meddling' = meddling + 1 /\ UNCHANGED <<changes, faults>>
Fault == faults < MaxFaults /\ faults' = faults + 1 /\ UNCHANGED <<changes, meddling>>
FaultUnless(ok) == IF ok THEN UNCHANGED budgets ELSE Fault

-----------------------------------------------------------------------------
(***************************************************************************)
(* EC2 (outside src/).  Deleting a peer outdates the IDs others listed.    *)
(***************************************************************************)
Delete(e, ip) ==
    /\ peers' = [peers EXCEPT ![e][ip] = None]
    /\ gone' = [c \in Clusters |->
                  gone[c] \cup {i \in {ip} : endpoint[c] = e /\ plan[c][i] \in {"delete", "tag"}}]

NodeJoins(ip, c) ==
    /\ Change /\ owner[ip] = None
    /\ owner' = [owner EXCEPT ![ip] = c] /\ checked' = checked \cup {ip}
    /\ UNCHANGED <<peers, config, serverIDs, local, gone>>

NodeLeaves(ip) ==
    /\ Change /\ owner[ip] # None /\ owner' = [owner EXCEPT ![ip] = None]
    /\ UNCHANGED <<ec2, config, serverIDs, local, gone>>

EditServers(c, ids) ==
    /\ Change /\ config[c] # "gone" /\ ids # serverIDs[c]
    /\ serverIDs' = [serverIDs EXCEPT ![c] = ids]
    /\ UNCHANGED <<ec2, owner, config, local, gone>>

(* Deletion of the CUDNBgpConfig, which the finalizer holds. *)
DeleteConfig(c) ==
    /\ Change /\ config[c] = "live" /\ config' = [config EXCEPT ![c] = "deleting"]
    /\ UNCHANGED <<ec2, owner, serverIDs, local, gone>>

OutsiderCreates(e, ip) ==
    /\ Meddle /\ peers[e][ip] = None /\ peers' = [peers EXCEPT ![e][ip] = Manual]
    /\ UNCHANGED <<checked, cluster, local, gone>>

OutsiderDeletes(e, ip) ==
    /\ Meddle /\ peers[e][ip] # None /\ Delete(e, ip)
    /\ UNCHANGED <<checked, cluster, local>>

OutsiderChecks(ip) ==
    /\ Meddle /\ ip \notin checked /\ checked' = checked \cup {ip}
    /\ UNCHANGED <<peers, cluster, local, gone>>

-----------------------------------------------------------------------------
(***************************************************************************)
(* Phases 3 and 5 of Reconcile, and the cleanup of reconcileDelete.        *)
(***************************************************************************)
Goto(c, p) == pc' = [pc EXCEPT ![c] = p]
SetPlan(c, f) == plan' = [plan EXCEPT ![c] = f]
SetTodo(c, S) == todo' = [todo EXCEPT ![c] = S]
SetUsed(c, S) == used' = [used EXCEPT ![c] = S]
SetWanted(c, S) == wanted' = [wanted EXCEPT ![c] = S]
SetEndpoint(c, e) == endpoint' = [endpoint EXCEPT ![c] = e]

(* What is left of the plan are the IPs a loop has not reached. *)
Left(c, what) == \E ip \in IPs : plan[c][ip] \in what

Return(c) ==
    /\ Goto(c, "idle") /\ SetPlan(c, Idle) /\ SetTodo(c, {})
    /\ SetUsed(c, {}) /\ SetWanted(c, {}) /\ SetEndpoint(c, None)

DiscoverEndpoints(c) == {e \in Endpoints : ServerOf[e] \in serverIDs[c]}

listRouterNodes(c) == {ip \in IPs : owner[ip] = c}

(* A reconcile, or a cleanup, whose discovery of endpoints succeeds. *)
Start(c) ==
    /\ pc[c] = "idle" /\ config[c] # "gone"
    /\ SetUsed(c, DiscoverEndpoints(c)) /\ SetTodo(c, DiscoverEndpoints(c))
    /\ Goto(c, IF config[c] = "live" THEN "listNodes" ELSE "cleanup")
    /\ UNCHANGED <<ec2, cluster, endpoint, wanted, plan, gone, budgets>>

ListNodes(c) ==
    /\ pc[c] = "listNodes" /\ Goto(c, "reconcile") /\ SetWanted(c, listRouterNodes(c))
    /\ UNCHANGED <<ec2, cluster, used, todo, endpoint, plan, gone, budgets>>

(* reconcileDelete goes on without cleanup when discovery fails. *)
SkipCleanup(c) ==
    /\ Fault /\ pc[c] = "idle" /\ config[c] = "deleting" /\ Goto(c, "removeFinalizer")
    /\ UNCHANGED <<ec2, cluster, used, todo, endpoint, wanted, plan, gone>>

(* Mutant: every node is peered with every endpoint. *)
desiredIPsAnyZone(c, e) == wanted[c]

(* The nodes of an endpoint's zone. *)
desiredIPs(c, e) == {ip \in wanted[c] : NodeAZ[ip] = EndpointAZ[e]}

(* Mutant: the tag's value is not compared. *)
listManagedPeersAnyTag(c, e) == {ip \in IPs : peers[e][ip] \in Clusters}

listManagedPeers(c, e) == {ip \in IPs : peers[e][ip] = c}
listAllPeers(e) == {ip \in IPs : peers[e][ip] # None}

(* Both loops over endpoints begin with a list of the managed peers. *)
ListManaged(c, e) ==
    /\ pc[c] \in {"reconcile", "cleanup"} /\ e \in todo[c]
    /\ SetTodo(c, todo[c] \ {e}) /\ SetEndpoint(c, e)
    /\ SetPlan(c, [ip \in IPs |->
                     IF ip \notin listManagedPeers(c, e) THEN "none"
                     ELSE IF ip \in desiredIPs(c, e) THEN "keep" ELSE "delete"])
    /\ gone' = [gone EXCEPT ![c] = {}]
    /\ Goto(c, IF pc[c] = "cleanup" THEN "cleanupDelete" ELSE "deleteStale")
    /\ UNCHANGED <<ec2, cluster, used, wanted, budgets>>

(* An unanswered call has happened; an outdated ID is refused. *)
deletePeer(c, ip, ok) ==
    /\ pc[c] \in {"deleteStale", "cleanupDelete"} /\ plan[c][ip] = "delete"
    /\ FaultUnless(ok)
    /\ IF ip \in gone[c] THEN UNCHANGED <<peers, gone>> ELSE Delete(endpoint[c], ip)
    /\ IF ok /\ ip \notin gone[c]
       THEN SetPlan(c, [plan[c] EXCEPT ![ip] = "none"])
            /\ UNCHANGED <<pc, used, todo, endpoint, wanted>>
       ELSE Return(c)
    /\ UNCHANGED <<checked, cluster>>

(* Mutant: peers that exist are not adopted. *)
ListAllCreates(c) ==
    /\ pc[c] = "deleteStale" /\ ~Left(c, {"delete"})
    /\ SetPlan(c, [ip \in IPs |->
                     IF ip \notin desiredIPs(c, endpoint[c]) \/ plan[c][ip] = "keep" THEN "none"
                     ELSE "create"])
    /\ Goto(c, "ensure")
    /\ UNCHANGED <<ec2, cluster, used, todo, endpoint, wanted, gone, budgets>>

(* Every peer that was not listed as managed is unmanaged, whatever its tag. *)
ListAll(c) ==
    /\ pc[c] = "deleteStale" /\ ~Left(c, {"delete"})
    /\ SetPlan(c, [ip \in IPs |->
                     IF ip \notin desiredIPs(c, endpoint[c]) \/ plan[c][ip] = "keep" THEN "none"
                     ELSE IF ip \in listAllPeers(endpoint[c]) THEN "tag" ELSE "create"])
    /\ Goto(c, "ensure")
    /\ UNCHANGED <<ec2, cluster, used, todo, endpoint, wanted, gone, budgets>>

(* Mutant: the tag gets the wrong value. *)
tagPeerSwapped(c, ip, ok) ==
    /\ pc[c] = "ensure" /\ plan[c][ip] = "tag" /\ FaultUnless(ok)
    /\ peers' = [peers EXCEPT ![endpoint[c]][ip] = endpoint[c]]
    /\ Return(c) /\ UNCHANGED <<checked, cluster, gone>>

tagPeer(c, ip, ok) ==
    /\ pc[c] = "ensure" /\ plan[c][ip] = "tag" /\ FaultUnless(ok)
    /\ peers' = IF ip \in gone[c] THEN peers ELSE [peers EXCEPT ![endpoint[c]][ip] = c]
    /\ IF ok /\ ip \notin gone[c]
       THEN SetPlan(c, [plan[c] EXCEPT ![ip] = "none"])
            /\ UNCHANGED <<pc, used, todo, endpoint, wanted>>
       ELSE Return(c)
    /\ UNCHANGED <<checked, cluster, gone>>

createPeer(c, ip, ok) ==
    LET free == peers[endpoint[c]][ip] = None
    IN  /\ pc[c] = "ensure" /\ plan[c][ip] = "create" /\ FaultUnless(ok)
        /\ peers' = IF free THEN [peers EXCEPT ![endpoint[c]][ip] = c] ELSE peers
        /\ IF ok /\ free
           THEN SetPlan(c, [plan[c] EXCEPT ![ip] = "none"])
                /\ UNCHANGED <<pc, used, todo, endpoint, wanted>>
           ELSE Return(c)
        /\ UNCHANGED <<checked, cluster, gone>>

NextEndpoint(c) ==
    /\ \/ pc[c] = "ensure" /\ ~Left(c, {"tag", "create"}) /\ Goto(c, "reconcile")
       \/ pc[c] = "cleanupDelete" /\ ~Left(c, {"delete"}) /\ Goto(c, "cleanup")
    /\ SetPlan(c, Idle) /\ SetEndpoint(c, None)
    /\ UNCHANGED <<ec2, cluster, used, todo, wanted, gone, budgets>>

(* Mutant: the loop stops one endpoint early. *)
EndpointsDoneEarly(c) ==
    /\ \E e \in Endpoints : todo[c] \subseteq {e}
    /\ \/ /\ pc[c] = "reconcile" /\ Goto(c, "sourceDest")
          /\ SetPlan(c, [ip \in IPs |-> IF ip \in wanted[c] THEN "check" ELSE "none"])
       \/ pc[c] = "cleanup" /\ Goto(c, "removeFinalizer") /\ UNCHANGED plan
    /\ UNCHANGED <<ec2, cluster, used, todo, endpoint, wanted, gone, budgets>>

(* Mutant: the cleanup returns before the finalizer is removed. *)
EndpointsDoneReturns(c) ==
    /\ todo[c] = {}
    /\ \/ /\ pc[c] = "reconcile" /\ Goto(c, "sourceDest")
          /\ SetPlan(c, [ip \in IPs |-> IF ip \in wanted[c] THEN "check" ELSE "none"])
          /\ UNCHANGED <<used, todo, endpoint, wanted>>
       \/ pc[c] = "cleanup" /\ Return(c)
    /\ UNCHANGED <<ec2, cluster, gone, budgets>>

EndpointsDone(c) ==
    /\ todo[c] = {}
    /\ \/ /\ pc[c] = "reconcile" /\ Goto(c, "sourceDest")
          /\ SetPlan(c, [ip \in IPs |-> IF ip \in wanted[c] THEN "check" ELSE "none"])
       \/ pc[c] = "cleanup" /\ Goto(c, "removeFinalizer") /\ UNCHANGED plan
    /\ UNCHANGED <<ec2, cluster, used, todo, endpoint, wanted, gone, budgets>>

(* One node of the loop, in any order: its primary interface is looked up, *)
(* and set when the check is on.                                           *)
disableSourceDestCheck(c, ip, ok) ==
    /\ pc[c] = "sourceDest" /\ plan[c][ip] = "check" /\ FaultUnless(ok)
    /\ checked' = checked \ ({ip} \ Broken)
    /\ IF ok /\ ip \notin Broken
       THEN SetPlan(c, [plan[c] EXCEPT ![ip] = "none"])
            /\ UNCHANGED <<pc, used, todo, endpoint, wanted>>
       ELSE Return(c)
    /\ UNCHANGED <<peers, cluster, gone>>

NodesDone(c) ==
    /\ pc[c] = "sourceDest" /\ ~Left(c, {"check"}) /\ Goto(c, "writeReady")
    /\ UNCHANGED <<ec2, cluster, used, todo, endpoint, wanted, plan, gone, budgets>>

(* The status is written, or the finalizer removed, by the caller. *)
Finish(c) ==
    /\ pc[c] \in {"writeReady", "removeFinalizer"} /\ Return(c)
    /\ config' = IF pc[c] = "removeFinalizer" THEN [config EXCEPT ![c] = "gone"] ELSE config
    /\ UNCHANGED <<ec2, owner, serverIDs, gone, budgets>>

(* A call fails without effect, or the operator restarts.  Either way the  *)
(* reconcile ends; another one starts by retry, event or timer.            *)
Abort(c) ==
    /\ Fault /\ pc[c] # "idle" /\ Return(c) /\ UNCHANGED <<ec2, cluster, gone>>

-----------------------------------------------------------------------------
Environment ==
    \/ \E ip \in IPs : \E c \in Homes[ip] : NodeJoins(ip, c)
    \/ \E ip \in IPs : NodeLeaves(ip) \/ OutsiderChecks(ip)
    \/ \E c \in Clusters : \E ids \in (SUBSET RouteServers) \ {{}} : EditServers(c, ids)
    \/ \E c \in Clusters : DeleteConfig(c)
    \/ \E e \in Endpoints, ip \in IPs : OutsiderCreates(e, ip) \/ OutsiderDeletes(e, ip)

Calls(c, ok) ==
    \E ip \in IPs : \/ deletePeer(c, ip, ok) \/ tagPeer(c, ip, ok)
                    \/ createPeer(c, ip, ok) \/ disableSourceDestCheck(c, ip, ok)

Work(c) ==
    \/ Start(c) \/ ListNodes(c) \/ ListAll(c) \/ NextEndpoint(c) \/ EndpointsDone(c)
    \/ NodesDone(c) \/ Finish(c) \/ Calls(c, TRUE)
    \/ \E e \in Endpoints : ListManaged(c, e)

Failures(c) == SkipCleanup(c) \/ Abort(c) \/ Calls(c, FALSE)

Next == Environment \/ \E c \in Clusters : Work(c) \/ Failures(c)

(* An operator goes on working, and reconciles again by retry or timer. *)
Fairness == \A c \in Clusters : WF_vars(Work(c))

Spec == Init /\ [][Next]_vars
FairSpec == Spec /\ Fairness
-----------------------------------------------------------------------------
(* The state's types. *)
Owners == Clusters \cup {None, Manual}
Plans == [IPs -> {"none", "keep", "delete", "tag", "create", "check"}]
PCs == {"idle", "listNodes", "reconcile", "cleanup", "deleteStale", "cleanupDelete",
        "ensure", "sourceDest", "writeReady", "removeFinalizer"}
TypeOK ==
    /\ peers \in [Endpoints -> [IPs -> Owners]]
    /\ checked \subseteq IPs /\ owner \in [IPs -> Clusters \cup {None}]
    /\ config \in [Clusters -> {"live", "deleting", "gone"}]
    /\ serverIDs \in [Clusters -> (SUBSET RouteServers) \ {{}}]
    /\ pc \in [Clusters -> PCs]
    /\ used \in [Clusters -> SUBSET Endpoints] /\ todo \in [Clusters -> SUBSET Endpoints]
    /\ endpoint \in [Clusters -> Endpoints \cup {None}]
    /\ wanted \in [Clusters -> SUBSET IPs] /\ gone \in [Clusters -> SUBSET IPs]
    /\ plan \in [Clusters -> Plans]
    /\ changes \in 0..MaxChanges /\ meddling \in 0..MaxMeddling /\ faults \in 0..MaxFaults

(* The peers a cluster owns on an endpoint are those of its nodes there. *)
Matches(c, e, ips) ==
    listManagedPeers(c, e) = {ip \in ips : NodeAZ[ip] = EndpointAZ[e]}

(* When reconcileRouteServerPeers has run to its end without an error, the *)
(* cluster's peers on every endpoint it discovered are exactly those of    *)
(* the nodes it listed, whatever earlier reconciles left half done and     *)
(* whatever other clusters do meanwhile (no outsider deletes peers).       *)
PeersReconciled ==
    \A c \in Clusters : pc[c] \in {"sourceDest", "writeReady"} =>
        \A e \in used[c] : Matches(c, e, wanted[c])

(* When deleteAllManagedPeers has run to its end without an error, no peer *)
(* tagged for the cluster is left on the endpoints it discovered.          *)
CleanupComplete ==
    \A c \in Clusters : pc[c] = "removeFinalizer" =>
        \A e \in used[c] : listManagedPeers(c, e) = {}

(* A step of c's operator. *)
Acts(c) == <<pc[c], plan[c]>>' # <<pc[c], plan[c]>>

(* The tag keeps operators apart: none deletes or takes over a peer that   *)
(* carries another cluster's tag.                                          *)
NoInterference ==
    [][\A c \in Clusters : Acts(c) =>
          \A e \in Endpoints, ip \in IPs :
              peers[e][ip] \in Clusters \ {c} => peers'[e][ip] = peers[e][ip]]_vars

(* Once nodes and configuration stay as they are and calls succeed, every  *)
(* node gets its peers on every endpoint of its zone, and no other IP      *)
(* keeps one, for good; and no node's interface checks source/dest, unless *)
(* that of one of the cluster's nodes cannot be found, which stops the     *)
(* loop over nodes but comes after the peers.                              *)
Converges ==
    <>[](\A c \in Clusters : config[c] = "live" =>
            /\ \A e \in DiscoverEndpoints(c) : Matches(c, e, listRouterNodes(c))
            /\ listRouterNodes(c) \cap Broken = {} => listRouterNodes(c) \cap checked = {})

(* A deleted CUDNBgpConfig is not held by its finalizer for ever. *)
DeletionEnds ==
    \A c \in Clusters : config[c] = "deleting" ~> config[c] = "gone"
=============================================================================
