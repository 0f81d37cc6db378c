---------------------------- MODULE BGPSessions ----------------------------
(***************************************************************************)
(* What phases 3 to 5 of the CUDNBgpConfig controller compute: the Route   *)
(* Server endpoints found, the FRRConfigurations that make router nodes    *)
(* speak to them, and the peers that make the Route Servers speak to the   *)
(* nodes.  A BGP session comes up only where both sides name the other.    *)
(*                                                                         *)
(* ConfigController and RouteServerPeers have the lifecycle and the EC2    *)
(* calls; here the data is real (labels, selectors, zones), and a step is  *)
(* a Route Server of phase 3, a call of phase 4, or phase 5.  Lists whose  *)
(* order says nothing about sessions are sets.                             *)
(***************************************************************************)
EXTENDS Naturals, Sequences, FiniteSets, Functions

CONSTANTS
    Nodes,         \* names of nodes
    NodeObjects,   \* what a Node may say: [labels, ip, providerID]
    InitialNodes,  \* the Node objects there are before the CUDNBgpConfig
    RouteServers,  \* the Route Servers that exist, each with its own ASN
    Endpoints,     \* their endpoints, each with its own address
    Planned,       \* those that may not be there yet at first
    Zones,         \* the zones, as their places in the order of their names
    NoZone,        \* the empty name, the first of them
    ServerOf,      \* the Route Server of an endpoint
    ZoneOf,        \* the zone of its subnet, NoZone when that is not found
    Specs,         \* what users ask for: [aws, ids, selector, azs]
    MaxChanges,    \* bound on changes of nodes, endpoints and the spec
    MaxFaults,     \* bound on failed calls and restarts
    Absent         \* no Node object, no instance

ASSUME SessionsAssumption ==
    /\ InitialNodes \in [Nodes -> NodeObjects \cup {Absent}]
    /\ ServerOf \in [Endpoints -> RouteServers] /\ Planned \subseteq Endpoints
    /\ ZoneOf \in [Endpoints -> Zones] /\ MaxChanges \in Nat /\ MaxFaults \in Nat
    /\ Zones \subseteq Nat /\ IsFiniteSet(Zones) /\ NoZone \in Zones
ASSUME ObjectsAssumption ==
    /\ \A obj \in NodeObjects : "zone" \in DOMAIN obj.labels => obj.labels["zone"] \in Zones
    /\ \A s \in Specs : /\ s.aws \in BOOLEAN /\ s.ids \in Seq(Range(s.ids))
                         /\ s.azs \in Seq(Range(s.azs))

VARIABLES
    nodes,      \* the cached Node objects
    endpoints,  \* EC2: whether an endpoint is planned, up or gone
    peers,      \* EC2: the cluster's peers, an endpoint and an IP each
    checking,   \* EC2: the instances whose interface checks source/dest
    spec,       \* of the CUDNBgpConfig
    status,     \* its phase and status.aws
    frrs,       \* the FRRConfigurations, by number
    due,        \* an event or an error asks for a reconcile
    fresh,      \* the object is still as the worker read it
    pc,         \* the worker's next step
    mine,       \* the spec it read
    found,      \* the DiscoveryResult so far
    azs,        \* the zones to configure
    at,         \* where its loop is
    routers,    \* the provider IDs of the router nodes it listed
    changes, faults

cloud == <<endpoints, peers, checking>>
object == <<spec, status>>
local == <<fresh, pc, mine, found, azs, at, routers>>
vars == <<nodes, cloud, object, frrs, due, local, changes, faults>>

(* No key of a Go map: the zone has the empty set. *)
NoneFound == [servers |-> {}, neighborsByAZ |-> [z \in Zones |-> {}],
              endpointsByAZ |-> [z \in Zones |-> {}]]

Init ==
    /\ nodes = InitialNodes
    /\ \E later \in SUBSET Planned :
           endpoints = [e \in Endpoints |-> IF e \in later THEN "planned" ELSE "up"]
    /\ peers = {} /\ checking = {n \in Nodes : nodes[n] # Absent}
    /\ spec \in Specs /\ status = [phase |-> "", servers |-> {}] /\ frrs = << >>
    /\ due = TRUE /\ pc = "idle" /\ mine = spec /\ found = NoneFound
    /\ azs = << >> /\ at = 1 /\ routers = << >> /\ fresh = TRUE
    /\ changes = 0 /\ faults = 0

Change == changes < MaxChanges /\ changes' = changes + 1 /\ UNCHANGED faults
Fault == faults < MaxFaults /\ faults' = faults + 1 /\ UNCHANGED changes
FaultUnless(ok) == IF ok THEN UNCHANGED <<changes, faults>> ELSE Fault
-----------------------------------------------------------------------------
(***************************************************************************)
(* Nodes, users and AWS.                                                   *)
(***************************************************************************)
(* strings.Split(id, "/") without what TrimPrefix("aws:///") takes off. *)
Parts(id) == IF Len(id) >= 4 /\ id[3] = "" THEN SubSeq(id, 4, Len(id)) ELSE id

(* The instance in a provider ID, given as the strings between its slashes. *)
ParseProviderID(id) ==
    IF /\ Len(id) >= 3 /\ SubSeq(id, 1, 2) = <<"aws:", "">>
       /\ Len(Parts(id)) = 2 /\ "" \notin Range(Parts(id))
    THEN Parts(id)[2] ELSE Absent

(* Mutant: a change of addresses is not relevant. *)
NoAddressPredicate(old, new) ==
    \/ old = Absent \/ new = Absent
    \/ old.labels # new.labels \/ old.providerID # new.providerID

(* Creation and deletion always pass; the fields of an update are compared. *)
nodeRelevantChangePredicate(old, new) ==
    \/ old = Absent \/ new = Absent
    \/ old.labels # new.labels \/ old.providerID # new.providerID \/ old.ip # new.ip

(* A Node is created, updated or deleted.  Its instance comes with it, and *)
(* checks source/dest at first.  Two Nodes never share an address.         *)
NodeChanges(n, obj) ==
    /\ Change /\ nodes[n] # obj /\ nodes' = [nodes EXCEPT ![n] = obj]
    /\ obj # Absent /\ obj.ip # "" =>
           \A m \in Nodes \ {n} : nodes[m] # Absent => nodes[m].ip # obj.ip
    /\ checking' = IF nodes[n] = Absent THEN checking \cup {n} ELSE checking
    /\ due' = (due \/ nodeRelevantChangePredicate(nodes[n], obj))
    /\ UNCHANGED <<endpoints, peers, object, frrs, local>>

(* Nothing tells the operator of these.  A new endpoint is a new ID, and   *)
(* the peers of a deleted one are deleted with it.                         *)
EndpointChanges(e) ==
    /\ Change
    /\ \/ endpoints[e] = "planned" /\ endpoints' = [endpoints EXCEPT ![e] = "up"]
          /\ UNCHANGED peers
       \/ endpoints[e] = "up" /\ endpoints' = [endpoints EXCEPT ![e] = "gone"]
          /\ peers' = {p \in peers : p[1] # e}
    /\ UNCHANGED <<nodes, checking, object, frrs, due, local>>

EditSpec(new) ==
    /\ Change /\ new # spec /\ spec' = new /\ due' = TRUE /\ fresh' = (pc = "idle")
    /\ UNCHANGED <<nodes, cloud, status, frrs, pc, mine, found, azs, at, routers>>
-----------------------------------------------------------------------------
(***************************************************************************)
(* The end of a reconcile.                                                 *)
(***************************************************************************)
GoIdle ==
    /\ pc' = "idle" /\ mine' = spec /\ found' = NoneFound /\ azs' = << >> /\ at' = 1
    /\ routers' = << >> /\ fresh' = TRUE

(* Status().Update, whose failure is an error the queue retries.  It is    *)
(* refused when the object is not as it was read.                          *)
WriteStatus(phase, servers, ok) ==
    /\ IF ok /\ fresh
       THEN status' = [phase |-> phase, servers |-> servers] /\ UNCHANGED due
       ELSE UNCHANGED status /\ due' = TRUE
    /\ GoIdle

(* status.aws is as it was unless phase 3 has succeeded. *)
ServersToReport == IF pc = "discover" \/ ~mine.aws THEN status.servers ELSE found.servers

setDegraded(ok) == WriteStatus("Degraded", ServersToReport, ok)

(* A reconcile, by event, retry or timer (30 s or 5 min). *)
Start ==
    /\ pc = "idle" /\ due' = FALSE /\ mine' = spec
    /\ IF spec.aws THEN pc' = "discover" /\ UNCHANGED azs
       ELSE pc' = "configure" /\ azs' = spec.azs
    /\ UNCHANGED <<nodes, cloud, object, frrs, fresh, found, at, routers, changes, faults>>

(* The operator restarts in the middle of one. *)
Restart ==
    /\ Fault /\ pc # "idle" /\ GoIdle /\ due' = TRUE
    /\ UNCHANGED <<nodes, cloud, object, frrs>>
-----------------------------------------------------------------------------
(***************************************************************************)
(* Phase 3: a Route Server of the list, as EC2 lists its endpoints.        *)
(***************************************************************************)
describeRouteServerEndpoints(rs) == {e \in Endpoints : endpoints[e] = "up" /\ ServerOf[e] = rs}

resolveSubnetAZs(eps) == {[id |-> e, az |-> ZoneOf[e]] : e \in eps}

(* Each endpoint is recorded three times.  Its address is as good as       *)
(* itself, a Route Server's ASN too.                                       *)
AddServer(result, rs, eps) ==
    [servers |-> result.servers \cup {[id |-> rs, endpoints |-> eps]},
     neighborsByAZ |-> [z \in Zones |-> result.neighborsByAZ[z] \cup
                           {[address |-> ep.id, asn |-> rs] : ep \in {x \in eps : x.az = z}}],
     endpointsByAZ |-> [z \in Zones |-> result.endpointsByAZ[z] \cup
                           {ep.id : ep \in {x \in eps : x.az = z}}]]

DiscoverServer ==
    /\ pc = "discover" /\ at <= Len(mine.ids) /\ mine.ids[at] \in RouteServers
    /\ found' = AddServer(found, mine.ids[at],
                          resolveSubnetAZs(describeRouteServerEndpoints(mine.ids[at])))
    /\ at' = at + 1
    /\ UNCHANGED <<nodes, cloud, object, frrs, due, fresh, pc, mine, azs, routers, changes, faults>>

(* The Route Server is not found.  (Failing calls are in PhaseFails.) *)
ServerNotFound(ok) ==
    /\ pc = "discover" /\ at <= Len(mine.ids) /\ mine.ids[at] \notin RouteServers
    /\ FaultUnless(ok) /\ setDegraded(ok) /\ UNCHANGED <<nodes, cloud, spec, frrs>>

(* A call of phases 3 to 5 fails: AWS credentials, EC2, the API server.    *)
(* The write of the status that says so may fail as well.                  *)
PhaseFails(ok) ==
    /\ Fault /\ pc \notin {"idle", "ready"} /\ setDegraded(ok)
    /\ UNCHANGED <<nodes, cloud, spec, frrs>>
-----------------------------------------------------------------------------
(***************************************************************************)
(* Phase 4: an FRRConfiguration for each zone, numbered in their order.    *)
(***************************************************************************)
ZoneLabel(z) == [k \in {"zone"} |-> z]
ZonesFound == {z \in Zones : found.neighborsByAZ[z] # {}}

(* sort.Strings: the zones of S in the order of their names. *)
Sorted(S) == {s \in [1..Cardinality(S) -> S] : \A i, j \in DOMAIN s : i < j => s[i] < s[j]}

Configure(azNames, first) ==
    /\ pc = "discover" /\ at > Len(mine.ids) /\ pc' = "configure" /\ at' = first
    /\ azs' = [i \in DOMAIN azNames |-> [nodeSelector |-> ZoneLabel(azNames[i]),
                                         neighbors |-> found.neighborsByAZ[azNames[i]]]]
    /\ UNCHANGED <<nodes, cloud, object, frrs, due, fresh, mine, found, routers, changes, faults>>

(* Mutant: the zones are numbered in the order of a Go map. *)
PrepareFRRUnsorted ==
    \E azNames \in Bijection(1..Cardinality(ZonesFound), ZonesFound) : Configure(azNames, 1)

(* Mutant: the loop over zones begins where the one over servers ended. *)
PrepareFRRFromHere == \E azNames \in Sorted(ZonesFound) : Configure(azNames, at)

PrepareFRR == \E azNames \in Sorted(ZonesFound) : Configure(azNames, 1)

mergeLabels(base, overlay) ==
    [k \in DOMAIN base \cup DOMAIN overlay |-> IF k \in DOMAIN overlay THEN overlay[k] ELSE base[k]]

(* The FRRConfiguration for a zone. *)
FRRFor(selector, az) ==
    [selector |-> mergeLabels(selector, az.nodeSelector), neighbors |-> az.neighbors]

(* One zone.  An unanswered write has happened. *)
ensureSingleFRRConfiguration(ok) ==
    /\ pc = "configure" /\ at <= Len(azs) /\ FaultUnless(ok)
    /\ frrs' = [i \in DOMAIN frrs \cup {at} |->
                   IF i = at THEN FRRFor(mine.selector, azs[at]) ELSE frrs[i]]
    /\ IF ok THEN at' = at + 1 /\ UNCHANGED <<status, due, fresh, pc, mine, found, azs, routers>>
       ELSE setDegraded(TRUE)
    /\ UNCHANGED <<nodes, cloud, spec>>

(* Mutant: what was not expected stays. *)
PruneNothing(kept) ==
    /\ pc = "configure" /\ at > Len(azs) /\ kept = {} /\ UNCHANGED <<frrs, changes, faults>>
    /\ pc' = IF mine.aws THEN "peers" ELSE "ready"
    /\ UNCHANGED <<nodes, cloud, spec, status, due, fresh, mine, found, azs, at, routers>>

(* The managed FRRConfigurations that were not expected are deleted, but   *)
(* for those left when a call fails.                                       *)
Prune(kept) ==
    LET stale == {i \in DOMAIN frrs : i > Len(azs)}
    IN  /\ pc = "configure" /\ at > Len(azs) /\ kept \subseteq stale /\ FaultUnless(kept = {})
        /\ frrs' = Restrict(frrs, (DOMAIN frrs \ stale) \cup kept)
        /\ IF kept = {} THEN /\ pc' = IF mine.aws THEN "peers" ELSE "ready"
                             /\ UNCHANGED <<status, due, fresh, mine, found, azs, at, routers>>
           ELSE setDegraded(TRUE)
        /\ UNCHANGED <<nodes, cloud, spec>>
-----------------------------------------------------------------------------
(***************************************************************************)
(* Phase 5: the peers of router nodes, then their source/dest checks.      *)
(***************************************************************************)
Selects(selector, labels) ==
    \A k \in DOMAIN selector : k \in DOMAIN labels /\ labels[k] = selector[k]

(* A map read: an absent label is the empty string. *)
AZ(node) == IF "zone" \in DOMAIN node.labels THEN node.labels["zone"] ELSE NoZone

(* Nodes with incomplete info are skipped. *)
listRouterNodes(selector) ==
    {n \in Nodes : /\ nodes[n] # Absent /\ Selects(selector, nodes[n].labels)
                   /\ nodes[n].ip # "" /\ AZ(nodes[n]) # NoZone /\ nodes[n].providerID # <<"">>}

(* The addresses wanted on an endpoint: those of the nodes of its zone. *)
desiredIPs(e) ==
    {nodes[n].ip : n \in {m \in listRouterNodes(mine.selector) :
                             e \in found.endpointsByAZ[AZ(nodes[m])]}}

(* Every endpoint found gets its peers, unless a call fails at some point. *)
(* No peer can be created on an endpoint that has been deleted meanwhile.  *)
reconcileRouteServerPeers(reached) ==
    LET known == UNION {found.endpointsByAZ[z] : z \in Zones}
        refused == {e \in known : endpoints[e] = "gone" /\ desiredIPs(e) # {}}
        ok == reached = known
    IN  /\ pc = "peers" /\ reached \subseteq known \ refused /\ FaultUnless(ok \/ refused # {})
        /\ peers' = {p \in peers : p[1] \notin reached} \cup UNION {{e} \X desiredIPs(e) : e \in reached}
        /\ IF ok THEN /\ pc' = "checks"
                      /\ routers' = [n \in listRouterNodes(mine.selector) |-> nodes[n].providerID]
                      /\ UNCHANGED <<status, due, fresh, mine, found, azs, at>>
           ELSE setDegraded(TRUE)
        /\ UNCHANGED <<nodes, endpoints, checking, spec, frrs>>

(* Mutant: a node whose provider ID does not parse is skipped. *)
disableSourceDestCheckSkips(done) ==
    /\ pc = "checks" /\ done = {n \in DOMAIN routers : ParseProviderID(routers[n]) # Absent}
    /\ UNCHANGED <<changes, faults>> /\ checking' = checking \ done /\ pc' = "ready"
    /\ UNCHANGED <<status, due, fresh, mine, found, azs, at, routers>>
    /\ UNCHANGED <<nodes, endpoints, peers, spec, frrs>>

(* The loop ends at the first provider ID that does not parse, or at a     *)
(* call that fails.                                                        *)
disableSourceDestCheck(done) ==
    LET parsed == {n \in DOMAIN routers : ParseProviderID(routers[n]) # Absent}
        ok == done = DOMAIN routers
    IN  /\ pc = "checks" /\ done \subseteq parsed /\ FaultUnless(ok \/ parsed # DOMAIN routers)
        /\ checking' = checking \ done
        /\ IF ok THEN pc' = "ready" /\ UNCHANGED <<status, due, fresh, mine, found, azs, at, routers>>
           ELSE setDegraded(TRUE)
        /\ UNCHANGED <<nodes, endpoints, peers, spec, frrs>>

WriteReady(ok) ==
    /\ pc = "ready" /\ FaultUnless(ok)
    /\ WriteStatus("Ready", ServersToReport, ok)
    /\ UNCHANGED <<nodes, cloud, spec, frrs>>
-----------------------------------------------------------------------------
Environment ==
    \/ \E n \in Nodes, obj \in NodeObjects \cup {Absent} : NodeChanges(n, obj)
    \/ \E e \in Endpoints : EndpointChanges(e)
    \/ \E new \in Specs : EditSpec(new)

Phases ==
    \/ DiscoverServer \/ PrepareFRR
    \/ \E ok \in BOOLEAN : \/ ServerNotFound(ok) \/ PhaseFails(ok)
                           \/ ensureSingleFRRConfiguration(ok) \/ WriteReady(ok)
    \/ \E kept \in SUBSET DOMAIN frrs : Prune(kept)
    \/ \E reached \in SUBSET Endpoints : reconcileRouteServerPeers(reached)
    \/ \E done \in SUBSET Nodes : disableSourceDestCheck(done)

Next == Environment \/ Start \/ Restart \/ Phases

Spec == Init /\ [][Next]_vars
-----------------------------------------------------------------------------
(* The state's types; each loop stays within its list. *)
TypeOK ==
    /\ nodes \in [Nodes -> NodeObjects \cup {Absent}] /\ checking \subseteq Nodes
    /\ endpoints \in [Endpoints -> {"planned", "up", "gone"}]
    /\ peers \subseteq Endpoints \X {obj.ip : obj \in NodeObjects}
    /\ spec \in Specs /\ mine \in Specs /\ due \in BOOLEAN /\ fresh \in BOOLEAN
    /\ status.phase \in {"", "Degraded", "Ready"} /\ DOMAIN routers \subseteq Nodes
    /\ pc \in {"idle", "discover", "configure", "peers", "checks", "ready"}
    /\ \A z \in Zones : found.endpointsByAZ[z] \subseteq Endpoints
    /\ at \in 1..(IF pc = "discover" THEN Len(mine.ids) ELSE Len(azs)) + 1
    /\ DOMAIN frrs \subseteq Nat \ {0}
    /\ changes \in 0..MaxChanges /\ faults \in 0..MaxFaults

(* The operator has nothing to do but wait for its 5 minutes to pass. *)
AtRest == pc = "idle" /\ ~due /\ status.phase = "Ready"

(* Whose neighbour is e, by the FRRConfigurations that select the node. *)
Speaks(n, e) ==
    \E i \in DOMAIN frrs : /\ Selects(frrs[i].selector, nodes[n].labels)
                           /\ [address |-> e, asn |-> ServerOf[e]] \in frrs[i].neighbors

(* The endpoints of some Route Servers: a zone and a neighbour each. *)
Sessions(servers) ==
    UNION {{<<ep.az, [address |-> ep.id, asn |-> s.id]>> : ep \in s.endpoints} : s \in servers}

(* At rest, the peers of a reported endpoint that still exists are exactly *)
(* the addresses of router nodes whose FRR speaks to it: no Route Server   *)
(* waits for a node that does not call, and no listed node calls in vain,  *)
(* though the FRRConfigurations select nodes by merged labels and the      *)
(* peers by zone, nodes are relabelled and readdressed during a reconcile, *)
(* and earlier reconciles ended anywhere.                                  *)
SessionsMatch ==
    AtRest /\ spec.aws => \A r \in Sessions(status.servers) :
        LET e == r[2].address
        IN  endpoints[e] = "up" =>
               {p[2] : p \in {q \in peers : q[1] = e}} =
                   {nodes[n].ip : n \in {m \in listRouterNodes(spec.selector) : Speaks(m, e)}}

(* At rest, what status.aws reports (or spec.bgp.availabilityZones says)   *)
(* is what the FRRConfigurations configure, each neighbour with its ASN    *)
(* for the nodes of its zone, and nothing else is configured.              *)
ConfiguredAsReported ==
    AtRest => UNION {{frrs[i].selector} \X frrs[i].neighbors : i \in DOMAIN frrs}
              = IF spec.aws
                THEN {<<mergeLabels(spec.selector, ZoneLabel(r[1])), r[2]>> :
                          r \in Sessions(status.servers)}
                ELSE UNION {{mergeLabels(spec.selector, az.nodeSelector)} \X az.neighbors :
                                az \in Range(spec.azs)}

(* At rest, every router node forwards: none is left with an interface     *)
(* that checks source/dest, or with a provider ID that names no instance.  *)
RoutersForward ==
    AtRest /\ spec.aws => \A n \in listRouterNodes(spec.selector) :
        n \notin checking /\ ParseProviderID(nodes[n].providerID) # Absent

(* The FRRConfigurations are those of the zones found, in their order. *)
InOrder ==
    \E azNames \in Sorted(ZonesFound) :
        /\ DOMAIN frrs = DOMAIN azNames
        /\ \A i \in DOMAIN azNames :
              frrs[i] = FRRFor(mine.selector, [nodeSelector |-> ZoneLabel(azNames[i]),
                                               neighbors |-> found.neighborsByAZ[azNames[i]]])

(* A reconcile that finds things as they were, as most do every 5 minutes, *)
(* does not touch a running session: it reconfigures no zone, and deletes  *)
(* no peer of a node it lists in the endpoint's zone.                      *)
ReconcileIdempotent ==
    [][/\ pc = "configure" /\ mine.aws /\ InOrder => UNCHANGED frrs
       /\ pc = "peers" /\ UNCHANGED endpoints =>
              \A e \in Endpoints : {p \in peers : p[1] = e /\ p[2] \in desiredIPs(e)} \subseteq peers']_vars
=============================================================================
