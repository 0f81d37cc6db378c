------------------------- MODULE BGPSessionsProofs -------------------------
(***************************************************************************)
(* Proofs about BGPSessions, for any nodes, Route Servers, zones and       *)
(* bounds: at rest the two sides of every session agree, and every router  *)
(* node forwards, whatever nodes did meanwhile.                            *)
(***************************************************************************)
EXTENDS BGPSessions, FiniteSetTheorems, WellFoundedInduction, TLAPS

(* Leaves go to Zenon, and to SMT where they say so. *)
USE Zenon

-----------------------------------------------------------------------------
(***************************************************************************)
(* The inductive invariant: while no event is due, what the worker read is *)
(* what there is.                                                          *)
(***************************************************************************)
Stages == {"idle", "discover", "configure", "peers", "checks", "ready"}

(* The nodes that a selector lists have their source/dest check done. *)
Forwards(selector) ==
    \A n \in listRouterNodes(selector) :
        n \notin checking /\ ParseProviderID(nodes[n].providerID) # Absent

(* The worker's spec, and the nodes that phase 5 has listed, are current. *)
ReadCurrent ==
    /\ pc # "idle" /\ ~due => mine = spec
    /\ pc = "checks" /\ ~due =>
          routers = [n \in listRouterNodes(mine.selector) |-> nodes[n].providerID]

(* What WriteReady is about to report is so. *)
ForwardsToBe == pc = "ready" /\ ~due /\ mine.aws => Forwards(mine.selector)

RoutersInv ==
    /\ nodes \in [Nodes -> NodeObjects \cup {Absent}] /\ pc \in Stages
    /\ ReadCurrent /\ ForwardsToBe /\ RoutersForward

(* The session that an endpoint is for. *)
Session(e) == <<ZoneOf[e], [address |-> e, asn |-> ServerOf[e]]>>

(* Only endpoints that EC2 has listed are recorded, each as it is. *)
Genuine(servers) ==
    \A r \in Sessions(servers) :
        \E e \in Endpoints : r = Session(e) /\ endpoints[e] # "planned"

(* The three records of a DiscoveryResult say the same. *)
FoundInv ==
    /\ \A z \in Zones : /\ found.neighborsByAZ[z] =
                                {r[2] : r \in {q \in Sessions(found.servers) : q[1] = z}}
                         /\ found.endpointsByAZ[z] = {nb.address : nb \in found.neighborsByAZ[z]}
    /\ Genuine(found.servers) /\ Genuine(status.servers)

(* The zones to configure, given their names in order. *)
ZonesNamed(azNames) ==
    [i \in DOMAIN azNames |-> [nodeSelector |-> ZoneLabel(azNames[i]),
                              neighbors |-> found.neighborsByAZ[azNames[i]]]]

(* Phase 4: the zones are those found or those of the spec, and the        *)
(* FRRConfigurations are theirs, in the loop up to where it is.            *)
ConfigInv ==
    /\ azs \in Seq(Range(azs)) /\ frrs = [i \in DOMAIN frrs |-> frrs[i]]
    /\ DOMAIN frrs \subseteq Nat \ {0}
    /\ pc = "idle" => at = 1 /\ found = NoneFound
    /\ pc = "discover" => mine.aws
    /\ pc \in {"idle", "discover"} => azs = << >>
    /\ pc \in Stages \ {"idle", "discover"} =>
          IF mine.aws THEN \E azNames \in Sorted(ZonesFound) : azs = ZonesNamed(azNames)
          ELSE azs = mine.azs
    /\ at \in 1..(IF pc = "discover" THEN Len(mine.ids) ELSE Len(azs)) + 1
    /\ pc = "configure" => \A i \in 1..at - 1 :
          i \in DOMAIN frrs /\ frrs[i] = FRRFor(mine.selector, azs[i])
    /\ pc \in {"peers", "checks", "ready"} =>
          frrs = [i \in DOMAIN azs |-> FRRFor(mine.selector, azs[i])]

(* The peers of an endpoint are the router nodes of its zone. *)
PeersRight(selector, e) ==
    {p[2] : p \in {q \in peers : q[1] = e}} =
        {nodes[n].ip : n \in {m \in listRouterNodes(selector) : AZ(nodes[m]) = ZoneOf[e]}}

AllPeersRight(selector, servers) ==
    \A e \in Endpoints : Session(e) \in Sessions(servers) /\ endpoints[e] = "up" =>
        PeersRight(selector, e)

(* What phase 5 has made of the peers stays so, and is so at rest. *)
PeersInv ==
    /\ pc \in {"checks", "ready"} /\ ~due /\ mine.aws =>
          AllPeersRight(mine.selector, found.servers)
    /\ AtRest /\ spec.aws => AllPeersRight(spec.selector, status.servers)

-----------------------------------------------------------------------------
(* Only NodeChanges writes Nodes. *)
LEMMA OneNode ==
  ASSUME [Next]_vars
  PROVE  \/ \E n \in Nodes, obj \in NodeObjects \cup {Absent} : NodeChanges(n, obj)
         \/ nodes' = nodes
<1>1. CASE Environment
  BY <1>1 DEF Environment, EndpointChanges, EditSpec
<1>2. CASE Start \/ Restart \/ UNCHANGED vars
  BY <1>2 DEF Start, Restart, vars
<1>3. CASE Phases
  BY <1>3 DEF Phases, DiscoverServer, PrepareFRR, Configure, ServerNotFound, PhaseFails,
              ensureSingleFRRConfiguration, WriteReady, Prune,
              reconcileRouteServerPeers, disableSourceDestCheck
<1> QED BY <1>1, <1>2, <1>3 DEF Next

(* A change of a Node that no event tells of changes nothing that phase 5  *)
(* reads: nodeRelevantChangePredicate compares the right fields.           *)
LEMMA NodesSame ==
  ASSUME nodes \in [Nodes -> NodeObjects \cup {Absent}], [Next]_vars, ~due'
  PROVE  \A n \in Nodes :
            /\ nodes'[n] = Absent <=> nodes[n] = Absent
            /\ nodes[n] # Absent =>
                  /\ nodes'[n].labels = nodes[n].labels /\ nodes'[n].ip = nodes[n].ip
                  /\ nodes'[n].providerID = nodes[n].providerID
<1>1. CASE nodes' = nodes
  BY <1>1
<1>2. ASSUME NEW m \in Nodes, NEW obj \in NodeObjects \cup {Absent}, NodeChanges(m, obj)
      PROVE  \A n \in Nodes :
                /\ nodes'[n] = Absent <=> nodes[n] = Absent
                /\ nodes[n] # Absent =>
                      /\ nodes'[n].labels = nodes[n].labels /\ nodes'[n].ip = nodes[n].ip
                      /\ nodes'[n].providerID = nodes[n].providerID
  <2>1. ~nodeRelevantChangePredicate(nodes[m], obj)
    BY <1>2 DEF NodeChanges
  <2>2. nodes'[m] = obj /\ \A n \in Nodes \ {m} : nodes'[n] = nodes[n]
    BY <1>2 DEF NodeChanges
  <2>3. /\ nodes[m] # Absent /\ obj # Absent
        /\ obj.labels = nodes[m].labels /\ obj.ip = nodes[m].ip
        /\ obj.providerID = nodes[m].providerID
    BY <2>1 DEF nodeRelevantChangePredicate
  <2> SUFFICES ASSUME NEW n \in Nodes
               PROVE  /\ nodes'[n] = Absent <=> nodes[n] = Absent
                      /\ nodes[n] # Absent =>
                            /\ nodes'[n].labels = nodes[n].labels
                            /\ nodes'[n].ip = nodes[n].ip
                            /\ nodes'[n].providerID = nodes[n].providerID
    OBVIOUS
  <2>4. CASE n = m
    BY <2>2, <2>3, <2>4
  <2>5. CASE n # m
    BY <2>2, <2>5
  <2> QED BY <2>4, <2>5
<1> QED BY <1>1, <1>2, OneNode

(* So the list of router nodes is the same, and their provider IDs are. *)
LEMMA ListSame ==
  ASSUME nodes \in [Nodes -> NodeObjects \cup {Absent}], [Next]_vars, ~due', NEW sel
  PROVE  /\ listRouterNodes(sel)' = listRouterNodes(sel)
         /\ \A n \in listRouterNodes(sel) : nodes'[n].providerID = nodes[n].providerID
<1>1. ASSUME NEW n \in Nodes
      PROVE  (n \in listRouterNodes(sel))' <=> n \in listRouterNodes(sel)
  <2>1. CASE nodes[n] = Absent
    BY <1>1, <2>1, NodesSame DEF listRouterNodes
  <2>2. CASE nodes[n] # Absent
    <3>1. /\ nodes'[n] # Absent /\ nodes'[n].labels = nodes[n].labels
          /\ nodes'[n].ip = nodes[n].ip /\ nodes'[n].providerID = nodes[n].providerID
      BY <1>1, <2>2, NodesSame
    <3>2. AZ(nodes'[n]) = AZ(nodes[n])
      BY <3>1 DEF AZ
    <3> QED BY <2>2, <3>1, <3>2 DEF listRouterNodes
  <2> QED BY <2>1, <2>2
<1>2. listRouterNodes(sel)' = listRouterNodes(sel)
  BY <1>1 DEF listRouterNodes
<1>3. \A n \in listRouterNodes(sel) : n \in Nodes /\ nodes[n] # Absent
  BY DEF listRouterNodes
<1> QED BY <1>2, <1>3, NodesSame

-----------------------------------------------------------------------------
(***************************************************************************)
(* The kinds of steps.                                                     *)
(***************************************************************************)
(* Nothing that a reconcile read or did has changed without an event. *)
Aside ==
    /\ UNCHANGED <<status, frrs, pc, mine, found, azs, at, routers>>
    /\ ~due' => UNCHANGED <<spec, checking>> /\ ~due

(* A reconcile starts, or goes on; only phase 5 makes a spec with AWS ready. *)
GoesOn ==
    /\ UNCHANGED <<nodes, spec, checking>> /\ mine' = IF pc = "idle" THEN spec ELSE mine
    /\ pc' \in {"discover", "configure", "peers", "ready"}
    /\ pc # "idle" /\ ~due' => ~due
    /\ pc' = "ready" => ~mine'.aws

(* A reconcile ends without the status Ready, or is to be repeated. *)
GivesUp == pc' = "idle" /\ (due' \/ status'.phase # "Ready")

(* setDegraded writes no Ready status. *)
LEMMA DegradedGivesUp ==
  ASSUME NEW ok \in BOOLEAN, setDegraded(ok) PROVE GivesUp
BY SMT DEF setDegraded, WriteStatus, GoIdle, GivesUp

(* Every step is of one of these kinds. *)
LEMMA StepKinds ==
  ASSUME [Next]_vars, pc \in Stages
  PROVE  \/ Aside \/ GoesOn \/ GivesUp
         \/ \E reached \in SUBSET Endpoints :
               reconcileRouteServerPeers(reached) /\ pc' = "checks"
         \/ \E done \in SUBSET Nodes : disableSourceDestCheck(done) /\ pc' = "ready"
         \/ \E ok \in BOOLEAN : WriteReady(ok)
<1>1. CASE Environment
  <2>1. ASSUME NEW n \in Nodes, NEW obj \in NodeObjects \cup {Absent}, NodeChanges(n, obj)
        PROVE  Aside
    <3>1. nodes[n] = Absent => due'
      BY <2>1 DEF NodeChanges, nodeRelevantChangePredicate
    <3>2. checking' = IF nodes[n] = Absent THEN checking \cup {n} ELSE checking
      BY <2>1 DEF NodeChanges
    <3> QED BY <2>1, <3>1, <3>2 DEF NodeChanges, Aside, object, local
  <2>2. ASSUME NEW e \in Endpoints, EndpointChanges(e) PROVE Aside
    BY <2>2 DEF EndpointChanges, Aside, object, local
  <2>3. ASSUME NEW new \in Specs, EditSpec(new)
        PROVE  Aside
    BY <2>3 DEF EditSpec, Aside
  <2> QED BY <1>1, <2>1, <2>2, <2>3 DEF Environment
<1>2. CASE Start
  BY <1>2 DEF Start, GoesOn, object, cloud
<1>3. CASE Restart
  BY <1>3 DEF Restart, GoIdle, GivesUp
<1>4. CASE DiscoverServer \/ PrepareFRR
  BY <1>4 DEF DiscoverServer, PrepareFRR, Configure, GoesOn, object, cloud
<1>5. ASSUME NEW ok \in BOOLEAN, ServerNotFound(ok) \/ PhaseFails(ok) PROVE GivesUp
  BY <1>5, DegradedGivesUp DEF ServerNotFound, PhaseFails
<1>6. ASSUME NEW ok \in BOOLEAN, ensureSingleFRRConfiguration(ok) PROVE GoesOn \/ GivesUp
  BY <1>6, DegradedGivesUp DEF ensureSingleFRRConfiguration, GoesOn, cloud
<1>7. ASSUME NEW kept \in SUBSET DOMAIN frrs, Prune(kept) PROVE GoesOn \/ GivesUp
  BY <1>7, DegradedGivesUp DEF Prune, GoesOn, cloud
<1>8. ASSUME NEW reached \in SUBSET Endpoints, reconcileRouteServerPeers(reached)
      PROVE  pc' = "checks" \/ GivesUp
  BY <1>8, DegradedGivesUp DEF reconcileRouteServerPeers
<1>9. ASSUME NEW done \in SUBSET Nodes, disableSourceDestCheck(done)
      PROVE  pc' = "ready" \/ GivesUp
  BY <1>9, DegradedGivesUp DEF disableSourceDestCheck
<1>10. CASE UNCHANGED vars
  BY <1>10 DEF vars, object, local, cloud, Aside
<1> QED BY <1>1, <1>2, <1>3, <1>4, <1>5, <1>6, <1>7, <1>8, <1>9, <1>10 DEF Next, Phases

(* The types that the proofs rely on. *)
LEMMA NodeTypes ==
  ASSUME nodes \in [Nodes -> NodeObjects \cup {Absent}], [Next]_vars
  PROVE  nodes' \in [Nodes -> NodeObjects \cup {Absent}]
<1>1. ASSUME NEW n \in Nodes, NEW obj \in NodeObjects \cup {Absent}, NodeChanges(n, obj)
      PROVE  nodes' \in [Nodes -> NodeObjects \cup {Absent}]
  BY <1>1 DEF NodeChanges
<1>2. CASE nodes' = nodes
  BY <1>2
<1> QED BY <1>1, <1>2, OneNode

(* Every step leaves the worker at a stage. *)
LEMMA StageTypes ==
  ASSUME pc \in Stages, [Next]_vars
  PROVE  pc' \in Stages
<1>1. CASE Aside \/ GoesOn \/ GivesUp
  BY <1>1 DEF Aside, GoesOn, GivesUp, Stages
<1>2. ASSUME NEW ok \in BOOLEAN, WriteReady(ok) PROVE pc' = "idle"
  BY <1>2 DEF WriteReady, WriteStatus, GoIdle
<1> QED BY <1>1, <1>2, StepKinds DEF Stages

-----------------------------------------------------------------------------
(***************************************************************************)
(* The invariant is kept.                                                  *)
(***************************************************************************)
(* A listed node goes on forwarding until an event is due. *)
LEMMA ForwardsKept ==
  ASSUME nodes \in [Nodes -> NodeObjects \cup {Absent}], [Next]_vars, ~due', NEW sel,
         Forwards(sel), UNCHANGED checking
  PROVE  Forwards(sel)'
<1>1. /\ listRouterNodes(sel)' = listRouterNodes(sel)
      /\ \A n \in listRouterNodes(sel) : nodes'[n].providerID = nodes[n].providerID
  BY ListSame
<1> SUFFICES ASSUME NEW n \in listRouterNodes(sel)
             PROVE  n \notin checking' /\ ParseProviderID(nodes'[n].providerID) # Absent
  BY <1>1 DEF Forwards
<1> QED BY <1>1 DEF Forwards

(* Every kind of step keeps what the worker read current, or has an event. *)
LEMMA ReadCurrentStep ==
  ASSUME RoutersInv, [Next]_vars
  PROVE  ReadCurrent'
<1>0. nodes \in [Nodes -> NodeObjects \cup {Absent}] /\ pc \in Stages /\ ReadCurrent
  BY DEF RoutersInv
<1> SUFFICES ASSUME pc' # "idle", ~due'
             PROVE  /\ mine' = spec'
                    /\ pc' = "checks" =>
                          routers' = [n \in listRouterNodes(mine.selector)' |-> nodes'[n].providerID]
  BY DEF ReadCurrent
<1>1. CASE Aside
  <2>1. /\ mine = spec
        /\ pc = "checks" =>
              routers = [n \in listRouterNodes(mine.selector) |-> nodes[n].providerID]
    BY <1>0, <1>1 DEF Aside, ReadCurrent
  <2>2. PICK sel : sel = mine.selector
    OBVIOUS
  <2>3. /\ listRouterNodes(sel)' = listRouterNodes(sel)
        /\ \A n \in listRouterNodes(sel) : nodes'[n].providerID = nodes[n].providerID
    BY <1>0, ListSame
  <2>4. listRouterNodes(mine.selector)' = listRouterNodes(sel)
    BY <1>1, <2>2, <2>3 DEF Aside, listRouterNodes
  <2>5. [n \in listRouterNodes(sel) |-> nodes'[n].providerID]
           = [n \in listRouterNodes(sel) |-> nodes[n].providerID]
    BY <2>3
  <2> QED BY <1>1, <2>1, <2>2, <2>4, <2>5 DEF Aside
<1>2. CASE GoesOn
  <2>1. pc' # "checks" /\ spec' = spec
    BY <1>2 DEF GoesOn
  <2>2. CASE pc = "idle"
    BY <1>2, <2>1, <2>2 DEF GoesOn
  <2>3. CASE pc # "idle"
    BY <1>0, <1>2, <2>1, <2>3 DEF GoesOn, ReadCurrent
  <2> QED BY <2>1, <2>2, <2>3
<1>3. ASSUME NEW reached \in SUBSET Endpoints, reconcileRouteServerPeers(reached),
             pc' = "checks"
      PROVE  /\ mine' = spec'
             /\ routers' = [n \in listRouterNodes(mine.selector)' |-> nodes'[n].providerID]
  <2>1. /\ UNCHANGED <<nodes, spec, mine, due>> /\ pc = "peers"
        /\ routers' = [n \in listRouterNodes(mine.selector) |-> nodes[n].providerID]
    BY <1>3 DEF reconcileRouteServerPeers, setDegraded, WriteStatus, GoIdle
  <2>2. listRouterNodes(mine.selector)' = listRouterNodes(mine.selector)
    BY <2>1 DEF listRouterNodes
  <2> QED BY <1>0, <2>1, <2>2 DEF ReadCurrent
<1>4. ASSUME NEW done \in SUBSET Nodes, disableSourceDestCheck(done), pc' = "ready"
      PROVE  mine' = spec'
  BY <1>0, <1>4 DEF disableSourceDestCheck, setDegraded, WriteStatus, GoIdle, ReadCurrent
<1>5. ASSUME NEW ok \in BOOLEAN, WriteReady(ok) PROVE FALSE
  BY <1>5 DEF WriteReady, WriteStatus, GoIdle
<1> QED BY <1>0, <1>1, <1>2, <1>3, <1>4, <1>5, StepKinds DEF GivesUp

(* disableSourceDestCheck reaches ready only past every listed node. *)
LEMMA ForwardsToBeStep ==
  ASSUME RoutersInv, [Next]_vars
  PROVE  ForwardsToBe'
<1>0. /\ nodes \in [Nodes -> NodeObjects \cup {Absent}] /\ pc \in Stages
      /\ ReadCurrent /\ ForwardsToBe
  BY DEF RoutersInv
<1> SUFFICES ASSUME pc' = "ready", ~due', mine'.aws, NEW sel, sel = mine'.selector
             PROVE  Forwards(sel)'
  BY DEF ForwardsToBe, Forwards, listRouterNodes
<1>1. CASE Aside
  <2>1. Forwards(sel)
    BY <1>0, <1>1 DEF Aside, ForwardsToBe, Forwards, listRouterNodes
  <2> QED BY <1>0, <1>1, <2>1, ForwardsKept DEF Aside
<1>2. ASSUME NEW done \in SUBSET Nodes, disableSourceDestCheck(done) PROVE Forwards(sel)'
  <2>1. /\ pc = "checks" /\ UNCHANGED <<nodes, mine, due>> /\ checking' = checking \ done
        /\ done = DOMAIN routers
        /\ \A n \in done : ParseProviderID(routers[n]) # Absent
    BY <1>2 DEF disableSourceDestCheck, setDegraded, WriteStatus, GoIdle
  <2>2. routers = [n \in listRouterNodes(mine.selector) |-> nodes[n].providerID]
    BY <1>0, <2>1 DEF ReadCurrent
  <2>3. /\ DOMAIN routers = listRouterNodes(sel)
        /\ \A n \in listRouterNodes(sel) : routers[n] = nodes[n].providerID
    BY <2>1, <2>2
  <2>4. listRouterNodes(sel)' = listRouterNodes(sel)
    BY <2>1 DEF listRouterNodes
  <2> SUFFICES ASSUME NEW n \in listRouterNodes(sel)
               PROVE  n \notin checking' /\ ParseProviderID(nodes'[n].providerID) # Absent
    BY <2>4 DEF Forwards
  <2> QED BY <2>1, <2>3
<1>3. ASSUME NEW ok \in BOOLEAN, WriteReady(ok) PROVE FALSE
  BY <1>3 DEF WriteReady, WriteStatus, GoIdle
<1> QED BY <1>0, <1>1, <1>2, <1>3, StepKinds DEF GivesUp, GoesOn

(* WriteReady reports what disableSourceDestCheck achieved. *)
LEMMA RoutersForwardStep ==
  ASSUME RoutersInv, [Next]_vars
  PROVE  RoutersForward'
<1>0. /\ nodes \in [Nodes -> NodeObjects \cup {Absent}] /\ pc \in Stages
      /\ ReadCurrent /\ ForwardsToBe /\ RoutersForward
  BY DEF RoutersInv
<1> SUFFICES ASSUME pc' = "idle", ~due', status'.phase = "Ready", spec'.aws,
                    NEW sel, sel = spec'.selector
             PROVE  Forwards(sel)'
  BY DEF RoutersForward, AtRest, Forwards, listRouterNodes
<1>1. CASE Aside
  <2>1. AtRest /\ spec.aws /\ spec' = spec
    BY <1>1 DEF Aside, AtRest
  <2>2. Forwards(sel)
    BY <1>0, <2>1 DEF RoutersForward, Forwards, listRouterNodes
  <2> QED BY <1>0, <1>1, <2>2, ForwardsKept DEF Aside
<1>2. ASSUME NEW ok \in BOOLEAN, WriteReady(ok) PROVE Forwards(sel)'
  <2>1. pc = "ready" /\ UNCHANGED <<spec, checking, due>>
    BY <1>2 DEF WriteReady, WriteStatus, cloud
  <2>2. mine = spec
    BY <1>0, <2>1 DEF ReadCurrent
  <2>3. Forwards(sel)
    BY <1>0, <2>1, <2>2 DEF ForwardsToBe, Forwards, listRouterNodes
  <2> QED BY <1>0, <2>1, <2>3, ForwardsKept
<1>3. ~GoesOn /\ ~GivesUp
  BY DEF GoesOn, GivesUp
<1> QED BY <1>0, <1>1, <1>2, <1>3, StepKinds

(* Every step keeps the invariant. *)
LEMMA RoutersInvStep ==
  ASSUME RoutersInv, [Next]_vars PROVE RoutersInv'
<1>1. nodes' \in [Nodes -> NodeObjects \cup {Absent}]
  BY NodeTypes DEF RoutersInv
<1>2. pc' \in Stages
  BY StageTypes DEF RoutersInv
<1> QED BY <1>1, <1>2, ReadCurrentStep, ForwardsToBeStep, RoutersForwardStep DEF RoutersInv

-----------------------------------------------------------------------------
(***************************************************************************)
(* The order of zones: there is one way to sort them.                      *)
(***************************************************************************)
(* Sets of numbers have least elements. *)
LEMMA LeastNumber ==
  ASSUME NEW T, T \subseteq Nat, T # {}
  PROVE  \E m \in T : \A k \in T : m <= k
<1>1. PICK m \in T : \A k \in T : ~(<<k, m>> \in OpToRel(<, Nat))
  BY WFMin, NatLessThanWellFounded
<1>2. ASSUME NEW k \in T, k < m
      PROVE  FALSE
  <2>1. <<k, m>> \in Nat \X Nat /\ <<k, m>>[1] = k /\ <<k, m>>[2] = m
    BY SMT
  <2>2. <<k, m>> \in OpToRel(<, Nat)
    BY <1>2, <2>1 DEF OpToRel
  <2> QED BY <1>1, <2>2
<1> QED BY <1>2, SMT

(* A sorted list of a set of zones has all of them. *)
LEMMA SortedHasAll ==
  ASSUME NEW S, S \subseteq Zones, NEW s \in Sorted(S), NEW z \in S
  PROVE  \E i \in DOMAIN s : s[i] = z
<1>1. IsFiniteSet(S) /\ S \subseteq Nat
  BY FS_Subset, SessionsAssumption
<1>2. PICK n : n = Cardinality(S) /\ n \in Nat
  BY <1>1, FS_CardinalityType
<1>3. s \in [1..n -> S] /\ \A i, j \in 1..n : i < j => s[i] < s[j]
  BY <1>2 DEF Sorted
<1>4. ASSUME NEW i \in 1..n, NEW j \in 1..n, s[i] = s[j] PROVE i = j
  <2>1. s[i] \in Nat /\ (i < j => s[i] < s[j]) /\ (j < i => s[j] < s[i])
    BY <1>1, <1>3
  <2> QED BY <1>2, <1>4, <2>1, SMT
<1>5. s \in Injection(1..n, S)
  BY <1>3, <1>4 DEF Injection, IsInjective
<1>6. Cardinality(1..n) = n
  BY <1>2, FS_Interval, SMT
<1>7. s \in Surjection(1..n, S)
  BY <1>1, <1>2, <1>5, <1>6, FS_Injection
<1> QED BY <1>3, <1>7 DEF Surjection

(* Of two sorted lists that agree before i, neither has a smaller i-th one. *)
LEMMA SortedNotBefore ==
  ASSUME NEW S, S \subseteq Zones, NEW s \in Sorted(S), NEW t \in Sorted(S),
         NEW i \in DOMAIN s, \A j \in DOMAIN s : j < i => s[j] = t[j]
  PROVE  ~(s[i] < t[i])
<1>1. IsFiniteSet(S) /\ S \subseteq Nat
  BY FS_Subset, SessionsAssumption
<1>2. PICK n : n = Cardinality(S) /\ n \in Nat
  BY <1>1, FS_CardinalityType
<1>3. /\ s \in [1..n -> S] /\ \A j, k \in 1..n : j < k => s[j] < s[k]
      /\ t \in [1..n -> S] /\ \A j, k \in 1..n : j < k => t[j] < t[k]
  BY <1>2 DEF Sorted
<1>4. SUFFICES ASSUME s[i] < t[i] PROVE FALSE
  OBVIOUS
<1>5. i \in 1..n /\ s[i] \in S /\ DOMAIN t = 1..n /\ DOMAIN s = 1..n
  BY <1>3
<1>6. PICK j \in 1..n : t[j] = s[i]
  <2>1. PICK z : z = s[i] /\ z \in S
    BY <1>5
  <2>2. \E j \in DOMAIN t : t[j] = z
    BY <2>1, SortedHasAll
  <2> QED BY <1>5, <2>1, <2>2
<1>7. s[i] \in Nat /\ t[i] \in Nat /\ (i < j => t[i] < t[j])
  BY <1>1, <1>3, <1>5
<1>8. j < i
  <2>1. i # j
    BY <1>4, <1>6, <1>7, SMT
  <2>2. ~(i < j)
    BY <1>4, <1>6, <1>7, SMT
  <2> QED BY <1>2, <1>5, <2>1, <2>2, SMT
<1>9. s[j] = s[i] /\ s[j] < s[i]
  BY <1>3, <1>5, <1>6, <1>8
<1> QED BY <1>7, <1>9, SMT

(* So the zones of a set can be sorted in one way only. *)
LEMMA SortedUnique ==
  ASSUME NEW S, S \subseteq Zones, NEW s \in Sorted(S), NEW t \in Sorted(S)
  PROVE  s = t
<1>1. IsFiniteSet(S) /\ S \subseteq Nat
  BY FS_Subset, SessionsAssumption
<1>2. PICK n : n = Cardinality(S) /\ n \in Nat
  BY <1>1, FS_CardinalityType
<1>3. s \in [1..n -> S] /\ t \in [1..n -> S]
  BY <1>2 DEF Sorted
<1> DEFINE Differ == {i \in 1..n : s[i] # t[i]}
<1>4. ASSUME Differ = {} PROVE s = t
  <2>1. \A i \in 1..n : s[i] = t[i]
    BY <1>4
  <2>2. s = [i \in 1..n |-> s[i]] /\ t = [i \in 1..n |-> t[i]]
    BY <1>3
  <2>3. [i \in 1..n |-> s[i]] = [i \in 1..n |-> t[i]]
    BY <2>1
  <2> QED BY <2>2, <2>3
<1>5. ASSUME Differ # {} PROVE FALSE
  <2>1. Differ \subseteq Nat
    BY <1>2, SMT
  <2>2. PICK i \in Differ : \A k \in Differ : i <= k
    BY <1>5, <2>1, LeastNumber
  <2>3. i \in 1..n /\ s[i] # t[i]
    BY <2>2
  <2>4. \A j \in 1..n : j < i => s[j] = t[j]
    BY <1>2, <2>2, <2>3, SMT
  <2>5. ~(s[i] < t[i]) /\ ~(t[i] < s[i])
    BY <1>3, <2>3, <2>4, SortedNotBefore
  <2>6. s[i] \in Nat /\ t[i] \in Nat
    BY <1>1, <1>3, <2>3
  <2> QED BY <2>3, <2>5, <2>6, SMT
<1> QED BY <1>4, <1>5

-----------------------------------------------------------------------------
(***************************************************************************)
(* What phase 3 found.                                                     *)
(***************************************************************************)
EndpointTypes == endpoints \in [Endpoints -> {"planned", "up", "gone"}]

(* Only AWS changes endpoints, and only phase 5 and AWS change peers. *)
LEMMA EndpointSteps ==
  ASSUME [Next]_vars
  PROVE  \/ \E e \in Endpoints : EndpointChanges(e)
         \/ /\ endpoints' = endpoints
            /\ \/ peers' = peers
               \/ \E reached \in SUBSET Endpoints : reconcileRouteServerPeers(reached)
<1>1. CASE Environment
  BY <1>1 DEF Environment, NodeChanges, EditSpec, cloud
<1>2. CASE Start \/ Restart \/ UNCHANGED vars
  BY <1>2 DEF Start, Restart, vars, cloud
<1>3. CASE Phases
  <2>1. CASE DiscoverServer \/ PrepareFRR
    BY <2>1 DEF DiscoverServer, PrepareFRR, Configure, cloud
  <2>2. ASSUME NEW ok \in BOOLEAN,
               \/ ServerNotFound(ok) \/ PhaseFails(ok)
               \/ ensureSingleFRRConfiguration(ok) \/ WriteReady(ok)
        PROVE  endpoints' = endpoints /\ peers' = peers
    BY <2>2 DEF ServerNotFound, PhaseFails, ensureSingleFRRConfiguration, WriteReady, cloud
  <2>3. ASSUME NEW kept \in SUBSET DOMAIN frrs, Prune(kept)
        PROVE  endpoints' = endpoints /\ peers' = peers
    BY <2>3 DEF Prune, cloud
  <2>4. ASSUME NEW reached \in SUBSET Endpoints, reconcileRouteServerPeers(reached)
        PROVE  endpoints' = endpoints
    BY <2>4 DEF reconcileRouteServerPeers
  <2>5. ASSUME NEW done \in SUBSET Nodes, disableSourceDestCheck(done)
        PROVE  endpoints' = endpoints /\ peers' = peers
    BY <2>5 DEF disableSourceDestCheck
  <2> QED BY <1>3, <2>1, <2>2, <2>3, <2>4, <2>5 DEF Phases
<1> QED BY <1>1, <1>2, <1>3 DEF Next

(* An endpoint that comes up or goes leaves the others alone, and an       *)
(* endpoint that EC2 has listed is never planned again.                    *)
LEMMA EndpointsGoOn ==
  ASSUME EndpointTypes, [Next]_vars
  PROVE  /\ EndpointTypes'
         /\ \A e \in Endpoints :
               /\ endpoints[e] # "planned" => endpoints'[e] # "planned"
               /\ endpoints[e] # "planned" /\ endpoints'[e] = "up" => endpoints[e] = "up"
<1>1. CASE endpoints' = endpoints
  BY <1>1 DEF EndpointTypes
<1>2. ASSUME NEW e \in Endpoints, EndpointChanges(e)
      PROVE  \E new \in {"up", "gone"} :
                /\ endpoints' = [endpoints EXCEPT ![e] = new]
                /\ endpoints[e] = "planned" \/ new = "gone"
  BY <1>2 DEF EndpointChanges
<1>3. ASSUME NEW e \in Endpoints, NEW new \in {"up", "gone"},
             endpoints' = [endpoints EXCEPT ![e] = new],
             endpoints[e] = "planned" \/ new = "gone"
      PROVE  /\ EndpointTypes'
             /\ \A d \in Endpoints :
                   /\ endpoints[d] # "planned" => endpoints'[d] # "planned"
                   /\ endpoints[d] # "planned" /\ endpoints'[d] = "up" => endpoints[d] = "up"
  <2>1. EndpointTypes'
    BY <1>3 DEF EndpointTypes
  <2>2. endpoints'[e] = new /\ \A d \in Endpoints \ {e} : endpoints'[d] = endpoints[d]
    BY <1>3 DEF EndpointTypes
  <2> QED BY <1>3, <2>1, <2>2
<1> QED BY <1>1, <1>2, <1>3, EndpointSteps

(* What was recorded of endpoints stays true of them. *)
LEMMA GenuineKept ==
  ASSUME EndpointTypes, [Next]_vars, NEW servers, Genuine(servers)
  PROVE  Genuine(servers)'
<1> SUFFICES ASSUME NEW r \in Sessions(servers)
             PROVE  \E e \in Endpoints : r = Session(e) /\ endpoints'[e] # "planned"
  BY DEF Genuine, Sessions, Session
<1>1. PICK e \in Endpoints : r = Session(e) /\ endpoints[e] # "planned"
  BY DEF Genuine
<1> QED BY <1>1, EndpointsGoOn

(* What becomes of a DiscoveryResult, and where status.aws comes from. *)
LEMMA RecordSteps ==
  ASSUME [Next]_vars
  PROVE  /\ found' = found \/ found' = NoneFound \/ DiscoverServer
         /\ status'.servers \in {status.servers, found.servers}
<1>1. ASSUME NEW phase, NEW ok, WriteStatus(phase, ServersToReport, ok)
      PROVE  found' = NoneFound /\ status'.servers \in {status.servers, found.servers}
  <2>1. found' = NoneFound
    BY <1>1 DEF WriteStatus, GoIdle
  <2>2. ServersToReport \in {status.servers, found.servers}
    BY DEF ServersToReport
  <2>3. CASE ok /\ fresh
    <3>1. status' = [phase |-> phase, servers |-> ServersToReport]
      BY <1>1, <2>3 DEF WriteStatus
    <3> QED BY <2>1, <2>2, <3>1
  <2>4. CASE ~(ok /\ fresh)
    BY <1>1, <2>1, <2>4 DEF WriteStatus
  <2> QED BY <2>3, <2>4
<1>2. CASE Environment
  BY <1>2 DEF Environment, NodeChanges, EndpointChanges, EditSpec, object, local
<1>3. CASE Start \/ Restart \/ UNCHANGED vars
  BY <1>3 DEF Start, Restart, GoIdle, vars, object, local
<1>4. CASE DiscoverServer \/ PrepareFRR
  BY <1>4 DEF DiscoverServer, PrepareFRR, Configure, object
<1>5. ASSUME NEW ok \in BOOLEAN, ServerNotFound(ok) \/ PhaseFails(ok) \/ WriteReady(ok)
      PROVE  \E phase : WriteStatus(phase, ServersToReport, ok)
  BY <1>5 DEF ServerNotFound, PhaseFails, WriteReady, setDegraded
<1>6. ASSUME NEW ok \in BOOLEAN, ensureSingleFRRConfiguration(ok)
      PROVE  (found' = found /\ status' = status) \/ setDegraded(TRUE)
  BY <1>6 DEF ensureSingleFRRConfiguration
<1>7. ASSUME NEW kept \in SUBSET DOMAIN frrs, Prune(kept)
      PROVE  (found' = found /\ status' = status) \/ setDegraded(TRUE)
  BY <1>7 DEF Prune
<1>8. ASSUME NEW reached \in SUBSET Endpoints, reconcileRouteServerPeers(reached)
      PROVE  (found' = found /\ status' = status) \/ setDegraded(TRUE)
  BY <1>8 DEF reconcileRouteServerPeers
<1>9. ASSUME NEW done \in SUBSET Nodes, disableSourceDestCheck(done)
      PROVE  (found' = found /\ status' = status) \/ setDegraded(TRUE)
  BY <1>9 DEF disableSourceDestCheck
<1>10. setDegraded(TRUE) => found' = NoneFound /\ status'.servers \in {status.servers, found.servers}
  BY <1>1 DEF setDegraded
<1> QED BY <1>1, <1>2, <1>3, <1>4, <1>5, <1>6, <1>7, <1>8, <1>9, <1>10 DEF Next, Phases

(* Which sessions some Route Servers have. *)
LEMMA InSessions ==
  ASSUME NEW servers, NEW r
  PROVE  r \in Sessions(servers) <=>
            \E s \in servers : \E ep \in s.endpoints :
                r = <<ep.az, [address |-> ep.id, asn |-> s.id]>>
<1> DEFINE Of(s) == {<<ep.az, [address |-> ep.id, asn |-> s.id]>> : ep \in s.endpoints}
<1>1. ASSUME NEW s
      PROVE  r \in Of(s) <=> \E ep \in s.endpoints :
                                r = <<ep.az, [address |-> ep.id, asn |-> s.id]>>
  OBVIOUS
<1>2. Sessions(servers) = UNION {Of(s) : s \in servers}
  BY DEF Sessions
<1> HIDE DEF Of
<1>3. r \in UNION {Of(s) : s \in servers} <=> \E s \in servers : r \in Of(s)
  OBVIOUS
<1> QED BY <1>1, <1>2, <1>3

(* resolveSubnetAZs gives each endpoint the zone of its subnet. *)
LEMMA Resolved ==
  ASSUME NEW eps
  PROVE  /\ \A ep \in resolveSubnetAZs(eps) : ep.id \in eps /\ ep.az = ZoneOf[ep.id]
         /\ \A e \in eps : \E ep \in resolveSubnetAZs(eps) : ep.id = e /\ ep.az = ZoneOf[e]
<1>1. ASSUME NEW ep \in resolveSubnetAZs(eps)
      PROVE  ep.id \in eps /\ ep.az = ZoneOf[ep.id]
  <2>1. PICK e \in eps : ep = [id |-> e, az |-> ZoneOf[e]]
    BY <1>1 DEF resolveSubnetAZs
  <2> QED BY <2>1
<1>2. ASSUME NEW e \in eps
      PROVE  \E ep \in resolveSubnetAZs(eps) : ep.id = e /\ ep.az = ZoneOf[e]
  <2>1. PICK ep : ep = [id |-> e, az |-> ZoneOf[e]]
    OBVIOUS
  <2>2. ep \in resolveSubnetAZs(eps) /\ ep.id = e /\ ep.az = ZoneOf[e]
    BY <1>2, <2>1 DEF resolveSubnetAZs
  <2> QED BY <2>2
<1> QED BY <1>1, <1>2

(* A Route Server's endpoints become sessions, each of its endpoint. *)
LEMMA SessionsAdded ==
  ASSUME DiscoverServer, NEW rs, rs = mine.ids[at]
  PROVE  Sessions(found'.servers) =
            Sessions(found.servers) \cup {Session(e) : e \in describeRouteServerEndpoints(rs)}
<1> DEFINE eps == resolveSubnetAZs(describeRouteServerEndpoints(rs))
           new == [id |-> rs, endpoints |-> eps]
<1>1. found'.servers = found.servers \cup {new}
  BY DEF DiscoverServer, AddServer
<1> DEFINE more == {<<ep.az, [address |-> ep.id, asn |-> new.id]>> : ep \in new.endpoints}
<1>2. Sessions(found'.servers) = Sessions(found.servers) \cup more
  <2> HIDE DEF new
  <2>1. \A r : r \in more <=> \E ep \in new.endpoints :
                 r = <<ep.az, [address |-> ep.id, asn |-> new.id]>>
    OBVIOUS
  <2> HIDE DEF more
  <2>2. ASSUME NEW r
        PROVE  r \in Sessions(found'.servers) <=> r \in Sessions(found.servers) \/ r \in more
    <3> DEFINE In(s) == \E ep \in s.endpoints :
                           r = <<ep.az, [address |-> ep.id, asn |-> s.id]>>
    <3>1. /\ r \in Sessions(found'.servers) <=> \E s \in found'.servers : In(s)
          /\ r \in Sessions(found.servers) <=> \E s \in found.servers : In(s)
      BY InSessions
    <3>2. r \in more <=> In(new)
      BY <2>1
    <3> HIDE DEF In
    <3> QED BY <1>1, <3>1, <3>2
  <2> QED BY <2>2
<1>3. new.id = rs /\ new.endpoints = eps
  OBVIOUS
<1>4. {<<ep.az, [address |-> ep.id, asn |-> rs]>> : ep \in eps}
         = {<<ZoneOf[e], [address |-> e, asn |-> rs]>> : e \in describeRouteServerEndpoints(rs)}
  <2> DEFINE Of(ep) == <<ep.az, [address |-> ep.id, asn |-> rs]>>
             For(e) == <<ZoneOf[e], [address |-> e, asn |-> rs]>>
  <2>1. /\ \A ep \in eps : \E e \in describeRouteServerEndpoints(rs) : Of(ep) = For(e)
        /\ \A e \in describeRouteServerEndpoints(rs) : \E ep \in eps : Of(ep) = For(e)
    <3>1. /\ \A ep \in eps : ep.id \in describeRouteServerEndpoints(rs) /\ ep.az = ZoneOf[ep.id]
          /\ \A e \in describeRouteServerEndpoints(rs) :
                \E ep \in eps : ep.id = e /\ ep.az = ZoneOf[e]
      BY Resolved
    <3> HIDE DEF eps
    <3>2. \A ep \in eps : Of(ep) = For(ep.id)
      BY <3>1
    <3> HIDE DEF Of, For
    <3> QED BY <3>1, <3>2, SMT
  <2> HIDE DEF Of, For
  <2>2. {Of(ep) : ep \in eps} = {For(e) : e \in describeRouteServerEndpoints(rs)}
    BY <2>1, SMT
  <2> QED BY <2>2 DEF Of, For
<1>5. \A e \in describeRouteServerEndpoints(rs) : ServerOf[e] = rs
  BY DEF describeRouteServerEndpoints
<1>6. {<<ZoneOf[e], [address |-> e, asn |-> rs]>> : e \in describeRouteServerEndpoints(rs)}
         = {Session(e) : e \in describeRouteServerEndpoints(rs)}
  BY <1>5 DEF Session
<1> QED BY <1>2, <1>3, <1>4, <1>6

(* The other two records of a Route Server's endpoints. *)
LEMMA RecordsAdded ==
  ASSUME DiscoverServer, NEW rs, rs = mine.ids[at], NEW z \in Zones,
         NEW new, new = {e \in describeRouteServerEndpoints(rs) : ZoneOf[e] = z}
  PROVE  /\ found'.neighborsByAZ[z] = found.neighborsByAZ[z] \cup {Session(e)[2] : e \in new}
         /\ found'.endpointsByAZ[z] = found.endpointsByAZ[z] \cup new
<1> DEFINE all == resolveSubnetAZs(describeRouteServerEndpoints(rs))
           eps == {x \in all : x.az = z}
<1>1. /\ found'.neighborsByAZ[z] = found.neighborsByAZ[z] \cup
            {[address |-> ep.id, asn |-> rs] : ep \in eps}
      /\ found'.endpointsByAZ[z] = found.endpointsByAZ[z] \cup {ep.id : ep \in eps}
  BY DEF DiscoverServer, AddServer
<1>2. /\ \A ep \in eps : ep.id \in new
      /\ \A e \in new : \E ep \in eps : ep.id = e
  <2>1. /\ \A ep \in all : ep.id \in describeRouteServerEndpoints(rs) /\ ep.az = ZoneOf[ep.id]
        /\ \A e \in describeRouteServerEndpoints(rs) :
              \E ep \in all : ep.id = e /\ ep.az = ZoneOf[e]
    BY Resolved
  <2> HIDE DEF all
  <2>2. ASSUME NEW ep \in eps PROVE ep.id \in new
    <3>1. ep \in all /\ ep.az = z
      OBVIOUS
    <3> QED BY <2>1, <3>1
  <2>3. ASSUME NEW e \in new PROVE \E ep \in eps : ep.id = e
    <3>1. e \in describeRouteServerEndpoints(rs) /\ ZoneOf[e] = z
      OBVIOUS
    <3>2. PICK ep \in all : ep.id = e /\ ep.az = ZoneOf[e]
      BY <2>1, <3>1
    <3>3. ep \in eps
      BY <3>1, <3>2
    <3> QED BY <3>2, <3>3
  <2> QED BY <2>2, <2>3
<1>3. \A e \in new : Session(e)[2] = [address |-> e, asn |-> rs]
  BY DEF Session, describeRouteServerEndpoints
<1> HIDE DEF eps
<1>4. {ep.id : ep \in eps} = new
  <2>1. ASSUME NEW x \in {ep.id : ep \in eps} PROVE x \in new
    BY <1>2
  <2>2. ASSUME NEW x \in new PROVE x \in {ep.id : ep \in eps}
    BY <1>2
  <2> QED BY <2>1, <2>2
<1>5. {[address |-> ep.id, asn |-> rs] : ep \in eps} = {Session(e)[2] : e \in new}
  <2> DEFINE Of(e) == [address |-> e, asn |-> rs]
  <2>1. \A e \in new : Session(e)[2] = Of(e)
    BY <1>3
  <2> HIDE DEF Of
  <2>2. {Of(ep.id) : ep \in eps} = {Session(e)[2] : e \in new}
    BY <1>2, <2>1, SMT
  <2> QED BY <2>2 DEF Of
<1> QED BY <1>1, <1>4, <1>5

(* Phase 3 keeps its three records in step, and status.aws says of         *)
(* endpoints only what EC2 said.                                           *)
LEMMA FoundStep ==
  ASSUME FoundInv, EndpointTypes, [Next]_vars
  PROVE  FoundInv'
<1> DEFINE Right(z) ==
       /\ found.neighborsByAZ[z] = {r[2] : r \in {q \in Sessions(found.servers) : q[1] = z}}
       /\ found.endpointsByAZ[z] = {nb.address : nb \in found.neighborsByAZ[z]}
<1>0. /\ \A z \in Zones : Right(z)
      /\ Genuine(found.servers) /\ Genuine(status.servers)
  BY DEF FoundInv
<1>1. ASSUME NEW servers, Genuine(servers) PROVE Genuine(servers)'
  BY <1>1, GenuineKept
<1>2. Genuine(status.servers)'
  <2>1. PICK reported, listed : reported = status.servers /\ listed = found.servers
    OBVIOUS
  <2>2. Genuine(reported)' /\ Genuine(listed)'
    BY <1>0, <1>1, <2>1
  <2>3. status'.servers = reported \/ status'.servers = listed
    BY <2>1, RecordSteps
  <2> QED BY <2>2, <2>3 DEF Genuine
<1>3. CASE found' = found
  <2>1. PICK listed : listed = found.servers
    OBVIOUS
  <2>2. Genuine(listed)'
    BY <1>0, <1>1, <2>1
  <2>3. Genuine(found.servers)'
    BY <1>3, <2>1, <2>2 DEF Genuine
  <2>4. (\A z \in Zones : Right(z))'
    BY <1>0, <1>3
  <2> QED BY <1>2, <2>3, <2>4 DEF FoundInv
<1>4. CASE found' = NoneFound
  <2>1. \A r : r \notin Sessions(found'.servers)
    <3>1. found'.servers = {}
      BY <1>4 DEF NoneFound
    <3> QED BY <3>1, InSessions
  <2>2. \A z \in Zones : found'.neighborsByAZ[z] = {} /\ found'.endpointsByAZ[z] = {}
    BY <1>4 DEF NoneFound
  <2>3. Genuine(found.servers)'
    BY <2>1 DEF Genuine
  <2>4. (\A z \in Zones : Right(z))'
    BY <2>1, <2>2
  <2> QED BY <1>2, <2>3, <2>4 DEF FoundInv
<1>5. CASE DiscoverServer
  <2>1. PICK rs : rs = mine.ids[at]
    OBVIOUS
  <2> DEFINE listed == describeRouteServerEndpoints(rs)
  <2>2. Sessions(found'.servers) = Sessions(found.servers) \cup {Session(e) : e \in listed}
    BY <1>5, <2>1, SessionsAdded
  <2>3. \A e \in listed : e \in Endpoints /\ endpoints[e] = "up" /\ endpoints' = endpoints
    BY <1>5 DEF describeRouteServerEndpoints, DiscoverServer, cloud
  <2>4. ASSUME NEW r \in Sessions(found'.servers)
        PROVE  \E e \in Endpoints : r = Session(e) /\ endpoints'[e] # "planned"
    <3>1. CASE r \in Sessions(found.servers)
      <4>1. PICK e \in Endpoints : r = Session(e) /\ endpoints[e] # "planned"
        BY <1>0, <3>1 DEF Genuine
      <4>2. endpoints'[e] # "planned"
        BY <4>1, EndpointsGoOn
      <4> QED BY <4>1, <4>2
    <3>2. CASE r \in {Session(e) : e \in listed}
      BY <2>3, <3>2
    <3> QED BY <2>2, <2>4, <3>1, <3>2
  <2>5. Genuine(found.servers)'
    BY <2>4 DEF Genuine, Session
  <2>6. ASSUME NEW z \in Zones PROVE Right(z)'
    <3>1. PICK new : new = {e \in describeRouteServerEndpoints(rs) : ZoneOf[e] = z}
      OBVIOUS
    <3>2. /\ found'.neighborsByAZ[z] = found.neighborsByAZ[z] \cup {Session(e)[2] : e \in new}
          /\ found'.endpointsByAZ[z] = found.endpointsByAZ[z] \cup new
      BY <1>5, <2>1, <2>6, <3>1, RecordsAdded, SMT
    <3>3. \A e : Session(e)[1] = ZoneOf[e] /\ Session(e)[2].address = e
      BY DEF Session
    <3>4. {r[2] : r \in {q \in Sessions(found'.servers) : q[1] = z}}
             = {r[2] : r \in {q \in Sessions(found.servers) : q[1] = z}}
               \cup {Session(e)[2] : e \in new}
      <4>1. {q \in Sessions(found'.servers) : q[1] = z}
               = {q \in Sessions(found.servers) : q[1] = z} \cup {Session(e) : e \in new}
        BY <2>2, <3>1, <3>3, SMT
      <4>2. {r[2] : r \in {Session(e) : e \in new}} = {Session(e)[2] : e \in new}
        BY SMT
      <4> QED BY <4>1, <4>2
    <3>5. {nb.address : nb \in found'.neighborsByAZ[z]}
             = {nb.address : nb \in found.neighborsByAZ[z]} \cup new
      <4>1. {nb.address : nb \in {Session(e)[2] : e \in new}} = new
        BY <3>3, SMT
      <4> QED BY <3>2, <4>1
    <3> QED BY <1>0, <3>2, <3>4, <3>5
  <2> QED BY <1>2, <2>5, <2>6 DEF FoundInv
<1> QED BY <1>3, <1>4, <1>5, RecordSteps

-----------------------------------------------------------------------------
(***************************************************************************)
(* What phase 4 configures.                                                *)
(***************************************************************************)
SpecTypes == spec \in Specs /\ mine \in Specs

FrrTypes == frrs = [i \in DOMAIN frrs |-> frrs[i]] /\ DOMAIN frrs \subseteq Nat \ {0}

(* A list in the sense of Len. *)
LEMMA ListShape ==
  ASSUME NEW n \in Nat, NEW f, f = [i \in 1..n |-> f[i]]
  PROVE  f \in Seq(Range(f)) /\ Len(f) = n
<1>1. \A i \in 1..n : f[i] \in Range(f)
  BY DEF Range
<1> QED BY <1>1, SMT

(* When a reconcile ends the invariant asks for little. *)
LEMMA ConfigIdle ==
  ASSUME GoIdle, FrrTypes'
  PROVE  ConfigInv'
<1>1. pc' = "idle" /\ at' = 1 /\ found' = NoneFound /\ azs' = << >>
  BY DEF GoIdle
<1>2. << >> \in Seq(Range(<< >>)) /\ Len(<< >>) = 0
  BY SMT
<1>3. azs' \in Seq(Range(azs'))
  BY <1>1, <1>2
<1>4. at' \in 1..(IF pc' = "discover" THEN Len(mine'.ids) ELSE Len(azs')) + 1
  BY <1>1, <1>2, SMT
<1> QED BY <1>1, <1>3, <1>4 DEF ConfigInv, FrrTypes

(* Steps that end a reconcile, or do not touch what phase 4 works with. *)
LEMMA ConfigAside ==
  ASSUME ConfigInv, \/ UNCHANGED <<frrs, pc, mine, found, azs, at>>
                    \/ GoIdle /\ UNCHANGED frrs
  PROVE  ConfigInv'
<1>1. CASE UNCHANGED <<frrs, pc, mine, found, azs, at>>
  <2>1. ZonesFound' = ZonesFound /\ \A azNames : ZonesNamed(azNames)' = ZonesNamed(azNames)
    BY <1>1 DEF ZonesFound, ZonesNamed
  <2> QED BY <1>1, <2>1 DEF ConfigInv
<1>2. CASE GoIdle /\ UNCHANGED frrs
  BY <1>2, ConfigIdle DEF ConfigInv, FrrTypes
<1> QED BY <1>1, <1>2

(* The specs that there are have lists, which is all that is asked of them. *)
LEMMA SpecLists ==
  ASSUME NEW s \in Specs
  PROVE  s.ids \in Seq(Range(s.ids)) /\ s.azs \in Seq(Range(s.azs))
         /\ Len(s.ids) \in Nat /\ Len(s.azs) \in Nat
<1>1. s.ids \in Seq(Range(s.ids)) /\ s.azs \in Seq(Range(s.azs))
  BY ObjectsAssumption
<1> QED BY <1>1, SMT

(* Start begins phase 3, or phase 4 with the zones of the spec. *)
LEMMA ConfigStart ==
  ASSUME ConfigInv, SpecTypes, Start
  PROVE  ConfigInv'
<1>1. /\ pc = "idle" /\ mine' = spec /\ UNCHANGED <<frrs, found, at>>
      /\ at = 1 /\ azs = << >> /\ FrrTypes /\ azs \in Seq(Range(azs))
  BY DEF ConfigInv, Start, FrrTypes
<1>2. /\ Len(spec.ids) \in Nat /\ spec.azs \in Seq(Range(spec.azs)) /\ Len(spec.azs) \in Nat
  BY SpecLists DEF SpecTypes
<1>3. 1 \in 1..Len(spec.ids) + 1 /\ 1 \in 1..Len(spec.azs) + 1 /\ \A i : i \notin 1..1 - 1
  BY <1>2, SMT
<1>4. FrrTypes' /\ at' = 1
  BY <1>1 DEF FrrTypes
<1>5. CASE spec.aws
  <2>1. pc' = "discover" /\ mine'.aws /\ azs' = << >> /\ azs' \in Seq(Range(azs'))
    BY <1>1, <1>5 DEF Start
  <2>2. at' \in 1..Len(mine'.ids) + 1
    BY <1>1, <1>3, <1>4
  <2> QED BY <1>4, <2>1, <2>2 DEF ConfigInv, FrrTypes
<1>6. CASE ~spec.aws
  <2>1. pc' = "configure" /\ azs' = spec.azs /\ ~mine'.aws /\ azs' = mine'.azs
    BY <1>1, <1>6 DEF Start
  <2>2. azs' \in Seq(Range(azs')) /\ at' \in 1..Len(azs') + 1
    BY <1>2, <1>3, <1>4, <2>1
  <2>3. \A i : i \notin 1..at' - 1
    BY <1>3, <1>4
  <2> QED BY <1>4, <2>1, <2>2, <2>3 DEF ConfigInv, FrrTypes
<1> QED BY <1>5, <1>6

(* Phase 3 goes on to the next Route Server. *)
LEMMA ConfigDiscover ==
  ASSUME ConfigInv, SpecTypes, DiscoverServer
  PROVE  ConfigInv'
<1>1. /\ pc = "discover" /\ at <= Len(mine.ids) /\ at' = at + 1
      /\ UNCHANGED <<frrs, pc, mine, azs>>
  BY DEF DiscoverServer
<1>2. at \in 1..Len(mine.ids) + 1 /\ Len(mine.ids) \in Nat
  BY <1>1, SpecLists DEF ConfigInv, SpecTypes
<1>3. at' \in 1..Len(mine.ids) + 1
  BY <1>1, <1>2, SMT
<1> QED BY <1>1, <1>3 DEF ConfigInv

(* PrepareFRR lists every zone found, in order. *)
LEMMA ConfigPrepare ==
  ASSUME ConfigInv, PrepareFRR
  PROVE  ConfigInv'
<1>1. PICK azNames \in Sorted(ZonesFound) : Configure(azNames, 1)
  BY DEF PrepareFRR
<1>2. /\ pc = "discover" /\ pc' = "configure" /\ at' = 1 /\ azs' = ZonesNamed(azNames)
      /\ UNCHANGED <<frrs, found, mine, status>>
  BY <1>1 DEF Configure, ZonesNamed, object
<1>3. PICK n : n = Cardinality(ZonesFound) /\ n \in Nat
  <2>1. IsFiniteSet(ZonesFound)
    BY FS_Subset, SessionsAssumption DEF ZonesFound
  <2> QED BY <2>1, FS_CardinalityType
<1>4. DOMAIN azNames = 1..n
  BY <1>1, <1>3 DEF Sorted
<1>5. azs' = [i \in 1..n |-> azs'[i]]
  BY <1>2, <1>4 DEF ZonesNamed
<1>6. azs' \in Seq(Range(azs')) /\ Len(azs') = n
  BY <1>3, <1>5, ListShape
<1>7. 1 \in 1..n + 1 /\ \A i : i \notin 1..1 - 1
  BY <1>3, SMT
<1>8. mine.aws
  BY <1>2 DEF ConfigInv
<1>9. ZonesFound' = ZonesFound /\ ZonesNamed(azNames)' = ZonesNamed(azNames)
  BY <1>2 DEF ZonesFound, ZonesNamed
<1>10. \E names \in Sorted(ZonesFound') : azs' = ZonesNamed(names)'
  BY <1>1, <1>2, <1>9
<1>11. at' \in 1..Len(azs') + 1
  BY <1>2, <1>6, <1>7
<1> QED BY <1>2, <1>6, <1>7, <1>8, <1>10, <1>11 DEF ConfigInv

(* A zone is configured: the loop has done one more. *)
LEMMA ConfigEnsure ==
  ASSUME ConfigInv, NEW ok \in BOOLEAN, ensureSingleFRRConfiguration(ok)
  PROVE  ConfigInv'
<1>1. /\ pc = "configure" /\ at <= Len(azs)
      /\ frrs' = [i \in DOMAIN frrs \cup {at} |->
                    IF i = at THEN FRRFor(mine.selector, azs[at]) ELSE frrs[i]]
  BY DEF ensureSingleFRRConfiguration
<1>2. at \in 1..Len(azs) + 1 /\ Len(azs) \in Nat /\ DOMAIN frrs \subseteq Nat \ {0}
  <2>1. azs \in Seq(Range(azs))
    BY DEF ConfigInv
  <2> QED BY <1>1, <2>1, SMT DEF ConfigInv
<1>3. DOMAIN frrs' = DOMAIN frrs \cup {at} /\ at \in Nat \ {0}
  BY <1>1, <1>2, SMT
<1>4. FrrTypes'
  <2>1. frrs' = [i \in DOMAIN frrs' |-> frrs'[i]]
    BY <1>1
  <2> QED BY <1>2, <1>3, <2>1 DEF FrrTypes
<1>5. CASE ~ok
  <2>1. GoIdle
    BY <1>5 DEF ensureSingleFRRConfiguration, setDegraded, WriteStatus
  <2> QED BY <1>4, <2>1, ConfigIdle
<1>6. CASE ok
  <2>1. at' = at + 1 /\ UNCHANGED <<pc, mine, found, azs>>
    BY <1>6 DEF ensureSingleFRRConfiguration
  <2>2. at' \in 1..Len(azs) + 1
    BY <1>1, <1>2, <2>1, SMT
  <2>3. ASSUME NEW i \in 1..at' - 1
        PROVE  i \in DOMAIN frrs' /\ frrs'[i] = FRRFor(mine.selector, azs[i])
    <3>1. CASE i = at
      BY <1>1, <3>1
    <3>2. CASE i # at
      <4>1. i \in 1..at - 1
        BY <1>2, <2>1, <2>3, <3>2, SMT
      <4>2. i \in DOMAIN frrs /\ frrs[i] = FRRFor(mine.selector, azs[i])
        BY <1>1, <4>1 DEF ConfigInv
      <4> QED BY <1>1, <3>2, <4>2
    <3> QED BY <3>1, <3>2
  <2>4. ZonesFound' = ZonesFound /\ \A azNames : ZonesNamed(azNames)' = ZonesNamed(azNames)
    BY <2>1 DEF ZonesFound, ZonesNamed
  <2>5. /\ azs \in Seq(Range(azs))
        /\ IF mine.aws THEN \E azNames \in Sorted(ZonesFound) : azs = ZonesNamed(azNames)
           ELSE azs = mine.azs
    BY <1>1 DEF ConfigInv, Stages
  <2>6. /\ azs' \in Seq(Range(azs'))
        /\ IF mine'.aws THEN \E azNames \in Sorted(ZonesFound') : azs' = ZonesNamed(azNames)'
           ELSE azs' = mine'.azs
    BY <2>1, <2>4, <2>5
  <2>7. Sorted(ZonesFound)' = Sorted(ZonesFound')
    BY DEF Sorted
  <2>8. pc' = "configure" /\ at' \in 1..Len(azs') + 1
    BY <1>1, <2>1, <2>2
  <2>9. \A i \in 1..at' - 1 : i \in DOMAIN frrs' /\ frrs'[i] = FRRFor(mine.selector, azs[i])'
    BY <2>1, <2>3 DEF FRRFor
  <2> QED BY <1>4, <2>6, <2>7, <2>8, <2>9 DEF ConfigInv, FrrTypes, FRRFor
<1> QED BY <1>5, <1>6

(* Prune leaves the FRRConfigurations of the zones, and no other. *)
LEMMA ConfigPrune ==
  ASSUME ConfigInv, NEW kept \in SUBSET DOMAIN frrs, Prune(kept)
  PROVE  ConfigInv'
<1> DEFINE stale == {i \in DOMAIN frrs : i > Len(azs)}
           left == (DOMAIN frrs \ stale) \cup kept
<1>1. /\ pc = "configure" /\ at > Len(azs) /\ frrs' = [i \in left |-> frrs[i]]
  BY DEF Prune, Restrict
<1>2. /\ azs \in Seq(Range(azs)) /\ Len(azs) \in Nat /\ at = Len(azs) + 1
      /\ DOMAIN frrs \subseteq Nat \ {0}
  <2>1. azs \in Seq(Range(azs))
    BY DEF ConfigInv
  <2> QED BY <1>1, <2>1, SMT DEF ConfigInv
<1>3. FrrTypes'
  <2>1. DOMAIN frrs' = left /\ frrs' = [i \in DOMAIN frrs' |-> frrs'[i]]
    BY <1>1
  <2> QED BY <1>2, <2>1 DEF FrrTypes
<1>4. CASE kept # {}
  <2>1. GoIdle
    BY <1>4 DEF Prune, setDegraded, WriteStatus
  <2> QED BY <1>3, <2>1, ConfigIdle
<1>5. CASE kept = {}
  <2>1. pc' \in {"peers", "ready"} /\ UNCHANGED <<mine, found, azs, at>>
    BY <1>5 DEF Prune
  <2>2. \A i \in 1..Len(azs) : i \in DOMAIN frrs /\ frrs[i] = FRRFor(mine.selector, azs[i])
    <3>1. 1..at - 1 = 1..Len(azs)
      BY <1>2, SMT
    <3> QED BY <1>1, <3>1 DEF ConfigInv
  <2>3. DOMAIN azs = 1..Len(azs)
    BY <1>2, SMT
  <2>4. left = DOMAIN azs
    <3>1. ASSUME NEW i \in DOMAIN frrs PROVE i \in left <=> i \in 1..Len(azs)
      <4>1. i \in Nat \ {0}
        BY <1>2, <3>1
      <4>2. i > Len(azs) <=> i \notin 1..Len(azs)
        BY <1>2, <4>1, SMT
      <4> QED BY <1>5, <3>1, <4>2
    <3> QED BY <1>5, <2>2, <2>3, <3>1
  <2>5. frrs' = [i \in DOMAIN azs |-> FRRFor(mine.selector, azs[i])]
    BY <1>1, <2>2, <2>3, <2>4
  <2>6. ZonesFound' = ZonesFound /\ \A azNames : ZonesNamed(azNames)' = ZonesNamed(azNames)
    BY <2>1 DEF ZonesFound, ZonesNamed
  <2>7. IF mine.aws THEN \E azNames \in Sorted(ZonesFound) : azs = ZonesNamed(azNames)
        ELSE azs = mine.azs
    BY <1>1 DEF ConfigInv, Stages
  <2>8. at \in 1..Len(azs) + 1
    BY <1>2, SMT
  <2> QED BY <1>2, <1>3, <2>1, <2>5, <2>6, <2>7, <2>8 DEF ConfigInv, FrrTypes, FRRFor
<1> QED BY <1>4, <1>5

(* Phase 5 and the report leave phase 4's work as it is. *)
LEMMA ConfigGoesOn ==
  ASSUME ConfigInv, pc \in {"peers", "checks"}, pc' \in {"checks", "ready"},
         UNCHANGED <<frrs, mine, found, azs, at>>
  PROVE  ConfigInv'
<1>1. ZonesFound' = ZonesFound /\ \A azNames : ZonesNamed(azNames)' = ZonesNamed(azNames)
  BY DEF ZonesFound, ZonesNamed
<1>2. /\ azs \in Seq(Range(azs)) /\ FrrTypes
      /\ IF mine.aws THEN \E azNames \in Sorted(ZonesFound) : azs = ZonesNamed(azNames)
         ELSE azs = mine.azs
      /\ at \in 1..Len(azs) + 1
      /\ frrs = [i \in DOMAIN azs |-> FRRFor(mine.selector, azs[i])]
  BY DEF ConfigInv, FrrTypes, Stages
<1> QED BY <1>1, <1>2 DEF ConfigInv, FrrTypes, FRRFor

(* Every step keeps phase 4's invariant. *)
LEMMA ConfigStep ==
  ASSUME ConfigInv, SpecTypes, [Next]_vars
  PROVE  ConfigInv'
<1>1. CASE Environment
  BY <1>1, ConfigAside DEF Environment, NodeChanges, EndpointChanges, EditSpec, local
<1>2. CASE Start
  BY <1>2, ConfigStart
<1>3. CASE Restart
  BY <1>3, ConfigAside DEF Restart
<1>4. CASE DiscoverServer
  BY <1>4, ConfigDiscover
<1>5. CASE PrepareFRR
  BY <1>5, ConfigPrepare
<1>6. ASSUME NEW ok \in BOOLEAN, ServerNotFound(ok) \/ PhaseFails(ok) \/ WriteReady(ok)
      PROVE  ConfigInv'
  BY <1>6, ConfigAside DEF ServerNotFound, PhaseFails, WriteReady, setDegraded, WriteStatus
<1>7. ASSUME NEW ok \in BOOLEAN, ensureSingleFRRConfiguration(ok) PROVE ConfigInv'
  BY <1>7, ConfigEnsure
<1>8. ASSUME NEW kept \in SUBSET DOMAIN frrs, Prune(kept) PROVE ConfigInv'
  BY <1>8, ConfigPrune
<1>9. ASSUME NEW reached \in SUBSET Endpoints, reconcileRouteServerPeers(reached)
      PROVE  ConfigInv'
  <2>1. \/ pc = "peers" /\ pc' = "checks" /\ UNCHANGED <<frrs, mine, found, azs, at>>
        \/ GoIdle /\ UNCHANGED frrs
    BY <1>9 DEF reconcileRouteServerPeers, setDegraded, WriteStatus
  <2> QED BY <2>1, ConfigAside, ConfigGoesOn
<1>10. ASSUME NEW done \in SUBSET Nodes, disableSourceDestCheck(done) PROVE ConfigInv'
  <2>1. \/ pc = "checks" /\ pc' = "ready" /\ UNCHANGED <<frrs, mine, found, azs, at>>
        \/ GoIdle /\ UNCHANGED frrs
    BY <1>10 DEF disableSourceDestCheck, setDegraded, WriteStatus
  <2> QED BY <2>1, ConfigAside, ConfigGoesOn
<1>11. CASE UNCHANGED vars
  BY <1>11, ConfigAside DEF vars, local
<1> QED BY <1>1, <1>2, <1>3, <1>4, <1>5, <1>6, <1>7, <1>8, <1>9, <1>10, <1>11 DEF Next, Phases

-----------------------------------------------------------------------------
(***************************************************************************)
(* What is configured is what is reported.                                 *)
(***************************************************************************)
(* The selector and the neighbour of each entry of an FRRConfiguration. *)
Configured == UNION {{frrs[i].selector} \X frrs[i].neighbors : i \in DOMAIN frrs}

(* Those that a spec and the Route Servers reported for it call for. *)
CalledFor(s, servers) ==
    IF s.aws
    THEN {<<mergeLabels(s.selector, ZoneLabel(r[1])), r[2]>> : r \in Sessions(servers)}
    ELSE UNION {{mergeLabels(s.selector, az.nodeSelector)} \X az.neighbors : az \in Range(s.azs)}

(* What it is to be configured. *)
LEMMA InConfigured ==
  ASSUME NEW x
  PROVE  x \in Configured <=>
            \E i \in DOMAIN frrs : \E nb \in frrs[i].neighbors : x = <<frrs[i].selector, nb>>
<1> DEFINE Of(i) == {frrs[i].selector} \X frrs[i].neighbors
<1>1. ASSUME NEW i PROVE x \in Of(i) <=> \E nb \in frrs[i].neighbors : x = <<frrs[i].selector, nb>>
  BY SMT
<1>2. Configured = UNION {Of(i) : i \in DOMAIN frrs}
  BY DEF Configured
<1> HIDE DEF Of
<1>3. x \in UNION {Of(i) : i \in DOMAIN frrs} <=> \E i \in DOMAIN frrs : x \in Of(i)
  OBVIOUS
<1> QED BY <1>1, <1>2, <1>3

(* The zones that have sessions are among the zones found. *)
LEMMA ZonesOfSessions ==
  ASSUME FoundInv, NEW r \in Sessions(found.servers)
  PROVE  r[1] \in ZonesFound /\ r[2] \in found.neighborsByAZ[r[1]]
<1>1. PICK e \in Endpoints : r = Session(e)
  BY DEF FoundInv, Genuine
<1>2. r[1] \in Zones
  BY <1>1, SessionsAssumption DEF Session
<1>3. r[2] \in found.neighborsByAZ[r[1]]
  BY <1>2 DEF FoundInv
<1> QED BY <1>2, <1>3 DEF ZonesFound

(* After phase 4 the sessions of the Route Servers found are configured:   *)
(* none is lost in the numbering, and each has its own zone's selector.    *)
LEMMA ConfiguredFound ==
  ASSUME FoundInv, ConfigInv, pc \in {"peers", "checks", "ready"}, mine.aws
  PROVE  Configured = CalledFor(mine, found.servers)
<1>1. PICK azNames \in Sorted(ZonesFound) : azs = ZonesNamed(azNames)
  BY DEF ConfigInv, Stages
<1>2. frrs = [i \in DOMAIN azs |-> FRRFor(mine.selector, azs[i])]
  BY DEF ConfigInv
<1>3. /\ DOMAIN frrs = DOMAIN azNames
      /\ \A i \in DOMAIN azNames :
            /\ frrs[i].selector = mergeLabels(mine.selector, ZoneLabel(azNames[i]))
            /\ frrs[i].neighbors = found.neighborsByAZ[azNames[i]]
  BY <1>1, <1>2 DEF ZonesNamed, FRRFor
<1>4. \A i \in DOMAIN azNames : azNames[i] \in Zones
  BY <1>1 DEF Sorted, ZonesFound
<1>5. ASSUME NEW i \in DOMAIN frrs, NEW nb \in frrs[i].neighbors
      PROVE  <<frrs[i].selector, nb>> \in CalledFor(mine, found.servers)
  <2>1. PICK z \in Zones : z = azNames[i] /\ nb \in found.neighborsByAZ[z]
    BY <1>3, <1>4, <1>5
  <2>2. PICK r \in Sessions(found.servers) : r[1] = z /\ r[2] = nb
    <3>1. nb \in {r[2] : r \in {q \in Sessions(found.servers) : q[1] = z}}
      BY <2>1 DEF FoundInv
    <3> QED BY <3>1
  <2>3. frrs[i].selector = mergeLabels(mine.selector, ZoneLabel(r[1]))
    <3>1. i \in DOMAIN azNames /\ azNames[i] = r[1]
      BY <1>3, <1>5, <2>1, <2>2
    <3> QED BY <1>3, <3>1
  <2> QED BY <2>2, <2>3 DEF CalledFor
<1>6. ASSUME NEW r \in Sessions(found.servers)
      PROVE  <<mergeLabels(mine.selector, ZoneLabel(r[1])), r[2]>> \in Configured
  <2>1. r[1] \in ZonesFound /\ r[2] \in found.neighborsByAZ[r[1]]
    BY <1>6, ZonesOfSessions
  <2>2. PICK i \in DOMAIN azNames : azNames[i] = r[1]
    <3>1. ZonesFound \subseteq Zones
      BY DEF ZonesFound
    <3>2. PICK z \in ZonesFound : z = r[1]
      BY <2>1
    <3>3. \E i \in DOMAIN azNames : azNames[i] = z
      BY <1>1, <3>1, SortedHasAll
    <3> QED BY <3>2, <3>3
  <2>3. /\ i \in DOMAIN frrs /\ r[2] \in frrs[i].neighbors
        /\ frrs[i].selector = mergeLabels(mine.selector, ZoneLabel(r[1]))
    BY <1>3, <2>1, <2>2
  <2>4. <<frrs[i].selector, r[2]>> \in Configured
    BY <2>3, InConfigured
  <2> QED BY <2>3, <2>4
<1>7. ASSUME NEW x \in Configured PROVE x \in CalledFor(mine, found.servers)
  <2>1. PICK i \in DOMAIN frrs : \E nb \in frrs[i].neighbors : x = <<frrs[i].selector, nb>>
    BY <1>7, InConfigured
  <2> QED BY <1>5, <2>1
<1>8. ASSUME NEW x \in CalledFor(mine, found.servers) PROVE x \in Configured
  BY <1>6, <1>8 DEF CalledFor
<1> QED BY <1>7, <1>8

(* Without AWS, what the spec says is configured. *)
LEMMA ConfiguredStatic ==
  ASSUME ConfigInv, pc \in {"peers", "checks", "ready"}, ~mine.aws, NEW servers
  PROVE  Configured = CalledFor(mine, servers)
<1>1. azs = mine.azs /\ frrs = [i \in DOMAIN azs |-> FRRFor(mine.selector, azs[i])]
  BY DEF ConfigInv, Stages
<1>2. /\ DOMAIN frrs = DOMAIN azs
      /\ \A i \in DOMAIN azs :
            /\ frrs[i].selector = mergeLabels(mine.selector, azs[i].nodeSelector)
            /\ frrs[i].neighbors = azs[i].neighbors
  BY <1>1 DEF FRRFor
<1> DEFINE Of(az) == {mergeLabels(mine.selector, az.nodeSelector)} \X az.neighbors
<1>3. \A i \in DOMAIN azs : {frrs[i].selector} \X frrs[i].neighbors = Of(azs[i])
  BY <1>2
<1>4. CalledFor(mine, servers) = UNION {Of(az) : az \in Range(azs)}
  BY <1>1 DEF CalledFor
<1> HIDE DEF Of
<1>5. Configured = UNION {Of(azs[i]) : i \in DOMAIN azs}
  BY <1>2, <1>3 DEF Configured
<1>6. {Of(az) : az \in Range(azs)} = {Of(azs[i]) : i \in DOMAIN azs}
  BY SMT DEF Range
<1> QED BY <1>4, <1>5, <1>6

(* Either way, phase 4 ends with what the spec calls for. *)
LEMMA ConfiguredInTheEnd ==
  ASSUME FoundInv, ConfigInv, pc \in {"peers", "checks", "ready"}
  PROVE  Configured = CalledFor(mine, ServersToReport)
<1>1. CASE mine.aws
  <2>1. ServersToReport = found.servers
    BY <1>1 DEF ServersToReport
  <2> QED BY <1>1, <2>1, ConfiguredFound
<1>2. CASE ~mine.aws
  BY <1>2, ConfiguredStatic
<1> QED BY <1>1, <1>2

(* WriteReady with an answer: what is reported is what there is. *)
LEMMA ReadyReports ==
  ASSUME NEW ok \in BOOLEAN, WriteReady(ok), ~due', ReadCurrent
  PROVE  /\ pc = "ready" /\ ~due /\ mine = spec
         /\ status'.servers = ServersToReport
         /\ UNCHANGED <<nodes, cloud, spec, frrs>>
<1>1. pc = "ready" /\ ok /\ fresh
  BY DEF WriteReady, WriteStatus
<1>2. status' = [phase |-> "Ready", servers |-> ServersToReport] /\ due' = due
  BY <1>1 DEF WriteReady, WriteStatus
<1>3. ~due
  BY <1>2
<1>4. mine = spec
  BY <1>1, <1>3 DEF ReadCurrent
<1> QED BY <1>1, <1>2, <1>3, <1>4 DEF WriteReady

(* The report agrees with the FRRConfigurations after every step. *)
LEMMA ConfiguredStep ==
  ASSUME FoundInv, ConfigInv, RoutersInv, ConfiguredAsReported, [Next]_vars
  PROVE  ConfiguredAsReported'
<1>0. pc \in Stages /\ ReadCurrent
  BY DEF RoutersInv
<1> SUFFICES ASSUME AtRest' PROVE Configured' = CalledFor(spec, status.servers)'
  BY DEF ConfiguredAsReported, Configured, CalledFor
<1>r. pc' = "idle" /\ ~due' /\ status'.phase = "Ready"
  BY DEF AtRest
<1>1. CASE Aside
  <2>1. AtRest /\ UNCHANGED <<spec, status, frrs>>
    BY <1>1, <1>r DEF Aside, AtRest
  <2>2. Configured = CalledFor(spec, status.servers)
    BY <2>1 DEF ConfiguredAsReported, Configured, CalledFor
  <2>3. Configured' = Configured
    BY <2>1 DEF Configured
  <2>4. CalledFor(spec, status.servers)' = CalledFor(spec, status.servers)
    BY <2>1 DEF CalledFor, Sessions
  <2> QED BY <2>2, <2>3, <2>4
<1>2. ASSUME NEW ok \in BOOLEAN, WriteReady(ok)
      PROVE  Configured' = CalledFor(spec, status.servers)'
  <2>1. /\ pc = "ready" /\ mine = spec /\ status'.servers = ServersToReport
        /\ UNCHANGED <<spec, frrs>>
    BY <1>0, <1>2, <1>r, ReadyReports
  <2>2. Configured = CalledFor(mine, ServersToReport)
    BY <2>1, ConfiguredInTheEnd
  <2>3. Configured' = Configured
    BY <2>1 DEF Configured
  <2>4. CalledFor(spec, status.servers)' = CalledFor(mine, ServersToReport)
    BY <2>1 DEF CalledFor, Sessions
  <2> QED BY <2>2, <2>3, <2>4
<1>3. ~GoesOn /\ ~GivesUp
  BY <1>r DEF GoesOn, GivesUp
<1> QED BY <1>0, <1>1, <1>2, <1>3, <1>r, StepKinds

-----------------------------------------------------------------------------
(***************************************************************************)
(* The peers are those of the nodes.                                       *)
(***************************************************************************)
(* A session is of an endpoint that was found in its zone, and only there. *)
LEMMA SessionZone ==
  ASSUME FoundInv, NEW e \in Endpoints, NEW z \in Zones
  PROVE  e \in found.endpointsByAZ[z] <=>
            Session(e) \in Sessions(found.servers) /\ z = ZoneOf[e]
<1>0. /\ found.neighborsByAZ[z] = {r[2] : r \in {q \in Sessions(found.servers) : q[1] = z}}
      /\ found.endpointsByAZ[z] = {nb.address : nb \in found.neighborsByAZ[z]}
  BY DEF FoundInv
<1>1. \A d : Session(d)[1] = ZoneOf[d] /\ Session(d)[2].address = d
  BY DEF Session
<1>2. ASSUME e \in found.endpointsByAZ[z]
      PROVE  Session(e) \in Sessions(found.servers) /\ z = ZoneOf[e]
  <2>1. PICK nb \in found.neighborsByAZ[z] : e = nb.address
    BY <1>0, <1>2
  <2>2. PICK r \in Sessions(found.servers) : r[1] = z /\ r[2] = nb
    BY <1>0, <2>1
  <2>3. PICK d \in Endpoints : r = Session(d)
    BY <2>2 DEF FoundInv, Genuine
  <2>4. d = e
    BY <1>1, <2>1, <2>2, <2>3
  <2> QED BY <1>1, <2>2, <2>3, <2>4
<1>3. ASSUME Session(e) \in Sessions(found.servers), z = ZoneOf[e]
      PROVE  e \in found.endpointsByAZ[z]
  <2>1. Session(e)[2] \in found.neighborsByAZ[z]
    BY <1>0, <1>1, <1>3
  <2>2. PICK nb \in found.neighborsByAZ[z] : nb.address = e
    BY <1>1, <2>1
  <2> QED BY <1>0, <2>2
<1> QED BY <1>2, <1>3

(* A listed node has a zone, and an address that some Node may have. *)
LEMMA ListedNode ==
  ASSUME nodes \in [Nodes -> NodeObjects \cup {Absent}], NEW sel, NEW n \in listRouterNodes(sel)
  PROVE  n \in Nodes /\ nodes[n] \in NodeObjects /\ AZ(nodes[n]) \in Zones
<1>1. n \in Nodes /\ nodes[n] # Absent
  BY DEF listRouterNodes
<1>2. nodes[n] \in NodeObjects
  BY <1>1
<1>3. AZ(nodes[n]) \in Zones
  BY <1>2, SessionsAssumption, ObjectsAssumption DEF AZ
<1> QED BY <1>1, <1>2, <1>3

(* What phase 5 wants on an endpoint are the router nodes of its zone. *)
LEMMA DesiredRight ==
  ASSUME FoundInv, nodes \in [Nodes -> NodeObjects \cup {Absent}],
         NEW e \in Endpoints, Session(e) \in Sessions(found.servers)
  PROVE  desiredIPs(e) = {nodes[n].ip : n \in {m \in listRouterNodes(mine.selector) :
                                                 AZ(nodes[m]) = ZoneOf[e]}}
<1>1. PICK sel : sel = mine.selector
  OBVIOUS
<1>2. \A m \in listRouterNodes(sel) : AZ(nodes[m]) \in Zones
  BY ListedNode
<1>3. \A m \in listRouterNodes(sel) :
         e \in found.endpointsByAZ[AZ(nodes[m])] <=> AZ(nodes[m]) = ZoneOf[e]
  BY <1>2, SessionZone
<1>4. {m \in listRouterNodes(sel) : e \in found.endpointsByAZ[AZ(nodes[m])]}
         = {m \in listRouterNodes(sel) : AZ(nodes[m]) = ZoneOf[e]}
  BY <1>3
<1> QED BY <1>1, <1>4 DEF desiredIPs

(* The peers of an endpoint stay right until an event is due. *)
LEMMA PeersKept ==
  ASSUME nodes \in [Nodes -> NodeObjects \cup {Absent}], [Next]_vars, ~due', NEW sel,
         NEW e \in Endpoints, PeersRight(sel, e),
         \A ip : <<e, ip>> \in peers' <=> <<e, ip>> \in peers,
         \A p \in peers \cup peers' : p = <<p[1], p[2]>>
  PROVE  PeersRight(sel, e)'
<1>1. {p[2] : p \in {q \in peers' : q[1] = e}} = {p[2] : p \in {q \in peers : q[1] = e}}
  <2>1. ASSUME NEW S, \A p \in S : p = <<p[1], p[2]>>
        PROVE  \A ip : ip \in {p[2] : p \in {q \in S : q[1] = e}} <=> <<e, ip>> \in S
    BY <2>1, SMT
  <2> QED BY <2>1
<1>2. listRouterNodes(sel)' = listRouterNodes(sel)
  BY ListSame
<1>3. \A n \in listRouterNodes(sel) : nodes'[n].ip = nodes[n].ip /\ AZ(nodes'[n]) = AZ(nodes[n])
  <2> SUFFICES ASSUME NEW n \in listRouterNodes(sel)
               PROVE  nodes'[n].ip = nodes[n].ip /\ AZ(nodes'[n]) = AZ(nodes[n])
    OBVIOUS
  <2>1. n \in Nodes /\ nodes[n] # Absent
    BY DEF listRouterNodes
  <2>2. nodes'[n].ip = nodes[n].ip /\ nodes'[n].labels = nodes[n].labels
    BY <2>1, NodesSame
  <2> QED BY <2>2 DEF AZ
<1>4. {m \in listRouterNodes(sel)' : AZ(nodes'[m]) = ZoneOf[e]}
         = {m \in listRouterNodes(sel) : AZ(nodes[m]) = ZoneOf[e]}
  BY <1>2, <1>3
<1>5. {nodes'[n].ip : n \in {m \in listRouterNodes(sel) : AZ(nodes[m]) = ZoneOf[e]}}
         = {nodes[n].ip : n \in {m \in listRouterNodes(sel) : AZ(nodes[m]) = ZoneOf[e]}}
  BY <1>3, SMT
<1> QED BY <1>1, <1>4, <1>5 DEF PeersRight

PeerTypes == peers \subseteq Endpoints \X {obj.ip : obj \in NodeObjects}

(* The addresses wanted are addresses that Nodes may have. *)
LEMMA DesiredTypes ==
  ASSUME nodes \in [Nodes -> NodeObjects \cup {Absent}], NEW e
  PROVE  desiredIPs(e) \subseteq {obj.ip : obj \in NodeObjects}
<1>1. PICK sel : sel = mine.selector
  OBVIOUS
<1> SUFFICES ASSUME NEW n \in listRouterNodes(sel)
             PROVE  nodes[n].ip \in {obj.ip : obj \in NodeObjects}
  BY <1>1 DEF desiredIPs
<1> QED BY ListedNode

(* Peers have an endpoint and an address each. *)
LEMMA PeerTypesStep ==
  ASSUME nodes \in [Nodes -> NodeObjects \cup {Absent}], PeerTypes, [Next]_vars
  PROVE  PeerTypes'
<1>1. ASSUME NEW e \in Endpoints, EndpointChanges(e) PROVE peers' \subseteq peers
  BY <1>1 DEF EndpointChanges
<1>2. ASSUME NEW reached \in SUBSET Endpoints, reconcileRouteServerPeers(reached)
      PROVE  PeerTypes'
  <2>1. peers' = {p \in peers : p[1] \notin reached}
                    \cup UNION {{e} \X desiredIPs(e) : e \in reached}
    BY <1>2 DEF reconcileRouteServerPeers
  <2>2. ASSUME NEW e \in reached
        PROVE  {e} \X desiredIPs(e) \subseteq Endpoints \X {obj.ip : obj \in NodeObjects}
    <3>1. e \in Endpoints /\ desiredIPs(e) \subseteq {obj.ip : obj \in NodeObjects}
      BY <2>2, DesiredTypes
    <3> QED BY <3>1, SMT
  <2> QED BY <2>1, <2>2 DEF PeerTypes
<1> QED BY <1>1, <1>2, EndpointSteps DEF PeerTypes

(* Until phase 5 comes to them, or they go, endpoints keep their peers. *)
LEMMA PeersStay ==
  ASSUME EndpointTypes, [Next]_vars, pc # "peers",
         NEW e \in Endpoints, endpoints[e] # "planned", endpoints'[e] = "up"
  PROVE  \A ip : <<e, ip>> \in peers' <=> <<e, ip>> \in peers
<1>1. ASSUME NEW d \in Endpoints, EndpointChanges(d)
      PROVE  \A ip : <<e, ip>> \in peers' <=> <<e, ip>> \in peers
  <2>1. CASE endpoints[d] = "planned" /\ UNCHANGED peers
    BY <2>1
  <2>2. CASE endpoints' = [endpoints EXCEPT ![d] = "gone"] /\ peers' = {p \in peers : p[1] # d}
    <3>1. d # e
      BY <2>2 DEF EndpointTypes
    <3>2. \A ip : <<e, ip>>[1] = e
      OBVIOUS
    <3> QED BY <2>2, <3>1, <3>2
  <2> QED BY <1>1, <2>1, <2>2 DEF EndpointChanges
<1>2. ASSUME NEW reached \in SUBSET Endpoints, reconcileRouteServerPeers(reached) PROVE FALSE
  BY <1>2 DEF reconcileRouteServerPeers
<1> QED BY <1>1, <1>2, EndpointSteps

(* So they have the right ones until an event is due. *)
LEMMA AllPeersKept ==
  ASSUME nodes \in [Nodes -> NodeObjects \cup {Absent}], EndpointTypes, PeerTypes,
         [Next]_vars, ~due', pc # "peers",
         NEW sel, NEW servers, Genuine(servers), AllPeersRight(sel, servers)
  PROVE  AllPeersRight(sel, servers)'
<1> SUFFICES ASSUME NEW e \in Endpoints, Session(e) \in Sessions(servers), endpoints'[e] = "up"
             PROVE  PeersRight(sel, e)'
  BY DEF AllPeersRight, Session, Sessions
<1>1. endpoints[e] # "planned"
  <2>1. PICK d \in Endpoints : Session(e) = Session(d) /\ endpoints[d] # "planned"
    BY DEF Genuine
  <2>2. Session(e)[2].address = e /\ Session(d)[2].address = d
    BY DEF Session
  <2> QED BY <2>1, <2>2
<1>2. PeersRight(sel, e)
  BY <1>1, EndpointsGoOn DEF AllPeersRight
<1>3. \A ip : <<e, ip>> \in peers' <=> <<e, ip>> \in peers
  BY <1>1, PeersStay
<1>4. PeerTypes'
  BY PeerTypesStep
<1>5. \A p \in peers \cup peers' : p = <<p[1], p[2]>>
  BY <1>4, SMT DEF PeerTypes
<1> QED BY <1>2, <1>3, <1>5, PeersKept

(* A round of phase 5 that reaches every endpoint makes its peers right. *)
LEMMA AllPeersMade ==
  ASSUME nodes \in [Nodes -> NodeObjects \cup {Absent}], FoundInv, PeerTypes,
         NEW reached \in SUBSET Endpoints, reconcileRouteServerPeers(reached), pc' = "checks"
  PROVE  AllPeersRight(mine.selector, found.servers)'
<1>1. /\ UNCHANGED <<nodes, endpoints, mine, found>>
      /\ reached = UNION {found.endpointsByAZ[z] : z \in Zones}
      /\ peers' = {p \in peers : p[1] \notin reached}
                     \cup UNION {{d} \X desiredIPs(d) : d \in reached}
  BY DEF reconcileRouteServerPeers, setDegraded, WriteStatus, GoIdle
<1>2. PICK sel, servers : sel = mine.selector /\ servers = found.servers
  OBVIOUS
<1> SUFFICES ASSUME NEW e \in Endpoints, Session(e) \in Sessions(servers)
             PROVE  {p[2] : p \in {q \in peers' : q[1] = e}} =
                       {nodes[n].ip : n \in {m \in listRouterNodes(sel) :
                                               AZ(nodes[m]) = ZoneOf[e]}}
  <2>1. listRouterNodes(sel)' = listRouterNodes(sel)
    BY <1>1 DEF listRouterNodes
  <2>2. ASSUME NEW e \in Endpoints, Session(e) \in Sessions(servers) PROVE PeersRight(sel, e)'
    <3>1. {nodes'[n].ip : n \in {m \in listRouterNodes(sel)' : AZ(nodes'[m]) = ZoneOf[e]}}
             = {nodes[n].ip : n \in {m \in listRouterNodes(sel) : AZ(nodes[m]) = ZoneOf[e]}}
      BY <1>1, <2>1, SMT
    <3> QED BY <2>2, <3>1 DEF PeersRight
  <2>3. AllPeersRight(sel, servers)'
    BY <2>2 DEF AllPeersRight, Session, Sessions
  <2> QED BY <1>1, <1>2, <2>3 DEF AllPeersRight, PeersRight, listRouterNodes
<1>3. e \in reached
  <2>1. ZoneOf[e] \in Zones
    BY SessionsAssumption
  <2>2. e \in found.endpointsByAZ[ZoneOf[e]]
    BY <1>2, <2>1, SessionZone
  <2> QED BY <1>1, <2>1, <2>2
<1>4. ASSUME NEW ip PROVE ip \in {p[2] : p \in {q \in peers' : q[1] = e}} <=> ip \in desiredIPs(e)
  <2>1. \A d \in reached : \A p \in {d} \X desiredIPs(d) :
           p[1] = d /\ p[2] \in desiredIPs(d)
    BY SMT
  <2>2. <<e, ip>> \in {e} \X desiredIPs(e) <=> ip \in desiredIPs(e)
    BY SMT
  <2>3. <<e, ip>>[1] = e /\ <<e, ip>>[2] = ip
    OBVIOUS
  <2>4. ip \in desiredIPs(e) => <<e, ip>> \in peers'
    BY <1>1, <1>3, <2>2
  <2>5. ASSUME NEW p \in peers', p[1] = e PROVE p[2] \in desiredIPs(e)
    <3>1. PICK d \in reached : p \in {d} \X desiredIPs(d)
      BY <1>1, <1>3, <2>5
    <3>2. d = e
      BY <2>1, <2>5, <3>1
    <3> QED BY <2>1, <3>1, <3>2
  <2> QED BY <2>3, <2>4, <2>5
<1>5. desiredIPs(e) = {nodes[n].ip : n \in {m \in listRouterNodes(sel) : AZ(nodes[m]) = ZoneOf[e]}}
  BY <1>2, DesiredRight
<1> QED BY <1>4, <1>5

(* The peers are right after every step, until an event is due. *)
LEMMA PeersStep ==
  ASSUME FoundInv, EndpointTypes, PeerTypes, RoutersInv, PeersInv, [Next]_vars
  PROVE  PeersInv'
<1>0. nodes \in [Nodes -> NodeObjects \cup {Absent}] /\ pc \in Stages /\ ReadCurrent
  BY DEF RoutersInv
<1>1. PICK sel, asked, listed, reported :
         /\ sel = mine.selector /\ asked = spec.selector
         /\ listed = found.servers /\ reported = status.servers
  OBVIOUS
<1>2. Genuine(listed) /\ Genuine(reported)
  BY <1>1 DEF FoundInv
<1>3. ASSUME pc' \in {"checks", "ready"}, ~due', mine'.aws
      PROVE  AllPeersRight(mine.selector, found.servers)'
  <2>1. ASSUME pc \in {"checks", "ready"}, ~due, UNCHANGED <<mine, found>>
        PROVE  AllPeersRight(mine.selector, found.servers)'
    <3>1. AllPeersRight(sel, listed)
      BY <1>1, <1>3, <2>1 DEF PeersInv
    <3>2. AllPeersRight(sel, listed)'
      BY <1>0, <1>2, <1>3, <2>1, <3>1, AllPeersKept
    <3> QED BY <1>1, <2>1, <3>2 DEF AllPeersRight, PeersRight, listRouterNodes
  <2>2. CASE Aside
    BY <1>3, <2>1, <2>2 DEF Aside
  <2>3. ~GoesOn /\ ~GivesUp
    BY <1>3 DEF GoesOn, GivesUp
  <2>4. ASSUME NEW done \in SUBSET Nodes, disableSourceDestCheck(done), pc' = "ready"
        PROVE  pc \in {"checks", "ready"} /\ ~due /\ UNCHANGED <<mine, found>>
    BY <1>3, <2>4 DEF disableSourceDestCheck, setDegraded, WriteStatus, GoIdle
  <2>5. ASSUME NEW ok \in BOOLEAN, WriteReady(ok) PROVE FALSE
    BY <1>3, <2>5 DEF WriteReady, WriteStatus, GoIdle
  <2> QED BY <1>0, <2>1, <2>2, <2>3, <2>4, <2>5, AllPeersMade, StepKinds
<1>4. ASSUME AtRest', spec'.aws
      PROVE  AllPeersRight(spec.selector, status.servers)'
  <2>r. pc' = "idle" /\ ~due' /\ status'.phase = "Ready"
    BY <1>4 DEF AtRest
  <2>1. CASE Aside
    <3>1. AtRest /\ UNCHANGED <<spec, status>>
      BY <2>1, <2>r DEF Aside, AtRest
    <3>2. AllPeersRight(asked, reported)
      BY <1>1, <1>4, <3>1 DEF PeersInv
    <3>3. AllPeersRight(asked, reported)'
      BY <1>0, <1>2, <2>r, <3>1, <3>2, AllPeersKept DEF AtRest
    <3> QED BY <1>1, <3>1, <3>3 DEF AllPeersRight, PeersRight, listRouterNodes
  <2>2. ASSUME NEW ok \in BOOLEAN, WriteReady(ok)
        PROVE  AllPeersRight(spec.selector, status.servers)'
    <3>1. /\ pc = "ready" /\ ~due /\ mine = spec /\ spec' = spec
          /\ status'.servers = ServersToReport
      BY <1>0, <2>2, <2>r, ReadyReports
    <3>2. status'.servers = listed /\ spec'.selector = sel
      BY <1>1, <1>4, <3>1 DEF ServersToReport
    <3>3. AllPeersRight(sel, listed)
      BY <1>1, <1>4, <3>1 DEF PeersInv
    <3>4. AllPeersRight(sel, listed)'
      BY <1>0, <1>2, <2>r, <3>1, <3>3, AllPeersKept
    <3> QED BY <3>2, <3>4 DEF AllPeersRight, PeersRight, listRouterNodes
  <2>3. ~GoesOn /\ ~GivesUp
    BY <2>r DEF GoesOn, GivesUp
  <2> QED BY <1>0, <2>1, <2>2, <2>3, <2>r, StepKinds
<1> QED BY <1>3, <1>4 DEF PeersInv

-----------------------------------------------------------------------------
(***************************************************************************)
(* Both sides of a session.                                                *)
(***************************************************************************)
(* The selector of a zone's FRRConfiguration selects a router node just    *)
(* when the node is of that zone.                                          *)
LEMMA ZoneSelects ==
  ASSUME NEW sel, NEW z, NEW node, Selects(sel, node.labels), AZ(node) # NoZone
  PROVE  Selects(mergeLabels(sel, ZoneLabel(z)), node.labels) <=> AZ(node) = z
<1> DEFINE merged == mergeLabels(sel, ZoneLabel(z))
<1>1. /\ DOMAIN merged = DOMAIN sel \cup {"zone"} /\ merged["zone"] = z
      /\ \A k \in DOMAIN sel : k # "zone" => merged[k] = sel[k]
  BY DEF mergeLabels, ZoneLabel
<1>2. "zone" \in DOMAIN node.labels /\ AZ(node) = node.labels["zone"]
  BY DEF AZ
<1> HIDE DEF merged
<1>3. ASSUME Selects(merged, node.labels) PROVE AZ(node) = z
  BY <1>1, <1>2, <1>3 DEF Selects
<1>4. ASSUME AZ(node) = z, NEW k \in DOMAIN merged
      PROVE  k \in DOMAIN node.labels /\ node.labels[k] = merged[k]
  <2>1. CASE k = "zone"
    BY <1>1, <1>2, <1>4, <2>1
  <2>2. CASE k # "zone"
    BY <1>1, <1>4, <2>2 DEF Selects
  <2> QED BY <2>1, <2>2
<1>5. AZ(node) = z => Selects(merged, node.labels)
  BY <1>4 DEF Selects
<1> QED BY <1>3, <1>5 DEF merged

(* At rest a router node speaks to the reported endpoints of its zone. *)
LEMMA SpeaksInZone ==
  ASSUME Genuine(status.servers), ConfiguredAsReported, AtRest, spec.aws,
         NEW e \in Endpoints, Session(e) \in Sessions(status.servers),
         NEW n \in listRouterNodes(spec.selector)
  PROVE  Speaks(n, e) <=> AZ(nodes[n]) = ZoneOf[e]
<1> DEFINE nb == [address |-> e, asn |-> ServerOf[e]]
           sel == spec.selector
<1>1. Configured = {<<mergeLabels(sel, ZoneLabel(r[1])), r[2]>> : r \in Sessions(status.servers)}
  BY DEF ConfiguredAsReported, Configured
<1>2. \A d : Session(d)[1] = ZoneOf[d] /\ Session(d)[2].address = d
  BY DEF Session
<1>3. Session(e)[2] = nb
  BY DEF Session
<1>4. /\ Selects(sel, nodes[n].labels) /\ AZ(nodes[n]) # NoZone
  BY DEF listRouterNodes
<1>5. Selects(mergeLabels(sel, ZoneLabel(ZoneOf[e])), nodes[n].labels) <=> AZ(nodes[n]) = ZoneOf[e]
  BY <1>4, ZoneSelects
<1>6. ASSUME NEW i \in DOMAIN frrs, nb \in frrs[i].neighbors
      PROVE  frrs[i].selector = mergeLabels(sel, ZoneLabel(ZoneOf[e]))
  <2>1. <<frrs[i].selector, nb>> \in Configured
    BY <1>6, InConfigured
  <2>2. PICK r \in Sessions(status.servers) :
           <<frrs[i].selector, nb>> = <<mergeLabels(sel, ZoneLabel(r[1])), r[2]>>
    BY <1>1, <2>1
  <2>3. frrs[i].selector = mergeLabels(sel, ZoneLabel(r[1])) /\ r[2] = nb
    BY <2>2
  <2>4. PICK d \in Endpoints : r = Session(d)
    BY DEF Genuine
  <2>5. d = e
    <3>1. r[2].address = d
      BY <1>2, <2>4
    <3>2. nb.address = e
      OBVIOUS
    <3> QED BY <2>3, <3>1, <3>2
  <2>6. r[1] = ZoneOf[e]
    BY <1>2, <2>4, <2>5
  <2> QED BY <2>3, <2>6
<1>7. \E i \in DOMAIN frrs :
         nb \in frrs[i].neighbors /\ frrs[i].selector = mergeLabels(sel, ZoneLabel(ZoneOf[e]))
  <2>1. <<mergeLabels(sel, ZoneLabel(Session(e)[1])), Session(e)[2]>> \in Configured
    BY <1>1
  <2>2. <<mergeLabels(sel, ZoneLabel(ZoneOf[e])), nb>> \in Configured
    BY <1>2, <1>3, <2>1
  <2>3. PICK i \in DOMAIN frrs : \E x \in frrs[i].neighbors :
           <<mergeLabels(sel, ZoneLabel(ZoneOf[e])), nb>> = <<frrs[i].selector, x>>
    BY <2>2, InConfigured
  <2>4. frrs[i].selector = mergeLabels(sel, ZoneLabel(ZoneOf[e])) /\ nb \in frrs[i].neighbors
    BY <2>3
  <2> QED BY <2>4
<1> QED BY <1>5, <1>6, <1>7 DEF Speaks

(* So the peers and the FRRConfigurations name each other. *)
LEMMA MatchAtRest ==
  ASSUME FoundInv, ConfiguredAsReported, PeersInv
  PROVE  SessionsMatch
<1> SUFFICES ASSUME AtRest, spec.aws, NEW r \in Sessions(status.servers),
                    endpoints[r[2].address] = "up"
             PROVE  {p[2] : p \in {q \in peers : q[1] = r[2].address}} =
                       {nodes[n].ip : n \in {m \in listRouterNodes(spec.selector) :
                                               Speaks(m, r[2].address)}}
  BY DEF SessionsMatch
<1>1. Genuine(status.servers)
  BY DEF FoundInv
<1>2. PICK e \in Endpoints : r = Session(e)
  BY <1>1 DEF Genuine
<1>3. r[2].address = e /\ Session(e) \in Sessions(status.servers)
  BY <1>2 DEF Session
<1>4. PeersRight(spec.selector, e)
  BY <1>3 DEF PeersInv, AllPeersRight
<1>5. \A m \in listRouterNodes(spec.selector) : Speaks(m, e) <=> AZ(nodes[m]) = ZoneOf[e]
  BY <1>1, <1>3, SpeaksInZone
<1>6. {m \in listRouterNodes(spec.selector) : Speaks(m, e)}
         = {m \in listRouterNodes(spec.selector) : AZ(nodes[m]) = ZoneOf[e]}
  BY <1>5
<1> QED BY <1>3, <1>4, <1>6 DEF PeersRight

-----------------------------------------------------------------------------
(***************************************************************************)
(* A reconcile that finds things as they were.                             *)
(***************************************************************************)
(* An FRRConfiguration is written as it was: its number is its zone's.     *)
LEMMA FrrsSame ==
  ASSUME ConfigInv, pc = "configure", mine.aws, InOrder, [Next]_vars
  PROVE  UNCHANGED frrs
<1>1. PICK azNames \in Sorted(ZonesFound) : azs = ZonesNamed(azNames)
  BY DEF ConfigInv, Stages
<1>2. PICK names \in Sorted(ZonesFound) :
         /\ DOMAIN frrs = DOMAIN names
         /\ \A i \in DOMAIN names :
               frrs[i] = FRRFor(mine.selector, [nodeSelector |-> ZoneLabel(names[i]),
                                                neighbors |-> found.neighborsByAZ[names[i]]])
  BY DEF InOrder
<1>3. names = azNames
  BY <1>1, <1>2, SortedUnique DEF ZonesFound
<1>4. /\ DOMAIN frrs = DOMAIN azs
      /\ \A i \in DOMAIN azs : frrs[i] = FRRFor(mine.selector, azs[i])
  BY <1>1, <1>2, <1>3 DEF ZonesNamed
<1>5. frrs = [i \in DOMAIN frrs |-> frrs[i]] /\ azs \in Seq(Range(azs))
      /\ at \in 1..Len(azs) + 1
  BY DEF ConfigInv
<1>6. DOMAIN azs = 1..Len(azs) /\ Len(azs) \in Nat
  BY <1>5, SMT
<1>7. ASSUME NEW ok \in BOOLEAN, ensureSingleFRRConfiguration(ok) PROVE frrs' = frrs
  <2>1. /\ at <= Len(azs)
        /\ frrs' = [i \in DOMAIN frrs \cup {at} |->
                      IF i = at THEN FRRFor(mine.selector, azs[at]) ELSE frrs[i]]
    BY <1>7 DEF ensureSingleFRRConfiguration
  <2>2. at \in DOMAIN azs
    BY <1>5, <1>6, <2>1, SMT
  <2>3. DOMAIN frrs \cup {at} = DOMAIN frrs
    BY <1>4, <2>2
  <2>4. \A i \in DOMAIN frrs : frrs[i] = IF i = at THEN FRRFor(mine.selector, azs[at]) ELSE frrs[i]
    BY <1>4
  <2>5. frrs' = [i \in DOMAIN frrs |-> frrs[i]]
    BY <2>1, <2>3, <2>4
  <2> QED BY <1>5, <2>5
<1>8. ASSUME NEW kept \in SUBSET DOMAIN frrs, Prune(kept) PROVE frrs' = frrs
  <2> DEFINE stale == {i \in DOMAIN frrs : i > Len(azs)}
  <2>1. kept \subseteq stale /\ frrs' = [i \in (DOMAIN frrs \ stale) \cup kept |-> frrs[i]]
    BY <1>8 DEF Prune, Restrict
  <2>2. \A i \in 1..Len(azs) : ~(i > Len(azs))
    BY <1>6, SMT
  <2>3. stale = {}
    BY <1>4, <1>6, <2>2
  <2>4. (DOMAIN frrs \ stale) \cup kept = DOMAIN frrs
    BY <2>1, <2>3
  <2> QED BY <1>5, <2>1, <2>4
<1>9. CASE Environment \/ Start \/ Restart \/ UNCHANGED vars
  BY <1>9 DEF Environment, NodeChanges, EndpointChanges, EditSpec, Start, Restart, vars
<1>10. CASE DiscoverServer \/ PrepareFRR
  BY <1>10 DEF DiscoverServer, PrepareFRR, Configure
<1>11. ASSUME NEW ok \in BOOLEAN, ServerNotFound(ok) \/ PhaseFails(ok) \/ WriteReady(ok)
       PROVE  frrs' = frrs
  BY <1>11 DEF ServerNotFound, PhaseFails, WriteReady
<1>12. ASSUME NEW reached \in SUBSET Endpoints, reconcileRouteServerPeers(reached)
       PROVE  frrs' = frrs
  BY <1>12 DEF reconcileRouteServerPeers
<1>13. ASSUME NEW done \in SUBSET Nodes, disableSourceDestCheck(done) PROVE frrs' = frrs
  BY <1>13 DEF disableSourceDestCheck
<1> QED BY <1>7, <1>8, <1>9, <1>10, <1>11, <1>12, <1>13 DEF Next, Phases

(* A peer that is still wanted is not touched. *)
LEMMA PeersSame ==
  ASSUME EndpointTypes, PeerTypes, UNCHANGED endpoints, [Next]_vars,
         NEW e \in Endpoints, NEW p \in peers, p[1] = e, p[2] \in desiredIPs(e)
  PROVE  p \in peers'
<1>1. ASSUME NEW d \in Endpoints, EndpointChanges(d) PROVE p \in peers'
  BY <1>1 DEF EndpointChanges, EndpointTypes
<1>2. ASSUME NEW reached \in SUBSET Endpoints, reconcileRouteServerPeers(reached)
      PROVE  p \in peers'
  <2>1. peers' = {q \in peers : q[1] \notin reached}
                    \cup UNION {{d} \X desiredIPs(d) : d \in reached}
    BY <1>2 DEF reconcileRouteServerPeers
  <2>2. p = <<p[1], p[2]>>
    BY SMT DEF PeerTypes
  <2>3. p \in {e} \X desiredIPs(e)
    BY <2>2, SMT
  <2> QED BY <2>1, <2>3
<1> QED BY <1>1, <1>2, EndpointSteps

-----------------------------------------------------------------------------
(***************************************************************************)
(* Types.                                                                  *)
(***************************************************************************)
Phase == {"", "Degraded", "Ready"}

ObjectTypes ==
    /\ SpecTypes /\ checking \subseteq Nodes /\ DOMAIN routers \subseteq Nodes
    /\ status.phase \in Phase /\ due \in BOOLEAN /\ fresh \in BOOLEAN

CountTypes == changes \in 0..MaxChanges /\ faults \in 0..MaxFaults

(* A write of the status leaves the worker idle and the object well typed. *)
LEMMA WriteTypes ==
  ASSUME ObjectTypes, NEW phase \in Phase, NEW servers, NEW ok,
         WriteStatus(phase, servers, ok), UNCHANGED spec, checking' \subseteq checking
  PROVE  ObjectTypes'
<1>1. mine' = spec /\ routers' = << >> /\ fresh' = TRUE
  BY DEF WriteStatus, GoIdle
<1>2. DOMAIN routers' \subseteq Nodes
  <2>1. DOMAIN << >> = {}
    BY SMT
  <2> QED BY <1>1, <2>1
<1>3. status'.phase \in Phase
  <2>1. status' = [phase |-> phase, servers |-> servers] \/ status' = status
    BY DEF WriteStatus
  <2>2. [phase |-> phase, servers |-> servers].phase = phase
    OBVIOUS
  <2>3. status.phase \in Phase
    BY DEF ObjectTypes
  <2> QED BY <2>1, <2>2, <2>3
<1>4. due' \in BOOLEAN
  BY DEF WriteStatus, ObjectTypes
<1> QED BY <1>1, <1>2, <1>3, <1>4 DEF ObjectTypes, SpecTypes

(* The object and what the worker holds of it are well typed. *)
LEMMA ObjectTypesStep ==
  ASSUME ObjectTypes, [Next]_vars
  PROVE  ObjectTypes'
<1>0. \A ok : setDegraded(ok) /\ UNCHANGED spec /\ checking' \subseteq checking => ObjectTypes'
  <2> SUFFICES ASSUME NEW ok, setDegraded(ok), UNCHANGED spec, checking' \subseteq checking
               PROVE  ObjectTypes'
    OBVIOUS
  <2>1. "Degraded" \in Phase
    BY DEF Phase
  <2> QED BY <2>1, WriteTypes DEF setDegraded
<1>1. ASSUME NEW n \in Nodes, NEW obj \in NodeObjects \cup {Absent}, NodeChanges(n, obj)
      PROVE  ObjectTypes'
  <2>1. checking' \subseteq Nodes
    BY <1>1 DEF NodeChanges, ObjectTypes
  <2>2. due' \in BOOLEAN
    BY <1>1 DEF NodeChanges
  <2> QED BY <1>1, <2>1, <2>2 DEF NodeChanges, ObjectTypes, SpecTypes, object, local
<1>2. ASSUME NEW e \in Endpoints, EndpointChanges(e) PROVE ObjectTypes'
  BY <1>2 DEF EndpointChanges, ObjectTypes, SpecTypes, object, local
<1>3. ASSUME NEW new \in Specs, EditSpec(new) PROVE ObjectTypes'
  <2>1. fresh' \in BOOLEAN /\ due' = TRUE
    BY <1>3 DEF EditSpec
  <2> QED BY <1>3, <2>1 DEF EditSpec, ObjectTypes, SpecTypes, cloud
<1>4. CASE Start
  BY <1>4 DEF Start, ObjectTypes, SpecTypes, object, cloud
<1>5. CASE Restart
  <2>1. DOMAIN << >> = {}
    BY SMT
  <2> QED BY <1>5, <2>1 DEF Restart, GoIdle, ObjectTypes, SpecTypes, object, cloud
<1>6. CASE DiscoverServer \/ PrepareFRR
  BY <1>6 DEF DiscoverServer, PrepareFRR, Configure, ObjectTypes, SpecTypes, object, cloud
<1>7. ASSUME NEW ok \in BOOLEAN, ServerNotFound(ok) \/ PhaseFails(ok) PROVE ObjectTypes'
  BY <1>0, <1>7 DEF ServerNotFound, PhaseFails, cloud
<1>8. ASSUME NEW ok \in BOOLEAN, WriteReady(ok) PROVE ObjectTypes'
  <2>1. "Ready" \in Phase
    BY DEF Phase
  <2> QED BY <1>8, <2>1, WriteTypes DEF WriteReady, cloud
<1>9. ASSUME NEW ok \in BOOLEAN, ensureSingleFRRConfiguration(ok) PROVE ObjectTypes'
  BY <1>0, <1>9 DEF ensureSingleFRRConfiguration, ObjectTypes, SpecTypes, cloud
<1>10. ASSUME NEW kept \in SUBSET DOMAIN frrs, Prune(kept) PROVE ObjectTypes'
  BY <1>0, <1>10 DEF Prune, ObjectTypes, SpecTypes, cloud
<1>11. ASSUME NEW reached \in SUBSET Endpoints, reconcileRouteServerPeers(reached)
       PROVE  ObjectTypes'
  <2>1. UNCHANGED <<spec, checking>>
    BY <1>11 DEF reconcileRouteServerPeers
  <2>2. \/ setDegraded(TRUE)
        \/ /\ UNCHANGED <<status, due, fresh, mine>>
           /\ routers' = [n \in listRouterNodes(mine.selector) |-> nodes[n].providerID]
    BY <1>11 DEF reconcileRouteServerPeers
  <2>3. listRouterNodes(mine.selector) \subseteq Nodes
    BY DEF listRouterNodes
  <2> QED BY <1>0, <2>1, <2>2, <2>3 DEF ObjectTypes, SpecTypes
<1>12. ASSUME NEW done \in SUBSET Nodes, disableSourceDestCheck(done) PROVE ObjectTypes'
  BY <1>0, <1>12 DEF disableSourceDestCheck, ObjectTypes, SpecTypes
<1>13. CASE UNCHANGED vars
  BY <1>13 DEF vars, ObjectTypes, SpecTypes, object, local, cloud
<1> QED BY <1>1, <1>2, <1>3, <1>4, <1>5, <1>6, <1>7, <1>8, <1>9, <1>10, <1>11, <1>12, <1>13
        DEF Next, Environment, Phases

(* The bounds count what they bound. *)
LEMMA CountTypesStep ==
  ASSUME CountTypes, [Next]_vars
  PROVE  CountTypes'
<1>1. Change \/ Fault => CountTypes'
  <2>1. MaxChanges \in Nat /\ MaxFaults \in Nat
    BY SessionsAssumption
  <2> QED BY <2>1, SMT DEF Change, Fault, CountTypes
<1>2. UNCHANGED <<changes, faults>> => CountTypes'
  BY DEF CountTypes
<1>3. \A ok : FaultUnless(ok) => CountTypes'
  BY <1>1, <1>2 DEF FaultUnless
<1>4. CASE Environment \/ Restart
  BY <1>1, <1>4 DEF Environment, NodeChanges, EndpointChanges, EditSpec, Restart
<1>5. CASE Start \/ UNCHANGED vars
  BY <1>2, <1>5 DEF Start, vars
<1>6. CASE DiscoverServer \/ PrepareFRR
  BY <1>2, <1>6 DEF DiscoverServer, PrepareFRR, Configure
<1>7. ASSUME NEW ok \in BOOLEAN,
             \/ ServerNotFound(ok) \/ PhaseFails(ok)
             \/ ensureSingleFRRConfiguration(ok) \/ WriteReady(ok)
      PROVE  CountTypes'
  BY <1>1, <1>3, <1>7 DEF ServerNotFound, PhaseFails, ensureSingleFRRConfiguration, WriteReady
<1>8. ASSUME NEW kept \in SUBSET DOMAIN frrs, Prune(kept) PROVE CountTypes'
  BY <1>3, <1>8 DEF Prune
<1>9. ASSUME NEW reached \in SUBSET Endpoints, reconcileRouteServerPeers(reached)
      PROVE  CountTypes'
  BY <1>3, <1>9 DEF reconcileRouteServerPeers
<1>10. ASSUME NEW done \in SUBSET Nodes, disableSourceDestCheck(done) PROVE CountTypes'
  BY <1>3, <1>10 DEF disableSourceDestCheck
<1> QED BY <1>4, <1>5, <1>6, <1>7, <1>8, <1>9, <1>10 DEF Next, Phases

(* What is recorded as an endpoint is one. *)
LEMMA EndpointsFound ==
  ASSUME FoundInv, NEW z \in Zones
  PROVE  found.endpointsByAZ[z] \subseteq Endpoints
<1> SUFFICES ASSUME NEW e \in found.endpointsByAZ[z] PROVE e \in Endpoints
  OBVIOUS
<1>0. e \in {nb.address : nb \in found.neighborsByAZ[z]}
  BY DEF FoundInv
<1>1. PICK nb \in found.neighborsByAZ[z] : e = nb.address
  BY <1>0
<1>2. nb \in {r[2] : r \in {q \in Sessions(found.servers) : q[1] = z}}
  BY <1>1 DEF FoundInv
<1>3. PICK r \in Sessions(found.servers) : r[2] = nb
  BY <1>2
<1>4. PICK d \in Endpoints : r = Session(d)
  BY DEF FoundInv, Genuine
<1>5. r[2].address = d
  BY <1>4 DEF Session
<1> QED BY <1>1, <1>3, <1>5
-----------------------------------------------------------------------------
(***************************************************************************)
(* What holds of every behaviour.                                          *)
(***************************************************************************)
SessionsInv ==
    /\ RoutersInv /\ FoundInv /\ ConfigInv /\ PeersInv /\ ConfiguredAsReported
    /\ EndpointTypes /\ PeerTypes /\ ObjectTypes /\ CountTypes

(* A CUDNBgpConfig that was just created, or an operator that just started. *)
LEMMA SessionsInvInit ==
  ASSUME Init PROVE SessionsInv
<1>1. /\ nodes = InitialNodes /\ pc = "idle" /\ due = TRUE /\ peers = {} /\ mine = spec
      /\ spec \in Specs /\ fresh = TRUE /\ found = NoneFound /\ azs = << >> /\ frrs = << >>
      /\ at = 1 /\ routers = << >> /\ status = [phase |-> "", servers |-> {}]
      /\ changes = 0 /\ faults = 0 /\ checking \subseteq Nodes
  BY DEF Init
<1>2. DOMAIN << >> = {} /\ << >> \in Seq(Range(<< >>)) /\ Len(<< >>) = 0
      /\ << >> = [i \in DOMAIN << >> |-> << >>[i]]
  BY SMT
<1>3. RoutersInv
  <2>1. nodes \in [Nodes -> NodeObjects \cup {Absent}]
    BY <1>1, SessionsAssumption
  <2> QED BY <1>1, <2>1
          DEF RoutersInv, Stages, ReadCurrent, ForwardsToBe, RoutersForward, AtRest
<1>4. FoundInv
  <2>1. found.servers = {} /\ status.servers = {}
    BY <1>1 DEF NoneFound
  <2>2. Sessions({}) = {}
    BY DEF Sessions
  <2>3. \A z \in Zones : found.neighborsByAZ[z] = {} /\ found.endpointsByAZ[z] = {}
    BY <1>1 DEF NoneFound
  <2> QED BY <2>1, <2>2, <2>3 DEF FoundInv, Genuine
<1>5. ConfigInv
  <2>1. azs \in Seq(Range(azs)) /\ frrs = [i \in DOMAIN frrs |-> frrs[i]] /\ DOMAIN frrs = {}
    BY <1>1, <1>2
  <2>2. at \in 1..(IF pc = "discover" THEN Len(mine.ids) ELSE Len(azs)) + 1
    <3>1. at = 1 /\ pc = "idle" /\ Len(azs) = 0
      BY <1>1, <1>2
    <3> QED BY <3>1, SMT
  <2> QED BY <1>1, <2>1, <2>2 DEF ConfigInv
<1>6. PeersInv /\ ConfiguredAsReported
  BY <1>1 DEF PeersInv, ConfiguredAsReported, AtRest
<1>7. EndpointTypes
  <2>1. PICK later : endpoints = [e \in Endpoints |-> IF e \in later THEN "planned" ELSE "up"]
    BY DEF Init
  <2> QED BY <2>1 DEF EndpointTypes
<1>8. PeerTypes /\ ObjectTypes
  <2>1. DOMAIN routers = {} /\ status.phase = ""
    BY <1>1, <1>2
  <2> QED BY <1>1, <2>1 DEF PeerTypes, ObjectTypes, SpecTypes, Phase
<1>9. CountTypes
  <2>1. MaxChanges \in Nat /\ MaxFaults \in Nat
    BY SessionsAssumption
  <2>2. changes = 0 /\ faults = 0
    BY <1>1
  <2> QED BY <2>1, <2>2, SMT DEF CountTypes
<1> QED BY <1>3, <1>4, <1>5, <1>6, <1>7, <1>8, <1>9 DEF SessionsInv

(* Every step keeps it. *)
LEMMA SessionsInvStep ==
  ASSUME SessionsInv, [Next]_vars PROVE SessionsInv'
<1>0. /\ RoutersInv /\ FoundInv /\ ConfigInv /\ PeersInv /\ ConfiguredAsReported
      /\ EndpointTypes /\ PeerTypes /\ ObjectTypes /\ CountTypes
      /\ nodes \in [Nodes -> NodeObjects \cup {Absent}]
  BY DEF SessionsInv, RoutersInv
<1>1. RoutersInv'
  BY <1>0, RoutersInvStep
<1>2. FoundInv'
  BY <1>0, FoundStep
<1>3. ConfigInv'
  BY <1>0, ConfigStep DEF ObjectTypes
<1>4. PeersInv'
  BY <1>0, PeersStep
<1>5. ConfiguredAsReported'
  BY <1>0, ConfiguredStep
<1>6. EndpointTypes'
  BY <1>0, EndpointsGoOn
<1>7. PeerTypes'
  BY <1>0, PeerTypesStep
<1>8. ObjectTypes' /\ CountTypes'
  BY <1>0, ObjectTypesStep, CountTypesStep
<1> QED BY <1>1, <1>2, <1>3, <1>4, <1>5, <1>6, <1>7, <1>8 DEF SessionsInv

(* It is the inductive invariant from which the theorems follow. *)
LEMMA SessionsInvAlways == Spec => []SessionsInv
<1>1. Init => SessionsInv
  BY SessionsInvInit
<1>2. SessionsInv /\ [Next]_vars => SessionsInv'
  BY SessionsInvStep
<1> QED BY <1>1, <1>2, PTL DEF Spec

(* The state is well typed and the two loops stay within their lists, for  *)
(* every number of Route Servers, zones, nodes, changes and failures: each *)
(* phase begins its loop anew.                                             *)
THEOREM TypesOK == Spec => []TypeOK
<1>1. SessionsInv => TypeOK
  <2> SUFFICES ASSUME SessionsInv PROVE TypeOK
    OBVIOUS
  <2>1. FoundInv /\ ConfigInv /\ RoutersInv /\ EndpointTypes /\ PeerTypes /\ ObjectTypes /\ CountTypes
    BY DEF SessionsInv
  <2>2. \A z \in Zones : found.endpointsByAZ[z] \subseteq Endpoints
    BY <2>1, EndpointsFound
  <2>3. /\ at \in 1..(IF pc = "discover" THEN Len(mine.ids) ELSE Len(azs)) + 1
        /\ DOMAIN frrs \subseteq Nat \ {0}
    BY <2>1 DEF ConfigInv
  <2> QED BY <2>1, <2>2, <2>3
          DEF TypeOK, RoutersInv, Stages, EndpointTypes, PeerTypes, ObjectTypes, SpecTypes,
              Phase, CountTypes
<1> QED BY <1>1, SessionsInvAlways, PTL

(* At rest every router node forwards, for every number of nodes, changes  *)
(* and failures: the watch predicate lets through every change of a Node   *)
(* that phase 5 reads, and phase 5 gives up at a node it cannot handle.    *)
THEOREM RoutersForwardAlways == Spec => []RoutersForward
<1>1. SessionsInv => RoutersForward
  BY DEF SessionsInv, RoutersInv
<1> QED BY <1>1, SessionsInvAlways, PTL

(* At rest status.aws, or spec.bgp.availabilityZones, is what the          *)
(* FRRConfigurations configure, however many zones there are and wherever  *)
(* earlier reconciles stopped: ensureSingleFRRConfiguration overwrites,    *)
(* Prune deletes, and no report is written before both are done.           *)
THEOREM ConfiguredAsReportedAlways == Spec => []ConfiguredAsReported
<1>1. SessionsInv => ConfiguredAsReported
  BY DEF SessionsInv
<1> QED BY <1>1, SessionsInvAlways, PTL

(* At rest the Route Servers and the router nodes name each other, though  *)
(* the FRRConfigurations go by merged labels and the peers by zones, and   *)
(* nodes and endpoints come, change and go during a reconcile.             *)
THEOREM SessionsMatchAlways == Spec => []SessionsMatch
<1>1. SessionsInv => SessionsMatch
  BY MatchAtRest DEF SessionsInv
<1> QED BY <1>1, SessionsInvAlways, PTL

(* A reconcile that finds things as they were touches no running session:  *)
(* zones are numbered by their only sorted list, and a peer that is wanted *)
(* is not deleted.                                                         *)
THEOREM ReconcileIdempotentAlways == Spec => ReconcileIdempotent
<1> DEFINE Idempotent ==
       /\ pc = "configure" /\ mine.aws /\ InOrder => UNCHANGED frrs
       /\ pc = "peers" /\ UNCHANGED endpoints =>
              \A e \in Endpoints :
                  {p \in peers : p[1] = e /\ p[2] \in desiredIPs(e)} \subseteq peers'
<1>1. SessionsInv /\ [Next]_vars => Idempotent
  <2> SUFFICES ASSUME SessionsInv, [Next]_vars PROVE Idempotent
    OBVIOUS
  <2>1. pc = "configure" /\ mine.aws /\ InOrder => UNCHANGED frrs
    BY FrrsSame DEF SessionsInv
  <2>2. ASSUME UNCHANGED endpoints, NEW e \in Endpoints,
               NEW p \in peers, p[1] = e, p[2] \in desiredIPs(e)
        PROVE  p \in peers'
    BY <2>2, PeersSame DEF SessionsInv
  <2> QED BY <2>1, <2>2
<1>2. [][Idempotent]_vars => ReconcileIdempotent
  BY PTL DEF ReconcileIdempotent
<1> QED BY <1>1, <1>2, SessionsInvAlways, PTL DEF Spec
=============================================================================
