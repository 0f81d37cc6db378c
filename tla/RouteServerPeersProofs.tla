----------------------- MODULE RouteServerPeersProofs -----------------------
(***************************************************************************)
(* Proofs about RouteServerPeers, for any clusters, endpoints, addresses   *)
(* and bounds: its types, that a cleanup leaves no peer behind, and, when  *)
(* every address belongs to one cluster, that operators do not disturb     *)
(* each other and a reconcile that ends has done its work.                 *)
(***************************************************************************)
EXTENDS RouteServerPeers, TLAPS

(* Leaves go to Zenon, and to SMT where they say so. *)
USE Zenon

(* No address goes from one cluster to another. *)
OneHome == \A ip \in IPs : \A c, d \in Homes[ip] : c = d

(* A node, a tag or a plan of a cluster is at an address that may be one   *)
(* of its nodes'.                                                          *)
AtHome ==
    /\ \A ip \in IPs : owner[ip] \in Clusters => owner[ip] \in Homes[ip]
    /\ \A e \in Endpoints, ip \in IPs : peers[e][ip] \in Clusters => peers[e][ip] \in Homes[ip]
    /\ \A c \in Clusters, ip \in IPs : ip \in wanted[c] \/ plan[c][ip] # "none" => c \in Homes[ip]

(* What the local variables of a reconcile are in each of its stages. *)
Working == {"deleteStale", "cleanupDelete", "ensure"}
Stages(c) ==
    /\ pc[c] = "idle" => used[c] = {} /\ plan[c] = Idle
    /\ pc[c] \in {"idle", "listNodes", "cleanup", "cleanupDelete", "removeFinalizer"}
          => wanted[c] = {}
    /\ pc[c] \in {"idle", "sourceDest", "writeReady", "removeFinalizer"} => todo[c] = {}
    /\ pc[c] = "listNodes" => todo[c] = used[c]
    /\ pc[c] \in Working => endpoint[c] \in Endpoints /\ endpoint[c] \notin todo[c]
    /\ pc[c] \notin Working => endpoint[c] = None

(* The endpoints a loop over endpoints is through with. *)
Passed(c, e) == e \in used[c] /\ e \notin todo[c] /\ e # endpoint[c]

(* deleteAllManagedPeers: no peer is left on those endpoints, and none on  *)
(* the present one that is not to be deleted.                              *)
Cleaning(c) ==
    /\ pc[c] \in {"cleanup", "cleanupDelete", "removeFinalizer"} =>
          \A e \in Endpoints, ip \in IPs : Passed(c, e) => peers[e][ip] # c
    /\ pc[c] = "cleanupDelete" =>
          \A ip \in IPs : peers[endpoint[c]][ip] = c => plan[c][ip] = "delete"

(* The node is one the endpoint is to have; its peer is c's when it is. *)
Wants(c, e, ip) == ip \in wanted[c] /\ NodeAZ[ip] = EndpointAZ[e]
AsWanted(c, e, ip) == peers[e][ip] = c <=> Wants(c, e, ip)

(* reconcileRouteServerPeers: the peers are right on those endpoints, and  *)
(* on the present one but for what the plan still says.                    *)
Reconciling(c) ==
    /\ pc[c] \in {"reconcile", "deleteStale", "ensure", "sourceDest", "writeReady"} =>
          \A e \in Endpoints, ip \in IPs : Passed(c, e) => AsWanted(c, e, ip)
    /\ pc[c] = "deleteStale" => \A ip \in IPs :
          /\ plan[c][ip] = "keep" => AsWanted(c, endpoint[c], ip)
          /\ plan[c][ip] # "delete" /\ ~Wants(c, endpoint[c], ip) => peers[endpoint[c]][ip] # c
    /\ pc[c] = "ensure" => \A ip \in IPs :
          \/ plan[c][ip] = "none" /\ AsWanted(c, endpoint[c], ip)
          \/ plan[c][ip] \in {"tag", "create"} /\ Wants(c, endpoint[c], ip)

StagesInv == \A c \in Clusters : Stages(c)
CleaningInv == \A c \in Clusters : Cleaning(c)
ReconcilingInv == \A c \in Clusters : Reconciling(c)

-----------------------------------------------------------------------------
(***************************************************************************)
(* What a step of an operator does, in terms of its own local variables.   *)
(***************************************************************************)
StepOf(c) == Work(c) \/ Failures(c)

Same(c) == /\ used'[c] = used[c] /\ wanted'[c] = wanted[c]
           /\ todo'[c] = todo[c] /\ endpoint'[c] = endpoint[c]

(* The reconcile is over. *)
Returned(c) == /\ pc'[c] = "idle" /\ plan'[c] = Idle /\ todo'[c] = {} /\ used'[c] = {}
               /\ wanted'[c] = {} /\ endpoint'[c] = None

(* One call of a loop over IPs has been made. *)
Crossed(c, ip) == \A i \in IPs : plan'[c][i] = IF i = ip THEN "none" ELSE plan[c][i]
Wrote(c, ip, x) ==
    /\ Same(c) /\ pc'[c] = pc[c] /\ Crossed(c, ip)
    /\ \/ pc[c] \in {"deleteStale", "cleanupDelete"} /\ x = None
       \/ pc[c] = "ensure" /\ plan[c][ip] \in {"tag", "create"} /\ x = c
    /\ \A e \in Endpoints, i \in IPs :
          peers'[e][i] = IF e = endpoint[c] /\ i = ip THEN x ELSE peers[e][i]
Checked(c, ip) ==
    /\ Same(c) /\ pc'[c] = pc[c] /\ pc[c] = "sourceDest" /\ Crossed(c, ip) /\ peers' = peers

Started(c) ==
    /\ pc[c] = "idle" /\ pc'[c] \in {"listNodes", "cleanup"} /\ peers' = peers
    /\ todo'[c] = used'[c] /\ UNCHANGED <<wanted, endpoint, plan>>
Skipped(c) ==
    pc[c] = "idle" /\ pc'[c] = "removeFinalizer" /\ UNCHANGED <<used, todo, wanted, endpoint, plan>>
Listed(c) ==
    /\ pc[c] = "listNodes" /\ pc'[c] = "reconcile" /\ wanted'[c] = listRouterNodes(c)
    /\ UNCHANGED <<used, todo, endpoint, plan>>

(* The plan for an endpoint is made, and made again. *)
Planned(c, e) ==
    /\ \/ pc[c] = "reconcile" /\ pc'[c] = "deleteStale"
       \/ pc[c] = "cleanup" /\ pc'[c] = "cleanupDelete"
    /\ e \in Endpoints /\ todo'[c] = todo[c] \ {e} /\ endpoint'[c] = e
    /\ UNCHANGED <<used, wanted, peers>>
    /\ \A ip \in IPs : plan'[c][ip] = IF peers[e][ip] # c THEN "none"
                                      ELSE IF Wants(c, e, ip) THEN "keep" ELSE "delete"
Compared(c) ==
    /\ pc[c] = "deleteStale" /\ pc'[c] = "ensure" /\ UNCHANGED <<used, todo, endpoint, wanted, peers>>
    /\ \A ip \in IPs :
          /\ plan[c][ip] # "delete"
          /\ \/ plan'[c][ip] \in {"tag", "create"} /\ Wants(c, endpoint[c], ip)
             \/ plan'[c][ip] = "none" /\ (plan[c][ip] = "keep" \/ ~Wants(c, endpoint[c], ip))

(* On to the next endpoint, or past the last one. *)
Advanced(c) ==
    /\ \/ /\ pc[c] = "ensure" /\ pc'[c] = "reconcile"
          /\ \A ip \in IPs : plan[c][ip] \notin {"tag", "create"}
       \/ /\ pc[c] = "cleanupDelete" /\ pc'[c] = "cleanup"
          /\ \A ip \in IPs : plan[c][ip] # "delete"
    /\ plan'[c] = Idle /\ endpoint'[c] = None /\ UNCHANGED <<used, todo, wanted, peers>>
Ended(c) ==
    /\ \/ pc[c] = "reconcile" /\ pc'[c] = "sourceDest" /\ todo[c] = {}
       \/ pc[c] = "cleanup" /\ pc'[c] = "removeFinalizer" /\ todo[c] = {}
       \/ pc[c] = "sourceDest" /\ pc'[c] = "writeReady"
    /\ UNCHANGED <<used, todo, wanted, endpoint, peers>>
    /\ \A ip \in IPs : plan'[c][ip] = plan[c][ip] \/ ip \in wanted[c] \/ plan'[c][ip] = "none"

Effect(c) ==
    \/ Returned(c) \/ Started(c) \/ Skipped(c) \/ Listed(c) \/ Compared(c) \/ Advanced(c)
    \/ Ended(c) \/ \E e \in Endpoints : Planned(c, e)
    \/ \E ip \in IPs : Checked(c, ip) \/ \E x \in {None, c} : Wrote(c, ip, x)

-----------------------------------------------------------------------------
(***************************************************************************)
(* Lemmas about updates and single steps.                                  *)
(***************************************************************************)
(* No tag and no endpoint is confused with a cluster. *)
Apartness == /\ None \notin Clusters /\ Manual \notin Clusters /\ None \notin Endpoints
             /\ \A ip \in IPs : Homes[ip] \subseteq Clusters

(* TopologyAssumption says so. *)
LEMMA NamesApart == Apartness
  BY TopologyAssumption DEF Apartness

(* An update of one peer. *)
LEMMA PeerUpdate ==
  ASSUME NEW p \in [Endpoints -> [IPs -> Owners]],
         NEW e \in Endpoints, NEW ip \in IPs, NEW x \in Owners
  PROVE  LET q == [p EXCEPT ![e][ip] = x]
         IN  /\ q \in [Endpoints -> [IPs -> Owners]]
             /\ \A f \in Endpoints, i \in IPs :
                   q[f][i] = IF f = e /\ i = ip THEN x ELSE p[f][i]
  OBVIOUS

(* The steps of an operator. *)
LEMMA StepCases ==
  ASSUME NEW c \in Clusters, StepOf(c)
  PROVE  \/ Start(c) \/ ListNodes(c) \/ ListAll(c) \/ NextEndpoint(c) \/ EndpointsDone(c)
         \/ NodesDone(c) \/ SkipCleanup(c) \/ Finish(c) \/ Abort(c)
         \/ \E e \in Endpoints : ListManaged(c, e)
         \/ \E ip \in IPs, ok \in BOOLEAN :
               \/ deletePeer(c, ip, ok) \/ tagPeer(c, ip, ok) \/ createPeer(c, ip, ok)
               \/ disableSourceDestCheck(c, ip, ok)
  BY DEF StepOf, Work, Failures, Calls

(* An update of one cluster's local variable. *)
LEMMA Slots ==
  ASSUME TypeOK, NEW c \in Clusters
  PROVE  /\ \A p : Goto(c, p) => pc'[c] = p
         /\ \A f : SetPlan(c, f) => plan'[c] = f
         /\ \A S : SetTodo(c, S) => todo'[c] = S
         /\ \A S : SetUsed(c, S) => used'[c] = S
         /\ \A S : SetWanted(c, S) => wanted'[c] = S
         /\ \A e : SetEndpoint(c, e) => endpoint'[c] = e
<1>1. \A p : Goto(c, p) => pc'[c] = p
  BY DEF TypeOK, Goto
<1>2. \A f : SetPlan(c, f) => plan'[c] = f
  BY DEF TypeOK, SetPlan
<1>3. \A S : SetTodo(c, S) => todo'[c] = S
  BY DEF TypeOK, SetTodo
<1>4. \A S : SetUsed(c, S) => used'[c] = S
  BY DEF TypeOK, SetUsed
<1>5. \A S : SetWanted(c, S) => wanted'[c] = S
  BY DEF TypeOK, SetWanted
<1>6. \A e : SetEndpoint(c, e) => endpoint'[c] = e
  BY DEF TypeOK, SetEndpoint
<1> QED BY <1>1, <1>2, <1>3, <1>4, <1>5, <1>6

(* It leaves the other clusters' alone. *)
LEMMA OtherSlots ==
  ASSUME TypeOK, NEW c \in Clusters, NEW d \in Clusters \ {c}
  PROVE  /\ \A p : Goto(c, p) => pc'[d] = pc[d]
         /\ \A f : SetPlan(c, f) => plan'[d] = plan[d]
         /\ \A S : SetTodo(c, S) => todo'[d] = todo[d]
         /\ \A S : SetUsed(c, S) => used'[d] = used[d]
         /\ \A S : SetWanted(c, S) => wanted'[d] = wanted[d]
         /\ \A e : SetEndpoint(c, e) => endpoint'[d] = endpoint[d]
  BY DEF TypeOK, Goto, SetPlan, SetTodo, SetUsed, SetWanted, SetEndpoint

(* A step of an operator changes no other operator's local state. *)
LEMMA LocalFrame ==
  ASSUME TypeOK, NEW c \in Clusters, StepOf(c), NEW d \in Clusters \ {c}
  PROVE  /\ pc'[d] = pc[d] /\ used'[d] = used[d] /\ todo'[d] = todo[d]
         /\ endpoint'[d] = endpoint[d] /\ wanted'[d] = wanted[d] /\ plan'[d] = plan[d]
<1>r. Return(c) => /\ pc'[d] = pc[d] /\ used'[d] = used[d] /\ todo'[d] = todo[d]
                   /\ endpoint'[d] = endpoint[d] /\ wanted'[d] = wanted[d] /\ plan'[d] = plan[d]
  BY OtherSlots DEF Return
<1>1. CASE \E ip \in IPs, ok \in BOOLEAN : deletePeer(c, ip, ok)
  BY <1>r, <1>1, OtherSlots DEF deletePeer
<1>2. CASE \E ip \in IPs, ok \in BOOLEAN : tagPeer(c, ip, ok)
  BY <1>r, <1>2, OtherSlots DEF tagPeer
<1>3. CASE \E ip \in IPs, ok \in BOOLEAN : createPeer(c, ip, ok)
  BY <1>r, <1>3, OtherSlots DEF createPeer
<1>4. CASE \E ip \in IPs, ok \in BOOLEAN : disableSourceDestCheck(c, ip, ok)
  BY <1>r, <1>4, OtherSlots DEF disableSourceDestCheck
<1>5. CASE Start(c) \/ ListNodes(c) \/ ListAll(c)
  BY <1>5, OtherSlots DEF Start, ListNodes, ListAll
<1>6. CASE NextEndpoint(c) \/ EndpointsDone(c) \/ NodesDone(c) \/ SkipCleanup(c)
  BY <1>6, OtherSlots DEF NextEndpoint, EndpointsDone, NodesDone, SkipCleanup
<1>7. CASE Finish(c) \/ Abort(c)
  BY <1>r, <1>7 DEF Finish, Abort
<1>8. CASE \E e \in Endpoints : ListManaged(c, e)
  BY <1>8, OtherSlots DEF ListManaged
<1> QED BY <1>1, <1>2, <1>3, <1>4, <1>5, <1>6, <1>7, <1>8, StepCases

(* c takes away, or makes its own, a peer it has a plan for. *)
PeerWrite(c, ip, x) ==
    /\ pc[c] \in Working /\ endpoint[c] \in Endpoints
    /\ plan[c][ip] \in {"delete", "tag", "create"}
    /\ plan[c][ip] = "create" => peers[endpoint[c]][ip] = None
    /\ x = c => pc[c] = "ensure"
    /\ peers' = [peers EXCEPT ![endpoint[c]][ip] = x]

(* That is all a step of an operator does to EC2's peers. *)
LEMMA PeerSteps ==
  ASSUME TypeOK, StagesInv, NEW c \in Clusters, StepOf(c)
  PROVE  peers' = peers \/ \E ip \in IPs, x \in {None, c} : PeerWrite(c, ip, x)
<1>1. pc[c] \in Working => endpoint[c] \in Endpoints
  BY DEF StagesInv, Stages
<1>2. ASSUME NEW ip \in IPs, NEW ok \in BOOLEAN, deletePeer(c, ip, ok)
      PROVE  peers' = peers \/ PeerWrite(c, ip, None)
  <2>1. c # None
    BY NamesApart DEF Apartness
  <2> QED BY <1>1, <1>2, <2>1 DEF deletePeer, Delete, Working, PeerWrite
<1>3. ASSUME NEW ip \in IPs, NEW ok \in BOOLEAN, tagPeer(c, ip, ok)
      PROVE  peers' = peers \/ PeerWrite(c, ip, c)
  BY <1>1, <1>3 DEF tagPeer, Working, PeerWrite
<1>4. ASSUME NEW ip \in IPs, NEW ok \in BOOLEAN, createPeer(c, ip, ok)
      PROVE  peers' = peers \/ PeerWrite(c, ip, c)
  BY <1>1, <1>4 DEF createPeer, Working, PeerWrite
<1>5. ASSUME NEW ip \in IPs, NEW ok \in BOOLEAN, disableSourceDestCheck(c, ip, ok)
      PROVE  peers' = peers
  BY <1>5 DEF disableSourceDestCheck
<1>6. ASSUME NEW e \in Endpoints, ListManaged(c, e) PROVE peers' = peers
  BY <1>6 DEF ListManaged, ec2
<1>7. CASE Start(c) \/ ListNodes(c) \/ ListAll(c)
  BY <1>7 DEF Start, ListNodes, ListAll, ec2
<1>8. CASE NextEndpoint(c) \/ EndpointsDone(c) \/ NodesDone(c) \/ SkipCleanup(c)
  BY <1>8 DEF NextEndpoint, EndpointsDone, NodesDone, SkipCleanup, ec2
<1>9. CASE Finish(c) \/ Abort(c)
  BY <1>9 DEF Finish, Abort, ec2
<1>10. None \in {None, c} /\ c \in {None, c}
  OBVIOUS
<1> QED BY <1>2, <1>3, <1>4, <1>5, <1>6, <1>7, <1>8, <1>9, <1>10, StepCases

(* The environment leaves the local state alone, and tags no peer. *)
LEMMA EnvironmentSteps ==
  ASSUME TypeOK, Environment
  PROVE  /\ UNCHANGED local
         /\ \/ UNCHANGED peers
            \/ \E e \in Endpoints, ip \in IPs, x \in {None, Manual} :
                  Meddle /\ peers' = [peers EXCEPT ![e][ip] = x]
  BY DEF Environment, NodeJoins, NodeLeaves, OutsiderChecks, EditServers, DeleteConfig,
         OutsiderCreates, OutsiderDeletes, Delete, ec2, cluster

-----------------------------------------------------------------------------
(***************************************************************************)
(* Types and stages.                                                       *)
(***************************************************************************)
LocalTypes ==
    /\ pc \in [Clusters -> PCs] /\ plan \in [Clusters -> Plans]
    /\ used \in [Clusters -> SUBSET Endpoints] /\ todo \in [Clusters -> SUBSET Endpoints]
    /\ endpoint \in [Clusters -> Endpoints \cup {None}] /\ wanted \in [Clusters -> SUBSET IPs]
PeerTypes == peers \in [Endpoints -> [IPs -> Owners]] /\ gone \in [Clusters -> SUBSET IPs]
ClusterTypes ==
    /\ checked \subseteq IPs /\ owner \in [IPs -> Clusters \cup {None}]
    /\ config \in [Clusters -> {"live", "deleting", "gone"}]
    /\ serverIDs \in [Clusters -> (SUBSET RouteServers) \ {{}}]
BudgetTypes ==
    changes \in 0..MaxChanges /\ meddling \in 0..MaxMeddling /\ faults \in 0..MaxFaults

(* The types, in four parts. *)
LEMMA TypeParts ==
  /\ TypeOK <=> LocalTypes /\ PeerTypes /\ ClusterTypes /\ BudgetTypes
  /\ TypeOK' <=> LocalTypes' /\ PeerTypes' /\ ClusterTypes' /\ BudgetTypes'
  BY DEF TypeOK, LocalTypes, PeerTypes, ClusterTypes, BudgetTypes

(* Variables that stay as they are keep their types. *)
LEMMA UnchangedTypes ==
  ASSUME TypeOK
  PROVE  /\ UNCHANGED local => LocalTypes'
         /\ UNCHANGED <<peers, gone>> => PeerTypes'
         /\ UNCHANGED <<checked, cluster>> => ClusterTypes'
         /\ UNCHANGED budgets => BudgetTypes'
  BY DEF TypeOK, LocalTypes, PeerTypes, ClusterTypes, BudgetTypes, local, cluster, budgets

(* No budget is overdrawn. *)
LEMMA BudgetStep ==
  ASSUME TypeOK, Fault \/ Change \/ Meddle \/ (\E ok \in BOOLEAN : FaultUnless(ok))
  PROVE  BudgetTypes'
<1>1. ASSUME Fault \/ Change \/ Meddle PROVE BudgetTypes'
  BY <1>1, BudgetAssumption, SMT DEF TypeOK, BudgetTypes, Fault, Change, Meddle
<1> QED BY <1>1, UnchangedTypes DEF FaultUnless

(* An update with a value of the right type. *)
LEMMA SlotTypes ==
  ASSUME LocalTypes, NEW c \in Clusters
  PROVE  /\ \A p \in PCs : Goto(c, p) => pc' \in [Clusters -> PCs]
         /\ \A f \in Plans : SetPlan(c, f) => plan' \in [Clusters -> Plans]
         /\ \A S \in SUBSET Endpoints : SetTodo(c, S) => todo' \in [Clusters -> SUBSET Endpoints]
         /\ \A S \in SUBSET Endpoints : SetUsed(c, S) => used' \in [Clusters -> SUBSET Endpoints]
         /\ \A S \in SUBSET IPs : SetWanted(c, S) => wanted' \in [Clusters -> SUBSET IPs]
         /\ \A e \in Endpoints \cup {None} :
               SetEndpoint(c, e) => endpoint' \in [Clusters -> Endpoints \cup {None}]
<1>1. \A p \in PCs : Goto(c, p) => pc' \in [Clusters -> PCs]
  BY DEF LocalTypes, Goto
<1>2. \A f \in Plans : SetPlan(c, f) => plan' \in [Clusters -> Plans]
  BY DEF LocalTypes, SetPlan
<1>3. \A S \in SUBSET Endpoints : SetTodo(c, S) => todo' \in [Clusters -> SUBSET Endpoints]
  BY DEF LocalTypes, SetTodo
<1>4. \A S \in SUBSET Endpoints : SetUsed(c, S) => used' \in [Clusters -> SUBSET Endpoints]
  BY DEF LocalTypes, SetUsed
<1>5. \A S \in SUBSET IPs : SetWanted(c, S) => wanted' \in [Clusters -> SUBSET IPs]
  BY DEF LocalTypes, SetWanted
<1>6. \A e \in Endpoints \cup {None} :
         SetEndpoint(c, e) => endpoint' \in [Clusters -> Endpoints \cup {None}]
  BY DEF LocalTypes, SetEndpoint
<1> QED BY <1>1, <1>2, <1>3, <1>4, <1>5, <1>6

(* Every plan that is made is a plan. *)
LEMMA PlanTypes ==
  ASSUME LocalTypes, NEW c \in Clusters
  PROVE  /\ Idle \in Plans
         /\ \A ip \in IPs : [plan[c] EXCEPT ![ip] = "none"] \in Plans
<1>1. Idle \in Plans
  BY DEF Idle, Plans
<1>2. plan[c] \in Plans
  BY DEF LocalTypes
<1>3. \A ip \in IPs : [plan[c] EXCEPT ![ip] = "none"] \in Plans
  BY <1>2 DEF Plans
<1> QED BY <1>1, <1>3

(* An operator's steps keep the types of its local variables. *)
LEMMA LocalStep ==
  ASSUME LocalTypes, NEW c \in Clusters, StepOf(c)
  PROVE  LocalTypes'
<1>0. /\ {} \in SUBSET Endpoints /\ {} \in SUBSET IPs /\ None \in Endpoints \cup {None}
      /\ todo[c] \in SUBSET Endpoints
  BY DEF LocalTypes
<1>r. Return(c) => LocalTypes'
  BY <1>0, SlotTypes, PlanTypes DEF Return, LocalTypes, PCs
<1>c. ASSUME NEW ip \in IPs, SetPlan(c, [plan[c] EXCEPT ![ip] = "none"]),
             UNCHANGED <<pc, used, todo, endpoint, wanted>>
      PROVE  LocalTypes'
  <2>1. plan' \in [Clusters -> Plans]
    BY <1>c, SlotTypes, PlanTypes
  <2> QED BY <1>c, <2>1 DEF LocalTypes
<1>1. CASE \E ip \in IPs, ok \in BOOLEAN : deletePeer(c, ip, ok)
  BY <1>r, <1>c, <1>1 DEF deletePeer
<1>2. CASE \E ip \in IPs, ok \in BOOLEAN : tagPeer(c, ip, ok)
  BY <1>r, <1>c, <1>2 DEF tagPeer
<1>3. CASE \E ip \in IPs, ok \in BOOLEAN : createPeer(c, ip, ok)
  BY <1>r, <1>c, <1>3 DEF createPeer
<1>4. CASE \E ip \in IPs, ok \in BOOLEAN : disableSourceDestCheck(c, ip, ok)
  BY <1>r, <1>c, <1>4 DEF disableSourceDestCheck
<1>5. CASE Start(c)
  <2>1. /\ DiscoverEndpoints(c) \in SUBSET Endpoints
        /\ (IF config[c] = "live" THEN "listNodes" ELSE "cleanup") \in PCs
    BY DEF DiscoverEndpoints, PCs
  <2>2. pc' \in [Clusters -> PCs]
    BY <1>5, <2>1, SlotTypes DEF Start
  <2>3. used' \in [Clusters -> SUBSET Endpoints] /\ todo' \in [Clusters -> SUBSET Endpoints]
    BY <1>5, <2>1, SlotTypes DEF Start
  <2> QED BY <1>5, <2>2, <2>3 DEF Start, LocalTypes
<1>6. CASE ListNodes(c)
  <2>1. listRouterNodes(c) \in SUBSET IPs /\ "reconcile" \in PCs
    BY DEF listRouterNodes, PCs
  <2>2. pc' \in [Clusters -> PCs] /\ wanted' \in [Clusters -> SUBSET IPs]
    BY <1>6, <2>1, SlotTypes DEF ListNodes
  <2> QED BY <1>6, <2>2 DEF ListNodes, LocalTypes
<1>7. CASE ListAll(c)
  <2>1. PICK f : SetPlan(c, f) /\ f \in [IPs -> {"none", "tag", "create"}]
    BY <1>7, SMT DEF ListAll
  <2>2. plan' \in [Clusters -> Plans]
    <3>1. f \in Plans
      BY <2>1 DEF Plans
    <3> QED BY <2>1, <3>1, SlotTypes
  <2>3. pc' \in [Clusters -> PCs]
    BY <1>7, SlotTypes DEF ListAll, PCs
  <2> QED BY <1>7, <2>2, <2>3 DEF ListAll, LocalTypes
<1>8. CASE NextEndpoint(c)
  <2>1. pc' \in [Clusters -> PCs]
    BY <1>8, SlotTypes DEF NextEndpoint, PCs
  <2>2. plan' \in [Clusters -> Plans] /\ endpoint' \in [Clusters -> Endpoints \cup {None}]
    BY <1>0, <1>8, SlotTypes, PlanTypes DEF NextEndpoint
  <2> QED BY <1>8, <2>1, <2>2 DEF NextEndpoint, LocalTypes
<1>9. CASE EndpointsDone(c)
  <2>1. [ip \in IPs |-> IF ip \in wanted[c] THEN "check" ELSE "none"] \in Plans
    BY DEF Plans
  <2>2. plan' \in [Clusters -> Plans]
    BY <1>9, <2>1, SlotTypes DEF EndpointsDone, LocalTypes
  <2>3. pc' \in [Clusters -> PCs]
    BY <1>9, SlotTypes DEF EndpointsDone, PCs
  <2> QED BY <1>9, <2>2, <2>3 DEF EndpointsDone, LocalTypes
<1>10. CASE NodesDone(c) \/ SkipCleanup(c)
  <2>1. pc' \in [Clusters -> PCs]
    BY <1>10, SlotTypes DEF NodesDone, SkipCleanup, PCs
  <2> QED BY <1>10, <2>1 DEF NodesDone, SkipCleanup, LocalTypes
<1>11. CASE Finish(c) \/ Abort(c)
  BY <1>r, <1>11 DEF Finish, Abort
<1>12. ASSUME NEW e \in Endpoints, ListManaged(c, e) PROVE LocalTypes'
  <2>1. PICK f : SetPlan(c, f) /\ f \in [IPs -> {"none", "keep", "delete"}]
    BY <1>12, SMT DEF ListManaged
  <2>2. plan' \in [Clusters -> Plans]
    <3>1. f \in Plans
      BY <2>1 DEF Plans
    <3> QED BY <2>1, <3>1, SlotTypes
  <2>3. /\ (IF pc[c] = "cleanup" THEN "cleanupDelete" ELSE "deleteStale") \in PCs
        /\ todo[c] \ {e} \in SUBSET Endpoints
    BY <1>0 DEF PCs
  <2>4. pc' \in [Clusters -> PCs] /\ todo' \in [Clusters -> SUBSET Endpoints]
        /\ endpoint' \in [Clusters -> Endpoints \cup {None}]
    BY <1>12, <2>3, SlotTypes DEF ListManaged
  <2> QED BY <1>12, <2>2, <2>4 DEF ListManaged, LocalTypes
<1> QED BY <1>1, <1>2, <1>3, <1>4, <1>5, <1>6, <1>7, <1>8, <1>9, <1>10, <1>11, <1>12, StepCases

(* Deleting a peer keeps the types. *)
LEMMA DeleteTypes ==
  ASSUME PeerTypes, NEW e \in Endpoints, NEW ip \in IPs, Delete(e, ip)
  PROVE  PeerTypes'
<1>1. None \in Owners
  BY DEF Owners
<1>2. peers' \in [Endpoints -> [IPs -> Owners]]
  BY <1>1, PeerUpdate DEF PeerTypes, Delete
<1>3. gone' \in [Clusters -> SUBSET IPs]
  BY DEF PeerTypes, Delete
<1> QED BY <1>2, <1>3 DEF PeerTypes

(* So do the other writes of peers. *)
LEMMA PeerTypesStep ==
  ASSUME TypeOK, StagesInv, NEW c \in Clusters, StepOf(c)
  PROVE  PeerTypes'
<1>0. PeerTypes /\ c \in Owners /\ (pc[c] \in Working => endpoint[c] \in Endpoints)
  BY TypeParts DEF StagesInv, Stages, Owners
<1>1. ASSUME NEW ip \in IPs, NEW ok \in BOOLEAN, deletePeer(c, ip, ok) PROVE PeerTypes'
  BY <1>0, <1>1, DeleteTypes, UnchangedTypes DEF deletePeer, Working
<1>2. ASSUME NEW ip \in IPs, NEW ok \in BOOLEAN, tagPeer(c, ip, ok) \/ createPeer(c, ip, ok)
      PROVE  PeerTypes'
  <2>1. endpoint[c] \in Endpoints /\ gone' = gone
        /\ (peers' = peers \/ peers' = [peers EXCEPT ![endpoint[c]][ip] = c])
    BY <1>0, <1>2 DEF tagPeer, createPeer, Working
  <2>2. peers \in [Endpoints -> [IPs -> Owners]] /\ gone \in [Clusters -> SUBSET IPs]
    BY <1>0 DEF PeerTypes
  <2>3. peers' \in [Endpoints -> [IPs -> Owners]]
    <3>1. [peers EXCEPT ![endpoint[c]][ip] = c] \in [Endpoints -> [IPs -> Owners]]
      BY <1>0, <2>1, <2>2, PeerUpdate
    <3> QED BY <2>1, <2>2, <3>1
  <2> QED BY <2>1, <2>2, <2>3 DEF PeerTypes
<1>3. ASSUME NEW e \in Endpoints, ListManaged(c, e) PROVE PeerTypes'
  BY <1>0, <1>3 DEF ListManaged, ec2, PeerTypes
<1>4. CASE \E ip \in IPs, ok \in BOOLEAN : disableSourceDestCheck(c, ip, ok)
  BY <1>4, UnchangedTypes DEF disableSourceDestCheck
<1>5. CASE \/ Start(c) \/ ListNodes(c) \/ ListAll(c) \/ NextEndpoint(c) \/ EndpointsDone(c)
           \/ NodesDone(c) \/ SkipCleanup(c) \/ Finish(c) \/ Abort(c)
  BY <1>5, UnchangedTypes DEF Start, ListNodes, ListAll, NextEndpoint, EndpointsDone, NodesDone,
                              SkipCleanup, Finish, Abort, ec2
<1> QED BY <1>1, <1>2, <1>3, <1>4, <1>5, StepCases

(* An operator changes its cluster by ending the CUDNBgpConfig, and the    *)
(* nodes by switching the source/destination check off.                    *)
LEMMA ClusterStep ==
  ASSUME TypeOK, NEW c \in Clusters, StepOf(c)
  PROVE  ClusterTypes' /\ BudgetTypes' /\ owner' = owner
<1>0. ClusterTypes
  BY TypeParts
<1>1. ASSUME NEW ip \in IPs, NEW ok \in BOOLEAN,
             deletePeer(c, ip, ok) \/ tagPeer(c, ip, ok) \/ createPeer(c, ip, ok)
      PROVE  ClusterTypes' /\ BudgetTypes' /\ owner' = owner
  BY <1>1, UnchangedTypes, BudgetStep DEF deletePeer, tagPeer, createPeer, cluster
<1>2. ASSUME NEW ip \in IPs, NEW ok \in BOOLEAN, disableSourceDestCheck(c, ip, ok)
      PROVE  ClusterTypes' /\ BudgetTypes' /\ owner' = owner
  BY <1>0, <1>2, BudgetStep DEF disableSourceDestCheck, cluster, ClusterTypes
<1>3. CASE Finish(c)
  <2>1. config' \in [Clusters -> {"live", "deleting", "gone"}]
    BY <1>0, <1>3 DEF Finish, ClusterTypes
  <2> QED BY <1>0, <1>3, <2>1, UnchangedTypes DEF Finish, ec2, ClusterTypes
<1>4. CASE SkipCleanup(c) \/ Abort(c)
  BY <1>4, UnchangedTypes, BudgetStep DEF SkipCleanup, Abort, ec2, cluster
<1>5. CASE \/ Start(c) \/ ListNodes(c) \/ ListAll(c) \/ NextEndpoint(c) \/ EndpointsDone(c)
           \/ NodesDone(c) \/ \E e \in Endpoints : ListManaged(c, e)
  BY <1>5, UnchangedTypes DEF Start, ListNodes, ListAll, NextEndpoint, EndpointsDone, NodesDone,
                              ListManaged, ec2, cluster
<1> QED BY <1>1, <1>2, <1>3, <1>4, <1>5, StepCases

(* The environment's steps: nodes stay at home, peers get no tag. *)
LEMMA EnvironmentTypes ==
  ASSUME TypeOK, Environment
  PROVE  TypeOK' /\ \A ip \in IPs : owner'[ip] \in {owner[ip], None} \cup Homes[ip]
<1>0. /\ LocalTypes /\ PeerTypes /\ ClusterTypes /\ \A ip \in IPs : Homes[ip] \subseteq Clusters
      /\ None \in Owners /\ Manual \in Owners /\ LocalTypes'
  BY TypeParts, NamesApart, EnvironmentSteps, UnchangedTypes DEF Apartness, Owners
<1>1. ASSUME NEW ip \in IPs, NEW c \in Homes[ip], NodeJoins(ip, c)
      PROVE  /\ ClusterTypes' /\ PeerTypes' /\ BudgetTypes'
             /\ \A i \in IPs : owner'[i] \in {owner[i], None} \cup Homes[i]
  BY <1>0, <1>1, UnchangedTypes, BudgetStep DEF NodeJoins, ClusterTypes
<1>2. ASSUME NEW ip \in IPs, NodeLeaves(ip)
      PROVE  /\ ClusterTypes' /\ PeerTypes' /\ BudgetTypes'
             /\ \A i \in IPs : owner'[i] \in {owner[i], None} \cup Homes[i]
  BY <1>0, <1>2, UnchangedTypes, BudgetStep DEF NodeLeaves, ClusterTypes, ec2
<1>3. ASSUME NEW ip \in IPs, OutsiderChecks(ip)
      PROVE  ClusterTypes' /\ PeerTypes' /\ BudgetTypes' /\ owner' = owner
  BY <1>0, <1>3, UnchangedTypes, BudgetStep DEF OutsiderChecks, ClusterTypes, cluster
<1>4. ASSUME NEW c \in Clusters, NEW ids \in (SUBSET RouteServers) \ {{}}, EditServers(c, ids)
      PROVE  ClusterTypes' /\ PeerTypes' /\ BudgetTypes' /\ owner' = owner
  BY <1>0, <1>4, UnchangedTypes, BudgetStep DEF EditServers, ClusterTypes, ec2
<1>5. ASSUME NEW c \in Clusters, DeleteConfig(c)
      PROVE  ClusterTypes' /\ PeerTypes' /\ BudgetTypes' /\ owner' = owner
  BY <1>0, <1>5, UnchangedTypes, BudgetStep DEF DeleteConfig, ClusterTypes, ec2
<1>6. ASSUME NEW e \in Endpoints, NEW ip \in IPs, OutsiderCreates(e, ip)
      PROVE  ClusterTypes' /\ PeerTypes' /\ BudgetTypes' /\ owner' = owner
  <2>1. PeerTypes'
    BY <1>0, <1>6, PeerUpdate DEF OutsiderCreates, PeerTypes
  <2> QED BY <1>6, <2>1, UnchangedTypes, BudgetStep DEF OutsiderCreates, cluster
<1>7. ASSUME NEW e \in Endpoints, NEW ip \in IPs, OutsiderDeletes(e, ip)
      PROVE  ClusterTypes' /\ PeerTypes' /\ BudgetTypes' /\ owner' = owner
  BY <1>0, <1>7, DeleteTypes, UnchangedTypes, BudgetStep DEF OutsiderDeletes, cluster
<1>8. ClusterTypes' /\ PeerTypes' /\ BudgetTypes'
      /\ \A ip \in IPs : owner'[ip] \in {owner[ip], None} \cup Homes[ip]
  BY <1>1, <1>2, <1>3, <1>4, <1>5, <1>6, <1>7 DEF Environment
<1> QED BY <1>0, <1>8, TypeParts

(* Every step keeps the types. *)
LEMMA TypeStep ==
  ASSUME TypeOK, StagesInv, [Next]_vars
  PROVE  TypeOK'
<1>1. ASSUME NEW c \in Clusters, StepOf(c) PROVE TypeOK'
  BY <1>1, TypeParts, LocalStep, PeerTypesStep, ClusterStep
<1>2. CASE UNCHANGED vars
  <2>1. UNCHANGED local /\ UNCHANGED <<peers, gone>> /\ UNCHANGED <<checked, cluster>>
        /\ UNCHANGED budgets
    BY <1>2 DEF vars, ec2
  <2> QED BY <2>1, UnchangedTypes, TypeParts
<1> QED BY <1>1, <1>2, EnvironmentTypes DEF Next, StepOf

-----------------------------------------------------------------------------
(* A return ends the reconcile. *)
LEMMA ReturnEffect ==
  ASSUME TypeOK, NEW c \in Clusters, Return(c)
  PROVE  Returned(c)
  BY Slots DEF Return, Returned

(* The calls of the loops over IPs. *)
LEMMA CallEffects ==
  ASSUME TypeOK, StagesInv, NEW c \in Clusters, NEW ip \in IPs, NEW ok \in BOOLEAN
  PROVE  /\ deletePeer(c, ip, ok) => Returned(c) \/ Wrote(c, ip, None)
         /\ tagPeer(c, ip, ok) \/ createPeer(c, ip, ok) => Returned(c) \/ Wrote(c, ip, c)
         /\ disableSourceDestCheck(c, ip, ok) => Returned(c) \/ Checked(c, ip)
<1>0. /\ peers \in [Endpoints -> [IPs -> Owners]] /\ None \in Owners /\ c \in Owners
      /\ (pc[c] \in Working => endpoint[c] \in Endpoints) /\ plan[c] \in Plans
  BY DEF TypeOK, StagesInv, Stages, Owners
<1>1. SetPlan(c, [plan[c] EXCEPT ![ip] = "none"]) => Crossed(c, ip)
  BY <1>0, Slots DEF Crossed, Plans
<1>2. ASSUME NEW x \in Owners, pc[c] \in Working, peers' = [peers EXCEPT ![endpoint[c]][ip] = x]
      PROVE  \A e \in Endpoints, i \in IPs :
                peers'[e][i] = IF e = endpoint[c] /\ i = ip THEN x ELSE peers[e][i]
  BY <1>0, <1>2, PeerUpdate, SMT
<1>3. ASSUME deletePeer(c, ip, ok) PROVE Returned(c) \/ Wrote(c, ip, None)
  <2>1. CASE Return(c)
    BY <2>1, ReturnEffect
  <2>2. CASE ok /\ ip \notin gone[c]
    <3>1. /\ UNCHANGED <<pc, used, todo, endpoint, wanted>> /\ Crossed(c, ip)
          /\ pc[c] \in {"deleteStale", "cleanupDelete"}
          /\ peers' = [peers EXCEPT ![endpoint[c]][ip] = None]
      BY <1>1, <1>3, <2>2 DEF deletePeer, Delete
    <3>2. \A e \in Endpoints, i \in IPs :
             peers'[e][i] = IF e = endpoint[c] /\ i = ip THEN None ELSE peers[e][i]
      BY <1>0, <1>2, <3>1 DEF Working
    <3> QED BY <3>1, <3>2 DEF Wrote, Same
  <2> QED BY <1>3, <2>1, <2>2 DEF deletePeer
<1>4. ASSUME tagPeer(c, ip, ok) \/ createPeer(c, ip, ok) PROVE Returned(c) \/ Wrote(c, ip, c)
  <2>1. CASE Return(c)
    BY <2>1, ReturnEffect
  <2>2. CASE ~Return(c)
    <3>1. /\ UNCHANGED <<pc, used, todo, endpoint, wanted>> /\ Crossed(c, ip)
          /\ pc[c] = "ensure" /\ plan[c][ip] \in {"tag", "create"}
          /\ peers' = [peers EXCEPT ![endpoint[c]][ip] = c]
      BY <1>1, <1>4, <2>2 DEF tagPeer, createPeer
    <3>2. \A e \in Endpoints, i \in IPs :
             peers'[e][i] = IF e = endpoint[c] /\ i = ip THEN c ELSE peers[e][i]
      BY <1>0, <1>2, <3>1 DEF Working
    <3> QED BY <3>1, <3>2 DEF Wrote, Same
  <2> QED BY <2>1, <2>2
<1>5. ASSUME disableSourceDestCheck(c, ip, ok) PROVE Returned(c) \/ Checked(c, ip)
  <2>1. CASE Return(c)
    BY <2>1, ReturnEffect
  <2>2. CASE ~Return(c)
    BY <1>1, <1>5, <2>2 DEF disableSourceDestCheck, Checked, Same
  <2> QED BY <2>1, <2>2
<1> QED BY <1>3, <1>4, <1>5

(* Every step of an operator has one of the effects. *)
LEMMA StepEffects ==
  ASSUME TypeOK, StagesInv, NEW c \in Clusters, StepOf(c)
  PROVE  Effect(c)
<1>1. CASE \E ip \in IPs, ok \in BOOLEAN :
              \/ deletePeer(c, ip, ok) \/ tagPeer(c, ip, ok) \/ createPeer(c, ip, ok)
              \/ disableSourceDestCheck(c, ip, ok)
  BY <1>1, CallEffects DEF Effect
<1>2. CASE Start(c)
  <2>1. Started(c)
    BY <1>2, Slots DEF Start, Started, ec2
  <2> QED BY <2>1 DEF Effect
<1>3. CASE SkipCleanup(c)
  <2>1. Skipped(c)
    BY <1>3, Slots DEF SkipCleanup, Skipped, ec2
  <2> QED BY <2>1 DEF Effect
<1>4. CASE ListNodes(c)
  <2>1. Listed(c)
    BY <1>4, Slots DEF ListNodes, Listed, ec2
  <2> QED BY <2>1 DEF Effect
<1>5. ASSUME NEW e \in Endpoints, ListManaged(c, e) PROVE Effect(c)
  <2>1. /\ \/ pc[c] = "reconcile" /\ pc'[c] = "deleteStale"
           \/ pc[c] = "cleanup" /\ pc'[c] = "cleanupDelete"
        /\ todo'[c] = todo[c] \ {e} /\ endpoint'[c] = e /\ UNCHANGED <<used, wanted, peers>>
    BY <1>5, Slots DEF ListManaged, ec2
  <2>2. \A ip \in IPs : plan'[c][ip] = IF peers[e][ip] # c THEN "none"
                                      ELSE IF Wants(c, e, ip) THEN "keep" ELSE "delete"
    <3>1. plan'[c] = [ip \in IPs |->
                        IF ip \notin listManagedPeers(c, e) THEN "none"
                        ELSE IF ip \in desiredIPs(c, e) THEN "keep" ELSE "delete"]
      BY <1>5, Slots DEF ListManaged
    <3>2. \A ip \in IPs : (ip \in listManagedPeers(c, e) <=> peers[e][ip] = c)
                          /\ (ip \in desiredIPs(c, e) <=> Wants(c, e, ip))
      BY DEF listManagedPeers, desiredIPs, Wants
    <3> QED BY <3>1, <3>2
  <2>3. Planned(c, e)
    BY <2>1, <2>2 DEF Planned
  <2> QED BY <2>3 DEF Effect
<1>6. CASE ListAll(c)
  <2>1. /\ pc[c] = "deleteStale" /\ pc'[c] = "ensure"
        /\ UNCHANGED <<used, todo, endpoint, wanted, peers>>
    BY <1>6, Slots DEF ListAll, ec2
  <2>2. \A ip \in IPs : plan[c][ip] # "delete"
    BY <1>6 DEF ListAll, Left
  <2>3. \A ip \in IPs :
           \/ plan'[c][ip] \in {"tag", "create"} /\ Wants(c, endpoint[c], ip)
           \/ plan'[c][ip] = "none" /\ (plan[c][ip] = "keep" \/ ~Wants(c, endpoint[c], ip))
    <3>1. plan'[c] = [ip \in IPs |->
                        IF ip \notin desiredIPs(c, endpoint[c]) \/ plan[c][ip] = "keep" THEN "none"
                        ELSE IF ip \in listAllPeers(endpoint[c]) THEN "tag" ELSE "create"]
      BY <1>6, Slots DEF ListAll
    <3>2. \A ip \in IPs : ip \in desiredIPs(c, endpoint[c]) <=> Wants(c, endpoint[c], ip)
      BY DEF desiredIPs, Wants
    <3> QED BY <3>1, <3>2
  <2>4. Compared(c)
    BY <2>1, <2>2, <2>3 DEF Compared
  <2> QED BY <2>4 DEF Effect
<1>7. CASE NextEndpoint(c)
  <2>1. plan'[c] = Idle /\ endpoint'[c] = None /\ UNCHANGED <<used, todo, wanted, peers>>
    BY <1>7, Slots DEF NextEndpoint, ec2
  <2>2. \/ /\ pc[c] = "ensure" /\ pc'[c] = "reconcile"
           /\ \A ip \in IPs : plan[c][ip] \notin {"tag", "create"}
        \/ /\ pc[c] = "cleanupDelete" /\ pc'[c] = "cleanup"
           /\ \A ip \in IPs : plan[c][ip] # "delete"
    BY <1>7, Slots DEF NextEndpoint, Left
  <2>3. Advanced(c)
    BY <2>1, <2>2 DEF Advanced
  <2> QED BY <2>3 DEF Effect
<1>8. CASE EndpointsDone(c) \/ NodesDone(c)
  <2>1. UNCHANGED <<used, todo, wanted, endpoint, peers>>
    BY <1>8 DEF EndpointsDone, NodesDone, ec2
  <2>2. \/ pc[c] = "reconcile" /\ pc'[c] = "sourceDest" /\ todo[c] = {}
        \/ pc[c] = "cleanup" /\ pc'[c] = "removeFinalizer" /\ todo[c] = {}
        \/ pc[c] = "sourceDest" /\ pc'[c] = "writeReady"
    BY <1>8, Slots DEF EndpointsDone, NodesDone
  <2>3. \A ip \in IPs : plan'[c][ip] = plan[c][ip] \/ ip \in wanted[c] \/ plan'[c][ip] = "none"
    BY <1>8, Slots DEF EndpointsDone, NodesDone
  <2>4. Ended(c)
    BY <2>1, <2>2, <2>3 DEF Ended
  <2> QED BY <2>4 DEF Effect
<1>9. CASE Finish(c) \/ Abort(c)
  <2>1. Returned(c)
    BY <1>9, ReturnEffect DEF Finish, Abort
  <2> QED BY <2>1 DEF Effect
<1> QED BY <1>1, <1>2, <1>3, <1>4, <1>5, <1>6, <1>7, <1>8, <1>9, StepCases

(* An effect keeps the local variables as the stage says. *)
LEMMA StagesEffect ==
  ASSUME NEW c \in Clusters, Stages(c), Effect(c)
  PROVE  Stages(c)'
<1> USE DEF Stages, Working
<1>1. CASE Returned(c)
  BY <1>1 DEF Returned
<1>2. CASE Started(c) \/ Skipped(c) \/ Listed(c)
  BY <1>2 DEF Started, Skipped, Listed
<1>3. CASE Compared(c)
  BY <1>3 DEF Compared
<1>4. CASE Advanced(c) \/ Ended(c)
  BY <1>4 DEF Advanced, Ended
<1>5. ASSUME NEW e \in Endpoints, Planned(c, e) PROVE Stages(c)'
  BY <1>5 DEF Planned
<1>6. ASSUME NEW ip \in IPs, Checked(c, ip) PROVE Stages(c)'
  BY <1>6 DEF Checked, Same
<1>7. ASSUME NEW ip \in IPs, NEW x, Wrote(c, ip, x) PROVE Stages(c)'
  BY <1>7 DEF Wrote, Same
<1> QED BY <1>1, <1>2, <1>3, <1>4, <1>5, <1>6, <1>7 DEF Effect

(* The step of another operator, or of the environment. *)
Elsewhere(c) == Environment \/ UNCHANGED vars \/ \E d \in Clusters \ {c} : StepOf(d)

(* Every step is the operator's own or not. *)
LEMMA OwnOrElsewhere ==
  ASSUME [Next]_vars
  PROVE  \A c \in Clusters : StepOf(c) \/ Elsewhere(c)
  BY DEF Next, StepOf, Elsewhere

(* A step elsewhere leaves c's local state alone. *)
LEMMA ApartLocal ==
  ASSUME TypeOK, NEW c \in Clusters, Elsewhere(c)
  PROVE  /\ pc'[c] = pc[c] /\ used'[c] = used[c] /\ todo'[c] = todo[c]
         /\ endpoint'[c] = endpoint[c] /\ wanted'[c] = wanted[c] /\ plan'[c] = plan[c]
<1>1. CASE Environment \/ UNCHANGED vars
  <2>1. UNCHANGED local
    BY <1>1, EnvironmentSteps DEF vars
  <2> QED BY <2>1 DEF local
<1>2. CASE \E d \in Clusters \ {c} : StepOf(d)
  BY <1>2, LocalFrame
<1> QED BY <1>1, <1>2 DEF Elsewhere

(* And it gives c no peer. *)
LEMMA ApartPeers ==
  ASSUME TypeOK, StagesInv, NEW c \in Clusters, Elsewhere(c)
  PROVE  \A e \in Endpoints, ip \in IPs : peers'[e][ip] = c => peers[e][ip] = c
<1>0. c # None /\ c # Manual /\ peers \in [Endpoints -> [IPs -> Owners]] /\ None \in Owners
      /\ Manual \in Owners /\ Clusters \subseteq Owners
  BY NamesApart DEF TypeOK, Owners, Apartness
<1>u. ASSUME NEW f \in Endpoints, NEW i \in IPs, NEW x \in Owners, x # c,
             peers' = [peers EXCEPT ![f][i] = x]
      PROVE  \A e \in Endpoints, ip \in IPs : peers'[e][ip] = c => peers[e][ip] = c
  <2>1. \A e \in Endpoints, ip \in IPs :
           peers'[e][ip] = IF e = f /\ ip = i THEN x ELSE peers[e][ip]
    BY <1>0, <1>u, PeerUpdate, SMT
  <2> QED BY <1>u, <2>1, SMT
<1>1. CASE Environment
  BY <1>0, <1>1, <1>u, EnvironmentSteps
<1>2. CASE UNCHANGED vars
  BY <1>2 DEF vars, ec2
<1>3. ASSUME NEW d \in Clusters \ {c}, StepOf(d)
      PROVE  \A e \in Endpoints, ip \in IPs : peers'[e][ip] = c => peers[e][ip] = c
  <2>1. CASE peers' = peers
    BY <2>1
  <2>2. ASSUME NEW ip \in IPs, NEW x \in {None, d}, PeerWrite(d, ip, x)
        PROVE  \A e \in Endpoints, i \in IPs : peers'[e][i] = c => peers[e][i] = c
    <3>1. /\ endpoint[d] \in Endpoints /\ x \in Owners /\ x # c
          /\ peers' = [peers EXCEPT ![endpoint[d]][ip] = x]
      BY <1>0, <2>2 DEF PeerWrite
    <3> QED BY <1>u, <3>1
  <2> QED BY <1>3, <2>1, <2>2, PeerSteps
<1> QED BY <1>1, <1>2, <1>3 DEF Elsewhere

(* A step keeps every reconcile's local variables as its stage says. *)
LEMMA StagesStep ==
  ASSUME TypeOK, StagesInv, [Next]_vars
  PROVE  StagesInv'
<1>1. ASSUME NEW c \in Clusters, StepOf(c) PROVE Stages(c)'
  BY <1>1, StepEffects, StagesEffect DEF StagesInv
<1>2. ASSUME NEW c \in Clusters, Elsewhere(c) PROVE Stages(c)'
  <2>1. Stages(c)
    BY DEF StagesInv
  <2> QED BY <1>2, <2>1, ApartLocal DEF Stages
<1> QED BY <1>1, <1>2, OwnOrElsewhere DEF StagesInv

-----------------------------------------------------------------------------
(***************************************************************************)
(* Cleanup.                                                                *)
(***************************************************************************)
(* The operator's own steps keep a cleanup on its way. *)
LEMMA CleaningEffect ==
  ASSUME NEW c \in Clusters, Stages(c), Cleaning(c), Effect(c), None # c, None \notin Endpoints
  PROVE  Cleaning(c)'
<1>1. CASE Returned(c)
  BY <1>1 DEF Returned, Cleaning
<1>2. CASE Started(c)
  BY <1>2 DEF Started, Cleaning, Passed
<1>3. CASE Skipped(c)
  <2>1. used'[c] = {}
    BY <1>3 DEF Skipped, Stages
  <2> QED BY <1>3, <2>1 DEF Skipped, Cleaning, Passed
<1>4. CASE Listed(c) \/ Compared(c)
  BY <1>4 DEF Listed, Compared, Cleaning
<1>5. CASE Advanced(c)
  <2>1. CASE pc[c] = "ensure"
    BY <1>5, <2>1 DEF Advanced, Cleaning
  <2>2. CASE pc[c] = "cleanupDelete"
    <3>1. /\ pc'[c] = "cleanup" /\ peers' = peers /\ used' = used /\ todo' = todo
          /\ \A ip \in IPs : plan[c][ip] # "delete"
      BY <1>5, <2>2 DEF Advanced
    <3>2. \A ip \in IPs : peers[endpoint[c]][ip] # c
      BY <2>2, <3>1 DEF Cleaning
    <3>3. \A e \in Endpoints, ip \in IPs : Passed(c, e) => peers[e][ip] # c
      BY <2>2 DEF Cleaning
    <3>4. \A e \in Endpoints : Passed(c, e)' => Passed(c, e) \/ e = endpoint[c]
      BY <3>1 DEF Passed
    <3>5. \A e \in Endpoints, ip \in IPs : Passed(c, e)' => peers'[e][ip] # c
      BY <3>1, <3>2, <3>3, <3>4
    <3> QED BY <3>1, <3>5 DEF Cleaning
  <2> QED BY <1>5, <2>1, <2>2 DEF Advanced
<1>6. CASE Ended(c)
  <2>1. \A e \in Endpoints : Passed(c, e)' <=> Passed(c, e)
    BY <1>6 DEF Ended, Passed
  <2> QED BY <1>6, <2>1 DEF Ended, Cleaning
<1>7. ASSUME NEW e \in Endpoints, Planned(c, e) PROVE Cleaning(c)'
  <2>1. CASE pc[c] = "reconcile"
    BY <1>7, <2>1 DEF Planned, Cleaning
  <2>2. CASE pc[c] = "cleanup"
    <3>1. /\ pc'[c] = "cleanupDelete" /\ endpoint'[c] = e /\ todo'[c] = todo[c] \ {e}
          /\ endpoint[c] = None /\ peers' = peers /\ used' = used /\ wanted[c] = {}
      BY <1>7, <2>2 DEF Planned, Stages, Working
    <3>2. \A ip \in IPs : peers[e][ip] = c => plan'[c][ip] = "delete"
      BY <1>7, <3>1 DEF Planned, Wants
    <3>3. \A f \in Endpoints : Passed(c, f)' => Passed(c, f)
      BY <3>1 DEF Passed
    <3>4. \A f \in Endpoints, ip \in IPs : Passed(c, f) => peers[f][ip] # c
      BY <2>2 DEF Cleaning
    <3>5. \A f \in Endpoints, ip \in IPs : Passed(c, f)' => peers'[f][ip] # c
      BY <3>1, <3>3, <3>4
    <3> QED BY <3>1, <3>2, <3>5 DEF Cleaning
  <2> QED BY <1>7, <2>1, <2>2 DEF Planned
<1>8. ASSUME NEW ip \in IPs, Checked(c, ip) PROVE Cleaning(c)'
  BY <1>8 DEF Checked, Cleaning
<1>9. ASSUME NEW ip \in IPs, NEW x, Wrote(c, ip, x) PROVE Cleaning(c)'
  <2>1. CASE pc[c] # "cleanupDelete"
    BY <1>9, <2>1 DEF Wrote, Cleaning
  <2>2. CASE pc[c] = "cleanupDelete"
    <3>1. /\ pc'[c] = "cleanupDelete" /\ endpoint'[c] = endpoint[c] /\ endpoint[c] \in Endpoints
          /\ used'[c] = used[c] /\ todo'[c] = todo[c]
          /\ \A i \in IPs : plan'[c][i] = IF i = ip THEN "none" ELSE plan[c][i]
          /\ \A e \in Endpoints, i \in IPs :
                peers'[e][i] = IF e = endpoint[c] /\ i = ip THEN None ELSE peers[e][i]
      BY <1>9, <2>2 DEF Wrote, Same, Crossed, Stages, Working
    <3>2. \A e \in Endpoints : Passed(c, e)' <=> Passed(c, e)
      BY <3>1 DEF Passed
    <3>3. \A e \in Endpoints, i \in IPs : Passed(c, e)' => peers'[e][i] # c
      BY <2>2, <3>1, <3>2, SMT DEF Cleaning
    <3>4. \A i \in IPs : peers'[endpoint[c]][i] = c => plan'[c][i] = "delete"
      BY <2>2, <3>1 DEF Cleaning
    <3> QED BY <3>1, <3>3, <3>4 DEF Cleaning
  <2> QED BY <2>1, <2>2
<1> QED BY <1>1, <1>2, <1>3, <1>4, <1>5, <1>6, <1>7, <1>8, <1>9 DEF Effect

(* Whoever takes the step, a cleanup stays on its way: others only take    *)
(* peers away from the cluster.                                            *)
LEMMA CleaningStep ==
  ASSUME TypeOK, StagesInv, CleaningInv, [Next]_vars
  PROVE  CleaningInv'
<1>1. ASSUME NEW c \in Clusters, Elsewhere(c) PROVE Cleaning(c)'
  <2>1. Cleaning(c) /\ (pc[c] = "cleanupDelete" => endpoint[c] \in Endpoints)
    BY DEF CleaningInv, StagesInv, Stages, Working
  <2>2. /\ pc'[c] = pc[c] /\ endpoint'[c] = endpoint[c] /\ plan'[c] = plan[c]
        /\ \A e \in Endpoints : Passed(c, e)' <=> Passed(c, e)
    BY <1>1, ApartLocal DEF Passed
  <2>3. \A e \in Endpoints, ip \in IPs : peers'[e][ip] = c => peers[e][ip] = c
    BY <1>1, ApartPeers
  <2> QED BY <2>1, <2>2, <2>3 DEF Cleaning
<1>2. ASSUME NEW c \in Clusters, StepOf(c) PROVE Cleaning(c)'
  <2>1. Stages(c) /\ Cleaning(c) /\ Effect(c) /\ None # c /\ None \notin Endpoints
    BY <1>2, StepEffects, NamesApart DEF StagesInv, CleaningInv, Apartness
  <2> QED BY <2>1, CleaningEffect
<1> QED BY <1>1, <1>2, OwnOrElsewhere DEF CleaningInv

-----------------------------------------------------------------------------
(***************************************************************************)
(* Addresses and their clusters.                                           *)
(***************************************************************************)
(* What c's operator knows of is at c's addresses. *)
Known(c) == \A ip \in IPs : ip \in wanted[c] \/ plan[c][ip] # "none" => c \in Homes[ip]

(* AtHome, taken apart by address and by endpoint. *)
LEMMA HomeParts ==
  /\ AtHome <=> /\ \A ip \in IPs : owner[ip] \in Clusters => owner[ip] \in Homes[ip]
                /\ \A e \in Endpoints, ip \in IPs :
                      peers[e][ip] \in Clusters => peers[e][ip] \in Homes[ip]
                /\ \A c \in Clusters : Known(c)
  /\ AtHome' <=> /\ \A ip \in IPs : owner'[ip] \in Clusters => owner'[ip] \in Homes[ip]
                 /\ \A e \in Endpoints, ip \in IPs :
                       peers'[e][ip] \in Clusters => peers'[e][ip] \in Homes[ip]
                 /\ \A c \in Clusters : Known(c)'
  BY DEF AtHome, Known

(* The operator's own steps get their IPs from nodes and tags. *)
LEMMA KnownEffect ==
  ASSUME AtHome, NEW c \in Clusters, Effect(c)
  PROVE  Known(c)'
<1>h. /\ \A ip \in IPs : owner[ip] = c => c \in Homes[ip]
      /\ \A e \in Endpoints, ip \in IPs : peers[e][ip] = c => c \in Homes[ip]
      /\ \A ip \in IPs : ip \in wanted[c] \/ plan[c][ip] # "none" => c \in Homes[ip]
  BY DEF AtHome
<1>1. CASE Returned(c)
  BY <1>1 DEF Returned, Known, Idle
<1>2. CASE Started(c) \/ Skipped(c)
  BY <1>h, <1>2 DEF Started, Skipped, Known
<1>3. CASE Listed(c)
  BY <1>h, <1>3 DEF Listed, Known, listRouterNodes
<1>4. CASE Compared(c)
  <2>1. wanted' = wanted
    BY <1>4 DEF Compared
  <2>2. \A ip \in IPs : plan'[c][ip] # "none" => ip \in wanted[c]
    BY <1>4 DEF Compared, Wants
  <2> QED BY <1>h, <2>1, <2>2 DEF Known
<1>5. CASE Advanced(c)
  BY <1>h, <1>5 DEF Advanced, Known, Idle
<1>6. CASE Ended(c)
  <2>1. wanted' = wanted
        /\ \A ip \in IPs : plan'[c][ip] = plan[c][ip] \/ ip \in wanted[c] \/ plan'[c][ip] = "none"
    BY <1>6 DEF Ended
  <2> QED BY <1>h, <2>1 DEF Known
<1>7. ASSUME NEW e \in Endpoints, Planned(c, e) PROVE Known(c)'
  <2>1. wanted' = wanted /\ \A ip \in IPs : plan'[c][ip] # "none" => peers[e][ip] = c
    BY <1>7 DEF Planned
  <2> QED BY <1>h, <2>1 DEF Known
<1>8. ASSUME NEW ip \in IPs, NEW x, Checked(c, ip) \/ Wrote(c, ip, x) PROVE Known(c)'
  <2>1. wanted'[c] = wanted[c]
        /\ \A i \in IPs : plan'[c][i] = IF i = ip THEN "none" ELSE plan[c][i]
    BY <1>8 DEF Checked, Wrote, Same, Crossed
  <2> QED BY <1>h, <2>1 DEF Known
<1> QED BY <1>1, <1>2, <1>3, <1>4, <1>5, <1>6, <1>7, <1>8 DEF Effect

(* Nodes, tags and plans stay at the cluster's own addresses. *)
LEMMA AtHomeStep ==
  ASSUME TypeOK, StagesInv, AtHome, [Next]_vars
  PROVE  AtHome'
<1>h. /\ \A ip \in IPs : owner[ip] \in Clusters => owner[ip] \in Homes[ip]
      /\ \A e \in Endpoints, ip \in IPs : peers[e][ip] \in Clusters => peers[e][ip] \in Homes[ip]
      /\ \A c \in Clusters : Known(c)
  BY HomeParts
<1>0. /\ None \notin Clusters /\ Manual \notin Clusters /\ None \in Owners
      /\ Manual \in Owners /\ Clusters \subseteq Owners
      /\ peers \in [Endpoints -> [IPs -> Owners]]
  BY NamesApart DEF TypeOK, Owners, Apartness
<1>1. ASSUME NEW ip \in IPs, owner'[ip] \in Clusters PROVE owner'[ip] \in Homes[ip]
  <2>1. CASE Environment
    <3>1. owner'[ip] \in {owner[ip], None} \cup Homes[ip]
      BY <2>1, EnvironmentTypes
    <3> QED BY <1>h, <1>0, <1>1, <3>1
  <2>2. CASE UNCHANGED vars \/ \E c \in Clusters : StepOf(c)
    <3>1. owner' = owner
      BY <2>2, ClusterStep DEF vars, cluster
    <3> QED BY <1>h, <1>1, <3>1
  <2> QED BY <2>1, <2>2 DEF Next, StepOf
<1>2. ASSUME NEW e \in Endpoints, NEW ip \in IPs, peers'[e][ip] \in Clusters
      PROVE  peers'[e][ip] \in Homes[ip]
  <2>u. ASSUME NEW f \in Endpoints, NEW i \in IPs, NEW x \in Owners,
               x \in Clusters => x \in Homes[i], peers' = [peers EXCEPT ![f][i] = x]
        PROVE  peers'[e][ip] \in Homes[ip]
    <3>1. peers'[e][ip] = IF e = f /\ ip = i THEN x ELSE peers[e][ip]
      BY <1>0, <2>u, PeerUpdate, SMT
    <3> QED BY <1>h, <1>2, <2>u, <3>1
  <2>1. CASE peers' = peers
    BY <1>h, <1>2, <2>1
  <2>2. ASSUME NEW c \in Clusters, StepOf(c) PROVE peers'[e][ip] \in Homes[ip]
    <3>1. ASSUME NEW i \in IPs, NEW x \in {None, c}, PeerWrite(c, i, x)
          PROVE  peers'[e][ip] \in Homes[ip]
      <4>1. c \in Homes[i]
        BY <1>h, <3>1 DEF Known, PeerWrite
      <4>2. /\ endpoint[c] \in Endpoints /\ x \in Owners /\ (x \in Clusters => x \in Homes[i])
            /\ peers' = [peers EXCEPT ![endpoint[c]][i] = x]
        BY <1>0, <3>1, <4>1 DEF PeerWrite
      <4> QED BY <2>u, <4>2
    <3> QED BY <2>1, <2>2, <3>1, PeerSteps, SMT
  <2>3. CASE Environment
    BY <1>0, <2>u, <2>1, <2>3, EnvironmentSteps
  <2>4. CASE UNCHANGED vars
    BY <2>1, <2>4 DEF vars, ec2
  <2> QED BY <2>2, <2>3, <2>4 DEF Next, StepOf
<1>3. ASSUME NEW c \in Clusters PROVE Known(c)'
  <2>1. CASE Elsewhere(c)
    BY <1>h, <2>1, ApartLocal DEF Known
  <2>2. CASE StepOf(c)
    BY <2>2, StepEffects, KnownEffect
  <2> QED BY <2>1, <2>2, OwnOrElsewhere
<1> QED BY <1>1, <1>2, <1>3, HomeParts

(* When no address changes clusters, an operator's steps leave the peers   *)
(* that carry another cluster's tag alone: what it deletes or tags is at   *)
(* an address of its own.                                                  *)
LEMMA TagsRespected ==
  ASSUME OneHome, TypeOK, StagesInv, AtHome, NEW c \in Clusters, StepOf(c),
         NEW e \in Endpoints, NEW ip \in IPs, peers[e][ip] \in Clusters \ {c}
  PROVE  peers'[e][ip] = peers[e][ip]
<1>1. ASSUME NEW i \in IPs, NEW x \in {None, c}, PeerWrite(c, i, x)
      PROVE  peers'[e][ip] = peers[e][ip]
  <2>1. c \in Homes[i] /\ peers[e][ip] \in Homes[ip]
    BY <1>1 DEF AtHome, PeerWrite
  <2>2. i # ip
    BY <2>1 DEF OneHome
  <2>3. peers \in [Endpoints -> [IPs -> Owners]] /\ x \in Owners
    BY DEF TypeOK, Owners
  <2>4. endpoint[c] \in Endpoints /\ peers' = [peers EXCEPT ![endpoint[c]][i] = x]
    BY <1>1 DEF PeerWrite
  <2> QED BY <2>2, <2>3, <2>4, PeerUpdate, SMT
<1> QED BY <1>1, PeerSteps, SMT

-----------------------------------------------------------------------------
(***************************************************************************)
(* Reconciliation.                                                         *)
(***************************************************************************)
(* Without outsiders, the peers of a cluster are its operator's own. *)
LEMMA OwnPeers ==
  ASSUME OneHome, MaxMeddling = 0, TypeOK, StagesInv, AtHome, NEW c \in Clusters, Elsewhere(c)
  PROVE  \A e \in Endpoints, ip \in IPs : peers'[e][ip] = c <=> peers[e][ip] = c
<1>1. ASSUME NEW e \in Endpoints, NEW ip \in IPs, peers[e][ip] = c PROVE peers'[e][ip] = c
  <2>1. CASE \E d \in Clusters \ {c} : StepOf(d)
    BY <1>1, <2>1, TagsRespected
  <2>2. CASE Environment
    <3>1. ~Meddle
      BY SMT DEF TypeOK, Meddle
    <3> QED BY <1>1, <2>2, <3>1, EnvironmentSteps
  <2>3. CASE UNCHANGED vars
    BY <1>1, <2>3 DEF vars, ec2
  <2> QED BY <2>1, <2>2, <2>3 DEF Elsewhere
<1> QED BY <1>1, ApartPeers

(* The operator's own steps keep a reconcile on its way. *)
LEMMA ReconcilingEffect ==
  ASSUME NEW c \in Clusters, Stages(c), Reconciling(c), Effect(c), None # c, None \notin Endpoints
  PROVE  Reconciling(c)'
<1> DEFINE Right(e) == \A ip \in IPs : AsWanted(c, e, ip)
           Busy == {"reconcile", "deleteStale", "ensure", "sourceDest", "writeReady"}
<1>k. pc[c] \in Busy => \A e \in Endpoints : Passed(c, e) => Right(e)
  BY DEF Reconciling
<1>1. CASE Returned(c)
  BY <1>1 DEF Returned, Reconciling
<1>2. CASE Started(c) \/ Skipped(c)
  BY <1>2 DEF Started, Skipped, Reconciling
<1>3. CASE Listed(c)
  <2>1. pc'[c] = "reconcile" /\ \A e \in Endpoints : ~Passed(c, e)'
    BY <1>3 DEF Listed, Stages, Passed
  <2> QED BY <2>1 DEF Reconciling
<1>4. CASE Compared(c)
  <2>1. pc[c] = "deleteStale" /\ pc'[c] = "ensure" /\ wanted' = wanted /\ peers' = peers
        /\ endpoint' = endpoint /\ \A e \in Endpoints : Passed(c, e)' <=> Passed(c, e)
    BY <1>4 DEF Compared, Passed
  <2>2. \A e \in Endpoints : Passed(c, e)' => Right(e)
    BY <1>k, <2>1
  <2>3. \A ip \in IPs : \/ plan'[c][ip] \in {"tag", "create"} /\ Wants(c, endpoint[c], ip)
                        \/ plan'[c][ip] = "none" /\ AsWanted(c, endpoint[c], ip)
    BY <1>4, <2>1 DEF Compared, Reconciling, AsWanted
  <2>4. \A e, ip : AsWanted(c, e, ip)' <=> AsWanted(c, e, ip)
    BY <2>1 DEF AsWanted, Wants
  <2>5. \A ip \in IPs : \/ plan'[c][ip] \in {"tag", "create"} /\ Wants(c, endpoint[c], ip)'
                        \/ plan'[c][ip] = "none" /\ AsWanted(c, endpoint[c], ip)'
    BY <2>1, <2>3 DEF AsWanted, Wants
  <2> QED BY <2>1, <2>2, <2>4, <2>5 DEF Reconciling
<1>5. CASE Advanced(c)
  <2>1. CASE pc[c] = "cleanupDelete"
    BY <1>5, <2>1 DEF Advanced, Reconciling
  <2>2. CASE pc[c] = "ensure"
    <3>1. /\ pc'[c] = "reconcile" /\ peers' = peers /\ wanted' = wanted
          /\ \A ip \in IPs : plan[c][ip] \notin {"tag", "create"}
          /\ \A e \in Endpoints : Passed(c, e)' => Passed(c, e) \/ e = endpoint[c]
      BY <1>5, <2>2 DEF Advanced, Passed
    <3>2. Right(endpoint[c])
      BY <2>2, <3>1 DEF Reconciling
    <3>3. \A e \in Endpoints : Passed(c, e)' => Right(e)
      BY <1>k, <2>2, <3>1, <3>2
    <3>4. \A e, ip : AsWanted(c, e, ip)' <=> AsWanted(c, e, ip)
      BY <3>1 DEF AsWanted, Wants
    <3> QED BY <3>1, <3>3, <3>4 DEF Reconciling
  <2> QED BY <1>5, <2>1, <2>2 DEF Advanced
<1>6. ASSUME peers' = peers, wanted'[c] = wanted[c], pc[c] \in Busy,
             pc'[c] \in {"sourceDest", "writeReady"},
             \A e \in Endpoints : Passed(c, e)' <=> Passed(c, e)
      PROVE  Reconciling(c)'
  <2>1. \A e, ip : AsWanted(c, e, ip)' <=> AsWanted(c, e, ip)
    BY <1>6 DEF AsWanted, Wants
  <2> QED BY <1>k, <1>6, <2>1 DEF Reconciling
<1>7. CASE Ended(c)
  <2>1. CASE pc[c] = "cleanup"
    BY <1>7, <2>1 DEF Ended, Reconciling
  <2>2. CASE pc[c] # "cleanup"
    BY <1>6, <1>7, <2>2 DEF Ended, Passed
  <2> QED BY <2>1, <2>2
<1>8. ASSUME NEW ip \in IPs, Checked(c, ip) PROVE Reconciling(c)'
  BY <1>6, <1>8 DEF Checked, Same, Passed
<1>9. ASSUME NEW e \in Endpoints, Planned(c, e) PROVE Reconciling(c)'
  <2>1. CASE pc[c] = "cleanup"
    BY <1>9, <2>1 DEF Planned, Reconciling
  <2>2. CASE pc[c] = "reconcile"
    <3>1. /\ pc'[c] = "deleteStale" /\ endpoint'[c] = e /\ todo'[c] = todo[c] \ {e}
          /\ endpoint[c] = None /\ peers' = peers /\ used' = used /\ wanted' = wanted
          /\ \A ip \in IPs : plan'[c][ip] = IF peers[e][ip] # c THEN "none"
                                            ELSE IF Wants(c, e, ip) THEN "keep" ELSE "delete"
      BY <1>9, <2>2 DEF Planned, Stages, Working
    <3>2. \A f \in Endpoints : Passed(c, f)' => Passed(c, f)
      BY <3>1 DEF Passed
    <3>3. \A f, ip : AsWanted(c, f, ip)' <=> AsWanted(c, f, ip)
      BY <3>1 DEF AsWanted, Wants
    <3>4. \A f \in Endpoints, ip \in IPs : Passed(c, f)' => AsWanted(c, f, ip)'
      BY <1>k, <2>2, <3>2, <3>3
    <3>5. \A ip \in IPs :
             /\ plan'[c][ip] = "keep" => AsWanted(c, endpoint[c], ip)'
             /\ plan'[c][ip] # "delete" /\ ~Wants(c, endpoint[c], ip)' => peers'[endpoint'[c]][ip] # c
      BY <3>1 DEF AsWanted, Wants
    <3> QED BY <3>1, <3>4, <3>5 DEF Reconciling
  <2> QED BY <1>9, <2>1, <2>2 DEF Planned
<1>10. ASSUME NEW ip \in IPs, NEW x, Wrote(c, ip, x) PROVE Reconciling(c)'
  <2>1. CASE pc[c] = "cleanupDelete"
    BY <1>10, <2>1 DEF Wrote, Reconciling
  <2>2. CASE pc[c] \in {"deleteStale", "ensure"}
    <3>1. /\ pc'[c] = pc[c] /\ endpoint'[c] = endpoint[c] /\ wanted'[c] = wanted[c]
          /\ used'[c] = used[c] /\ todo'[c] = todo[c] /\ endpoint[c] \in Endpoints
          /\ \A i \in IPs : plan'[c][i] = IF i = ip THEN "none" ELSE plan[c][i]
          /\ \A e \in Endpoints, i \in IPs :
                peers'[e][i] = IF e = endpoint[c] /\ i = ip THEN x ELSE peers[e][i]
      BY <1>10, <2>2 DEF Wrote, Same, Crossed, Stages, Working
    <3>2. \A e \in Endpoints : (Passed(c, e)' <=> Passed(c, e)) /\ (Passed(c, e) => e # endpoint[c])
      BY <3>1 DEF Passed
    <3>3. \A e \in Endpoints, i \in IPs :
             e # endpoint[c] \/ i # ip => (AsWanted(c, e, i)' <=> AsWanted(c, e, i))
      BY <3>1 DEF AsWanted, Wants
    <3>4. \A e \in Endpoints, i \in IPs : Passed(c, e)' => AsWanted(c, e, i)'
      BY <1>k, <2>2, <3>2, <3>3
    <3>w. \A i \in IPs : Wants(c, endpoint[c], i)' <=> Wants(c, endpoint[c], i)
      BY <3>1 DEF Wants
    <3>p. plan'[c][ip] = "none" /\ peers'[endpoint'[c]][ip] = x
      BY <3>1
    <3>o. ASSUME NEW i \in IPs, i # ip
          PROVE  /\ plan'[c][i] = plan[c][i] /\ peers'[endpoint'[c]][i] = peers[endpoint[c]][i]
                 /\ AsWanted(c, endpoint[c], i)' <=> AsWanted(c, endpoint[c], i)
      <4>1. plan'[c][i] = plan[c][i] /\ peers'[endpoint'[c]][i] = peers[endpoint[c]][i]
        BY <3>1, <3>o, SMT
      <4> QED BY <3>w, <4>1 DEF AsWanted
    <3>5. CASE pc[c] = "deleteStale"
      <4>1. x = None
        BY <1>10, <3>5 DEF Wrote
      <4>2. \A i \in IPs : plan[c][i] = "keep" => AsWanted(c, endpoint[c], i)
        BY <3>5 DEF Reconciling
      <4>3. \A i \in IPs : plan[c][i] # "delete" /\ ~Wants(c, endpoint[c], i)
                              => peers[endpoint[c]][i] # c
        BY <3>5 DEF Reconciling
      <4>4. \A i \in IPs : plan'[c][i] = "keep" => AsWanted(c, endpoint[c], i)'
        BY <3>p, <3>o, <4>2
      <4>5. \A i \in IPs : plan'[c][i] # "delete" /\ ~Wants(c, endpoint[c], i)'
                              => peers'[endpoint'[c]][i] # c
        BY <3>w, <3>p, <3>o, <4>1, <4>3
      <4> QED BY <3>1, <3>4, <3>5, <4>4, <4>5 DEF Reconciling
    <3>6. CASE pc[c] = "ensure"
      <4>1. x = c /\ plan[c][ip] \in {"tag", "create"}
        BY <1>10, <3>6 DEF Wrote
      <4>2. \A i \in IPs : \/ plan[c][i] = "none" /\ AsWanted(c, endpoint[c], i)
                           \/ plan[c][i] \in {"tag", "create"} /\ Wants(c, endpoint[c], i)
        BY <3>6 DEF Reconciling
      <4>3. AsWanted(c, endpoint[c], ip)'
        BY <3>1, <4>1, <4>2 DEF AsWanted, Wants
      <4>4. \A i \in IPs \ {ip} :
               \/ plan'[c][i] = "none" /\ AsWanted(c, endpoint[c], i)'
               \/ plan'[c][i] \in {"tag", "create"} /\ Wants(c, endpoint[c], i)'
        BY <3>w, <3>o, <4>2
      <4> QED BY <3>1, <3>4, <3>6, <4>3, <4>4 DEF Reconciling
    <3> QED BY <2>2, <3>5, <3>6
  <2> QED BY <1>10, <2>1, <2>2 DEF Wrote
<1> QED BY <1>1, <1>2, <1>3, <1>4, <1>5, <1>7, <1>8, <1>9, <1>10 DEF Effect

(* Whoever takes the step, a reconcile stays on its way. *)
LEMMA ReconcilingStep ==
  ASSUME OneHome, MaxMeddling = 0, TypeOK, StagesInv, AtHome, ReconcilingInv, [Next]_vars
  PROVE  ReconcilingInv'
<1>1. ASSUME NEW c \in Clusters, Elsewhere(c) PROVE Reconciling(c)'
  <2>1. Reconciling(c) /\ (pc[c] \in {"deleteStale", "ensure"} => endpoint[c] \in Endpoints)
    BY DEF ReconcilingInv, StagesInv, Stages, Working
  <2>2. /\ pc'[c] = pc[c] /\ used'[c] = used[c] /\ todo'[c] = todo[c]
        /\ endpoint'[c] = endpoint[c] /\ wanted'[c] = wanted[c] /\ plan'[c] = plan[c]
    BY <1>1, ApartLocal
  <2>3. \A e \in Endpoints, ip \in IPs : peers'[e][ip] = c <=> peers[e][ip] = c
    BY <1>1, OwnPeers
  <2>4. \A e \in Endpoints : Passed(c, e)' <=> Passed(c, e)
    BY <2>2 DEF Passed
  <2>5. \A e \in Endpoints, ip \in IPs : AsWanted(c, e, ip)' <=> AsWanted(c, e, ip)
    BY <2>2, <2>3 DEF AsWanted, Wants
  <2>6. \A e \in Endpoints, ip \in IPs :
           pc'[c] \in {"reconcile", "deleteStale", "ensure", "sourceDest", "writeReady"}
           /\ Passed(c, e)' => AsWanted(c, e, ip)'
    BY <2>1, <2>2, <2>4, <2>5 DEF Reconciling
  <2>7. ASSUME pc[c] \in {"deleteStale", "ensure"}, NEW ip \in IPs
        PROVE  /\ AsWanted(c, endpoint[c], ip)' <=> AsWanted(c, endpoint[c], ip)
               /\ Wants(c, endpoint[c], ip)' <=> Wants(c, endpoint[c], ip)
               /\ peers'[endpoint'[c]][ip] = c <=> peers[endpoint[c]][ip] = c
    <3>1. endpoint[c] \in Endpoints /\ endpoint'[c] = endpoint[c] /\ wanted'[c] = wanted[c]
      BY <2>1, <2>2, <2>7
    <3>2. peers'[endpoint'[c]][ip] = c <=> peers[endpoint[c]][ip] = c
      BY <2>3, <3>1
    <3>3. Wants(c, endpoint[c], ip)' <=> Wants(c, endpoint[c], ip)
      BY <3>1 DEF Wants
    <3> QED BY <3>2, <3>3 DEF AsWanted
  <2>8. CASE pc[c] = "deleteStale"
    <3>1. \A ip \in IPs :
             /\ plan[c][ip] = "keep" => AsWanted(c, endpoint[c], ip)
             /\ plan[c][ip] # "delete" /\ ~Wants(c, endpoint[c], ip) => peers[endpoint[c]][ip] # c
      BY <2>1, <2>8 DEF Reconciling
    <3>2. \A ip \in IPs :
             /\ plan'[c][ip] = "keep" => AsWanted(c, endpoint[c], ip)'
             /\ plan'[c][ip] # "delete" /\ ~Wants(c, endpoint[c], ip)' => peers'[endpoint'[c]][ip] # c
      BY <2>2, <2>7, <2>8, <3>1
    <3> QED BY <2>2, <2>6, <2>8, <3>2 DEF Reconciling
  <2>9. CASE pc[c] = "ensure"
    <3>1. \A ip \in IPs :
             \/ plan[c][ip] = "none" /\ AsWanted(c, endpoint[c], ip)
             \/ plan[c][ip] \in {"tag", "create"} /\ Wants(c, endpoint[c], ip)
      BY <2>1, <2>9 DEF Reconciling
    <3>2. \A ip \in IPs :
             \/ plan'[c][ip] = "none" /\ AsWanted(c, endpoint[c], ip)'
             \/ plan'[c][ip] \in {"tag", "create"} /\ Wants(c, endpoint[c], ip)'
      BY <2>2, <2>7, <2>9, <3>1
    <3> QED BY <2>2, <2>6, <2>9, <3>2 DEF Reconciling
  <2>10. CASE pc[c] \notin {"deleteStale", "ensure"}
    BY <2>2, <2>6, <2>10 DEF Reconciling
  <2> QED BY <2>8, <2>9, <2>10
<1>2. ASSUME NEW c \in Clusters, StepOf(c) PROVE Reconciling(c)'
  <2>1. Stages(c) /\ Reconciling(c) /\ Effect(c) /\ None # c /\ None \notin Endpoints
    BY <1>2, StepEffects, NamesApart DEF StagesInv, ReconcilingInv, Apartness
  <2> QED BY <2>1, ReconcilingEffect
<1> QED BY <1>1, <1>2, OwnOrElsewhere DEF ReconcilingInv

-----------------------------------------------------------------------------
(***************************************************************************)
(* The theorems.                                                           *)
(***************************************************************************)
(* The invariants hold at first. *)
LEMMA PeersInit ==
  ASSUME Init
  PROVE  TypeOK /\ StagesInv /\ CleaningInv /\ ReconcilingInv /\ AtHome
<1>1. TypeOK
  <2>1. LocalTypes
    <3>1. Idle \in Plans /\ "idle" \in PCs
      BY DEF Idle, Plans, PCs
    <3> QED BY <3>1 DEF Init, LocalTypes
  <2>2. PeerTypes
    <3>1. peers \in [Endpoints -> [IPs -> Owners]]
      BY DEF Init, Owners
    <3> QED BY <3>1 DEF Init, PeerTypes
  <2>3. ClusterTypes
    <3>1. RouteServers \in (SUBSET RouteServers) \ {{}}
      BY TopologyAssumption
    <3> QED BY <3>1 DEF Init, ClusterTypes
  <2>4. BudgetTypes
    BY BudgetAssumption, SMT DEF Init, BudgetTypes
  <2> QED BY <2>1, <2>2, <2>3, <2>4, TypeParts
<1>2. StagesInv
  BY DEF Init, StagesInv, Stages, Working
<1>3. CleaningInv /\ ReconcilingInv
  BY DEF Init, CleaningInv, Cleaning, ReconcilingInv, Reconciling
<1>4. AtHome
  <2>1. \A ip \in IPs : owner[ip] \notin Clusters
    BY NamesApart DEF Init, Apartness
  <2>2. \A e \in Endpoints, ip \in IPs : peers[e][ip] \notin Clusters
    BY NamesApart DEF Init, Apartness
  <2>3. \A c \in Clusters, ip \in IPs : ip \notin wanted[c] /\ plan[c][ip] = "none"
    BY DEF Init, Idle
  <2> QED BY <2>1, <2>2, <2>3 DEF AtHome
<1> QED BY <1>1, <1>2, <1>3, <1>4

(* The invariants that need no hypothesis about addresses or outsiders. *)
PeersInv == TypeOK /\ StagesInv /\ CleaningInv /\ AtHome

(* They hold in every state. *)
LEMMA PeersInvariant == Spec => []PeersInv
<1>1. Init => PeersInv
  BY PeersInit DEF PeersInv
<1>2. PeersInv /\ [Next]_vars => PeersInv'
  BY TypeStep, StagesStep, CleaningStep, AtHomeStep DEF PeersInv
<1> QED BY <1>1, <1>2, PTL DEF Spec

(* The state's types, for every instance. *)
THEOREM TypesOK == Spec => []TypeOK
<1>1. PeersInv => TypeOK
  BY DEF PeersInv
<1> QED BY <1>1, PeersInvariant, PTL

(* When deleteAllManagedPeers has run to its end, no peer with the         *)
(* cluster's tag is left on the endpoints it discovered, whatever other    *)
(* operators and outsiders do, and even when addresses change clusters.    *)
THEOREM CleanupLeavesNothing == Spec => []CleanupComplete
<1>1. PeersInv => CleanupComplete
  <2> SUFFICES ASSUME PeersInv, NEW c \in Clusters, pc[c] = "removeFinalizer",
                      NEW e \in used[c]
               PROVE  listManagedPeers(c, e) = {}
    BY DEF CleanupComplete
  <2>1. todo[c] = {} /\ endpoint[c] = None /\ used[c] \subseteq Endpoints
    BY DEF PeersInv, StagesInv, Stages, Working, TypeOK
  <2>2. e \in Endpoints /\ Passed(c, e)
    BY <2>1, NamesApart DEF Passed, Apartness
  <2> QED BY <2>2, SMT DEF PeersInv, CleaningInv, Cleaning, listManagedPeers
<1> QED BY <1>1, PeersInvariant, PTL

(* When no address changes clusters, no operator deletes or takes over a   *)
(* peer that carries another cluster's tag, whatever outsiders do.         *)
THEOREM TagsKeepApart == ASSUME OneHome PROVE Spec => NoInterference
<1>1. ASSUME PeersInv, [Next]_vars, NEW c \in Clusters, Acts(c),
             NEW e \in Endpoints, NEW ip \in IPs, peers[e][ip] \in Clusters \ {c}
      PROVE  peers'[e][ip] = peers[e][ip]
  <2>1. ~Elsewhere(c)
    BY <1>1, ApartLocal DEF PeersInv, Acts
  <2>2. StepOf(c)
    BY <1>1, <2>1, OwnOrElsewhere
  <2> QED BY <1>1, <2>2, TagsRespected DEF PeersInv
<1>2. PeersInv /\ [Next]_vars =>
         [\A c \in Clusters : Acts(c) =>
             \A e \in Endpoints, ip \in IPs :
                 peers[e][ip] \in Clusters \ {c} => peers'[e][ip] = peers[e][ip]]_vars
  BY <1>1
<1> QED BY <1>2, PeersInvariant, PTL DEF Spec, NoInterference

(* When no address changes clusters and no outsider touches the peers, the *)
(* end of reconcileRouteServerPeers finds exactly the peers it wanted, on  *)
(* every endpoint, whatever earlier reconciles left half done.             *)
THEOREM ReconcileIsExact ==
  ASSUME OneHome, MaxMeddling = 0 PROVE Spec => []PeersReconciled
<1>1. Init => ReconcilingInv
  BY PeersInit
<1>2. PeersInv /\ ReconcilingInv /\ [Next]_vars => ReconcilingInv'
  BY ReconcilingStep DEF PeersInv
<1>3. PeersInv /\ ReconcilingInv => PeersReconciled
  <2> SUFFICES ASSUME PeersInv, ReconcilingInv, NEW c \in Clusters,
                      pc[c] \in {"sourceDest", "writeReady"}, NEW e \in used[c]
               PROVE  Matches(c, e, wanted[c])
    BY DEF PeersReconciled
  <2>1. /\ todo[c] = {} /\ endpoint[c] = None /\ used[c] \subseteq Endpoints
        /\ wanted[c] \subseteq IPs
    BY DEF PeersInv, StagesInv, Stages, Working, TypeOK
  <2>2. e \in Endpoints /\ Passed(c, e)
    BY <2>1, NamesApart DEF Passed, Apartness
  <2>3. \A ip \in IPs : peers[e][ip] = c <=> Wants(c, e, ip)
    BY <2>2 DEF ReconcilingInv, Reconciling, AsWanted
  <2> QED BY <2>1, <2>3 DEF Matches, listManagedPeers, Wants
<1> QED BY <1>1, <1>2, <1>3, PeersInvariant, PTL DEF Spec
=============================================================================
