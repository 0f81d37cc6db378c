-------------------------- MODULE ConfigController --------------------------
(***************************************************************************)
(* The CUDNBgpConfig controller                                            *)
(* (src/internal/controller/cudnbgpconfig_controller.go, frr.go and        *)
(* network_operator.go) between the API server and its informer cache.     *)
(*                                                                         *)
(* One action is one call, as in RoutingController: CUDNBgpConfig,         *)
(* CUDNBgpRouting and Pod are read from the cache, FRRConfiguration live.  *)
(* The calls ReconcileNodes and Cleanup of the AWS platform succeed or     *)
(* fail here; RouteServerPeers has what they do.                           *)
(***************************************************************************)
EXTENDS Naturals, Sequences, FiniteSets

CONSTANTS
    Names,          \* names of CUDNBgpConfig objects
    SingletonName,  \* the one the controller accepts
    ZoneCount,      \* bound on the availability zones
    ZoneLists,      \* the values of spec.bgp.availabilityZones users write
    MaxGeneration,  \* bound on the edits of one object's spec
    MaxLag,         \* bound on the watch events not yet in the cache
    MaxEdits,       \* bound on what users do
    MaxFaults,      \* bound on what outsiders and failures do
    Absent,         \* no such object, no such field
    Foreign         \* an FRRConfiguration without the operator's label

(* Zones in the order of their names; FRRConfigurations are numbered alike. *)
Zones == 1..ZoneCount

ASSUME ConstantsAssumption ==
    /\ SingletonName \in Names /\ Absent \notin Names
    /\ ZoneCount \in Nat \ {0} /\ MaxGeneration \in Nat \ {0} /\ MaxLag \in Nat \ {0}
    /\ MaxEdits \in Nat /\ MaxFaults \in Nat /\ ZoneLists \subseteq (SUBSET Zones) \ {{}}

ConditionTypes ==
    {"NetworkOperatorPatched", "FRRNamespaceReady", "AWSEndpointsDiscovered",
     "FRRConfigurationApplied", "AWSResourcesReconciled"}

(* spec.aws, or else the zones of spec.bgp.availabilityZones: never both. *)
Specs == [aws : {TRUE}, zones : {{}}] \cup [aws : {FALSE}, zones : ZoneLists]

Phases == {"", "Configuring", "Ready", "Degraded"}
Conditions == [ConditionTypes -> {"none", "True", "False"}]
Findings == (SUBSET Zones) \cup {Absent}

(* A CUDNBgpConfig; found is status.aws, abstracted to its zones. *)
Objects == [spec : Specs, gen : 1..MaxGeneration, del : BOOLEAN, fin : BOOLEAN,
            phase : Phases, obs : 0..MaxGeneration, conditions : Conditions, found : Findings]

(* The FRRConfiguration for a zone, written from generation gen. *)
ManagedFRRs == [zone : Zones, gen : 1..MaxGeneration]

ASSUME AbsentAssumption ==
    /\ Absent \notin Objects \cup ManagedFRRs /\ (\A zones \in SUBSET Zones : Absent # zones)
    /\ Foreign \notin ManagedFRRs

NewObject(spec) ==
    [spec |-> spec, gen |-> 1, del |-> FALSE, fin |-> FALSE, phase |-> "", obs |-> 0,
     conditions |-> [c \in ConditionTypes |-> "none"], found |-> Absent]

VARIABLES
    configs,      \* API server: the CUDNBgpConfig objects
    frrs,         \* API server: the FRRConfigurations named by the prefix and a number
    patched,      \* API server: Network "cluster" enables FRR
    routed,       \* API server: there is a CUDNBgpRouting
    offered,      \* EC2: the zones with endpoints of the Route Servers
    watch,        \* versions of configs on their way to the cache, in order
    cache,        \* the informer's copy of configs
    routedCache,  \* the informer's answer to whether there is a CUDNBgpRouting
    frrEvent,     \* an undelivered event of a managed FRRConfiguration
    queue,        \* keys ready to be reconciled
    delayed,      \* delayed[n]: what adds n to the queue later, if anything
    pc,           \* the next call of the worker
    key,          \* the config the worker reconciles
    mine,         \* the worker's copy of it, edited in memory
    fresh,        \* the copy's resourceVersion is still the server's
    step,         \* the FRRConfiguration to be written next
    doomed,       \* the listed FRRConfigurations still to be deleted
    edits, faults

api == <<configs, frrs, patched, routed, offered>>
events == <<watch, cache, routedCache, frrEvent>>
requeues == <<queue, delayed>>
worker == <<pc, key, mine, fresh, step, doomed>>
vars == <<api, events, requeues, worker, edits, faults>>

Init ==
    /\ configs = [n \in Names |-> Absent] /\ frrs = [i \in Zones |-> Absent]
    /\ patched = FALSE /\ routed = FALSE /\ offered = Zones
    /\ watch = << >> /\ cache = configs /\ routedCache = FALSE /\ frrEvent = FALSE
    /\ queue = {} /\ delayed = [n \in Names |-> "none"]
    /\ pc = "idle" /\ key = Absent /\ mine = Absent /\ fresh = FALSE
    /\ step = 0 /\ doomed = {} /\ edits = 0 /\ faults = 0

UserActs == edits < MaxEdits /\ edits' = edits + 1 /\ UNCHANGED faults
Fault == faults < MaxFaults /\ faults' = faults + 1 /\ UNCHANGED edits
NoFault == UNCHANGED <<edits, faults>>
FaultUnless(ok) == IF ok THEN NoFault ELSE Fault

-----------------------------------------------------------------------------
(***************************************************************************)
(* The API server and its watches (outside src/).                          *)
(***************************************************************************)
Put(n, obj) ==
    /\ Len(watch) < MaxLag
    /\ configs' = [configs EXCEPT ![n] = obj]
    /\ watch' = Append(watch, [name |-> n, obj |-> obj])

Pending(n) == \E i \in 1..Len(watch) : watch[i].name = n

Managed(f) == f \in ManagedFRRs

PutFRR(i, f) ==
    /\ frrs' = [frrs EXCEPT ![i] = f]
    /\ frrEvent' = (frrEvent \/ (f # frrs[i] /\ (Managed(f) \/ Managed(frrs[i]))))

-----------------------------------------------------------------------------
(***************************************************************************)
(* Users and outsiders.                                                    *)
(***************************************************************************)
Outdate(n) == fresh' = (fresh /\ key # n) /\ UNCHANGED <<pc, key, mine, step, doomed>>

CreateConfig(n, spec) ==
    /\ UserActs /\ configs[n] = Absent /\ Put(n, NewObject(spec)) /\ Outdate(n)
    /\ UNCHANGED <<frrs, patched, routed, offered, cache, routedCache, frrEvent, requeues>>

EditConfig(n, spec) ==
    /\ UserActs /\ configs[n] # Absent /\ configs[n].gen < MaxGeneration
    /\ Put(n, [configs[n] EXCEPT !.spec = spec, !.gen = @ + 1]) /\ Outdate(n)
    /\ UNCHANGED <<frrs, patched, routed, offered, cache, routedCache, frrEvent, requeues>>

DeleteConfig(n) ==
    /\ UserActs /\ configs[n] # Absent /\ ~configs[n].del
    /\ Put(n, IF configs[n].fin THEN [configs[n] EXCEPT !.del = TRUE] ELSE Absent)
    /\ Outdate(n)
    /\ UNCHANGED <<frrs, patched, routed, offered, cache, routedCache, frrEvent, requeues>>

(* The first CUDNBgpRouting is created, or the last one disappears. *)
ChangeRoutings ==
    /\ UserActs /\ routed' = ~routed
    /\ UNCHANGED <<configs, frrs, patched, offered, events, requeues, worker>>

(* Route Server endpoints come and go in a zone; nothing tells the operator. *)
ChangeEndpoints(zones) ==
    /\ UserActs /\ zones # offered /\ offered' = zones
    /\ UNCHANGED <<configs, frrs, patched, routed, events, requeues, worker>>

DriftFRR(i, f) ==
    /\ Fault /\ frrs[i] # f /\ PutFRR(i, f)
    /\ UNCHANGED <<configs, patched, routed, offered, watch, cache, routedCache, requeues, worker>>

-----------------------------------------------------------------------------
(***************************************************************************)
(* Watches and the work queue: SetupWithManager and its map functions.     *)
(***************************************************************************)
DeliverConfig ==
    /\ NoFault /\ watch # << >>
    /\ cache' = [cache EXCEPT ![Head(watch).name] = Head(watch).obj]
    /\ queue' = queue \cup {Head(watch).name} /\ watch' = Tail(watch)
    /\ UNCHANGED <<api, routedCache, frrEvent, delayed, worker>>

(* This controller lists CUDNBgpRoutings but does not watch them. *)
DeliverRoutings ==
    /\ NoFault /\ routedCache # routed /\ routedCache' = routed
    /\ UNCHANGED <<api, watch, cache, frrEvent, requeues, worker>>

DeliverFRR ==
    /\ NoFault /\ frrEvent /\ frrEvent' = FALSE /\ queue' = queue \cup {SingletonName}
    /\ UNCHANGED <<api, watch, cache, routedCache, delayed, worker>>

(* A change of a node's labels, provider ID or addresses. *)
DeliverNode ==
    /\ Fault /\ queue' = queue \cup {SingletonName}
    /\ UNCHANGED <<api, events, delayed, worker>>

DelayOver(n) ==
    /\ NoFault /\ delayed[n] # "none"
    /\ delayed' = [delayed EXCEPT ![n] = "none"] /\ queue' = queue \cup {n}
    /\ UNCHANGED <<api, events, worker>>

GoIdle ==
    /\ pc' = "idle" /\ key' = Absent /\ mine' = Absent /\ fresh' = FALSE
    /\ step' = 0 /\ doomed' = {}

Restart ==
    /\ Fault /\ cache' = configs /\ watch' = << >> /\ routedCache' = routed /\ frrEvent' = FALSE
    /\ queue' = {n \in Names : configs[n] # Absent} /\ delayed' = [n \in Names |-> "none"]
    /\ GoIdle /\ UNCHANGED api

-----------------------------------------------------------------------------
(***************************************************************************)
(* How a reconcile goes on and ends.                                       *)
(***************************************************************************)
(* Mutant: the error is logged and not returned. *)
ReturnErrorSwallowed == GoIdle /\ UNCHANGED requeues

ReturnError ==
    /\ delayed' = [delayed EXCEPT ![key] = "backoff"] /\ GoIdle /\ UNCHANGED queue

ReturnRequeueAfter ==
    /\ delayed' = [delayed EXCEPT ![key] = IF @ = "backoff" THEN @ ELSE "timer"]
    /\ GoIdle /\ UNCHANGED queue

ReturnDone == GoIdle /\ UNCHANGED requeues

GotoWith(p, obj) ==
    /\ pc' = p /\ mine' = obj /\ UNCHANGED <<key, fresh, step, doomed, requeues>>

Goto(p) == GotoWith(p, mine)

SetStatusCondition(obj, type, status) == [obj EXCEPT !.conditions[type] = status]

(* Mutant: the phase is set and the condition is not. *)
SetDegradedPhase(obj, type) == GotoWith("writeStatus", [obj EXCEPT !.phase = "Degraded"])

SetDegraded(obj, type) ==
    GotoWith("writeStatus", [SetStatusCondition(obj, type, "False") EXCEPT !.phase = "Degraded"])

(* Mutant: observedGeneration runs ahead. *)
ConfiguringAhead(obj) ==
    [obj EXCEPT !.phase = "Configuring", !.obs = obj.gen + 1, !.fin = TRUE]

(* The phase and generation a reconcile starts from, once there is a finalizer. *)
Configuring(obj) == [obj EXCEPT !.phase = "Configuring", !.obs = obj.gen, !.fin = TRUE]

-----------------------------------------------------------------------------
(***************************************************************************)
(* Reconcile.  The parameter ok of a call tells whether it is answered     *)
(* well; an unanswered write has happened all the same.                    *)
(***************************************************************************)
Reconcile(n) ==
    /\ pc = "idle" /\ NoFault /\ n \in queue /\ queue' = queue \ {n}
    /\ \/ cache[n] = Absent /\ UNCHANGED worker
       \/ /\ cache[n] # Absent
          /\ key' = n /\ fresh' = ~Pending(n) /\ UNCHANGED <<step, doomed>>
          /\ \/ /\ n # SingletonName /\ pc' = "writeStatus"
                /\ mine' = [SetStatusCondition(cache[n], "NetworkOperatorPatched", "False")
                              EXCEPT !.phase = "Degraded"]
             \/ /\ n = SingletonName /\ cache[n].del
                /\ pc' = "checkRoutings" /\ mine' = cache[n]
             \/ /\ n = SingletonName /\ ~cache[n].del /\ cache[n].fin
                /\ pc' = "patchNetwork" /\ mine' = Configuring(cache[n])
             \/ /\ n = SingletonName /\ ~cache[n].del /\ ~cache[n].fin
                /\ pc' = "addFinalizer" /\ mine' = cache[n]
    /\ UNCHANGED <<api, events, delayed>>

AddFinalizer(ok) ==
    /\ pc = "addFinalizer" /\ FaultUnless(ok) /\ fresh
    /\ Put(key, [configs[key] EXCEPT !.fin = TRUE])
    /\ IF ok THEN GotoWith("patchNetwork", Configuring(mine)) ELSE ReturnError
    /\ UNCHANGED <<frrs, patched, routed, offered, cache, routedCache, frrEvent>>

PatchNetworkOperator(ok) ==
    /\ pc = "patchNetwork" /\ FaultUnless(ok) /\ patched' = TRUE
    /\ IF ok THEN GotoWith("checkFRR", SetStatusCondition(mine, "NetworkOperatorPatched", "True"))
       ELSE SetDegraded(mine, "NetworkOperatorPatched")
    /\ UNCHANGED <<configs, frrs, routed, offered, events>>

(* Waiting for the namespace and its pods writes Configuring. *)
IsFRRReady(ready) ==
    /\ pc = "checkFRR" /\ FaultUnless(ready)
    /\ IF ready
       THEN GotoWith(IF mine.spec.aws THEN "discover" ELSE "startFRR",
                     SetStatusCondition(mine, "FRRNamespaceReady", "True"))
       ELSE GotoWith("writeStatus", SetStatusCondition(mine, "FRRNamespaceReady", "False"))
    /\ UNCHANGED <<api, events>>

(* The platform is built and the zones with endpoints are found. *)
DiscoverEndpoints(ok) ==
    /\ pc = "discover" /\ FaultUnless(ok)
    /\ IF ok
       THEN GotoWith("startFRR", [SetStatusCondition(mine, "AWSEndpointsDiscovered", "True")
                                    EXCEPT !.found = offered])
       ELSE SetDegraded(mine, "AWSEndpointsDiscovered")
    /\ UNCHANGED <<api, events>>

(* The zones with an FRRConfiguration: as discovered, or as specified. *)
FRRZones(obj) == IF obj.spec.aws THEN obj.found ELSE obj.spec.zones

(* The i-th FRRConfiguration is for the i-th of these zones.  A spec lists  *)
(* them in an order of its own, which the generation stands for.           *)
FRRFor(obj, i) ==
    [zone |-> CHOOSE z \in FRRZones(obj) : Cardinality({y \in FRRZones(obj) : y <= z}) = i,
     gen |-> obj.gen]

FRRCount(obj) == Cardinality(FRRZones(obj))

StartFRR ==
    /\ pc = "startFRR" /\ NoFault
    /\ pc' = IF FRRCount(mine) = 0 THEN "listFRR" ELSE "ensureFRR"
    /\ step' = 1 /\ UNCHANGED <<key, mine, fresh, doomed, requeues, api, events>>

EnsureSingleFRRConfiguration(ok) ==
    /\ pc = "ensureFRR" /\ FaultUnless(ok) /\ PutFRR(step, FRRFor(mine, step))
    /\ IF ok
       THEN /\ step' = step + 1 /\ pc' = IF step = FRRCount(mine) THEN "listFRR" ELSE pc
            /\ UNCHANGED <<key, mine, fresh, doomed, requeues>>
       ELSE SetDegraded(mine, "FRRConfigurationApplied")
    /\ UNCHANGED <<configs, patched, routed, offered, watch, cache, routedCache>>

(* Mutant: nothing is pruned. *)
ListFRRUnpruned ==
    /\ pc = "listFRR" /\ NoFault
    /\ doomed' = {i \in Zones : Managed(frrs[i]) /\ mine.del}
    /\ pc' = "deleteFRR" /\ UNCHANGED <<key, mine, fresh, step, requeues, api, events>>

(* A list of the managed ones: those beyond the count are pruned, and all  *)
(* of them deleted with the config.                                        *)
ListFRR ==
    /\ pc = "listFRR" /\ NoFault
    /\ doomed' = {i \in Zones : Managed(frrs[i]) /\ (mine.del \/ i > FRRCount(mine))}
    /\ pc' = "deleteFRR" /\ UNCHANGED <<key, mine, fresh, step, requeues, api, events>>

DeleteFRR(i, ok) ==
    /\ pc = "deleteFRR" /\ FaultUnless(ok) /\ i \in doomed /\ PutFRR(i, Absent)
    /\ IF ok THEN doomed' = doomed \ {i} /\ UNCHANGED <<pc, key, mine, fresh, step, requeues>>
       ELSE IF mine.del THEN ReturnError
       ELSE SetDegraded(mine, "FRRConfigurationApplied")
    /\ UNCHANGED <<configs, patched, routed, offered, watch, cache, routedCache>>

Finished(obj) == [obj EXCEPT !.phase = "Ready"]

FRRDone ==
    /\ pc = "deleteFRR" /\ NoFault /\ doomed = {}
    /\ LET applied == SetStatusCondition(mine, "FRRConfigurationApplied", "True")
       IN  IF mine.del THEN Goto("removeFinalizer")
           ELSE IF mine.spec.aws THEN GotoWith("reconcileNodes", applied)
           ELSE GotoWith("writeStatus", Finished(applied))
    /\ UNCHANGED <<api, events>>

ReconcileNodes(ok) ==
    /\ pc = "reconcileNodes" /\ FaultUnless(ok)
    /\ IF ok
       THEN GotoWith("writeStatus",
                     Finished(SetStatusCondition(mine, "AWSResourcesReconciled", "True")))
       ELSE SetDegraded(mine, "AWSResourcesReconciled")
    /\ UNCHANGED <<api, events>>

WriteStatus(ok) ==
    LET new == [configs[key] EXCEPT !.phase = mine.phase, !.obs = mine.obs,
                  !.conditions = mine.conditions, !.found = mine.found]
    IN  /\ pc = "writeStatus" /\ FaultUnless(ok) /\ fresh
        /\ IF new = configs[key] THEN UNCHANGED <<configs, watch>> ELSE Put(key, new)
        /\ IF ok THEN ReturnRequeueAfter ELSE ReturnError
        /\ UNCHANGED <<frrs, patched, routed, offered, cache, routedCache, frrEvent>>

-----------------------------------------------------------------------------
(***************************************************************************)
(* reconcileDelete.                                                        *)
(***************************************************************************)
(* Mutant: a blocked deletion is not tried again. *)
CheckRoutingsOnce ==
    /\ pc = "checkRoutings" /\ NoFault
    /\ IF routedCache THEN ReturnDone
       ELSE Goto(IF mine.spec.aws THEN "cleanup" ELSE "listFRR")
    /\ UNCHANGED <<api, events>>

(* Mutant: the deletion goes on although there are CUDNBgpRoutings. *)
CheckRoutingsIgnored ==
    /\ pc = "checkRoutings" /\ NoFault
    /\ Goto(IF mine.spec.aws THEN "cleanup" ELSE "listFRR")
    /\ UNCHANGED <<api, events>>

CheckRoutings ==
    /\ pc = "checkRoutings" /\ NoFault
    /\ IF routedCache THEN ReturnRequeueAfter
       ELSE Goto(IF mine.spec.aws THEN "cleanup" ELSE "listFRR")
    /\ UNCHANGED <<api, events>>

(* Mutant: skipping the cleanup skips the FRRConfigurations too. *)
CleanupSkipsFRR(outcome) ==
    /\ pc = "cleanup" /\ FaultUnless(outcome = "done")
    /\ IF outcome = "failed" THEN ReturnError
       ELSE Goto(IF outcome = "skipped" THEN "removeFinalizer" ELSE "listFRR")
    /\ UNCHANGED <<api, events>>

(* Mutant: a failed cleanup is not tried again. *)
CleanupOnce(outcome) ==
    /\ pc = "cleanup" /\ FaultUnless(outcome = "done")
    /\ IF outcome = "failed" THEN ReturnDone ELSE Goto("listFRR")
    /\ UNCHANGED <<api, events>>

(* A failure to build the platform or to discover skips the cleanup; a     *)
(* failure of the cleanup itself is returned.                              *)
Cleanup(outcome) ==
    /\ pc = "cleanup" /\ FaultUnless(outcome = "done")
    /\ IF outcome = "failed" THEN ReturnError ELSE Goto("listFRR")
    /\ UNCHANGED <<api, events>>

RemoveFinalizer(ok) ==
    /\ pc = "removeFinalizer" /\ FaultUnless(ok) /\ fresh /\ Put(key, Absent)
    /\ IF ok THEN ReturnDone ELSE ReturnError
    /\ UNCHANGED <<frrs, patched, routed, offered, cache, routedCache, frrEvent>>

-----------------------------------------------------------------------------
(***************************************************************************)
(* Calls that fail without effect.                                         *)
(***************************************************************************)
UpdateCalls == {"addFinalizer", "writeStatus", "removeFinalizer"}

Conflict ==
    /\ NoFault /\ pc \in UpdateCalls /\ ~fresh /\ ReturnError /\ UNCHANGED <<api, events>>

CallFails ==
    /\ Fault
    /\ \/ pc \in UpdateCalls /\ ReturnError
       \/ pc \in {"listFRR", "deleteFRR"} /\ mine.del /\ ReturnError
       \/ pc = "patchNetwork" /\ SetDegraded(mine, "NetworkOperatorPatched")
       \/ pc = "checkFRR" /\ SetDegraded(mine, "FRRNamespaceReady")
       \/ /\ pc = "ensureFRR" \/ (pc \in {"listFRR", "deleteFRR"} /\ ~mine.del)
          /\ SetDegraded(mine, "FRRConfigurationApplied")
    /\ UNCHANGED <<api, events>>

-----------------------------------------------------------------------------
ConfigUsers ==
    \/ \E n \in Names, spec \in Specs : CreateConfig(n, spec) \/ EditConfig(n, spec)
    \/ \E n \in Names : DeleteConfig(n)
    \/ \E zones \in SUBSET Zones : ChangeEndpoints(zones)

ConfigWatches ==
    \/ DeliverConfig \/ DeliverFRR
    \/ \E n \in Names : DelayOver(n)

Calls(ok) ==
    \/ AddFinalizer(ok) \/ PatchNetworkOperator(ok) \/ IsFRRReady(ok)
    \/ DiscoverEndpoints(ok) \/ StartFRR \/ EnsureSingleFRRConfiguration(ok)
    \/ ListFRR \/ (\E i \in Zones : DeleteFRR(i, ok)) \/ FRRDone
    \/ ReconcileNodes(ok) \/ WriteStatus(ok) \/ CheckRoutings
    \/ Cleanup(IF ok THEN "done" ELSE "failed") \/ RemoveFinalizer(ok) \/ Conflict

ConfigFailures ==
    \/ \E i \in Zones, f \in {Absent, Foreign} : DriftFRR(i, f)
    \/ DeliverNode \/ Calls(FALSE) \/ Cleanup("skipped") \/ CallFails

(* The CUDNBgpRoutings, which the composition with their controller has. *)
RoutingsChange == ChangeRoutings \/ DeliverRoutings

Next ==
    \/ ConfigUsers \/ ConfigWatches \/ ConfigFailures \/ RoutingsChange \/ Restart
    \/ (\E n \in Names : Reconcile(n)) \/ Calls(TRUE)

(* Informers, the delaying queue and the worker go on, and the worker's    *)
(* queue is first in, first out, so that no key waits for ever.            *)
Fairness ==
    /\ WF_vars(DeliverConfig) /\ WF_vars(DeliverRoutings) /\ WF_vars(DeliverFRR)
    /\ WF_vars(Calls(TRUE))
    /\ \A n \in Names : WF_vars(DelayOver(n)) /\ SF_vars(Reconcile(n))

Spec == Init /\ [][Next]_vars
FairSpec == Spec /\ Fairness

-----------------------------------------------------------------------------
(***************************************************************************)
(* Properties.                                                             *)
(***************************************************************************)
Exists(n) == configs[n] # Absent
Ready(n) == Exists(n) /\ configs[n].phase = "Ready"
Noticed(n) == n \in queue \/ delayed[n] = "backoff" \/ key = n \/ Pending(n)

ApiTypes ==
    /\ configs \in [Names -> Objects \cup {Absent}]
    /\ frrs \in [Zones -> ManagedFRRs \cup {Absent, Foreign}]
    /\ patched \in BOOLEAN /\ routed \in BOOLEAN /\ offered \subseteq Zones

EventTypes ==
    /\ watch \in Seq([name : Names, obj : Objects \cup {Absent}]) /\ Len(watch) <= MaxLag
    /\ cache \in [Names -> Objects \cup {Absent}]
    /\ routedCache \in BOOLEAN /\ frrEvent \in BOOLEAN

RequeueTypes ==
    /\ queue \subseteq Names /\ delayed \in [Names -> {"none", "timer", "backoff"}]

WorkerTypes ==
    /\ fresh \in BOOLEAN /\ step \in 0..ZoneCount + 1 /\ doomed \subseteq Zones
    /\ \/ pc = "idle" /\ key = Absent /\ mine = Absent
       \/ /\ pc \in {"addFinalizer", "patchNetwork", "checkFRR", "discover", "startFRR",
                     "ensureFRR", "listFRR", "deleteFRR", "reconcileNodes", "writeStatus",
                     "checkRoutings", "cleanup", "removeFinalizer"}
          /\ key \in Names /\ mine \in Objects

(* Every variable has its type. *)
TypeOK ==
    /\ ApiTypes /\ EventTypes /\ RequeueTypes /\ WorkerTypes
    /\ edits \in 0..MaxEdits /\ faults \in 0..MaxFaults

(* No error, conflict, lost answer or restart makes the controller forget  *)
(* an object.                                                              *)
NeverForgotten == \A n \in Names : Exists(n) => Noticed(n) \/ delayed[n] = "timer"

Holds(obj, types) == \A t \in types : obj.conditions[t] = "True"

Coherent(obj) ==
    /\ obj.phase = "Ready" =>
         Holds(obj, {"NetworkOperatorPatched", "FRRNamespaceReady", "FRRConfigurationApplied"})
    /\ obj.phase = "Ready" /\ obj.obs = obj.gen /\ obj.spec.aws =>
         /\ Holds(obj, {"AWSEndpointsDiscovered", "AWSResourcesReconciled"})
         /\ obj.found # Absent
    /\ obj.phase = "Degraded" => \E t \in ConditionTypes : obj.conditions[t] = "False"
    /\ obj.phase = "Configuring" => obj.conditions["FRRNamespaceReady"] = "False"

(* The conditions a user reads agree with the phase next to them, although *)
(* they pile up in one status over reconciles that end in any phase: Ready *)
(* means that every step the observed spec asks for succeeded, Degraded    *)
(* that some step failed, Configuring that FRR is awaited.                 *)
StatusCoherent == \A n \in Names : Exists(n) => Coherent(configs[n])

(* The FRRConfigurations are those of the object's zones and no others. *)
Applied(obj) ==
    \A i \in Zones : IF i <= FRRCount(obj) THEN frrs[i] = FRRFor(obj, i) ELSE ~Managed(frrs[i])

(* A Ready config that is not being deleted has exactly the                *)
(* FRRConfigurations its spec and the zones in its status ask for, or a    *)
(* reconcile coming without its five-minute timer.                         *)
FRRDriftNoticed ==
    \A n \in Names : Ready(n) /\ ~configs[n].del =>
        Noticed(n) \/ frrEvent \/ Applied(configs[n])

(* The finalizer does its work: an FRRConfiguration of the operator exists *)
(* only while the API server has the CUDNBgpConfig with the finalizer.     *)
NoOrphanFRR ==
    (\E i \in Zones : Managed(frrs[i]))
        => Exists(SingletonName) /\ configs[SingletonName].fin

Stage(obj) ==
    IF obj = Absent THEN "absent" ELSE IF obj.del THEN "deleting"
    ELSE IF obj.fin THEN "held" ELSE "bare"

Lifecycle == INSTANCE ConfigLifecycle WITH
    object <- Stage(configs[SingletonName]),
    ready <- Ready(SingletonName),
    cachedReady <- cache[SingletonName] # Absent /\ cache[SingletonName].phase = "Ready",
    built <- \E i \in Zones : Managed(frrs[i]),
    cleared <- pc \in {"cleanup", "listFRR", "deleteFRR", "removeFinalizer"} /\ mine.del

(* The controller implements the promise others rely on: FRRConfigurations *)
(* appear only under the finalizer, a status is written only while the     *)
(* object is not being deleted, and the finalizer goes only after this     *)
(* reconcile saw no CUDNBgpRouting and with every FRRConfiguration gone.   *)
KeepsLifecycle == Lifecycle!Spec

(* Deletion is blocked while a CUDNBgpRouting exists. *)
DeletionBlocked == pc = "removeFinalizer" /\ fresh => ~routed

(* When users and failures stop, the config becomes Ready with its         *)
(* FRRConfigurations in place and stays so, and a wrong name is Degraded.  *)
Settles ==
    <>[](\A n \in Names : Exists(n) /\ ~configs[n].del =>
            IF n = SingletonName THEN Ready(n) /\ Applied(configs[n])
            ELSE configs[n].phase = "Degraded")

(* A deleted config goes away unless a CUDNBgpRouting stays. *)
DeletionEnds ==
    LET obj == configs[SingletonName]
    IN  obj # Absent /\ obj.del ~> (obj = Absent \/ ~obj.del \/ routed)
=============================================================================
