------------------------- MODULE RoutingController -------------------------
(***************************************************************************)
(* The CUDNBgpRouting controller                                           *)
(* (src/internal/controller/cudnbgprouting_controller.go) between the API  *)
(* server it writes to and the informer cache it reads from.               *)
(*                                                                         *)
(* One action is one call to the API server, so users, outsiders, watch    *)
(* deliveries and a restart of the operator interleave with the calls of   *)
(* one reconcile.  CUDNBgpRouting objects are typed, so the manager's      *)
(* client reads them from its cache; ClusterUserDefinedNetwork and         *)
(* RouteAdvertisements are unstructured, so they are read live.            *)
(***************************************************************************)
EXTENDS Naturals, Sequences

CONSTANTS
    Routings,       \* names of CUDNBgpRouting objects
    Networks,       \* values of spec.network.name
    Claims,         \* Claims[r]: the networks users give to routing r
    MaxGeneration,  \* bound on the edits of one object's spec
    MaxLag,         \* bound on the watch events not yet in the cache
    MaxEdits,       \* bound on what users do
    MaxFaults,      \* bound on what outsiders and failures do
    Absent,         \* no such object
    Foreign         \* an object whose labels and spec are not the operator's

ASSUME ClaimsAssumption == Claims \in [Routings -> SUBSET Networks]
ASSUME BoundsAssumption ==
    /\ MaxGeneration \in Nat \ {0} /\ MaxLag \in Nat \ {0}
    /\ MaxEdits \in Nat /\ MaxFaults \in Nat

Phases == {"", "Pending", "Ready", "Degraded"}
Conditions == {"none", "True", "False"}

(***************************************************************************)
(* A CUDNBgpRouting: what users set (net, gen, del), the finalizer, and    *)
(* the status the controller writes.  gen stands for metadata.generation,  *)
(* hence for the whole spec; obs is status.observedGeneration.             *)
(***************************************************************************)
Objects == [net : Networks, gen : 1..MaxGeneration, del : BOOLEAN,
            fin : BOOLEAN, phase : Phases, obs : 0..MaxGeneration,
            cudnCreated : Conditions, raCreated : Conditions]

(* The CUDN written from generation gen of routing `by`. *)
ManagedCUDNs == [by : Routings, gen : 1..MaxGeneration]

ASSUME AbsentAssumption ==
    /\ Absent \notin Objects \cup ManagedCUDNs \cup Routings
    /\ Foreign \notin ManagedCUDNs \cup {Absent}

NewObject(n) ==
    [net |-> n, gen |-> 1, del |-> FALSE, fin |-> FALSE, phase |-> "",
     obs |-> 0, cudnCreated |-> "none", raCreated |-> "none"]

VARIABLES
    routings,    \* API server: the CUDNBgpRouting objects
    cudns,       \* API server: the CUDN of each network
    ra,          \* API server: the one shared RouteAdvertisements
    watch,       \* versions of routings on their way to the cache, in order
    cache,       \* the informer's copy of routings
    cudnEvents,  \* networks with an undelivered event of a managed CUDN
    raEvent,     \* an undelivered event of the RouteAdvertisements
    queue,       \* keys ready to be reconciled
    delayed,     \* delayed[r]: what adds r to the queue later, if anything
    pc,          \* the next call of the worker
    key,         \* the routing the worker reconciles
    mine,        \* the worker's copy of it, edited in memory
    fresh,       \* the copy's resourceVersion is still the server's
    edits,       \* how many times users acted
    faults       \* how many times outsiders acted or something failed

api == <<routings, cudns, ra>>
events == <<watch, cache, cudnEvents, raEvent>>
requeues == <<queue, delayed>>
worker == <<pc, key, mine, fresh>>
vars == <<api, events, requeues, worker, edits, faults>>

Init ==
    /\ routings = [r \in Routings |-> Absent]
    /\ cudns = [n \in Networks |-> Absent] /\ ra = "absent"
    /\ watch = << >> /\ cache = routings /\ cudnEvents = {} /\ raEvent = FALSE
    /\ queue = {} /\ delayed = [r \in Routings |-> "none"]
    /\ pc = "idle" /\ key = Absent /\ mine = Absent /\ fresh = FALSE
    /\ edits = 0 /\ faults = 0

(* Users act, and things fail, finitely often; the rest is the system's. *)
UserActs == edits < MaxEdits /\ edits' = edits + 1 /\ UNCHANGED faults
Fault == faults < MaxFaults /\ faults' = faults + 1 /\ UNCHANGED edits
NoFault == UNCHANGED <<edits, faults>>
FaultUnless(ok) == IF ok THEN NoFault ELSE Fault

-----------------------------------------------------------------------------
(***************************************************************************)
(* The API server and its watches (outside src/).                          *)
(***************************************************************************)

(* A write of routing r, seen by the cache once its event is delivered. *)
Put(r, obj) ==
    /\ Len(watch) < MaxLag
    /\ routings' = [routings EXCEPT ![r] = obj]
    /\ watch' = Append(watch, [name |-> r, obj |-> obj])

Pending(r) == \E i \in 1..Len(watch) : watch[i].name = r

(* The CUDN carries the operator's label; the watches map no other. *)
Managed(c) == c \in ManagedCUDNs

PutCUDN(n, c) ==
    /\ cudns' = [cudns EXCEPT ![n] = c]
    /\ cudnEvents' = IF c # cudns[n] /\ (Managed(c) \/ Managed(cudns[n]))
                     THEN cudnEvents \cup {n} ELSE cudnEvents

PutRA(x) ==
    /\ ra' = x
    /\ raEvent' = (raEvent \/ (x # ra /\ "managed" \in {x, ra}))

-----------------------------------------------------------------------------
(***************************************************************************)
(* Users and outsiders.                                                    *)
(***************************************************************************)
Outdate(r) == fresh' = (fresh /\ key # r) /\ UNCHANGED <<pc, key, mine>>

CreateRouting(r, n) ==
    /\ UserActs /\ routings[r] = Absent
    /\ Put(r, NewObject(n)) /\ Outdate(r)
    /\ UNCHANGED <<cudns, ra, cache, cudnEvents, raEvent, requeues>>

(* No validation rule makes spec.network.name immutable. *)
EditRouting(r, n) ==
    /\ UserActs /\ routings[r] # Absent /\ routings[r].gen < MaxGeneration
    /\ Put(r, [routings[r] EXCEPT !.net = n, !.gen = @ + 1]) /\ Outdate(r)
    /\ UNCHANGED <<cudns, ra, cache, cudnEvents, raEvent, requeues>>

(* A finalizer turns the deletion into a deletionTimestamp. *)
DeleteRouting(r) ==
    /\ UserActs /\ routings[r] # Absent /\ ~routings[r].del
    /\ Put(r, IF routings[r].fin THEN [routings[r] EXCEPT !.del = TRUE]
              ELSE Absent)
    /\ Outdate(r)
    /\ UNCHANGED <<cudns, ra, cache, cudnEvents, raEvent, requeues>>

(* An outsider deletes the object, or makes it something else. *)
DriftCUDN(n, c) ==
    /\ Fault /\ cudns[n] # c /\ PutCUDN(n, c)
    /\ UNCHANGED <<routings, ra, watch, cache, raEvent, requeues, worker>>

DriftRA(x) ==
    /\ Fault /\ ra # x /\ PutRA(x)
    /\ UNCHANGED <<routings, cudns, watch, cache, cudnEvents, requeues, worker>>

-----------------------------------------------------------------------------
(***************************************************************************)
(* Watches and the work queue: SetupWithManager and its map functions.     *)
(***************************************************************************)
DeliverRouting ==
    /\ NoFault /\ watch # << >>
    /\ cache' = [cache EXCEPT ![Head(watch).name] = Head(watch).obj]
    /\ queue' = queue \cup {Head(watch).name}
    /\ watch' = Tail(watch)
    /\ UNCHANGED <<api, cudnEvents, raEvent, delayed, worker>>

Claimants(n) == {r \in Routings : cache[r] # Absent /\ cache[r].net = n}

(* Mutant: the label filter drops every event. *)
MapCUDNToRoutingDropped(n) == {{}}

(* The first routing listed for the network; the cache lists in any order. *)
MapCUDNToRouting(n) ==
    IF Claimants(n) = {} THEN {{}} ELSE {{r} : r \in Claimants(n)}

DeliverCUDN(n) ==
    /\ NoFault /\ n \in cudnEvents /\ cudnEvents' = cudnEvents \ {n}
    /\ \E keys \in MapCUDNToRouting(n) : queue' = queue \cup keys
    /\ UNCHANGED <<api, watch, cache, raEvent, delayed, worker>>

(* Mutant: only routings known to have failed are enqueued. *)
MapRAToRoutingDegraded == {r \in Routings : cache[r] # Absent /\ cache[r].phase = "Degraded"}

MapRAToRouting == {r \in Routings : cache[r] # Absent}

DeliverRA ==
    /\ NoFault /\ raEvent /\ raEvent' = FALSE
    /\ queue' = queue \cup MapRAToRouting
    /\ UNCHANGED <<api, watch, cache, cudnEvents, delayed, worker>>

(* The delaying queue adds a key whose backoff or RequeueAfter is over. *)
DelayOver(r) ==
    /\ NoFault /\ delayed[r] # "none"
    /\ delayed' = [delayed EXCEPT ![r] = "none"] /\ queue' = queue \cup {r}
    /\ UNCHANGED <<api, events, worker>>

GoIdle == pc' = "idle" /\ key' = Absent /\ mine' = Absent /\ fresh' = FALSE

(* A restart loses the process's memory; the new process lists everything. *)
Restart ==
    /\ Fault
    /\ cache' = routings /\ watch' = << >>
    /\ cudnEvents' = {} /\ raEvent' = FALSE
    /\ queue' = {r \in Routings : routings[r] # Absent}
    /\ delayed' = [r \in Routings |-> "none"]
    /\ GoIdle /\ UNCHANGED api

-----------------------------------------------------------------------------
(***************************************************************************)
(* How a reconcile ends and how a call of it fails.                        *)
(***************************************************************************)
(* Mutant: the error is logged and not returned. *)
ReturnErrorSwallowed == GoIdle /\ UNCHANGED requeues

ReturnError ==
    /\ delayed' = [delayed EXCEPT ![key] = "backoff"]
    /\ GoIdle /\ UNCHANGED queue

(* Mutant: the periodic reconcile is left out. *)
ReturnRequeueNever == GoIdle /\ UNCHANGED requeues

(* A key has one entry, the earliest: a backoff is not put off. *)
ReturnRequeueAfter ==
    /\ delayed' = [delayed EXCEPT ![key] = IF @ = "backoff" THEN @ ELSE "timer"]
    /\ GoIdle /\ UNCHANGED queue

ReturnDone == GoIdle /\ UNCHANGED requeues

Goto(p) == pc' = p /\ UNCHANGED <<key, mine, fresh, requeues>>

(* Mutant: observedGeneration runs ahead. *)
GotoWriteStatusAhead(obj) ==
    /\ mine' = [obj EXCEPT !.obs = mine.gen + 1]
    /\ pc' = "writeStatus" /\ UNCHANGED <<key, fresh, requeues>>

(* The status is edited in the worker's copy and written by WriteStatus. *)
GotoWriteStatus(obj) ==
    /\ mine' = [obj EXCEPT !.obs = mine.gen]
    /\ pc' = "writeStatus" /\ UNCHANGED <<key, fresh, requeues>>

SetDegraded(obj) == GotoWriteStatus([obj EXCEPT !.phase = "Degraded"])

FailedCUDN == [mine EXCEPT !.cudnCreated = "False"]
FailedRA == [mine EXCEPT !.raCreated = "False"]

-----------------------------------------------------------------------------
(***************************************************************************)
(* Reconcile.  The parameter ok of a write tells whether its answer        *)
(* reaches the worker; an unanswered write has happened all the same.      *)
(***************************************************************************)
Reconcile(r) ==
    /\ NoFault /\ pc = "idle" /\ r \in queue /\ queue' = queue \ {r}
    /\ IF cache[r] = Absent
       THEN UNCHANGED worker
       ELSE /\ key' = r /\ mine' = cache[r] /\ fresh' = ~Pending(r)
            /\ pc' = IF cache[r].del THEN "deleteCUDN"
                     ELSE IF cache[r].fin THEN "checkDuplicate"
                     ELSE "addFinalizer"
    /\ UNCHANGED <<api, events, delayed>>

AddFinalizer(ok) ==
    /\ FaultUnless(ok) /\ pc = "addFinalizer" /\ fresh
    /\ Put(key, [routings[key] EXCEPT !.fin = TRUE])
    /\ IF ok
       THEN /\ mine' = [mine EXCEPT !.fin = TRUE] /\ pc' = "checkDuplicate"
            /\ UNCHANGED <<key, fresh, requeues>>
       ELSE ReturnError
    /\ UNCHANGED <<cudns, ra, cache, cudnEvents, raEvent>>

(* Mutant: only claimants that are Ready count. *)
CheckDuplicateReady ==
    /\ NoFault /\ pc = "checkDuplicate"
    /\ IF \E o \in Claimants(mine.net) \ {key} : cache[o].phase = "Ready"
       THEN SetDegraded(FailedCUDN)
       ELSE Goto("checkConfig")
    /\ UNCHANGED <<api, events>>

CheckDuplicate ==
    /\ NoFault /\ pc = "checkDuplicate"
    /\ IF Claimants(mine.net) \ {key} # {}
       THEN SetDegraded(FailedCUDN)
       ELSE Goto("checkConfig")
    /\ UNCHANGED <<api, events>>

(* Mutant: Pending keeps the conditions. *)
ConfigSeenKeeps(ready) ==
    /\ pc = "checkConfig"
    /\ IF ready THEN Goto("checkNamespace")
       ELSE GotoWriteStatus([mine EXCEPT !.phase = "Pending"])
    /\ UNCHANGED <<api, events>>

(* What a reconcile does about the cached CUDNBgpConfig "cluster": ready    *)
(* when it exists and its phase is Ready.                                  *)
ConfigSeen(ready) ==
    /\ pc = "checkConfig"
    /\ IF ready
       THEN Goto("checkNamespace")
       ELSE GotoWriteStatus([mine EXCEPT !.phase = "Pending",
                             !.cudnCreated = "none", !.raCreated = "none"])
    /\ UNCHANGED <<api, events>>

(* Here the config is Ready but for faults; Operator has the real one. *)
CheckConfig(ready) == FaultUnless(ready) /\ ConfigSeen(ready)

(* found: a cached namespace carries both labels the network needs. *)
ValidateNamespaceLabels(found) ==
    /\ FaultUnless(found) /\ pc = "checkNamespace"
    /\ IF found THEN Goto("ensureCUDN") ELSE SetDegraded(FailedCUDN)
    /\ UNCHANGED <<api, events>>

EnsureCUDN(ok) ==
    /\ FaultUnless(ok) /\ pc = "ensureCUDN"
    /\ PutCUDN(mine.net, [by |-> key, gen |-> mine.gen])
    /\ IF ok
       THEN /\ mine' = [mine EXCEPT !.cudnCreated = "True"] /\ pc' = "ensureRA"
            /\ UNCHANGED <<key, fresh, requeues>>
       ELSE SetDegraded(FailedCUDN)
    /\ UNCHANGED <<routings, ra, watch, cache, raEvent>>

EnsureRouteAdvertisements(ok) ==
    /\ FaultUnless(ok) /\ pc = "ensureRA"
    /\ PutRA("managed")
    /\ IF ok
       THEN GotoWriteStatus([mine EXCEPT !.phase = "Ready", !.raCreated = "True"])
       ELSE SetDegraded(FailedRA)
    /\ UNCHANGED <<routings, cudns, watch, cache, cudnEvents>>

(* Status().Update touches the status only; the server drops a no-op. *)
WriteStatus(ok) ==
    LET new == [routings[key] EXCEPT !.phase = mine.phase, !.obs = mine.obs,
                  !.cudnCreated = mine.cudnCreated, !.raCreated = mine.raCreated]
    IN  /\ FaultUnless(ok) /\ pc = "writeStatus" /\ fresh
        /\ IF new = routings[key] THEN UNCHANGED <<routings, watch>>
           ELSE Put(key, new)
        /\ IF ok THEN ReturnRequeueAfter ELSE ReturnError
        /\ UNCHANGED <<cudns, ra, cache, cudnEvents, raEvent>>

-----------------------------------------------------------------------------
(***************************************************************************)
(* reconcileDelete.                                                        *)
(***************************************************************************)
DeleteCUDN(ok) ==
    /\ FaultUnless(ok) /\ pc = "deleteCUDN"
    /\ PutCUDN(mine.net, Absent)
    /\ IF ok THEN Goto("listRemaining") ELSE ReturnError
    /\ UNCHANGED <<routings, ra, watch, cache, raEvent>>

(* Mutant: only routings that are Ready count. *)
ListRemainingReady ==
    /\ NoFault /\ pc = "listRemaining"
    /\ IF \E o \in Routings \ {key} : cache[o] # Absent /\ cache[o].phase = "Ready"
       THEN Goto("removeFinalizer") ELSE Goto("deleteRA")
    /\ UNCHANGED <<api, events>>

ListRemaining ==
    /\ NoFault /\ pc = "listRemaining"
    /\ IF \E o \in Routings \ {key} : cache[o] # Absent
       THEN Goto("removeFinalizer") ELSE Goto("deleteRA")
    /\ UNCHANGED <<api, events>>

DeleteRouteAdvertisements(ok) ==
    /\ FaultUnless(ok) /\ pc = "deleteRA"
    /\ PutRA("absent")
    /\ IF ok THEN Goto("removeFinalizer") ELSE ReturnError
    /\ UNCHANGED <<routings, cudns, watch, cache, cudnEvents>>

(* Without its last finalizer a deleted object disappears. *)
RemoveFinalizer(ok) ==
    /\ FaultUnless(ok) /\ pc = "removeFinalizer" /\ fresh
    /\ Put(key, Absent)
    /\ IF ok THEN ReturnDone ELSE ReturnError
    /\ UNCHANGED <<cudns, ra, cache, cudnEvents, raEvent>>

-----------------------------------------------------------------------------
(***************************************************************************)
(* Calls that fail without effect.                                         *)
(***************************************************************************)
UpdateCalls == {"addFinalizer", "writeStatus", "removeFinalizer"}

(* An update of an outdated copy is refused. *)
Conflict ==
    /\ NoFault /\ pc \in UpdateCalls /\ ~fresh
    /\ ReturnError /\ UNCHANGED <<api, events>>

(* Mutant: a failed deletion does not keep the finalizer. *)
CallFailsIgnored ==
    /\ Fault
    /\ \/ pc \in UpdateCalls /\ ReturnError
       \/ pc \in {"deleteCUDN", "deleteRA"} /\ Goto("removeFinalizer")
       \/ pc = "ensureCUDN" /\ SetDegraded(FailedCUDN)
       \/ pc = "ensureRA" /\ SetDegraded(FailedRA)
    /\ UNCHANGED <<api, events>>

CallFails ==
    /\ Fault
    /\ \/ pc \in UpdateCalls \cup {"deleteCUDN", "deleteRA"} /\ ReturnError
       \/ pc = "ensureCUDN" /\ SetDegraded(FailedCUDN)
       \/ pc = "ensureRA" /\ SetDegraded(FailedRA)
    /\ UNCHANGED <<api, events>>

-----------------------------------------------------------------------------
Users ==
    \/ \E r \in Routings : \E n \in Claims[r] :
          CreateRouting(r, n) \/ EditRouting(r, n)
    \/ \E r \in Routings : DeleteRouting(r)

Outsiders ==
    \/ \E n \in Networks, c \in {Absent, Foreign} : DriftCUDN(n, c)
    \/ \E x \in {"absent", "foreign"} : DriftRA(x)

Watches ==
    \/ DeliverRouting
    \/ \E n \in Networks : DeliverCUDN(n)
    \/ DeliverRA
    \/ \E r \in Routings : DelayOver(r)

Calls(ok) ==
    \/ AddFinalizer(ok) \/ CheckDuplicate \/ CheckConfig(ok)
    \/ ValidateNamespaceLabels(ok) \/ EnsureCUDN(ok)
    \/ EnsureRouteAdvertisements(ok) \/ WriteStatus(ok)
    \/ DeleteCUDN(ok) \/ ListRemaining \/ DeleteRouteAdvertisements(ok)
    \/ RemoveFinalizer(ok) \/ Conflict

Next ==
    \/ Users \/ Outsiders \/ Watches
    \/ \E r \in Routings : Reconcile(r)
    \/ \E ok \in BOOLEAN : Calls(ok)
    \/ CallFails \/ Restart

Spec == Init /\ [][Next]_vars

-----------------------------------------------------------------------------
(***************************************************************************)
(* Properties.                                                             *)
(***************************************************************************)
Exists(r) == routings[r] # Absent
Ready(r) == Exists(r) /\ routings[r].phase = "Ready"

(* Ready, and about the spec the object has now. *)
Settled(r) == Ready(r) /\ routings[r].obs = routings[r].gen

(* r is being, or is about to be, reconciled: no timer is needed for it. *)
Noticed(r) == r \in queue \/ delayed[r] = "backoff" \/ key = r \/ Pending(r)

ApiTypes ==
    /\ routings \in [Routings -> Objects \cup {Absent}]
    /\ cudns \in [Networks -> ManagedCUDNs \cup {Absent, Foreign}]
    /\ ra \in {"absent", "managed", "foreign"}

EventTypes ==
    /\ watch \in Seq([name : Routings, obj : Objects \cup {Absent}])
    /\ Len(watch) <= MaxLag
    /\ cache \in [Routings -> Objects \cup {Absent}]
    /\ cudnEvents \subseteq Networks /\ raEvent \in BOOLEAN

RequeueTypes ==
    /\ queue \subseteq Routings
    /\ delayed \in [Routings -> {"none", "timer", "backoff"}]

WorkerTypes ==
    /\ fresh \in BOOLEAN
    /\ \/ pc = "idle" /\ key = Absent /\ mine = Absent
       \/ /\ pc \in {"addFinalizer", "checkDuplicate", "checkConfig",
                     "checkNamespace", "ensureCUDN", "ensureRA", "writeStatus",
                     "deleteCUDN", "listRemaining", "deleteRA", "removeFinalizer"}
          /\ key \in Routings /\ mine \in Objects

(* Every variable has its type, and the worker a key and a copy of its     *)
(* object exactly while it is not idle.                                    *)
TypeOK ==
    /\ ApiTypes /\ EventTypes /\ RequeueTypes /\ WorkerTypes
    /\ edits \in 0..MaxEdits /\ faults \in 0..MaxFaults

(* No error, conflict, lost answer or restart makes the controller forget  *)
(* an object: every CUDNBgpRouting of the API server is queued, under      *)
(* reconciliation, waiting for a retry or a timer, or about to be seen.    *)
NeverForgotten == \A r \in Routings : Exists(r) => Noticed(r) \/ delayed[r] = "timer"

(* A status whose conditions and phase say the same. *)
Coherent(obj) ==
    LET conditions == {obj.cudnCreated, obj.raCreated}
    IN  /\ obj.phase = "Ready" => conditions = {"True"}
        /\ obj.phase = "Degraded" => "False" \in conditions
        /\ obj.phase \in {"", "Pending"} => conditions = {"none"}

(* The conditions a user reads agree with the phase next to them, whatever *)
(* reconciles were cut short before: Ready means both steps succeeded,     *)
(* Degraded that a condition says what failed, Pending that none is left.  *)
StatusCoherent == \A r \in Routings : Exists(r) => Coherent(routings[r])

(* The duplicate pre-check excludes: two routings are never both Ready,    *)
(* each for its current spec, with the same spec.network.name, although    *)
(* the check reads a list that may be outdated.                            *)
NetworkExclusive ==
    \A r, s \in Routings :
        r # s /\ Settled(r) /\ Settled(s) => routings[r].net # routings[s].net

(* When reconcileDelete is about to delete the shared RouteAdvertisements  *)
(* no other routing is Ready, although it counts routings in the cache.    *)
RAKept ==
    pc = "deleteRA" => \A o \in Routings \ {key} : ~Ready(o)

(* A Ready routing whose RouteAdvertisements was deleted or modified has a *)
(* reconcile coming without its five-minute timer.                         *)
RADriftNoticed ==
    \A r \in Routings : Ready(r) /\ ra # "managed" => Noticed(r) \/ raEvent

(* The same for its CUDN, which is also missing after an edit of the spec. *)
CUDNDriftNoticed ==
    \A r \in Routings :
        Ready(r) /\ cudns[routings[r].net] # [by |-> r, gen |-> routings[r].gen]
            => Noticed(r) \/ routings[r].net \in cudnEvents

(* The finalizer does its work: a CUDN written for a routing exists only   *)
(* while the API server still has that routing, with the finalizer and the *)
(* network, so that reconcileDelete will find it.                          *)
NoOrphanCUDN ==
    \A n \in Networks : Managed(cudns[n]) =>
        LET r == cudns[n].by
        IN  Exists(r) /\ routings[r].fin /\ routings[r].net = n

(* On deletion a routing deletes the CUDN it owns, never one that was      *)
(* written for another routing.                                            *)
DeletesOwnCUDN ==
    pc = "deleteCUDN" /\ Managed(cudns[mine.net]) => cudns[mine.net].by = key

(* With the last routing all goes away that was made for routings: at rest *)
(* and with none left there is no CUDN and no RouteAdvertisements of the   *)
(* operator.                                                               *)
NothingLeaked ==
    (\A r \in Routings : ~Exists(r) /\ ~Noticed(r))
        => ra # "managed" /\ \A n \in Networks : ~Managed(cudns[n])

=============================================================================
