---------------------- MODULE RoutingControllerProofs ----------------------
(***************************************************************************)
(* Proofs about RoutingController, for every set of routings and networks, *)
(* every assignment of claims and all bounds.  The lemmas are about steps  *)
(* of the controller alone and of both controllers in one manager.         *)
(***************************************************************************)
EXTENDS RoutingControllerInv, TLAPS

-----------------------------------------------------------------------------
(***************************************************************************)
(* The steps: what each kind of step does to the watch stream and to the   *)
(* worker, and that it keeps types.                                        *)
(***************************************************************************)
Entries == [name : Routings, obj : Objects \cup {Absent}]

-----------------------------------------------------------------------------
(***************************************************************************)
(* The watch stream.                                                       *)
(***************************************************************************)

(* A write shows up as one more version of the routing it writes. *)
LEMMA PutSteps ==
  ASSUME TypeOK, NEW r \in Routings, NEW obj \in Objects \cup {Absent},
         Put(r, obj), UNCHANGED cache
  PROVE  /\ routings' \in [Routings -> Objects \cup {Absent}]
         /\ watch' \in Seq(Entries) /\ Len(watch') <= MaxLag
         /\ Versions(r)' = Versions(r) \cup {obj}
         /\ \A o \in Routings \ {r} : Versions(o)' = Versions(o)
         /\ Pending(r)'
         /\ \A o \in Routings \ {r} : Pending(o)' <=> Pending(o)
<1> DEFINE e == [name |-> r, obj |-> obj]
<1>1. watch \in Seq(Entries) /\ e \in Entries
  BY DEF TypeOK, ApiTypes, EventTypes, RequeueTypes, Entries
<1>2. watch' = Append(watch, e) /\ Len(watch) < MaxLag
  BY DEF Put
<1>3. /\ watch' \in Seq(Entries) /\ Len(watch') = Len(watch) + 1
      /\ Len(watch) \in Nat
      /\ \A i \in 1..Len(watch) : watch'[i] = watch[i]
      /\ watch'[Len(watch) + 1] = e
  BY <1>1, <1>2
<1>4. routings' \in [Routings -> Objects \cup {Absent}] /\ Len(watch') <= MaxLag
  BY <1>2, <1>3, BoundsAssumption DEF Put, TypeOK, ApiTypes, EventTypes, RequeueTypes
<1>5. Pending(r)' /\ \A o \in Routings \ {r} : Pending(o)' <=> Pending(o)
  BY <1>3 DEF Pending
<1>6. Versions(r)' = Versions(r) \cup {obj}
  <2>1. \A k \in 1..Len(watch') : k \in 1..Len(watch) \/ k = Len(watch) + 1
    BY <1>3
  <2>2. Len(watch) + 1 \in 1..Len(watch') /\ 1..Len(watch) \subseteq 1..Len(watch')
    BY <1>3
  <2> QED BY <1>3, <2>1, <2>2 DEF Versions
<1>7. \A o \in Routings \ {r} : Versions(o)' = Versions(o)
  <2>1. \A k \in 1..Len(watch') : k \in 1..Len(watch) \/ k = Len(watch) + 1
    BY <1>3
  <2>2. 1..Len(watch) \subseteq 1..Len(watch')
    BY <1>3
  <2> QED BY <1>3, <2>1, <2>2 DEF Versions
<1> QED BY <1>3, <1>4, <1>5, <1>6, <1>7

(* A write leaves the cache one event behind. *)
LEMMA PutFollows ==
  ASSUME TypeOK, CacheFollows, NEW r \in Routings,
         NEW obj \in Objects \cup {Absent}, Put(r, obj), UNCHANGED cache
  PROVE  CacheFollows'
<1> DEFINE e == [name |-> r, obj |-> obj]
<1>1. watch \in Seq(Entries) /\ e \in Entries
  BY DEF TypeOK, ApiTypes, EventTypes, RequeueTypes, Entries
<1>2. watch' = Append(watch, e) /\ routings' = [routings EXCEPT ![r] = obj]
  BY DEF Put
<1>3. /\ Len(watch') = Len(watch) + 1 /\ Len(watch) \in Nat
      /\ \A i \in 1..Len(watch) : watch'[i] = watch[i] /\ watch[i] \in Entries
      /\ watch'[Len(watch) + 1] = e
  BY <1>1, <1>2
<1>4. /\ routings'[r] = obj
      /\ \A o \in Routings \ {r} : routings'[o] = routings[o]
  BY <1>2 DEF TypeOK, ApiTypes, EventTypes, RequeueTypes
<1>5. \A o \in Routings : Pending(o)' \/ cache'[o] = routings'[o]
  BY PutSteps, <1>4 DEF CacheFollows
<1>6. ASSUME NEW i \in 1..Len(watch'),
             \A j \in 1..Len(watch') : j > i => watch'[j].name # watch'[i].name
      PROVE  watch'[i].obj = routings'[watch'[i].name]
  <2>1. CASE i = Len(watch) + 1
    BY <2>1, <1>3, <1>4
  <2>2. CASE i \in 1..Len(watch)
    <3>1. watch[i].name # r /\ watch[i].name \in Routings
      BY <2>2, <1>3, <1>6 DEF Entries
    <3>2. \A j \in 1..Len(watch) : j > i => watch[j].name # watch[i].name
      BY <2>2, <1>3, <1>6
    <3> QED BY <2>2, <3>1, <3>2, <1>3, <1>4 DEF CacheFollows
  <2> QED BY <2>1, <2>2, <1>3
<1> QED BY <1>5, <1>6 DEF CacheFollows

(* A delivery forgets old versions, brings none, and leaves no gap. *)
LEMMA DeliverSteps ==
  ASSUME TypeOK, CacheFollows, DeliverRouting
  PROVE  /\ cache' \in [Routings -> Objects \cup {Absent}]
         /\ watch' \in Seq(Entries) /\ Len(watch') <= MaxLag
         /\ queue' \subseteq Routings
         /\ CacheFollows'
         /\ \A r \in Routings : Versions(r)' \subseteq Versions(r)
         /\ \A r \in Routings : Pending(r) => Pending(r)' \/ r \in queue'
<1> DEFINE h == Head(watch)
<1>1. watch \in Seq(Entries) /\ watch # << >>
  BY DEF TypeOK, ApiTypes, EventTypes, RequeueTypes, Entries, DeliverRouting
<1>2. /\ h \in Entries /\ watch' \in Seq(Entries)
      /\ Len(watch') = Len(watch) - 1 /\ Len(watch) \in Nat /\ Len(watch) > 0
      /\ \A i \in 1..Len(watch') : watch'[i] = watch[i + 1]
      /\ \A i \in 1..Len(watch) : watch[i] \in Entries
      /\ h = watch[1]
  BY <1>1, SMT DEF DeliverRouting
<1>3. /\ cache' = [cache EXCEPT ![h.name] = h.obj]
      /\ queue' = queue \cup {h.name} /\ routings' = routings
  BY DEF DeliverRouting, api
<1>4. h.name \in Routings /\ h.obj \in Objects \cup {Absent}
  BY <1>2 DEF Entries
<1>5. /\ cache' \in [Routings -> Objects \cup {Absent}]
      /\ queue' \subseteq Routings /\ Len(watch') <= MaxLag
  BY <1>2, <1>3, <1>4, BoundsAssumption DEF TypeOK, ApiTypes, EventTypes, RequeueTypes
<1>6. \A k \in 1..Len(watch') : k + 1 \in 1..Len(watch) /\ watch'[k] = watch[k + 1]
  BY <1>2
<1>7. \A r \in Routings : Versions(r)' \subseteq Versions(r)
  <2> SUFFICES ASSUME NEW r \in Routings, NEW v \in Versions(r)'
               PROVE  v \in Versions(r)
    OBVIOUS
  <2>1. CASE v = cache'[r]
    <3>1. v = cache[r] \/ (r = watch[1].name /\ v = watch[1].obj)
      BY <2>1, <1>2, <1>3, <1>4 DEF TypeOK, ApiTypes, EventTypes, RequeueTypes
    <3>2. 1 \in 1..Len(watch)
      BY <1>2
    <3> QED BY <3>1, <3>2, Zenon DEF Versions
  <2>2. CASE \E k \in 1..Len(watch') : watch'[k].name = r /\ v = watch'[k].obj
    <3>1. PICK k \in 1..Len(watch') : watch'[k].name = r /\ v = watch'[k].obj
      BY <2>2, Zenon
    <3>2. PICK i \in 1..Len(watch) : watch[i] = watch'[k]
      BY <1>6, Zenon
    <3> QED BY <3>1, <3>2, Zenon DEF Versions
  <2> QED BY <2>1, <2>2 DEF Versions
<1>8. \A k \in 1..Len(watch) : k = 1 \/ (k - 1 \in 1..Len(watch') /\ watch'[k - 1] = watch[k])
  BY <1>2
<1>9. \A r \in Routings : Pending(r) => Pending(r)' \/ r = h.name
  BY <1>2, <1>8 DEF Pending
<1>10. \A r \in Routings : Pending(r)' \/ cache'[r] = routings'[r]
  <2> SUFFICES ASSUME NEW r \in Routings, ~Pending(r)'
               PROVE  cache'[r] = routings'[r]
    OBVIOUS
  <2>1. CASE r = h.name
    <3>1. \A j \in 1..Len(watch) : j > 1 => watch[j].name # watch[1].name
      BY <2>1, <1>2, <1>8 DEF Pending
    <3>2. h.obj = routings[r]
      BY <2>1, <3>1, <1>2 DEF CacheFollows
    <3> QED BY <2>1, <3>2, <1>3, <1>4 DEF TypeOK, ApiTypes, EventTypes, RequeueTypes
  <2>2. CASE r # h.name
    BY <2>2, <1>3, <1>9 DEF CacheFollows, TypeOK, ApiTypes, EventTypes, RequeueTypes
  <2> QED BY <2>1, <2>2
<1>11. ASSUME NEW i \in 1..Len(watch'),
              \A j \in 1..Len(watch') : j > i => watch'[j].name # watch'[i].name
       PROVE  watch'[i].obj = routings'[watch'[i].name]
  <2>1. ASSUME NEW j \in 1..Len(watch), j > i + 1
        PROVE  watch[j].name # watch[i + 1].name
    <3>1. j - 1 \in 1..Len(watch') /\ j - 1 > i
      BY <2>1, <1>2, <1>11
    <3>2. watch'[j - 1] = watch[j]
      BY <2>1, <3>1, <1>2, <1>8
    <3>3. watch'[i] = watch[i + 1]
      BY <1>6, <1>11, Zenon
    <3> QED BY <3>1, <3>2, <3>3, <1>11
  <2>2. i + 1 \in 1..Len(watch) /\ watch'[i] = watch[i + 1]
    BY <1>6, <1>11, Zenon
  <2>3. watch[i + 1].obj = routings[watch[i + 1].name]
    BY <2>1, <2>2, Zenon DEF CacheFollows
  <2> QED BY <1>3, <2>2, <2>3, Zenon
<1> QED BY <1>2, <1>3, <1>5, <1>7, <1>9, <1>10, <1>11 DEF CacheFollows


-----------------------------------------------------------------------------
(***************************************************************************)
(* Types.                                                                  *)
(***************************************************************************)

(* What users write are objects. *)
LEMMA NewObjectType ==
  ASSUME NEW n \in Networks
  PROVE  NewObject(n) \in Objects
BY BoundsAssumption DEF NewObject, Objects, Phases, Conditions

(* So are the edits of an object by users and by the controller. *)
LEMMA ObjectEdits ==
  ASSUME NEW o \in Objects
  PROVE  /\ [o EXCEPT !.fin = TRUE] \in Objects
         /\ [o EXCEPT !.del = TRUE] \in Objects
         /\ [o EXCEPT !.phase = "Degraded"] \in Objects
         /\ [o EXCEPT !.cudnCreated = "False"] \in Objects
         /\ [o EXCEPT !.cudnCreated = "True"] \in Objects
         /\ [o EXCEPT !.raCreated = "False"] \in Objects
         /\ [o EXCEPT !.phase = "Ready", !.raCreated = "True"] \in Objects
         /\ [o EXCEPT !.phase = "Pending", !.cudnCreated = "none",
                      !.raCreated = "none"] \in Objects
         /\ \A n \in Networks : o.gen < MaxGeneration
                => [o EXCEPT !.net = n, !.gen = @ + 1] \in Objects
         /\ \A m \in Objects : [o EXCEPT !.obs = m.gen] \in Objects
         /\ \A m \in Objects : [o EXCEPT !.phase = m.phase, !.obs = m.obs,
                !.cudnCreated = m.cudnCreated, !.raCreated = m.raCreated] \in Objects
<1>1. /\ [o EXCEPT !.fin = TRUE] \in Objects
      /\ [o EXCEPT !.del = TRUE] \in Objects
      /\ [o EXCEPT !.phase = "Degraded"] \in Objects
      /\ [o EXCEPT !.cudnCreated = "False"] \in Objects
      /\ [o EXCEPT !.cudnCreated = "True"] \in Objects
      /\ [o EXCEPT !.raCreated = "False"] \in Objects
  BY Zenon DEF Objects, Phases, Conditions
<1>2. [o EXCEPT !.phase = "Ready", !.raCreated = "True"] \in Objects
  BY Zenon DEF Objects, Phases, Conditions
<1>3. [o EXCEPT !.phase = "Pending", !.cudnCreated = "none", !.raCreated = "none"] \in Objects
  BY Zenon DEF Objects, Phases, Conditions
<1>4. ASSUME NEW n \in Networks, o.gen < MaxGeneration
      PROVE  [o EXCEPT !.net = n, !.gen = @ + 1] \in Objects
  <2>1. o.gen \in 1..MaxGeneration
    BY DEF Objects
  <2>2. o.gen + 1 \in 1..MaxGeneration
    BY <1>4, <2>1, BoundsAssumption
  <2> QED BY <2>2, Zenon DEF Objects
<1>5. ASSUME NEW m \in Objects
      PROVE  [o EXCEPT !.obs = m.gen] \in Objects
  <2>1. m.gen \in 1..MaxGeneration
    BY DEF Objects
  <2>2. m.gen \in 0..MaxGeneration
    BY <2>1, BoundsAssumption
  <2> QED BY <2>2 DEF Objects
<1>6. ASSUME NEW m \in Objects
      PROVE  [o EXCEPT !.phase = m.phase, !.obs = m.obs,
                !.cudnCreated = m.cudnCreated, !.raCreated = m.raCreated] \in Objects
  BY Zenon DEF Objects
<1> QED BY <1>1, <1>2, <1>3, <1>4, <1>5, <1>6, Zenon

(* Next is one of the actions, with parameters of their types. *)
LEMMA NextActions ==
  ASSUME Next
  PROVE  \/ \E r \in Routings, n \in Networks :
               n \in Claims[r] /\ (CreateRouting(r, n) \/ EditRouting(r, n))
         \/ \E r \in Routings : DeleteRouting(r)
         \/ \E n \in Networks, c \in {Absent, Foreign} : DriftCUDN(n, c)
         \/ \E x \in {"absent", "foreign"} : DriftRA(x)
         \/ DeliverRouting
         \/ \E n \in Networks : DeliverCUDN(n)
         \/ DeliverRA
         \/ \E r \in Routings : DelayOver(r)
         \/ \E r \in Routings : Reconcile(r)
         \/ \E ok \in BOOLEAN : Calls(ok)
         \/ CallFails
         \/ Restart
BY ClaimsAssumption DEF Next, Users, Outsiders, Watches

(* The budgets bound what they count. *)
LEMMA BudgetTypes ==
  ASSUME TypeOK, UserActs \/ Fault \/ NoFault \/ \E ok \in BOOLEAN : FaultUnless(ok)
  PROVE  edits' \in 0..MaxEdits /\ faults' \in 0..MaxFaults
BY BoundsAssumption DEF TypeOK, UserActs, Fault, NoFault, FaultUnless

(* However a reconcile ends, the worker is idle and the queues are typed. *)
LEMMA ReturnTypes ==
  ASSUME TypeOK, key \in Routings,
         ReturnError \/ ReturnRequeueAfter \/ ReturnDone
  PROVE  WorkerTypes' /\ RequeueTypes'
<1>1. WorkerTypes'
  BY Zenon DEF ReturnError, ReturnRequeueAfter, ReturnDone, GoIdle, WorkerTypes
<1>2. RequeueTypes'
  BY DEF ReturnError, ReturnRequeueAfter, ReturnDone, requeues, TypeOK, RequeueTypes
<1> QED BY <1>1, <1>2

(* However it goes on, it keeps its key and has a typed copy. *)
LEMMA MoveTypes ==
  ASSUME TypeOK, pc # "idle"
  PROVE  /\ key \in Routings /\ mine \in Objects
         /\ \A p \in {"checkConfig", "checkNamespace", "ensureCUDN", "listRemaining",
                      "deleteRA", "removeFinalizer"} :
               Goto(p) => WorkerTypes' /\ RequeueTypes'
         /\ \A obj \in Objects :
               GotoWriteStatus(obj) \/ SetDegraded(obj) => WorkerTypes' /\ RequeueTypes'
         /\ FailedCUDN \in Objects /\ FailedRA \in Objects
<1>1. key \in Routings /\ mine \in Objects
  BY DEF TypeOK, WorkerTypes
<1>2. ASSUME NEW p \in {"checkConfig", "checkNamespace", "ensureCUDN", "listRemaining",
                      "deleteRA", "removeFinalizer"}, Goto(p)
      PROVE  WorkerTypes' /\ RequeueTypes'
  BY <1>1, <1>2 DEF Goto, requeues, TypeOK, WorkerTypes, RequeueTypes
<1>3. ASSUME NEW obj \in Objects, GotoWriteStatus(obj)
      PROVE  WorkerTypes' /\ RequeueTypes'
  <2>1. mine' \in Objects
    BY <1>1, <1>3, ObjectEdits, Zenon DEF GotoWriteStatus
  <2> QED BY <1>1, <1>3, <2>1 DEF GotoWriteStatus, requeues, TypeOK, WorkerTypes, RequeueTypes
<1>4. ASSUME NEW obj \in Objects, SetDegraded(obj)
      PROVE  WorkerTypes' /\ RequeueTypes'
  BY <1>3, <1>4, ObjectEdits, Zenon DEF SetDegraded
<1>5. FailedCUDN \in Objects /\ FailedRA \in Objects
  BY <1>1, ObjectEdits, Zenon DEF FailedCUDN, FailedRA
<1> QED BY <1>1, <1>2, <1>3, <1>4, <1>5

(* Users write one object, and touch nothing of the worker but freshness. *)
LEMMA UserSteps ==
  ASSUME TypeOK, NEW r \in Routings, NEW n \in Networks,
         CreateRouting(r, n) \/ EditRouting(r, n) \/ DeleteRouting(r)
  PROVE  /\ \E obj \in Objects \cup {Absent} : Put(r, obj)
         /\ UNCHANGED <<cudns, ra, cache, cudnEvents, raEvent, queue, delayed, pc, key, mine>>
         /\ fresh' = (fresh /\ key # r)
         /\ TypeOK'
<1>1. /\ UNCHANGED <<cudns, ra, cache, cudnEvents, raEvent, queue, delayed, pc, key, mine>>
      /\ fresh' = (fresh /\ key # r) /\ UserActs
  BY DEF CreateRouting, EditRouting, DeleteRouting, Outdate, requeues
<1>2. \E obj \in Objects \cup {Absent} : Put(r, obj)
  <2>1. CASE CreateRouting(r, n)
    BY <2>1, NewObjectType DEF CreateRouting
  <2>2. CASE EditRouting(r, n)
    <3>1. routings[r] \in Objects
      BY <2>2 DEF EditRouting, TypeOK, ApiTypes
    <3> QED BY <2>2, <3>1, ObjectEdits, Zenon DEF EditRouting
  <2>3. CASE DeleteRouting(r)
    <3>1. routings[r] \in Objects
      BY <2>3 DEF DeleteRouting, TypeOK, ApiTypes
    <3> QED BY <2>3, <3>1, ObjectEdits, Zenon DEF DeleteRouting
  <2> QED BY <2>1, <2>2, <2>3
<1>3. /\ routings' \in [Routings -> Objects \cup {Absent}]
      /\ watch' \in Seq(Entries) /\ Len(watch') <= MaxLag
  BY <1>1, <1>2, PutSteps
<1>4. ApiTypes' /\ EventTypes'
  BY <1>1, <1>3 DEF TypeOK, ApiTypes, EventTypes, Entries
<1>5. RequeueTypes'
  BY <1>1 DEF TypeOK, RequeueTypes
<1>6. WorkerTypes'
  <2>1. fresh' \in BOOLEAN
    BY <1>1
  <2> QED BY <1>1, <2>1 DEF TypeOK, WorkerTypes
<1>7. edits' \in 0..MaxEdits /\ faults' \in 0..MaxFaults
  BY <1>1, BudgetTypes
<1> QED BY <1>1, <1>2, <1>4, <1>5, <1>6, <1>7 DEF TypeOK

(* A fresh copy is the copy of an object, so the worker's updates write    *)
(* objects.                                                                *)
LEMMA UpdateSteps ==
  ASSUME TypeOK, FreshCopy, NEW ok \in BOOLEAN,
         AddFinalizer(ok) \/ WriteStatus(ok) \/ RemoveFinalizer(ok)
  PROVE  /\ key \in Routings /\ routings[key] \in Objects /\ mine \in Objects
         /\ \/ UNCHANGED <<routings, watch>>
            \/ \E obj \in Objects \cup {Absent} : Put(key, obj)
         /\ UNCHANGED <<cudns, ra, cache, cudnEvents, raEvent>>
         /\ TypeOK'
<1>1. key \in Routings /\ mine \in Objects /\ pc # "idle" /\ fresh
  BY DEF AddFinalizer, WriteStatus, RemoveFinalizer, TypeOK, WorkerTypes
<1>2. routings[key] \in Objects
  BY <1>1 DEF FreshCopy, Exists, TypeOK, ApiTypes
<1>3. UNCHANGED <<cudns, ra, cache, cudnEvents, raEvent>> /\ FaultUnless(ok)
  BY DEF AddFinalizer, WriteStatus, RemoveFinalizer
<1>4. \/ UNCHANGED <<routings, watch>>
      \/ \E obj \in Objects \cup {Absent} : Put(key, obj)
  <2>1. CASE AddFinalizer(ok)
    BY <2>1, <1>2, ObjectEdits, Zenon DEF AddFinalizer
  <2>2. CASE WriteStatus(ok)
    BY <2>2, <1>1, <1>2, ObjectEdits, Zenon DEF WriteStatus
  <2>3. CASE RemoveFinalizer(ok)
    BY <2>3 DEF RemoveFinalizer
  <2> QED BY <2>1, <2>2, <2>3
<1>5. ApiTypes' /\ EventTypes'
  <2>1. CASE UNCHANGED <<routings, watch>>
    BY <2>1, <1>3 DEF TypeOK, ApiTypes, EventTypes
  <2>2. CASE \E obj \in Objects \cup {Absent} : Put(key, obj)
    <3>1. /\ routings' \in [Routings -> Objects \cup {Absent}]
          /\ watch' \in Seq(Entries) /\ Len(watch') <= MaxLag
      BY <1>1, <1>3, <2>2, PutSteps
    <3> QED BY <1>3, <3>1 DEF TypeOK, ApiTypes, EventTypes, Entries
  <2> QED BY <1>4, <2>1, <2>2
<1>6. WorkerTypes' /\ RequeueTypes'
  <2>1. CASE \/ ReturnError \/ ReturnRequeueAfter \/ ReturnDone
    BY <2>1, <1>1, ReturnTypes
  <2>2. CASE /\ mine' = [mine EXCEPT !.fin = TRUE] /\ pc' = "checkDuplicate"
             /\ UNCHANGED <<key, fresh, requeues>>
    <3>1. mine' \in Objects
      BY <2>2, <1>1, ObjectEdits, Zenon
    <3> QED BY <2>2, <1>1, <3>1 DEF TypeOK, WorkerTypes, RequeueTypes, requeues
  <2> QED BY <2>1, <2>2 DEF AddFinalizer, WriteStatus, RemoveFinalizer
<1>7. edits' \in 0..MaxEdits /\ faults' \in 0..MaxFaults
  BY <1>3, BudgetTypes
<1> QED BY <1>1, <1>2, <1>3, <1>4, <1>5, <1>6, <1>7 DEF TypeOK

(* The check of the config, whatever it costs to find the config not Ready. *)
ConfigChecked(ok) == (FaultUnless(ok) \/ NoFault) /\ ConfigSeen(ok)

(* The other calls leave the routings and their watch alone. *)
OtherCalls(ok) ==
    \/ CheckDuplicate \/ ConfigChecked(ok) \/ ValidateNamespaceLabels(ok)
    \/ EnsureCUDN(ok) \/ EnsureRouteAdvertisements(ok) \/ DeleteCUDN(ok)
    \/ ListRemaining \/ DeleteRouteAdvertisements(ok) \/ Conflict \/ CallFails

(* Calls that update no CUDNBgpRouting keep its versions and every type. *)
LEMMA OtherCallSteps ==
  ASSUME TypeOK, NEW ok \in BOOLEAN, OtherCalls(ok)
  PROVE  /\ key \in Routings /\ mine \in Objects /\ pc # "idle"
         /\ UNCHANGED <<routings, watch, cache>>
         /\ TypeOK'
<1>1. pc # "idle"
  BY DEF OtherCalls, CheckDuplicate, ConfigChecked, ConfigSeen, ValidateNamespaceLabels, EnsureCUDN,
         EnsureRouteAdvertisements, DeleteCUDN, ListRemaining,
         DeleteRouteAdvertisements, Conflict, CallFails, UpdateCalls
<1>2. key \in Routings /\ mine \in Objects
  BY <1>1, MoveTypes
<1>3. UNCHANGED <<routings, watch, cache>>
  BY DEF OtherCalls, CheckDuplicate, ConfigChecked, ConfigSeen, ValidateNamespaceLabels, EnsureCUDN,
         EnsureRouteAdvertisements, DeleteCUDN, ListRemaining,
         DeleteRouteAdvertisements, Conflict, CallFails, api, events
<1>4. edits' \in 0..MaxEdits /\ faults' \in 0..MaxFaults
  <2>1. Fault \/ NoFault \/ FaultUnless(ok)
    BY DEF OtherCalls, CheckDuplicate, ConfigChecked, ConfigSeen, ValidateNamespaceLabels, EnsureCUDN,
           EnsureRouteAdvertisements, DeleteCUDN, ListRemaining,
           DeleteRouteAdvertisements, Conflict, CallFails
  <2> QED BY <2>1, BudgetTypes
<1>5. ApiTypes' /\ EventTypes'
  <2>1. CASE UNCHANGED <<cudns, ra, cudnEvents, raEvent>>
    BY <1>3, <2>1 DEF TypeOK, ApiTypes, EventTypes
  <2>2. CASE /\ \E n \in Networks, c \in ManagedCUDNs \cup {Absent} : PutCUDN(n, c)
             /\ UNCHANGED <<ra, raEvent>>
    BY <1>3, <2>2 DEF TypeOK, ApiTypes, EventTypes, PutCUDN
  <2>3. CASE /\ \E x \in {"absent", "managed"} : PutRA(x)
             /\ UNCHANGED <<cudns, cudnEvents>>
    <3>1. raEvent' \in BOOLEAN
      BY <2>3 DEF PutRA
    <3> QED BY <1>3, <2>3, <3>1 DEF TypeOK, ApiTypes, EventTypes, PutRA
  <2>4. CASE EnsureCUDN(ok)
    <3>1. mine.net \in Networks /\ [by |-> key, gen |-> mine.gen] \in ManagedCUDNs
      BY <1>2 DEF Objects, ManagedCUDNs
    <3> QED BY <2>2, <2>4, <3>1 DEF EnsureCUDN
  <2>5. CASE DeleteCUDN(ok)
    <3>1. mine.net \in Networks
      BY <1>2 DEF Objects
    <3> QED BY <2>2, <2>5, <3>1 DEF DeleteCUDN
  <2>6. CASE EnsureRouteAdvertisements(ok) \/ DeleteRouteAdvertisements(ok)
    BY <2>3, <2>6 DEF EnsureRouteAdvertisements, DeleteRouteAdvertisements
  <2> QED BY <2>1, <2>4, <2>5, <2>6
          DEF OtherCalls, CheckDuplicate, ConfigChecked, ConfigSeen, ValidateNamespaceLabels,
              ListRemaining, Conflict, CallFails, api, events
<1>6. WorkerTypes' /\ RequeueTypes'
  <2>1. CASE CheckDuplicate \/ ValidateNamespaceLabels(ok)
    BY <1>1, <2>1, MoveTypes DEF CheckDuplicate, ValidateNamespaceLabels
  <2>2. CASE ConfigChecked(ok)
    BY <1>1, <1>2, <2>2, MoveTypes, ObjectEdits, Zenon DEF ConfigChecked, ConfigSeen
  <2>3. CASE EnsureCUDN(ok)
    <3>1. CASE SetDegraded(FailedCUDN)
      BY <1>1, <3>1, MoveTypes
    <3>2. CASE /\ mine' = [mine EXCEPT !.cudnCreated = "True"] /\ pc' = "ensureRA"
               /\ UNCHANGED <<key, fresh, requeues>>
      <4>1. mine' \in Objects
        BY <1>2, <3>2, ObjectEdits, Zenon
      <4> QED BY <1>2, <3>2, <4>1 DEF TypeOK, WorkerTypes, RequeueTypes, requeues
    <3> QED BY <2>3, <3>1, <3>2 DEF EnsureCUDN
  <2>4. CASE EnsureRouteAdvertisements(ok)
    BY <1>1, <1>2, <2>4, MoveTypes, ObjectEdits, Zenon DEF EnsureRouteAdvertisements
  <2>5. CASE DeleteCUDN(ok) \/ ListRemaining \/ DeleteRouteAdvertisements(ok)
    BY <1>1, <1>2, <2>5, MoveTypes, ReturnTypes
       DEF DeleteCUDN, ListRemaining, DeleteRouteAdvertisements
  <2>6. CASE Conflict \/ CallFails
    BY <1>1, <1>2, <2>6, MoveTypes, ReturnTypes DEF Conflict, CallFails
  <2> QED BY <2>1, <2>2, <2>3, <2>4, <2>5, <2>6 DEF OtherCalls
<1> QED BY <1>1, <1>2, <1>3, <1>4, <1>5, <1>6 DEF TypeOK

(* Drift, and the deliveries that only queue keys. *)
QuietStep ==
    \/ \E n \in Networks, c \in {Absent, Foreign} : DriftCUDN(n, c)
    \/ \E x \in {"absent", "foreign"} : DriftRA(x)
    \/ \E n \in Networks : DeliverCUDN(n)
    \/ DeliverRA
    \/ \E r \in Routings : DelayOver(r)

(* Outsiders, other deliveries and timers leave objects and worker alone. *)
LEMMA QuietSteps ==
  ASSUME TypeOK, QuietStep
  PROVE  /\ UNCHANGED <<routings, watch, cache, pc, key, mine, fresh>>
         /\ queue \subseteq queue'
         /\ \A r \in Routings : delayed'[r] = delayed[r] \/ r \in queue'
         /\ TypeOK'
<1>1. UNCHANGED <<routings, watch, cache, pc, key, mine, fresh>>
  BY DEF QuietStep, DriftCUDN, DriftRA, DeliverCUDN, DeliverRA, DelayOver, worker,
         api, events
<1>2. edits' \in 0..MaxEdits /\ faults' \in 0..MaxFaults
  <2>1. Fault \/ NoFault
    BY DEF QuietStep, DriftCUDN, DriftRA, DeliverCUDN, DeliverRA, DelayOver
  <2> QED BY <2>1, BudgetTypes
<1>3. WorkerTypes'
  BY <1>1 DEF TypeOK, WorkerTypes
<1>4. CASE \E n \in Networks, c \in {Absent, Foreign} : DriftCUDN(n, c)
  <2>1. ApiTypes' /\ EventTypes'
    BY <1>4, <1>1 DEF DriftCUDN, PutCUDN, TypeOK, ApiTypes, EventTypes
  <2> QED BY <1>4, <1>1, <1>2, <1>3, <2>1
          DEF DriftCUDN, TypeOK, RequeueTypes, requeues
<1>5. CASE \E x \in {"absent", "foreign"} : DriftRA(x)
  <2>1. raEvent' \in BOOLEAN
    BY <1>5 DEF DriftRA, PutRA
  <2>2. ApiTypes' /\ EventTypes'
    BY <1>5, <1>1, <2>1 DEF DriftRA, PutRA, TypeOK, ApiTypes, EventTypes
  <2> QED BY <1>5, <1>1, <1>2, <1>3, <2>2
          DEF DriftRA, TypeOK, RequeueTypes, requeues
<1>6. CASE \E n \in Networks : DeliverCUDN(n)
  <2>1. PICK n \in Networks : DeliverCUDN(n)
    BY <1>6
  <2>2. PICK keys \in MapCUDNToRouting(n) : queue' = queue \cup keys
    BY <2>1 DEF DeliverCUDN
  <2>3. keys \subseteq Routings
    BY <2>2 DEF MapCUDNToRouting, Claimants
  <2>4. ApiTypes' /\ EventTypes' /\ RequeueTypes'
    BY <2>1, <2>2, <2>3 DEF DeliverCUDN, TypeOK, ApiTypes, EventTypes, RequeueTypes, api
  <2> QED BY <1>1, <1>2, <1>3, <2>1, <2>2, <2>4 DEF DeliverCUDN, TypeOK
<1>7. CASE DeliverRA
  <2>1. ApiTypes' /\ EventTypes' /\ RequeueTypes'
    BY <1>7, Zenon DEF DeliverRA, MapRAToRouting, TypeOK, ApiTypes, EventTypes, RequeueTypes, api
  <2> QED BY <1>7, <1>1, <1>2, <1>3, <2>1 DEF DeliverRA, TypeOK
<1>8. CASE \E r \in Routings : DelayOver(r)
  <2>1. ApiTypes' /\ EventTypes' /\ RequeueTypes'
    BY <1>8 DEF DelayOver, TypeOK, ApiTypes, EventTypes, RequeueTypes, api, events
  <2>2. \A r \in Routings : delayed'[r] = delayed[r] \/ r \in queue'
    BY <1>8 DEF DelayOver, TypeOK, RequeueTypes
  <2> QED BY <1>8, <1>1, <1>2, <1>3, <2>1, <2>2 DEF DelayOver, TypeOK
<1> QED BY <1>4, <1>5, <1>6, <1>7, <1>8 DEF QuietStep

(* Reconcile, which reads the cached object, keeps every type. *)
LEMMA ReconcileTypes ==
  ASSUME TypeOK, NEW r \in Routings, Reconcile(r)
  PROVE  TypeOK'
<1>1. ApiTypes' /\ EventTypes' /\ RequeueTypes'
  BY DEF Reconcile, TypeOK, ApiTypes, EventTypes, RequeueTypes, api, events
<1>2. WorkerTypes'
  <2>1. CASE cache[r] = Absent
    BY <2>1 DEF Reconcile, TypeOK, WorkerTypes, worker
  <2>2. CASE cache[r] # Absent
    <3>1. cache[r] \in Objects
      BY <2>2 DEF TypeOK, EventTypes
    <3>2. fresh' \in BOOLEAN
      BY <2>2 DEF Reconcile
    <3>3. pc' \in {"deleteCUDN", "checkDuplicate", "addFinalizer"}
      BY <2>2 DEF Reconcile
    <3> QED BY <2>2, <3>1, <3>2, <3>3 DEF Reconcile, WorkerTypes
  <2> QED BY <2>1, <2>2
<1>3. edits' \in 0..MaxEdits /\ faults' \in 0..MaxFaults
  BY BudgetTypes DEF Reconcile
<1> QED BY <1>1, <1>2, <1>3 DEF TypeOK

(* After a restart nothing is pending and every object is queued. *)
LEMMA RestartSteps ==
  ASSUME TypeOK, Restart
  PROVE  /\ \A r \in Routings : ~Pending(r)' /\ Versions(r)' = {routings[r]}
         /\ TypeOK'
<1>1. watch' = << >> /\ cache' = routings /\ routings' = routings
  BY DEF Restart, api
<1>2. Len(watch') = 0 /\ 1..0 = {} /\ watch' \in Seq(Entries) /\ 0 <= MaxLag
  BY <1>1, BoundsAssumption
<1>3. \A r \in Routings : ~Pending(r)' /\ Versions(r)' = {routings[r]}
  BY <1>1, <1>2 DEF Pending, Versions
<1>4. ApiTypes' /\ EventTypes'
  BY <1>1, <1>2, Zenon DEF Restart, TypeOK, ApiTypes, EventTypes, Entries, api
<1>5. RequeueTypes' /\ WorkerTypes'
  BY Zenon DEF Restart, RequeueTypes, WorkerTypes, GoIdle
<1>6. edits' \in 0..MaxEdits /\ faults' \in 0..MaxFaults
  BY BudgetTypes DEF Restart
<1> QED BY <1>3, <1>4, <1>5, <1>6 DEF TypeOK

-----------------------------------------------------------------------------
(***************************************************************************)
(* The kinds of steps, by what they do to the routings and the worker.     *)
(***************************************************************************)
UserStep ==
    \E r \in Routings, n \in Networks :
        \/ n \in Claims[r] /\ (CreateRouting(r, n) \/ EditRouting(r, n))
        \/ DeleteRouting(r)

UpdateCall(ok) == AddFinalizer(ok) \/ WriteStatus(ok) \/ RemoveFinalizer(ok)

(* Nothing happens but to the budgets. *)
Elsewhere ==
    /\ UNCHANGED <<api, events, requeues, worker>>
    /\ edits' \in 0..MaxEdits /\ faults' \in 0..MaxFaults

(* A step of the controller alone, or of both controllers in one manager:  *)
(* the config may then be found not Ready without a fault, and what        *)
(* happens to it spends from the same budgets.                             *)
Step ==
    \/ [Next]_vars
    \/ \E ok \in BOOLEAN : NoFault /\ ConfigSeen(ok)
    \/ Elsewhere

(* Every step is of one of the kinds the lemmas are about. *)
LEMMA StepKinds ==
  ASSUME TypeOK, Step
  PROVE  \/ UserStep \/ QuietStep \/ DeliverRouting
         \/ \E r \in Routings : Reconcile(r)
         \/ \E ok \in BOOLEAN : UpdateCall(ok) \/ OtherCalls(ok)
         \/ Restart
         \/ Elsewhere
<1>1. ASSUME NEW r \in Routings, DeleteRouting(r) PROVE UserStep
  <2>1. routings[r] \in Objects
    BY <1>1 DEF DeleteRouting, TypeOK, ApiTypes
  <2>2. routings[r].net \in Networks
    BY <2>1 DEF Objects
  <2> QED BY <1>1, <2>2 DEF UserStep
<1>2. UNCHANGED vars => Elsewhere
  BY DEF vars, Elsewhere, TypeOK
<1>3. \A ok \in BOOLEAN : CheckConfig(ok) \/ (NoFault /\ ConfigSeen(ok)) => OtherCalls(ok)
  BY DEF CheckConfig, ConfigChecked, OtherCalls
<1>4. CASE Next
  BY <1>1, <1>3, <1>4, NextActions, Zenon
     DEF UserStep, QuietStep, UpdateCall, OtherCalls, Calls
<1> QED BY <1>2, <1>3, <1>4 DEF Step

(* Every step keeps every type. *)
LEMMA TypeStep ==
  ASSUME TypeOK, CacheFollows, FreshCopy, Step
  PROVE  TypeOK'
<1>1. CASE UserStep
  BY <1>1, UserSteps DEF UserStep
<1>2. CASE QuietStep
  BY <1>2, QuietSteps
<1>3. CASE DeliverRouting
  <2>1. ApiTypes' /\ EventTypes' /\ RequeueTypes' /\ WorkerTypes'
    BY <1>3, DeliverSteps
       DEF DeliverRouting, TypeOK, ApiTypes, EventTypes, RequeueTypes, WorkerTypes,
           Entries, api, worker
  <2>2. edits' \in 0..MaxEdits /\ faults' \in 0..MaxFaults
    BY <1>3, BudgetTypes DEF DeliverRouting
  <2> QED BY <2>1, <2>2 DEF TypeOK
<1>4. CASE \E r \in Routings : Reconcile(r)
  BY <1>4, ReconcileTypes
<1>5. CASE \E ok \in BOOLEAN : UpdateCall(ok) \/ OtherCalls(ok)
  BY <1>5, UpdateSteps, OtherCallSteps DEF UpdateCall
<1>6. CASE Restart
  BY <1>6, RestartSteps
<1>7. CASE Elsewhere
  BY <1>7 DEF Elsewhere, api, events, requeues, worker, TypeOK, ApiTypes, EventTypes,
              RequeueTypes, WorkerTypes
<1> QED BY <1>1, <1>2, <1>3, <1>4, <1>5, <1>6, <1>7, StepKinds

(* A call leaves the worker on its object or ends its reconcile; only a    *)
(* removed finalizer ends it without a retry or a timer.                   *)
Stays ==
    /\ key' = key /\ fresh' = fresh /\ UNCHANGED requeues /\ pc' # "idle"
    /\ mine'.net = mine.net /\ mine'.gen = mine.gen /\ mine'.del = mine.del
    /\ pc' = "writeStatus" => mine'.obs = mine'.gen

Returns ==
    /\ pc' = "idle" /\ key' = Absent /\ fresh' = FALSE /\ queue' = queue
    /\ \A o \in Routings \ {key} : delayed'[o] = delayed[o]

(* What a call of the worker does to its pc, key and copy. *)
LEMMA CallMoves ==
  ASSUME TypeOK, FreshCopy, NEW ok \in BOOLEAN, UpdateCall(ok) \/ OtherCalls(ok)
  PROVE  /\ key \in Routings
         /\ \/ Stays /\ ~WriteStatus(ok) /\ ~RemoveFinalizer(ok)
            \/ Returns /\ delayed'[key] = "backoff"
            \/ Returns /\ WriteStatus(ok) /\ ok /\ delayed'[key] # "none"
            \/ Returns /\ RemoveFinalizer(ok)
<1>1. key \in Routings /\ mine \in Objects
  BY UpdateSteps, OtherCallSteps DEF UpdateCall
<1>2. delayed \in [Routings -> {"none", "timer", "backoff"}]
  BY DEF TypeOK, RequeueTypes
<1>3. ReturnError => Returns /\ delayed'[key] = "backoff"
  BY <1>1, <1>2 DEF ReturnError, Returns, GoIdle
<1>4. ReturnRequeueAfter => Returns /\ delayed'[key] # "none"
  BY <1>1, <1>2 DEF ReturnRequeueAfter, Returns, GoIdle
<1>5. ReturnDone => Returns
  BY DEF ReturnDone, Returns, GoIdle, requeues
<1>6. \A p \in {"checkConfig", "checkNamespace", "ensureCUDN", "listRemaining",
                "deleteRA", "removeFinalizer"} : Goto(p) => Stays
  BY DEF Goto, Stays, requeues
<1>7. ASSUME NEW obj \in Objects, GotoWriteStatus(obj),
             obj.net = mine.net, obj.gen = mine.gen, obj.del = mine.del
      PROVE  Stays
  BY <1>1, <1>7 DEF GotoWriteStatus, Stays, requeues, Objects
<1>8. ASSUME NEW obj \in Objects, SetDegraded(obj),
             obj.net = mine.net, obj.gen = mine.gen, obj.del = mine.del
      PROVE  Stays
  <2> DEFINE o == [obj EXCEPT !.phase = "Degraded"]
  <2>1. o \in Objects /\ o.net = mine.net /\ o.gen = mine.gen /\ o.del = mine.del
    <3>1. o \in Objects
      BY ObjectEdits, Zenon
    <3>2. o.net = obj.net /\ o.gen = obj.gen /\ o.del = obj.del
      BY DEF Objects
    <3> HIDE DEF o
    <3> QED BY <1>8, <3>1, <3>2
  <2>2. GotoWriteStatus(o)
    BY <1>8 DEF SetDegraded
  <2> HIDE DEF o
  <2> QED BY <1>7, <2>1, <2>2
<1>9. SetDegraded(FailedCUDN) => Stays
  <2>1. FailedCUDN \in Objects
    BY <1>1, ObjectEdits, Zenon DEF FailedCUDN
  <2>2. FailedCUDN.net = mine.net /\ FailedCUDN.gen = mine.gen /\ FailedCUDN.del = mine.del
    BY <1>1 DEF FailedCUDN, Objects
  <2> QED BY <1>8, <2>1, <2>2
<1>10. SetDegraded(FailedRA) => Stays
  <2>1. FailedRA \in Objects
    BY <1>1, ObjectEdits, Zenon DEF FailedRA
  <2>2. FailedRA.net = mine.net /\ FailedRA.gen = mine.gen /\ FailedRA.del = mine.del
    BY <1>1 DEF FailedRA, Objects
  <2> QED BY <1>8, <2>1, <2>2
<1>11. CASE AddFinalizer(ok)
  <2>1. CASE ok
    BY <1>1, <1>11, <2>1
       DEF AddFinalizer, WriteStatus, RemoveFinalizer, Stays, Objects, requeues
  <2>2. CASE ~ok
    BY <1>1, <1>3, <1>11, <2>2 DEF AddFinalizer
  <2> QED BY <2>1, <2>2
<1>12. CASE WriteStatus(ok)
  BY <1>1, <1>3, <1>4, <1>12 DEF WriteStatus
<1>13. CASE RemoveFinalizer(ok)
  BY <1>1, <1>3, <1>5, <1>13 DEF RemoveFinalizer
<1>14. ASSUME OtherCalls(ok) PROVE Stays \/ ReturnError
  <2>1. CASE CheckDuplicate \/ ValidateNamespaceLabels(ok)
    BY <2>1, <1>6, <1>9 DEF CheckDuplicate, ValidateNamespaceLabels
  <2>2. CASE ConfigChecked(ok)
    <3> DEFINE o == [mine EXCEPT !.phase = "Pending", !.cudnCreated = "none",
                                 !.raCreated = "none"]
    <3>1. o \in Objects /\ o.net = mine.net /\ o.gen = mine.gen /\ o.del = mine.del
      <4>1. o \in Objects
        BY <1>1, ObjectEdits, Zenon
      <4>2. o.net = mine.net /\ o.gen = mine.gen /\ o.del = mine.del
        BY <1>1 DEF Objects
      <4> QED BY <4>1, <4>2
    <3>2. Goto("checkNamespace") \/ GotoWriteStatus(o)
      BY <2>2 DEF ConfigChecked, ConfigSeen
    <3> HIDE DEF o
    <3> QED BY <3>1, <3>2, <1>6, <1>7
  <2>3. CASE EnsureCUDN(ok)
    <3>1. CASE ok
      BY <1>1, <2>3, <3>1 DEF EnsureCUDN, Stays, Objects, requeues
    <3> QED BY <2>3, <3>1, <1>9 DEF EnsureCUDN
  <2>4. CASE EnsureRouteAdvertisements(ok)
    <3> DEFINE o == [mine EXCEPT !.phase = "Ready", !.raCreated = "True"]
    <3>1. o \in Objects /\ o.net = mine.net /\ o.gen = mine.gen /\ o.del = mine.del
      <4>1. o \in Objects
        BY <1>1, ObjectEdits, Zenon
      <4>2. o.net = mine.net /\ o.gen = mine.gen /\ o.del = mine.del
        BY <1>1 DEF Objects
      <4> QED BY <4>1, <4>2
    <3>2. SetDegraded(FailedRA) \/ GotoWriteStatus(o)
      BY <2>4 DEF EnsureRouteAdvertisements
    <3> HIDE DEF o
    <3> QED BY <3>1, <3>2, <1>7, <1>10
  <2>5. CASE DeleteCUDN(ok) \/ ListRemaining \/ DeleteRouteAdvertisements(ok)
    BY <2>5, <1>6 DEF DeleteCUDN, ListRemaining, DeleteRouteAdvertisements
  <2>6. CASE Conflict \/ CallFails
    BY <2>6, <1>9, <1>10 DEF Conflict, CallFails
  <2> QED BY <1>14, <2>1, <2>2, <2>3, <2>4, <2>5, <2>6 DEF OtherCalls
<1>15. CASE OtherCalls(ok)
  <2>1. pc \in UpdateCalls => Conflict \/ CallFails
    BY <1>15 DEF OtherCalls, CheckDuplicate, ConfigChecked, ConfigSeen, ValidateNamespaceLabels,
          EnsureCUDN, EnsureRouteAdvertisements, DeleteCUDN, ListRemaining,
          DeleteRouteAdvertisements, UpdateCalls
  <2>2. pc \in UpdateCalls => ReturnError
    BY <2>1 DEF Conflict, CallFails, UpdateCalls
  <2> QED BY <1>1, <1>3, <1>14, <1>15, <2>2 DEF WriteStatus, RemoveFinalizer, UpdateCalls
<1> QED BY <1>1, <1>11, <1>12, <1>13, <1>15 DEF UpdateCall

-----------------------------------------------------------------------------
(***************************************************************************)
(* The inductive invariant, conjunct by conjunct.                          *)
(***************************************************************************)
LEMMA SameVersions ==
  ASSUME UNCHANGED <<watch, cache>>
  PROVE  \A r \in Routings : Versions(r)' = Versions(r) /\ (Pending(r)' <=> Pending(r))
BY DEF Versions, Pending

(* Every step keeps the cache behind the server by pending events only. *)
LEMMA CacheFollowsStep ==
  ASSUME TypeOK, CacheFollows, FreshCopy, Step
  PROVE  CacheFollows'
<1>1. CASE UserStep
  <2>1. PICK r \in Routings, n \in Networks :
           CreateRouting(r, n) \/ EditRouting(r, n) \/ DeleteRouting(r)
    BY <1>1 DEF UserStep
  <2> QED BY <2>1, UserSteps, PutFollows
<1>2. CASE UNCHANGED <<routings, watch, cache>>
  BY <1>2, SameVersions DEF CacheFollows
<1>3. CASE DeliverRouting
  BY <1>3, DeliverSteps
<1>4. CASE \E ok \in BOOLEAN : UpdateCall(ok)
  <2>1. PICK ok \in BOOLEAN : UpdateCall(ok)
    BY <1>4
  <2> QED BY <1>2, <2>1, UpdateSteps, PutFollows DEF UpdateCall
<1>5. CASE Restart
  <2>1. watch' = << >> /\ Len(watch') = 0 /\ 1..0 = {}
    BY <1>5 DEF Restart
  <2>2. cache' = routings' /\ 1..Len(watch') = {}
    BY <1>5, <2>1 DEF Restart, api
  <2> QED BY <2>2 DEF CacheFollows
<1>6. CASE QuietStep
  BY <1>2, <1>6, QuietSteps
<1>7. CASE \E r \in Routings : Reconcile(r)
  BY <1>2, <1>7 DEF Reconcile, api, events
<1>8. CASE \E ok \in BOOLEAN : OtherCalls(ok)
  BY <1>2, <1>8, OtherCallSteps
<1>9. CASE Elsewhere
  BY <1>2, <1>9 DEF Elsewhere, api, events
<1> QED BY <1>1, <1>3, <1>4, <1>5, <1>6, <1>7, <1>8, <1>9, StepKinds

(* What an update by the worker leaves as it is. *)
LEMMA UpdateKeeps ==
  ASSUME TypeOK, FreshCopy, NEW ok \in BOOLEAN, UpdateCall(ok),
         NEW k \in Routings, k = key
  PROVE  /\ \A o \in Routings \ {k} :
               /\ routings'[o] = routings[o] /\ Versions(o)' = Versions(o)
               /\ Pending(o)' <=> Pending(o)
         /\ Pending(k) => Pending(k)'
         /\ \/ Versions(k)' = Versions(k) /\ routings'[k] = routings[k]
               /\ WriteStatus(ok)
            \/ Versions(k)' = Versions(k) \cup {routings'[k]} /\ Pending(k)'
         /\ AddFinalizer(ok) \/ WriteStatus(ok) =>
               /\ routings'[k] \in Objects
               /\ routings'[k].net = routings[k].net
               /\ routings'[k].gen = routings[k].gen
               /\ routings'[k].del = routings[k].del
         /\ AddFinalizer(ok) =>
               /\ routings'[k].phase = routings[k].phase
               /\ routings'[k].obs = routings[k].obs
         /\ WriteStatus(ok) =>
               routings'[k].phase = mine.phase /\ routings'[k].obs = mine.obs
         /\ RemoveFinalizer(ok) => routings'[k] = Absent
<1>1. /\ routings[k] \in Objects /\ mine \in Objects
      /\ cache' = cache
      /\ \/ UNCHANGED <<routings, watch>>
         \/ \E obj \in Objects \cup {Absent} : Put(k, obj)
  BY UpdateSteps DEF UpdateCall
<1>2. routings \in [Routings -> Objects \cup {Absent}]
  BY DEF TypeOK, ApiTypes
<1>3. ASSUME NEW obj \in Objects \cup {Absent}, Put(k, obj)
      PROVE  /\ routings'[k] = obj
             /\ \A o \in Routings \ {k} : routings'[o] = routings[o]
             /\ Versions(k)' = Versions(k) \cup {obj} /\ Pending(k)'
             /\ \A o \in Routings \ {k} :
                   Versions(o)' = Versions(o) /\ (Pending(o)' <=> Pending(o))
  <2>1. routings' = [routings EXCEPT ![k] = obj]
    BY <1>3 DEF Put
  <2>2. routings'[k] = obj /\ \A o \in Routings \ {k} : routings'[o] = routings[o]
    BY <1>1, <1>2, <2>1
  <2>3. UNCHANGED cache
    BY <1>1
  <2>4. /\ Versions(k)' = Versions(k) \cup {obj} /\ Pending(k)'
        /\ \A o \in Routings \ {k} :
              Versions(o)' = Versions(o) /\ (Pending(o)' <=> Pending(o))
    BY <1>1, <1>3, <2>3, PutSteps
  <2> QED BY <2>2, <2>4
<1>4. CASE AddFinalizer(ok)
  <2> DEFINE obj == [routings[k] EXCEPT !.fin = TRUE]
  <2>1. obj \in Objects /\ Put(k, obj)
    BY <1>1, <1>4, ObjectEdits, Zenon DEF AddFinalizer
  <2>2. /\ obj.net = routings[k].net /\ obj.gen = routings[k].gen
        /\ obj.del = routings[k].del
        /\ obj.phase = routings[k].phase /\ obj.obs = routings[k].obs
    BY <1>1 DEF Objects
  <2> HIDE DEF obj
  <2> QED BY <1>3, <1>4, <2>1, <2>2, Zenon DEF AddFinalizer, WriteStatus, RemoveFinalizer
<1>5. CASE RemoveFinalizer(ok)
  <2>1. Put(k, Absent)
    BY <1>5 DEF RemoveFinalizer
  <2> QED BY <1>3, <1>5, <2>1 DEF AddFinalizer, WriteStatus, RemoveFinalizer
<1>6. CASE WriteStatus(ok)
  <2> DEFINE new == [routings[k] EXCEPT !.phase = mine.phase, !.obs = mine.obs,
                       !.cudnCreated = mine.cudnCreated, !.raCreated = mine.raCreated]
  <2>1. new \in Objects
    BY <1>1, ObjectEdits, Zenon
  <2>2. /\ new.net = routings[k].net /\ new.gen = routings[k].gen
        /\ new.del = routings[k].del
        /\ new.phase = mine.phase /\ new.obs = mine.obs
    BY <1>1 DEF Objects
  <2>3. \/ new = routings[k] /\ UNCHANGED <<routings, watch>>
        \/ Put(k, new)
    BY <1>6 DEF WriteStatus
  <2>4. ~AddFinalizer(ok) /\ ~RemoveFinalizer(ok)
    BY <1>6 DEF AddFinalizer, WriteStatus, RemoveFinalizer
  <2> HIDE DEF new
  <2>5. CASE Put(k, new)
    BY <1>1, <1>3, <1>6, <2>1, <2>2, <2>4, <2>5
  <2>6. CASE new = routings[k] /\ UNCHANGED <<routings, watch>>
    <3>1. \A r \in Routings : Versions(r)' = Versions(r) /\ (Pending(r)' <=> Pending(r))
      BY <1>1, <2>6, SameVersions
    <3> QED BY <1>1, <1>6, <2>1, <2>2, <2>4, <2>6, <3>1
  <2> QED BY <2>3, <2>5, <2>6, Zenon
<1> QED BY <1>4, <1>5, <1>6, Zenon DEF UpdateCall

(* An update leaves all other objects alone. *)
LEMMA UpdateOthers ==
  ASSUME TypeOK, FreshCopy, NEW ok \in BOOLEAN, UpdateCall(ok),
         NEW o \in Routings, o # key
  PROVE  routings'[o] = routings[o]
<1>1. PICK k \in Routings : k = key
  BY CallMoves
<1>2. \A r \in Routings \ {k} : routings'[r] = routings[r]
  BY <1>1, UpdateKeeps, Zenon
<1> QED BY <1>1, <1>2, Zenon

(* What UpdateKeeps says of the versions, for the worker's object and for  *)
(* any other.                                                              *)
LEMMA UpdateVersions ==
  ASSUME TypeOK, FreshCopy, NEW ok \in BOOLEAN, UpdateCall(ok), NEW r \in Routings
  PROVE  /\ r # key => routings'[r] = routings[r] /\ Versions(r)' = Versions(r)
         /\ r = key => Versions(r)' \subseteq Versions(r) \cup {routings'[r]}
<1>1. PICK k \in Routings : k = key
  BY CallMoves
<1>2. CASE r # key
  <2>1. r \in Routings \ {k}
    BY <1>1, <1>2
  <2> QED BY <1>1, <1>2, <2>1, UpdateKeeps
<1>3. CASE r = key
  <2>1. \/ Versions(r)' = Versions(r)
        \/ Versions(r)' = Versions(r) \cup {routings'[r]}
    BY <1>3, UpdateKeeps
  <2> QED BY <1>3, <2>1
<1> QED BY <1>2, <1>3

(* Users make no routing Ready, and settle none. *)
LEMMA UserKeeps ==
  ASSUME TypeOK, ObservedGenerations, NEW r \in Routings, NEW n \in Networks,
         CreateRouting(r, n) \/ EditRouting(r, n) \/ DeleteRouting(r)
  PROVE  /\ \A o \in Routings \ {r} :
               /\ routings'[o] = routings[o] /\ Versions(o)' = Versions(o)
               /\ Pending(o)' <=> Pending(o)
         /\ Pending(r)' /\ Versions(r)' = Versions(r) \cup {routings'[r]}
         /\ \A o \in Routings : Ready(o)' => Ready(o)
         /\ \A o \in Routings : Settled(o)' =>
               Settled(o) /\ routings'[o].net = routings[o].net
         /\ \A o \in Routings : Exists(o)' => routings'[o].obs <= routings'[o].gen
<1>1. PICK obj \in Objects \cup {Absent} : Put(r, obj)
  BY UserSteps
<1>2. cache' = cache /\ routings \in [Routings -> Objects \cup {Absent}]
  BY UserSteps DEF TypeOK, ApiTypes
<1>3. routings' = [routings EXCEPT ![r] = obj]
  BY <1>1 DEF Put
<1>4. routings'[r] = obj /\ \A o \in Routings \ {r} : routings'[o] = routings[o]
  BY <1>2, <1>3
<1>5. /\ Versions(r)' = Versions(r) \cup {obj} /\ Pending(r)'
      /\ \A o \in Routings \ {r} :
            Versions(o)' = Versions(o) /\ (Pending(o)' <=> Pending(o))
  BY <1>1, <1>2, PutSteps
<1>6. /\ Ready(r)' => Ready(r)
      /\ Settled(r)' => Settled(r) /\ routings'[r].net = routings[r].net
      /\ Exists(r)' => routings'[r].obs <= routings'[r].gen
  <2>1. CASE CreateRouting(r, n)
    <3>1. routings'[r] = NewObject(n)
      BY <2>1, <1>2 DEF CreateRouting, Put
    <3>2. NewObject(n).phase = "" /\ NewObject(n).obs = 0 /\ NewObject(n).gen = 1
      BY DEF NewObject
    <3>3. routings'[r].phase = "" /\ routings'[r].obs = 0 /\ routings'[r].gen = 1
      BY <3>1, <3>2, Zenon
    <3>4. ~Ready(r)'
      BY <3>3, Zenon DEF Ready
    <3>5. routings'[r].obs <= routings'[r].gen
      <4>1. 0 <= 1
        OBVIOUS
      <4> QED BY <3>3, <4>1, Zenon
    <3> QED BY <3>4, <3>5 DEF Settled
  <2>2. CASE EditRouting(r, n)
    <3>1. routings[r] \in Objects /\ Exists(r)
      BY <2>2, <1>2 DEF EditRouting, Exists
    <3>2. routings'[r] = [routings[r] EXCEPT !.net = n, !.gen = @ + 1]
      BY <2>2, <1>2 DEF EditRouting, Put
    <3>3. /\ routings'[r].phase = routings[r].phase /\ routings'[r].obs = routings[r].obs
          /\ routings'[r].gen = routings[r].gen + 1
      <4>1. ASSUME NEW o \in Objects
            PROVE  LET e == [o EXCEPT !.net = n, !.gen = @ + 1]
                   IN  e.phase = o.phase /\ e.obs = o.obs /\ e.gen = o.gen + 1
        BY DEF Objects
      <4> QED BY <3>1, <3>2, <4>1
    <3>4. routings[r].obs \in 0..MaxGeneration /\ routings[r].gen \in 1..MaxGeneration
      BY <3>1, Zenon DEF Objects
    <3>5. routings[r].obs <= routings[r].gen
      BY <3>1, Zenon DEF ObservedGenerations
    <3>6. \A o \in 0..MaxGeneration, g \in 1..MaxGeneration :
             o <= g => o <= g + 1 /\ o # g + 1
      BY BoundsAssumption, SMT
    <3>7. /\ routings[r].obs <= routings[r].gen + 1
          /\ routings[r].obs # routings[r].gen + 1
      BY <3>4, <3>5, <3>6, Zenon
    <3>8. routings'[r].obs <= routings'[r].gen /\ routings'[r].obs # routings'[r].gen
      BY <3>3, <3>7, Zenon
    <3> QED BY <3>1, <3>3, <3>8, Zenon DEF Ready, Settled
  <2>3. CASE DeleteRouting(r)
    <3>1. routings[r] \in Objects /\ Exists(r)
      BY <2>3, <1>2 DEF DeleteRouting, Exists
    <3>2. \/ routings'[r] = Absent
          \/ routings'[r] = [routings[r] EXCEPT !.del = TRUE]
      BY <2>3, <1>2 DEF DeleteRouting, Put
    <3>3. \/ routings'[r] = Absent
          \/ /\ routings'[r].phase = routings[r].phase
             /\ routings'[r].obs = routings[r].obs
             /\ routings'[r].gen = routings[r].gen /\ routings'[r].net = routings[r].net
      BY <3>1, <3>2 DEF Objects
    <3> QED BY <3>1, <3>3 DEF Ready, Settled, Exists, ObservedGenerations
  <2> QED BY <2>1, <2>2, <2>3, Zenon
<1>7. \A o \in Routings \ {r} :
         /\ Ready(o)' => Ready(o)
         /\ Settled(o)' => Settled(o)
         /\ Exists(o)' => routings'[o].obs <= routings'[o].gen
  BY <1>4 DEF Ready, Settled, Exists, ObservedGenerations
<1> QED BY <1>4, <1>5, <1>6, <1>7, Zenon

(* Every write of an object outdates the copies taken before it. *)
LEMMA FreshCopyStep ==
  ASSUME TypeOK, CacheFollows, FreshCopy, ObservedGenerations, Step
  PROVE  FreshCopy'
<1> SUFFICES ASSUME fresh' PROVE FreshCopy'
  BY DEF FreshCopy
<1>0. key # Absent => key \in Routings /\ mine \in Objects
  BY DEF TypeOK, WorkerTypes
<1>1. CASE UserStep
  <2>1. PICK r \in Routings, n \in Networks :
           CreateRouting(r, n) \/ EditRouting(r, n) \/ DeleteRouting(r)
    BY <1>1 DEF UserStep
  <2>2. key' = key /\ mine' = mine /\ fresh /\ key # r
    BY <2>1, UserSteps, Zenon
  <2>3. key \in Routings
    BY <2>2, <1>0 DEF FreshCopy
  <2>4. PICK k \in Routings : k = key
    BY <2>3
  <2>5. routings'[k] = routings[k] /\ Versions(k)' = Versions(k)
    BY <2>1, <2>2, <2>4, UserKeeps
  <2> QED BY <2>2, <2>4, <2>5 DEF FreshCopy, Exists
<1>2. CASE /\ key' = key /\ mine'.net = mine.net /\ mine'.gen = mine.gen
           /\ mine'.del = mine.del /\ fresh /\ routings' = routings
           /\ \A r \in Routings : Versions(r)' \subseteq Versions(r)
  <2>1. PICK k \in Routings : k = key
    BY <1>0, <1>2 DEF FreshCopy
  <2>2. Versions(k)' \subseteq Versions(k)
    BY <1>2
  <2> QED BY <1>2, <2>1, <2>2 DEF FreshCopy, Exists
<1>3. CASE QuietStep
  BY <1>2, <1>3, QuietSteps, SameVersions, Zenon
<1>4. CASE DeliverRouting
  BY <1>2, <1>4, DeliverSteps, Zenon DEF DeliverRouting, worker, api
<1>5. CASE \E r \in Routings : Reconcile(r)
  <2>1. PICK r \in Routings : Reconcile(r)
    BY <1>5
  <2>2. UNCHANGED <<routings, watch, cache>>
    BY <2>1 DEF Reconcile, api, events
  <2>3. CASE cache[r] = Absent
    <3>1. UNCHANGED <<key, mine, fresh>>
      BY <2>1, <2>3, Zenon DEF Reconcile, worker
    <3> QED BY <1>2, <2>2, <3>1, SameVersions
  <2>4. CASE cache[r] # Absent
    <3>1. key' = r /\ mine' = cache[r] /\ ~Pending(r)
      BY <2>1, <2>4, Zenon DEF Reconcile
    <3>2. cache[r] = routings[r] /\ Versions(r) = {cache[r]}
      BY <3>1 DEF CacheFollows, Versions, Pending
    <3>3. Versions(r)' = {cache[r]}
      BY <2>2, <3>2, SameVersions
    <3>4. r # Absent
      BY AbsentAssumption
    <3> QED BY <2>2, <2>4, <3>1, <3>2, <3>3, <3>4 DEF FreshCopy, Exists
  <2> QED BY <2>3, <2>4
<1>6. ASSUME NEW ok \in BOOLEAN, OtherCalls(ok) PROVE FreshCopy'
  <2>1. Stays
    BY <1>6, CallMoves DEF Returns
  <2>2. UNCHANGED <<routings, watch, cache>>
    BY <1>6, OtherCallSteps
  <2> QED BY <1>2, <2>1, <2>2, SameVersions DEF Stays
<1>7. ASSUME NEW ok \in BOOLEAN, UpdateCall(ok) PROVE FreshCopy'
  <2>1. Stays /\ AddFinalizer(ok) /\ key \in Routings
    BY <1>7, CallMoves, Zenon DEF Returns, UpdateCall
  <2>2. PICK k \in Routings : k = key
    BY <2>1
  <2>3. fresh
    BY <2>1 DEF AddFinalizer
  <2>4. /\ routings'[k] \in Objects /\ routings'[k].net = routings[k].net
        /\ routings'[k].gen = routings[k].gen /\ routings'[k].del = routings[k].del
    BY <1>7, <2>1, <2>2, UpdateKeeps, Zenon
  <2>5. Versions(k)' \subseteq Versions(k) \cup {routings'[k]}
    BY <1>7, <2>2, UpdateKeeps
  <2>6. routings[k].del = mine.del
    BY <2>2, <2>3 DEF FreshCopy
  <2> QED BY <2>1, <2>2, <2>3, <2>4, <2>5, <2>6, AbsentAssumption
          DEF FreshCopy, Stays, Exists
<1>8. CASE Restart
  BY <1>8 DEF Restart, GoIdle
<1>9. CASE Elsewhere
  BY <1>2, <1>9, SameVersions DEF Elsewhere, api, events, worker
<1> QED BY <1>1, <1>3, <1>4, <1>5, <1>6, <1>7, <1>8, <1>9, StepKinds

(* Only users and the worker's updates write routings. *)
LEMMA StepEffects ==
  ASSUME TypeOK, CacheFollows, FreshCopy, Step
  PROVE  \/ \E r \in Routings, n \in Networks :
               CreateRouting(r, n) \/ EditRouting(r, n) \/ DeleteRouting(r)
         \/ \E ok \in BOOLEAN : UpdateCall(ok)
         \/ /\ routings' = routings
            /\ \A r \in Routings : Versions(r)' \subseteq Versions(r) \cup {routings[r]}
<1>1. CASE UserStep
  BY <1>1, Zenon DEF UserStep
<1>2. CASE UNCHANGED <<routings, watch, cache>>
  BY <1>2, SameVersions
<1>3. CASE DeliverRouting
  BY <1>3, DeliverSteps, Zenon DEF DeliverRouting, api
<1>4. CASE Restart
  BY <1>4, RestartSteps, Zenon DEF Restart, api
<1>5. CASE QuietStep
  BY <1>2, <1>5, QuietSteps, Zenon
<1>6. CASE \E r \in Routings : Reconcile(r)
  BY <1>2, <1>6 DEF Reconcile, api, events
<1>7. CASE \E ok \in BOOLEAN : OtherCalls(ok)
  BY <1>2, <1>7, OtherCallSteps
<1>8. CASE Elsewhere
  BY <1>2, <1>8 DEF Elsewhere, api, events
<1> QED BY <1>1, <1>3, <1>4, <1>5, <1>6, <1>7, <1>8, StepKinds

(* Steps that are not calls leave the worker alone or start or stop it. *)
LEMMA WorkerEffects ==
  ASSUME TypeOK, FreshCopy, Step
  PROVE  \/ UNCHANGED <<pc, key, mine>>
         \/ \E r \in Routings : Reconcile(r)
         \/ \E ok \in BOOLEAN : UpdateCall(ok) \/ OtherCalls(ok)
         \/ pc' = "idle"
<1>1. CASE UserStep
  BY <1>1, UserSteps DEF UserStep
<1>2. CASE QuietStep
  BY <1>2, QuietSteps
<1>3. CASE DeliverRouting
  BY <1>3 DEF DeliverRouting, worker
<1>4. CASE Restart
  BY <1>4 DEF Restart, GoIdle
<1>5. CASE Elsewhere
  BY <1>5 DEF Elsewhere, worker
<1> QED BY <1>1, <1>2, <1>3, <1>4, <1>5, StepKinds

(* Where Reconcile sends the worker. *)
LEMMA ReconcileMoves ==
  ASSUME NEW r \in Routings, Reconcile(r)
  PROVE  UNCHANGED <<pc, key, mine>> \/ pc' \in {"deleteCUDN", "checkDuplicate", "addFinalizer"}
BY DEF Reconcile, worker

(* No status write gets ahead of the spec it was computed from. *)
LEMMA ObservedGenerationsStep ==
  ASSUME TypeOK, CacheFollows, FreshCopy, ObservedGenerations, Step
  PROVE  ObservedGenerations'
<1>1. \A r \in Routings : Exists(r)' => routings'[r].obs <= routings'[r].gen
  <2>1. CASE routings' = routings
    BY <2>1 DEF ObservedGenerations, Exists
  <2>2. ASSUME NEW ok \in BOOLEAN, UpdateCall(ok), NEW r \in Routings, Exists(r)'
        PROVE  routings'[r].obs <= routings'[r].gen
    <3>1. CASE r # key
      <4>1. routings'[r] = routings[r]
        BY <2>2, <3>1, UpdateOthers, Zenon
      <4> QED BY <2>2, <4>1 DEF ObservedGenerations, Exists
    <3>2. CASE r = key /\ AddFinalizer(ok)
      <4>1. /\ routings'[r].obs = routings[r].obs /\ routings'[r].gen = routings[r].gen
        BY <2>2, <3>2, UpdateKeeps, Zenon
      <4>2. Exists(r)
        BY <3>2 DEF AddFinalizer, FreshCopy
      <4> QED BY <4>1, <4>2 DEF ObservedGenerations
    <3>3. CASE r = key /\ WriteStatus(ok)
      <4>1. /\ routings'[r].obs = mine.obs /\ routings'[r].gen = routings[r].gen
            /\ routings'[r] \in Objects
        BY <2>2, <3>3, UpdateKeeps, Zenon
      <4>2. mine.obs = mine.gen /\ mine.gen = routings[r].gen
        BY <3>3 DEF WriteStatus, FreshCopy, ObservedGenerations
      <4>3. routings'[r].gen \in 1..MaxGeneration /\ \A g \in 1..MaxGeneration : g <= g
        <5>1. routings'[r].gen \in 1..MaxGeneration
          BY <4>1, Zenon DEF Objects
        <5>2. \A g \in 1..MaxGeneration : g <= g
          BY BoundsAssumption, SMT
        <5> QED BY <5>1, <5>2, Zenon
      <4>4. routings'[r].gen <= routings'[r].gen
        BY <4>3, Zenon
      <4> QED BY <4>1, <4>2, <4>4
    <3>4. CASE r = key /\ RemoveFinalizer(ok)
      BY <2>2, <3>4, UpdateKeeps DEF Exists
    <3> QED BY <2>2, <3>1, <3>2, <3>3, <3>4 DEF UpdateCall
  <2> QED BY <2>1, <2>2, StepEffects, UserKeeps, Zenon
<1>2. pc' = "writeStatus" => mine'.obs = mine'.gen
  <2>1. CASE UNCHANGED <<pc, key, mine>>
    BY <2>1 DEF ObservedGenerations
  <2>2. CASE \E r \in Routings : Reconcile(r)
    BY <2>1, <2>2, ReconcileMoves
  <2>3. CASE \E ok \in BOOLEAN : UpdateCall(ok) \/ OtherCalls(ok)
    BY <2>3, CallMoves DEF Stays, Returns
  <2> QED BY <2>1, <2>2, <2>3, WorkerEffects
<1> QED BY <1>1, <1>2 DEF ObservedGenerations

(* A status write needs a current copy, so a Ready object is in the cache. *)
LEMMA ReadyIsCachedStep ==
  ASSUME TypeOK, CacheFollows, FreshCopy, ObservedGenerations, ReadyIsCached, Step
  PROVE  ReadyIsCached'
<1> SUFFICES ASSUME NEW r \in Routings
             PROVE  /\ Ready(r)' => Absent \notin Versions(r)'
                    /\ Settled(r)' => \A v \in Versions(r)' : v.net = routings'[r].net
  BY Zenon DEF ReadyIsCached
<1>1. /\ Ready(r) => Absent \notin Versions(r)
      /\ Settled(r) => \A v \in Versions(r) : v.net = routings[r].net
  BY DEF ReadyIsCached
<1>2. CASE \E s \in Routings, n \in Networks :
              CreateRouting(s, n) \/ EditRouting(s, n) \/ DeleteRouting(s)
  <2>1. PICK s \in Routings, n \in Networks :
           CreateRouting(s, n) \/ EditRouting(s, n) \/ DeleteRouting(s)
    BY <1>2
  <2>2. Versions(r)' \subseteq Versions(r) \cup {routings'[r]}
    BY <2>1, UserKeeps, Zenon
  <2>3. /\ Ready(r)' => Ready(r) /\ routings'[r] # Absent
        /\ Settled(r)' => Settled(r) /\ routings'[r].net = routings[r].net
    BY <2>1, UserKeeps, Zenon DEF Ready, Exists
  <2> QED BY <1>1, <2>2, <2>3
<1>3. ASSUME NEW ok \in BOOLEAN, UpdateCall(ok)
      PROVE  /\ Ready(r)' => Absent \notin Versions(r)'
             /\ Settled(r)' => \A v \in Versions(r)' : v.net = routings'[r].net
  <2>1. PICK k \in Routings : k = key
    BY <1>3, CallMoves
  <2>2. CASE r # k
    <3>1. routings'[r] = routings[r] /\ Versions(r)' = Versions(r)
      BY <1>3, <2>1, <2>2, UpdateVersions
    <3> QED BY <1>1, <3>1 DEF Ready, Settled, Exists
  <2>3. CASE r = k
    <3>1. fresh
      BY <1>3 DEF UpdateCall, AddFinalizer, WriteStatus, RemoveFinalizer
    <3>2. /\ routings[r].net = mine.net
          /\ \A v \in Versions(r) : v # Absent /\ v.net = mine.net
      BY <2>1, <2>3, <3>1 DEF FreshCopy
    <3>3. Versions(r)' \subseteq Versions(r) \cup {routings'[r]}
      BY <1>3, <2>1, <2>3, UpdateKeeps
    <3>4. routings'[r] = Absent \/ routings'[r].net = mine.net
      BY <1>3, <2>1, <2>3, <3>2, UpdateKeeps, Zenon DEF UpdateCall
    <3> QED BY <3>2, <3>3, <3>4 DEF Ready, Settled, Exists
  <2> QED BY <2>2, <2>3, Zenon
<1>4. CASE /\ routings' = routings
           /\ \A s \in Routings : Versions(s)' \subseteq Versions(s) \cup {routings[s]}
  BY <1>1, <1>4 DEF Ready, Settled, Exists
<1> QED BY <1>2, <1>3, <1>4, StepEffects

(* While the worker is on its object, no other gets Ready or settled. *)
LEMMA OthersKeep ==
  ASSUME TypeOK, CacheFollows, FreshCopy, ObservedGenerations, Step,
         NEW o \in Routings, o # key
  PROVE  /\ Ready(o)' => Ready(o)
         /\ Settled(o)' => Settled(o) /\ routings'[o].net = routings[o].net
<1>1. ASSUME NEW ok \in BOOLEAN, UpdateCall(ok) PROVE routings'[o] = routings[o]
  BY <1>1, UpdateOthers
<1>2. CASE routings'[o] = routings[o]
  BY <1>2, Zenon DEF Ready, Settled, Exists
<1> QED BY <1>1, <1>2, StepEffects, UserKeeps, Zenon

(* The part of a reconcile that relies on the duplicate check. *)
Checked ==
    \/ pc \in {"checkConfig", "checkNamespace", "ensureCUDN", "ensureRA"}
    \/ pc = "writeStatus" /\ mine.phase = "Ready"

(* Only CheckDuplicate, finding no claimant, makes a reconcile checked. *)
LEMMA CheckedSince ==
  ASSUME TypeOK, FreshCopy, NEW ok \in BOOLEAN, UpdateCall(ok) \/ OtherCalls(ok), Checked'
  PROVE  Checked \/ (CheckDuplicate /\ Claimants(mine.net) \ {key} = {})
<1>1. mine \in Objects
  BY UpdateSteps, OtherCallSteps DEF UpdateCall
<1>2. UpdateCall(ok) => pc' \in {"idle", "checkDuplicate"}
  BY DEF UpdateCall, AddFinalizer, WriteStatus, RemoveFinalizer, ReturnError,
         ReturnRequeueAfter, ReturnDone, GoIdle
<1>3. SetDegraded(FailedCUDN) \/ SetDegraded(FailedRA)
         => pc' = "writeStatus" /\ mine'.phase = "Degraded"
  BY <1>1, Zenon DEF SetDegraded, GotoWriteStatus, FailedCUDN, FailedRA, Objects
<1>4. CASE CheckDuplicate
  BY <1>3, <1>4 DEF CheckDuplicate, Checked
<1>5. CASE ConfigChecked(ok) \/ ValidateNamespaceLabels(ok)
           \/ EnsureCUDN(ok) \/ EnsureRouteAdvertisements(ok)
  <2>1. pc \in {"checkConfig", "checkNamespace", "ensureCUDN", "ensureRA"}
    BY <1>5, Zenon DEF ConfigChecked, ConfigSeen, ValidateNamespaceLabels, EnsureCUDN,
                       EnsureRouteAdvertisements
  <2> QED BY <2>1, Zenon DEF Checked
<1>6. CASE DeleteCUDN(ok) \/ ListRemaining \/ DeleteRouteAdvertisements(ok) \/ Conflict
  <2>1. pc' \in {"idle", "listRemaining", "removeFinalizer", "deleteRA"}
    BY <1>6 DEF DeleteCUDN, ListRemaining, DeleteRouteAdvertisements, Conflict,
                ReturnError, GoIdle, Goto
  <2> QED BY <2>1 DEF Checked
<1>7. CASE CallFails
  <2>1. ReturnError \/ SetDegraded(FailedCUDN) \/ SetDegraded(FailedRA)
    BY <1>7 DEF CallFails
  <2> QED BY <1>3, <2>1 DEF ReturnError, GoIdle, Checked
<1> QED BY <1>2, <1>4, <1>5, <1>6, <1>7 DEF OtherCalls, Checked

(* The one worker cannot settle another routing during its own reconcile. *)
LEMMA CheckStaysValidStep ==
  ASSUME TypeOK, CacheFollows, FreshCopy, ObservedGenerations, ReadyIsCached,
         CheckStaysValid, Step
  PROVE  CheckStaysValid'
<1> SUFFICES ASSUME Checked', NEW o \in Routings, o # key', Settled(o)'
             PROVE  routings'[o].net # mine'.net
  BY DEF CheckStaysValid, Checked
<1>1. CASE key' = key /\ mine'.net = mine.net /\ Checked
  <2>1. Settled(o) /\ routings'[o].net = routings[o].net
    BY <1>1, OthersKeep
  <2>2. routings[o].net # mine.net
    BY <1>1, <2>1 DEF CheckStaysValid, Checked
  <2> QED BY <1>1, <2>1, <2>2
<1>2. CASE UNCHANGED <<pc, key, mine>>
  BY <1>1, <1>2 DEF Checked
<1>3. CASE \E r \in Routings : Reconcile(r)
  BY <1>2, <1>3, ReconcileMoves DEF Checked
<1>4. ASSUME NEW ok \in BOOLEAN, UpdateCall(ok) \/ OtherCalls(ok)
      PROVE  routings'[o].net # mine'.net
  <2>1. Stays
    BY <1>4, CallMoves, Zenon DEF Returns, Checked
  <2>2. CASE Checked
    BY <1>1, <2>1, <2>2 DEF Stays
  <2>3. CASE CheckDuplicate /\ Claimants(mine.net) \ {key} = {}
    <3>1. Settled(o) /\ routings'[o].net = routings[o].net
      BY <2>1, OthersKeep DEF Stays
    <3>2. cache[o] \in Versions(o)
      BY DEF Versions
    <3>3. cache[o] # Absent /\ cache[o].net = routings[o].net
      BY <3>1, <3>2 DEF ReadyIsCached, Settled
    <3>4. cache[o].net # mine.net
      BY <2>1, <2>3, <3>3 DEF Claimants, Stays
    <3> QED BY <2>1, <3>1, <3>3, <3>4 DEF Stays
  <2> QED BY <1>4, <2>2, <2>3, CheckedSince
<1>5. CASE pc' = "idle"
  BY <1>5 DEF Checked
<1> QED BY <1>2, <1>3, <1>4, <1>5, WorkerEffects, Zenon

(* WriteStatus of a checked routing keeps Ready networks apart. *)
LEMMA NetworkExclusiveStep ==
  ASSUME TypeOK, CacheFollows, FreshCopy, ObservedGenerations, CheckStaysValid,
         NetworkExclusive, Step
  PROVE  NetworkExclusive'
<1>1. CASE \A o \in Routings : Settled(o)' =>
              Settled(o) /\ routings'[o].net = routings[o].net
  BY <1>1 DEF NetworkExclusive
<1>2. CASE routings' = routings
  BY <1>2 DEF NetworkExclusive, Settled, Ready, Exists
<1>3. ASSUME NEW ok \in BOOLEAN, UpdateCall(ok) PROVE NetworkExclusive'
  <2>1. PICK k \in Routings : k = key
    BY <1>3, CallMoves
  <2>2. \A o \in Routings \ {k} : Settled(o)' =>
           Settled(o) /\ routings'[o].net = routings[o].net
    BY <2>1, OthersKeep
  <2>3. CASE AddFinalizer(ok) \/ RemoveFinalizer(ok)
    <3>1. fresh /\ Exists(k)
      BY <2>1, <2>3 DEF AddFinalizer, RemoveFinalizer, FreshCopy
    <3>2. Settled(k)' => Settled(k) /\ routings'[k].net = routings[k].net
      BY <1>3, <2>1, <2>3, <3>1, UpdateKeeps, Zenon DEF Settled, Ready, Exists
    <3> QED BY <1>1, <2>2, <3>2
  <2>4. CASE WriteStatus(ok)
    <3>1. routings'[k].net = mine.net /\ routings'[k].phase = mine.phase
      BY <1>3, <2>1, <2>4, UpdateKeeps DEF WriteStatus, FreshCopy
    <3>2. ASSUME NEW o \in Routings, o # k, Settled(o)', Settled(k)'
          PROVE  routings'[o].net # routings'[k].net
      <4>1. Settled(o) /\ routings'[o].net = routings[o].net
        BY <2>2, <3>2
      <4>2. pc = "writeStatus" /\ mine.phase = "Ready"
        BY <2>4, <3>1, <3>2 DEF WriteStatus, Settled, Ready
      <4>3. routings[o].net # mine.net
        BY <2>1, <3>2, <4>1, <4>2 DEF CheckStaysValid
      <4> QED BY <3>1, <4>1, <4>3
    <3> QED BY <2>2, <3>2 DEF NetworkExclusive
  <2> QED BY <1>3, <2>3, <2>4 DEF UpdateCall
<1> QED BY <1>1, <1>2, <1>3, StepEffects, UserKeeps, Zenon

(* A list without another routing means that no other one is Ready. *)
LEMMA RAKeptStep ==
  ASSUME TypeOK, CacheFollows, FreshCopy, ObservedGenerations, ReadyIsCached, RAKept,
         Step
  PROVE  RAKept'
<1> SUFFICES ASSUME pc' = "deleteRA", NEW o \in Routings, o # key'
             PROVE  ~Ready(o)'
  BY DEF RAKept
<1>1. CASE UNCHANGED <<pc, key, mine>>
  BY <1>1, OthersKeep DEF RAKept
<1>2. CASE \E r \in Routings : Reconcile(r)
  BY <1>1, <1>2, ReconcileMoves
<1>3. ASSUME NEW ok \in BOOLEAN, UpdateCall(ok) \/ OtherCalls(ok) PROVE ~Ready(o)'
  <2>1. key' = key
    BY <1>3, CallMoves DEF Stays, Returns
  <2>2. ListRemaining
    BY <1>3 DEF UpdateCall, OtherCalls, AddFinalizer, WriteStatus, RemoveFinalizer,
         CheckDuplicate, ConfigChecked, ConfigSeen, ValidateNamespaceLabels, EnsureCUDN,
         EnsureRouteAdvertisements, DeleteCUDN, DeleteRouteAdvertisements, Conflict,
         CallFails, ReturnError, ReturnRequeueAfter, ReturnDone, GoIdle, Goto,
         GotoWriteStatus, SetDegraded
  <2>3. cache[o] = Absent
    BY <2>1, <2>2 DEF ListRemaining, Goto
  <2>4. ~Ready(o)
    BY <2>3 DEF ReadyIsCached, Versions
  <2> QED BY <2>1, <2>4, OthersKeep
<1> QED BY <1>1, <1>2, <1>3, WorkerEffects

(* A change of the RouteAdvertisements raises an event, and only its       *)
(* delivery or a restart takes the event away.                             *)
LEMMA RAEvents ==
  ASSUME TypeOK, Step
  PROVE  /\ ra = "managed" => ra' = "managed" \/ raEvent'
         /\ raEvent => raEvent' \/ DeliverRA \/ Restart
<1>1. CASE UNCHANGED <<ra, raEvent>>
  BY <1>1
<1>2. CASE \E x \in {"absent", "foreign", "managed"} : PutRA(x)
  BY <1>2, Zenon DEF PutRA
<1>3. CASE UserStep
  BY <1>1, <1>3 DEF UserStep, CreateRouting, EditRouting, DeleteRouting
<1>4. CASE QuietStep
  BY <1>1, <1>2, <1>4, Zenon DEF QuietStep, DriftCUDN, DriftRA, DeliverCUDN, DeliverRA,
                          DelayOver, api, events
<1>5. CASE DeliverRouting \/ \E r \in Routings : Reconcile(r)
  BY <1>1, <1>5, Zenon DEF DeliverRouting, Reconcile, api, events
<1>6. CASE \E ok \in BOOLEAN : UpdateCall(ok)
  BY <1>1, <1>6 DEF UpdateCall, AddFinalizer, WriteStatus, RemoveFinalizer
<1>7. CASE \E ok \in BOOLEAN : OtherCalls(ok)
  BY <1>1, <1>2, <1>7 DEF OtherCalls, CheckDuplicate, ConfigChecked, ConfigSeen,
       ValidateNamespaceLabels, EnsureCUDN, EnsureRouteAdvertisements, DeleteCUDN,
       ListRemaining, DeleteRouteAdvertisements, Conflict, CallFails, api, events
<1>8. CASE Restart
  BY <1>8 DEF Restart, api
<1>9. CASE Elsewhere
  BY <1>1, <1>9 DEF Elsewhere, api, events
<1> QED BY <1>3, <1>4, <1>5, <1>6, <1>7, <1>8, <1>9, StepKinds

(* Nothing is dropped from the work queue but by working on it. *)
LEMMA NoticedKept ==
  ASSUME TypeOK, CacheFollows, FreshCopy, ObservedGenerations, Step,
         NEW r \in Routings
  PROVE  /\ Noticed(r) =>
               \/ Noticed(r)' \/ ~Exists(r)'
               \/ Reconcile(r) /\ cache[r] = Absent
               \/ \E ok \in BOOLEAN : WriteStatus(ok) /\ ok /\ key = r /\ delayed'[r] # "none"
         /\ delayed[r] = "timer" =>
               Noticed(r)' \/ ~Exists(r)' \/ delayed'[r] = "timer"
<1>0. /\ TypeOK' /\ delayed'[r] \in {"none", "timer", "backoff"}
      /\ delayed[r] \in {"none", "timer", "backoff"} /\ r # Absent
  <2>1. TypeOK'
    BY TypeStep
  <2> QED BY <2>1, AbsentAssumption DEF TypeOK, RequeueTypes
<1>1. CASE UserStep
  <2>1. PICK s \in Routings, n \in Networks :
           CreateRouting(s, n) \/ EditRouting(s, n) \/ DeleteRouting(s)
    BY <1>1 DEF UserStep
  <2>2. UNCHANGED <<queue, delayed, key>> /\ (Pending(r) => Pending(r)')
    BY <2>1, UserSteps, UserKeeps, Zenon
  <2> QED BY <2>2, Zenon DEF Noticed
<1>2. CASE QuietStep
  <2>1. Pending(r)' <=> Pending(r)
    BY <1>2, QuietSteps, SameVersions, Zenon
  <2> QED BY <1>2, <2>1, QuietSteps, Zenon DEF Noticed
<1>3. CASE DeliverRouting
  BY <1>3, DeliverSteps, Zenon DEF DeliverRouting, Noticed, worker
<1>4. ASSUME NEW s \in Routings, Reconcile(s)
      PROVE  /\ Noticed(r) => Noticed(r)' \/ (Reconcile(r) /\ cache[r] = Absent)
             /\ delayed'[r] = delayed[r]
  <2>1. UNCHANGED <<watch, cache, delayed>> /\ queue' = queue \ {s} /\ key # r
    BY <1>0, <1>4 DEF Reconcile, events, TypeOK, WorkerTypes
  <2>2. Pending(r)' <=> Pending(r)
    BY <2>1, SameVersions
  <2>3. CASE s # r
    BY <2>1, <2>2, <2>3 DEF Noticed
  <2>4. CASE s = r
    BY <1>4, <2>1, <2>4 DEF Reconcile, Noticed
  <2> QED BY <2>3, <2>4
<1>5. ASSUME NEW ok \in BOOLEAN, UpdateCall(ok) \/ OtherCalls(ok)
      PROVE  /\ Noticed(r) =>
                   \/ Noticed(r)' \/ ~Exists(r)'
                   \/ WriteStatus(ok) /\ ok /\ key = r /\ delayed'[r] # "none"
             /\ delayed[r] = "timer" =>
                   Noticed(r)' \/ ~Exists(r)' \/ delayed'[r] = "timer"
  <2>1. PICK k \in Routings : k = key
    BY <1>5, CallMoves
  <2>2. queue' = queue
    BY <1>5, CallMoves, Zenon DEF Stays, Returns, requeues
  <2>3. Pending(r) => Pending(r)'
    BY <1>5, <2>1, UpdateKeeps, OtherCallSteps, SameVersions, Zenon
  <2>4. CASE Stays
    BY <2>2, <2>3, <2>4 DEF Stays, Noticed, requeues
  <2>5. CASE Returns /\ r # key
    BY <2>2, <2>3, <2>5 DEF Returns, Noticed
  <2>6. CASE r = key /\ delayed'[key] = "backoff"
    BY <2>6 DEF Noticed
  <2>7. CASE r = key /\ WriteStatus(ok) /\ ok /\ delayed'[key] # "none"
    BY <1>0, <2>7 DEF Noticed
  <2>8. CASE r = key /\ RemoveFinalizer(ok)
    <3>1. routings'[r] = Absent
      BY <2>8, UpdateKeeps DEF UpdateCall
    <3> QED BY <3>1 DEF Exists
  <2> QED BY <1>5, <2>4, <2>5, <2>6, <2>7, <2>8, CallMoves, Zenon
<1>6. CASE Restart
  <2>1. Exists(r)' => r \in queue'
    BY <1>6 DEF Restart, Exists, api
  <2> QED BY <2>1 DEF Noticed
<1>7. CASE Elsewhere
  <2>1. Pending(r)' <=> Pending(r)
    BY <1>7, SameVersions DEF Elsewhere, events
  <2> QED BY <1>7, <2>1 DEF Elsewhere, requeues, worker, Noticed
<1> QED BY <1>1, <1>2, <1>3, <1>4, <1>5, <1>6, <1>7, StepKinds, Zenon
        DEF DeliverRouting

(* Every way a reconcile ends leaves a retry, a timer or an event. *)
LEMMA NeverForgottenStep ==
  ASSUME TypeOK, CacheFollows, FreshCopy, ObservedGenerations, NeverForgotten, Step
  PROVE  NeverForgotten'
<1> SUFFICES ASSUME NEW r \in Routings, Exists(r)'
             PROVE  Noticed(r)' \/ delayed'[r] = "timer"
  BY DEF NeverForgotten
<1>1. delayed'[r] \in {"none", "timer", "backoff"}
  BY TypeStep DEF TypeOK, RequeueTypes
<1>2. CASE Exists(r)
  <2>1. Noticed(r) \/ delayed[r] = "timer"
    BY <1>2 DEF NeverForgotten
  <2>2. CASE Reconcile(r) /\ cache[r] = Absent
    <3>1. Pending(r)
      BY <1>2, <2>2 DEF CacheFollows, Exists
    <3>2. UNCHANGED <<watch, cache>>
      BY <2>2 DEF Reconcile, events
    <3> QED BY <3>1, <3>2, SameVersions DEF Noticed
  <2>3. CASE delayed'[r] # "none"
    BY <1>1, <2>3 DEF Noticed
  <2> QED BY <2>1, <2>2, <2>3, NoticedKept
<1>3. CASE ~Exists(r)
  <2>1. CASE routings' = routings
    BY <1>3, <2>1 DEF Exists
  <2>2. ASSUME NEW s \in Routings, NEW n \in Networks,
               CreateRouting(s, n) \/ EditRouting(s, n) \/ DeleteRouting(s)
        PROVE  Pending(r)'
    BY <1>3, <2>2, UserKeeps, Zenon DEF Exists
  <2>3. ASSUME NEW ok \in BOOLEAN, UpdateCall(ok) PROVE FALSE
    <3>1. Exists(key) /\ key \in Routings
      BY <2>3, CallMoves, Zenon
         DEF UpdateCall, AddFinalizer, WriteStatus, RemoveFinalizer, FreshCopy
    <3> QED BY <1>3, <2>3, <3>1, UpdateKeeps DEF Exists
  <2> QED BY <2>1, <2>2, <2>3, StepEffects, Zenon DEF Noticed
<1> QED BY <1>2, <1>3

(* After EnsureRouteAdvertisements a drift raises an event before Ready. *)
LEMMA ReadyToBeTrueStep ==
  ASSUME TypeOK, CacheFollows, FreshCopy, ReadyToBeTrue, Step
  PROVE  ReadyToBeTrue'
<1> SUFFICES ASSUME pc' = "writeStatus", mine'.phase = "Ready", fresh'
             PROVE  ra' = "managed" \/ raEvent' \/ key' \in queue'
  BY DEF ReadyToBeTrue
<1>1. CASE /\ UNCHANGED <<pc, key, mine>> /\ fresh /\ queue \subseteq queue'
  <2>1. ra = "managed" \/ raEvent \/ key \in queue
    BY <1>1 DEF ReadyToBeTrue
  <2>2. CASE DeliverRA
    <3>1. PICK k \in Routings : k = key
      BY <1>1 DEF TypeOK, WorkerTypes
    <3>2. cache[k] # Absent
      BY <1>1, <3>1 DEF FreshCopy, Versions
    <3> QED BY <1>1, <2>2, <3>1, <3>2 DEF DeliverRA, MapRAToRouting
  <2>3. CASE Restart
    BY <2>3 DEF Restart, GoIdle
  <2> QED BY <1>1, <2>1, <2>2, <2>3, RAEvents
<1>2. CASE UserStep
  <2>1. UNCHANGED <<pc, key, mine, queue>> /\ fresh
    BY <1>2, UserSteps, Zenon DEF UserStep
  <2> QED BY <1>1, <2>1
<1>3. CASE QuietStep
  BY <1>1, <1>3, QuietSteps, Zenon
<1>4. CASE DeliverRouting
  BY <1>1, <1>4 DEF DeliverRouting, worker
<1>5. CASE \E r \in Routings : Reconcile(r)
  <2>1. pc = "idle"
    BY <1>5 DEF Reconcile
  <2> QED BY <1>5, <2>1, ReconcileMoves
<1>6. ASSUME NEW ok \in BOOLEAN, UpdateCall(ok) \/ OtherCalls(ok) PROVE ra' = "managed"
  <2>1. mine \in Objects
    BY <1>6, UpdateSteps, OtherCallSteps DEF UpdateCall
  <2>2. ~SetDegraded(FailedCUDN) /\ ~SetDegraded(FailedRA)
    BY <2>1, Zenon DEF SetDegraded, GotoWriteStatus, FailedCUDN, FailedRA, Objects
  <2>3. EnsureRouteAdvertisements(ok)
    <3>1. ~ReturnError /\ ~ReturnRequeueAfter /\ ~ReturnDone
      BY DEF ReturnError, ReturnRequeueAfter, ReturnDone, GoIdle
    <3>2. \A p \in {"checkConfig", "checkNamespace", "ensureCUDN", "listRemaining",
                    "deleteRA", "removeFinalizer"} : ~Goto(p)
      BY Zenon DEF Goto
    <3>3. ~ConfigChecked(ok)
      BY <2>1, <3>2, Zenon DEF ConfigChecked, ConfigSeen, GotoWriteStatus, Objects
    <3> QED BY <1>6, <2>2, <3>1, <3>2, <3>3
            DEF UpdateCall, OtherCalls, AddFinalizer, WriteStatus, RemoveFinalizer,
                CheckDuplicate, ValidateNamespaceLabels, EnsureCUDN, DeleteCUDN,
                ListRemaining, DeleteRouteAdvertisements, Conflict, CallFails
  <2> QED BY <2>3 DEF EnsureRouteAdvertisements, PutRA
<1>7. CASE Restart
  BY <1>7 DEF Restart, GoIdle
<1>8. CASE Elsewhere
  BY <1>1, <1>8 DEF Elsewhere, worker, requeues
<1> QED BY <1>2, <1>3, <1>4, <1>5, <1>6, <1>7, <1>8, StepKinds

(* Every change of the RouteAdvertisements reaches every Ready routing. *)
LEMMA RADriftNoticedStep ==
  ASSUME TypeOK, CacheFollows, FreshCopy, ObservedGenerations, ReadyIsCached,
         ReadyToBeTrue, RADriftNoticed, Step
  PROVE  RADriftNoticed'
<1> SUFFICES ASSUME NEW r \in Routings, Ready(r)', ra' # "managed"
             PROVE  Noticed(r)' \/ raEvent'
  BY DEF RADriftNoticed
<1>1. ASSUME NEW ok \in BOOLEAN, WriteStatus(ok), key = r
      PROVE  Noticed(r)' \/ raEvent'
  <2>1. CASE Pending(r)'
    BY <2>1 DEF Noticed
  <2>2. CASE ~Pending(r)'
    <3>1. mine.phase = "Ready"
      BY <1>1, UpdateKeeps DEF UpdateCall, Ready
    <3>2. ra = "managed" \/ raEvent \/ r \in queue
      BY <1>1, <3>1 DEF WriteStatus, ReadyToBeTrue
    <3>3. UNCHANGED <<ra, raEvent, queue>>
      BY <1>1 DEF WriteStatus, ReturnRequeueAfter, ReturnError
    <3> QED BY <3>2, <3>3 DEF Noticed
  <2> QED BY <2>1, <2>2
<1>2. CASE ~\E ok \in BOOLEAN : WriteStatus(ok) /\ key = r
  <2>1. Ready(r)
    <3>1. CASE r # key
      BY <3>1, OthersKeep
    <3>2. ASSUME NEW ok \in BOOLEAN, UpdateCall(ok), r = key PROVE Ready(r)
      <4>1. AddFinalizer(ok) \/ RemoveFinalizer(ok)
        BY <1>2, <3>2 DEF UpdateCall
      <4>2. AddFinalizer(ok) /\ routings'[r].phase = routings[r].phase
        BY <3>2, <4>1, UpdateKeeps DEF Ready, Exists
      <4> QED BY <3>2, <4>2 DEF AddFinalizer, FreshCopy, Ready
    <3>3. CASE routings' = routings
      BY <3>3 DEF Ready, Exists
    <3> QED BY <3>1, <3>2, <3>3, StepEffects, UserKeeps, Zenon
  <2>2. cache[r] # Absent
    BY <2>1, Zenon DEF ReadyIsCached, Versions
  <2>3. CASE Noticed(r)
    BY <1>2, <2>2, <2>3, NoticedKept DEF Ready
  <2>4. CASE ra = "managed"
    BY <2>4, RAEvents
  <2>5. CASE raEvent
    <3>1. CASE DeliverRA
      BY <2>2, <3>1 DEF DeliverRA, MapRAToRouting, Noticed
    <3>2. CASE Restart
      BY <2>1, <3>2 DEF Restart, Noticed, Ready, Exists
    <3> QED BY <2>5, <3>1, <3>2, RAEvents
  <2> QED BY <2>1, <2>3, <2>4, <2>5 DEF RADriftNoticed
<1> QED BY <1>1, <1>2

(* Whether a status is coherent depends on these three fields only. *)
LEMMA SameCoherent ==
  ASSUME NEW a, NEW b, a.phase = b.phase, a.cudnCreated = b.cudnCreated,
         a.raCreated = b.raCreated, Coherent(a)
  PROVE  Coherent(b)
BY Zenon DEF Coherent

(* Users keep the status; the worker's updates keep it or write its own. *)
LEMMA StatusCoherentStep ==
  ASSUME TypeOK, CacheFollows, FreshCopy, ObservedGenerations, CoherentToBe,
         StatusCoherent, Step
  PROVE  StatusCoherent'
<1> SUFFICES ASSUME NEW r \in Routings, Exists(r)' PROVE Coherent(routings'[r])
  BY Zenon DEF StatusCoherent, Coherent
<1>1. routings \in [Routings -> Objects \cup {Absent}]
  BY DEF TypeOK, ApiTypes
<1>2. CASE routings'[r] = routings[r]
  BY <1>2 DEF StatusCoherent, Exists
<1>3. CASE /\ Exists(r) /\ routings'[r].phase = routings[r].phase
           /\ routings'[r].cudnCreated = routings[r].cudnCreated
           /\ routings'[r].raCreated = routings[r].raCreated
  BY <1>3, SameCoherent DEF StatusCoherent
<1>4. ASSUME NEW s \in Routings, NEW n \in Networks,
             CreateRouting(s, n) \/ EditRouting(s, n) \/ DeleteRouting(s)
      PROVE  Coherent(routings'[r])
  <2>1. CASE r # s
    BY <1>2, <1>4, <2>1, UserKeeps, Zenon
  <2>2. CASE r = s /\ CreateRouting(s, n)
    <3>1. routings'[r] = NewObject(n)
      BY <1>1, <2>2 DEF CreateRouting, Put
    <3>2. /\ NewObject(n).phase = "" /\ NewObject(n).cudnCreated = "none"
          /\ NewObject(n).raCreated = "none"
      BY DEF NewObject
    <3> HIDE DEF NewObject
    <3>3. Coherent(NewObject(n))
      BY <3>2, Zenon DEF Coherent
    <3> QED BY <3>1, <3>3
  <2>3. CASE r = s /\ (EditRouting(s, n) \/ DeleteRouting(s))
    <3>1. routings[r] \in Objects /\ Exists(r)
      BY <1>1, <2>3 DEF EditRouting, DeleteRouting, Exists
    <3>2. \/ routings'[r] = [routings[r] EXCEPT !.net = n, !.gen = @ + 1]
          \/ routings'[r] = [routings[r] EXCEPT !.del = TRUE]
      BY <1>1, <2>3, Zenon DEF EditRouting, DeleteRouting, Put, Exists
    <3> QED BY <1>3, <3>1, <3>2, Zenon DEF Objects
  <2> QED BY <1>4, <2>1, <2>2, <2>3
<1>5. ASSUME NEW ok \in BOOLEAN, UpdateCall(ok) PROVE Coherent(routings'[r])
  <2>1. PICK k \in Routings : k = key
    BY <1>5, CallMoves
  <2>2. CASE r # k
    <3>1. routings'[r] = routings[r]
      BY <1>5, <2>1, <2>2, UpdateOthers
    <3> QED BY <1>2, <3>1
  <2>3. routings[k] \in Objects /\ mine \in Objects /\ Exists(k)
    BY <1>5, <2>1, UpdateSteps, AbsentAssumption DEF UpdateCall, Exists
  <2>4. CASE r = k /\ AddFinalizer(ok)
    <3>1. routings'[r] = [routings[r] EXCEPT !.fin = TRUE]
      BY <1>1, <2>1, <2>4 DEF AddFinalizer, Put
    <3> QED BY <1>3, <2>3, <2>4, <3>1 DEF Objects
  <2>5. CASE r = k /\ WriteStatus(ok)
    <3> DEFINE new == [routings[k] EXCEPT !.phase = mine.phase, !.obs = mine.obs,
                         !.cudnCreated = mine.cudnCreated, !.raCreated = mine.raCreated]
    <3>1. routings'[r] = new
      BY <1>1, <2>1, <2>5 DEF WriteStatus, Put
    <3>2. /\ new.phase = mine.phase /\ new.cudnCreated = mine.cudnCreated
          /\ new.raCreated = mine.raCreated
      BY <2>3 DEF Objects
    <3> HIDE DEF new
    <3>3. Coherent(mine)
      BY <2>5 DEF WriteStatus, CoherentToBe
    <3> QED BY <3>1, <3>2, <3>3, SameCoherent
  <2>6. CASE r = k /\ RemoveFinalizer(ok)
    BY <1>5, <2>1, <2>6, UpdateKeeps, Zenon DEF Exists
  <2> QED BY <1>5, <2>2, <2>4, <2>5, <2>6 DEF UpdateCall
<1> QED BY <1>2, <1>4, <1>5, StepEffects

(* Every path to WriteStatus sets the conditions that its phase needs. *)
LEMMA CoherentToBeStep ==
  ASSUME TypeOK, FreshCopy, CoherentToBe, Step
  PROVE  CoherentToBe'
<1>1. CASE UNCHANGED <<pc, key, mine>>
  BY <1>1, Zenon DEF CoherentToBe, Coherent
<1>2. CASE pc' \notin {"ensureRA", "writeStatus"}
  BY <1>2 DEF CoherentToBe
<1>3. CASE \E r \in Routings : Reconcile(r)
  BY <1>1, <1>2, <1>3, ReconcileMoves
<1>4. ASSUME NEW ok \in BOOLEAN, UpdateCall(ok) PROVE CoherentToBe'
  <2>1. pc' \in {"idle", "checkDuplicate"}
    BY <1>4 DEF UpdateCall, AddFinalizer, WriteStatus, RemoveFinalizer, ReturnError,
                ReturnRequeueAfter, ReturnDone, GoIdle
  <2> QED BY <1>2, <2>1
<1>5. ASSUME NEW ok \in BOOLEAN, OtherCalls(ok) PROVE CoherentToBe'
  <2>1. mine \in Objects
    BY <1>5, OtherCallSteps
  <2>2. SetDegraded(FailedCUDN) \/ SetDegraded(FailedRA) => CoherentToBe'
    <3>1. SetDegraded(FailedCUDN) \/ SetDegraded(FailedRA) =>
             /\ pc' = "writeStatus" /\ mine'.phase = "Degraded"
             /\ mine'.cudnCreated = "False" \/ mine'.raCreated = "False"
      BY <2>1, Zenon DEF SetDegraded, GotoWriteStatus, FailedCUDN, FailedRA, Objects
    <3> QED BY <3>1, Zenon DEF CoherentToBe, Coherent
  <2>3. \/ ReturnError \/ Goto("checkConfig") \/ Goto("checkNamespace") \/ Goto("ensureCUDN")
        \/ Goto("listRemaining") \/ Goto("deleteRA") \/ Goto("removeFinalizer")
        => CoherentToBe'
    BY <1>2 DEF ReturnError, GoIdle, Goto
  <2>4. CASE CheckDuplicate \/ ValidateNamespaceLabels(ok) \/ Conflict \/ CallFails
    BY <2>2, <2>3, <2>4 DEF CheckDuplicate, ValidateNamespaceLabels, Conflict, CallFails
  <2>5. CASE DeleteCUDN(ok) \/ ListRemaining \/ DeleteRouteAdvertisements(ok)
    BY <2>3, <2>5 DEF DeleteCUDN, ListRemaining, DeleteRouteAdvertisements
  <2>6. CASE ConfigChecked(ok)
    <3> DEFINE o == [mine EXCEPT !.phase = "Pending", !.cudnCreated = "none",
                                 !.raCreated = "none"]
    <3>1. ASSUME GotoWriteStatus(o) PROVE CoherentToBe'
      <4>1. /\ pc' = "writeStatus" /\ mine'.phase = "Pending"
            /\ mine'.cudnCreated = "none" /\ mine'.raCreated = "none"
        BY <2>1, <3>1 DEF GotoWriteStatus, Objects
      <4> QED BY <4>1, Zenon DEF CoherentToBe, Coherent
    <3> QED BY <2>3, <2>6, <3>1 DEF ConfigChecked, ConfigSeen
  <2>7. CASE EnsureCUDN(ok)
    <3>1. CASE pc' = "ensureRA" /\ mine' = [mine EXCEPT !.cudnCreated = "True"]
      BY <2>1, <3>1 DEF CoherentToBe, Objects
    <3> QED BY <2>2, <2>7, <3>1 DEF EnsureCUDN
  <2>8. CASE EnsureRouteAdvertisements(ok)
    <3> DEFINE o == [mine EXCEPT !.phase = "Ready", !.raCreated = "True"]
    <3>1. ASSUME GotoWriteStatus(o) PROVE CoherentToBe'
      <4>1. mine.cudnCreated = "True"
        BY <2>8 DEF EnsureRouteAdvertisements, CoherentToBe
      <4>2. /\ pc' = "writeStatus" /\ mine'.phase = "Ready"
            /\ mine'.cudnCreated = "True" /\ mine'.raCreated = "True"
        BY <2>1, <3>1, <4>1 DEF GotoWriteStatus, Objects
      <4> QED BY <4>2, Zenon DEF CoherentToBe, Coherent
    <3> QED BY <2>2, <2>8, <3>1 DEF EnsureRouteAdvertisements
  <2> QED BY <1>5, <2>4, <2>5, <2>6, <2>7, <2>8 DEF OtherCalls
<1> QED BY <1>1, <1>2, <1>3, <1>4, <1>5, WorkerEffects

-----------------------------------------------------------------------------
(* The inductive invariant holds initially. *)
LEMMA InitIInv ==
  ASSUME Init
  PROVE  IInv
<1>1. Len(watch) = 0 /\ watch \in Seq(Entries) /\ 1..0 = {} /\ 0 <= MaxLag
  BY BoundsAssumption DEF Init
<1>2. \A r \in Routings : ~Exists(r) /\ ~Ready(r) /\ ~Settled(r)
  BY Zenon DEF Init, Exists, Ready, Settled
<1>3. ApiTypes /\ EventTypes /\ RequeueTypes
  BY <1>1, Zenon DEF Init, ApiTypes, EventTypes, RequeueTypes, Entries
<1>4. WorkerTypes
  BY Zenon DEF Init, WorkerTypes
<1>5. edits \in 0..MaxEdits /\ faults \in 0..MaxFaults
  BY BoundsAssumption DEF Init
<1>6. CacheFollows
  BY <1>1 DEF Init, CacheFollows
<1> QED BY <1>2, <1>3, <1>4, <1>5, <1>6
        DEF Init, IInv, TypeOK, FreshCopy, ObservedGenerations, ReadyIsCached,
            CheckStaysValid, ReadyToBeTrue, NeverForgotten, RAKept,
            NetworkExclusive, RADriftNoticed, CoherentToBe, StatusCoherent

(* The conjuncts of IInv hold together from one state to the next. *)
LEMMA IInvStep ==
  ASSUME IInv, Step
  PROVE  IInv'
<1>1. /\ TypeOK /\ CacheFollows /\ FreshCopy /\ ObservedGenerations
      /\ ReadyIsCached /\ CheckStaysValid /\ ReadyToBeTrue /\ CoherentToBe
      /\ NeverForgotten /\ RAKept /\ NetworkExclusive /\ RADriftNoticed
      /\ StatusCoherent
  BY DEF IInv
<1>2. TypeOK' /\ CacheFollows' /\ FreshCopy' /\ ObservedGenerations'
  BY <1>1, TypeStep, CacheFollowsStep, FreshCopyStep, ObservedGenerationsStep
<1>3. ReadyIsCached' /\ CheckStaysValid' /\ ReadyToBeTrue'
  BY <1>1, ReadyIsCachedStep, CheckStaysValidStep, ReadyToBeTrueStep
<1>4. NeverForgotten' /\ RAKept' /\ NetworkExclusive' /\ RADriftNoticed'
  BY <1>1, NeverForgottenStep, RAKeptStep, NetworkExclusiveStep, RADriftNoticedStep
<1>5. CoherentToBe' /\ StatusCoherent'
  BY <1>1, CoherentToBeStep, StatusCoherentStep
<1> QED BY <1>2, <1>3, <1>4, <1>5 DEF IInv

(* IInv holds in every reachable state: this is the argument all theorems  *)
(* below rest on.                                                          *)
THEOREM Inductive == Spec => []IInv
<1>1. Init => IInv
  BY InitIInv
<1>2. IInv /\ [Next]_vars => IInv'
  BY IInvStep DEF Step
<1> QED BY <1>1, <1>2, PTL DEF Spec

(* Types are kept by every action, the worker's writes included. *)
THEOREM TypeCorrect == Spec => []TypeOK
<1>1. IInv => TypeOK
  BY DEF IInv
<1> QED BY <1>1, Inductive, PTL

(* reconcileDelete never deletes the RouteAdvertisements under a Ready     *)
(* routing, although it counts the routings in a cache that may lag.       *)
THEOREM RAKeptAlways == Spec => []RAKept
<1>1. IInv => RAKept
  BY DEF IInv
<1> QED BY <1>1, Inductive, PTL

(* The duplicate pre-check, done on a lagging list, still keeps two        *)
(* routings from being Ready on one network for their current specs.       *)
THEOREM NetworkExclusiveAlways == Spec => []NetworkExclusive
<1>1. IInv => NetworkExclusive
  BY DEF IInv
<1> QED BY <1>1, Inductive, PTL

(* No error path, conflict, lost answer or restart loses an object.        *)
THEOREM NeverForgottenAlways == Spec => []NeverForgotten
<1>1. IInv => NeverForgotten
  BY DEF IInv
<1> QED BY <1>1, Inductive, PTL

(* Drift of the RouteAdvertisements reaches every Ready routing by events, *)
(* never by the timer alone.                                               *)
THEOREM RADriftNoticedAlways == Spec => []RADriftNoticed
<1>1. IInv => RADriftNoticed
  BY DEF IInv
<1> QED BY <1>1, Inductive, PTL

(* The conditions and the phase of a CUDNBgpRouting always agree, also     *)
(* after a reconcile that was cut short.                                   *)
THEOREM StatusCoherentAlways == Spec => []StatusCoherent
<1>1. IInv => StatusCoherent
  BY DEF IInv
<1> QED BY <1>1, Inductive, PTL

=============================================================================
