------------------------ MODULE RoutingClaimsProofs -------------------------
(***************************************************************************)
(* What RoutingController does right when networks are claimed sensibly.   *)
(* If no routing is renamed, no CUDN outlives the routing it was written   *)
(* for.  If no two routings claim one network, a routing deletes no CUDN   *)
(* but its own and hears of every change of it.                            *)
(***************************************************************************)
EXTENDS RoutingControllerProofs

(* A finalizer is only removed by RemoveFinalizer. *)
LEMMA UserHolds ==
  ASSUME TypeOK, NEW r \in Routings, NEW n \in Networks,
         \/ n \in Claims[r] /\ (CreateRouting(r, n) \/ EditRouting(r, n))
         \/ DeleteRouting(r)
  PROVE  /\ Held(r) => Held(r)'
         /\ routings'[r] # Absent /\ routings'[r].fin /\ ~routings'[r].del => Held(r)'
         /\ routings'[r] # Absent =>
               \/ routings'[r].net \in Claims[r]
               \/ (Exists(r) /\ routings'[r].net = routings[r].net)
<1>1. routings \in [Routings -> Objects \cup {Absent}]
  BY DEF TypeOK, ApiTypes
<1>2. CASE n \in Claims[r] /\ CreateRouting(r, n)
  <2>1. routings'[r] = NewObject(n) /\ ~Held(r)
    BY <1>1, <1>2 DEF CreateRouting, Put, Held, Exists
  <2>2. NewObject(n).net = n /\ NewObject(n).fin = FALSE
    BY DEF NewObject
  <2>3. routings'[r].net = n /\ ~routings'[r].fin
    BY <2>1, <2>2, Zenon
  <2> QED BY <1>2, <2>1, <2>3
<1>3. CASE n \in Claims[r] /\ EditRouting(r, n)
  <2>1. routings[r] \in Objects
    BY <1>1, <1>3 DEF EditRouting
  <2>2. routings'[r] = [routings[r] EXCEPT !.net = n, !.gen = @ + 1]
    BY <1>1, <1>3 DEF EditRouting, Put
  <2>3. routings'[r] \in Objects
    <3>1. n \in Networks /\ routings[r].gen < MaxGeneration
      BY <1>1, <1>3 DEF EditRouting
    <3>2. [routings[r] EXCEPT !.net = n, !.gen = @ + 1] \in Objects
      BY <2>1, <3>1, ObjectEdits, Zenon
    <3> QED BY <2>2, <3>2
  <2>4. routings'[r].fin = routings[r].fin /\ routings'[r].net = n
    BY <2>1, <2>2 DEF Objects
  <2>5. routings'[r].net \in Claims[r]
    BY <1>3, <2>4
  <2>6. (Held(r) => Held(r)') /\ (routings'[r].fin => Held(r)')
    BY <2>3, <2>4, AbsentAssumption DEF Held, Exists
  <2> QED BY <2>5, <2>6
<1>4. CASE DeleteRouting(r)
  <2>1. routings[r] \in Objects
    BY <1>1, <1>4 DEF DeleteRouting
  <2>2. CASE routings[r].fin
    <3>1. routings'[r] = [routings[r] EXCEPT !.del = TRUE]
      BY <1>1, <1>4, <2>2 DEF DeleteRouting, Put
    <3>2. routings'[r] \in Objects
      BY <2>1, <3>1, ObjectEdits, Zenon
    <3>3. routings'[r].fin = routings[r].fin /\ routings'[r].net = routings[r].net
      BY <2>1, <3>1 DEF Objects
    <3> QED BY <2>1, <2>2, <3>2, <3>3, AbsentAssumption DEF Held, Exists
  <2>3. CASE ~routings[r].fin
    <3>1. routings'[r] = Absent
      BY <1>1, <1>4, <2>3 DEF DeleteRouting, Put
    <3> QED BY <2>3, <3>1 DEF Held
  <2> QED BY <2>2, <2>3
<1> QED BY <1>2, <1>3, <1>4

(* Which updates of the worker leave the object held by the finalizer. *)
LEMMA UpdateHolds ==
  ASSUME TypeOK, FreshCopy, NEW ok \in BOOLEAN, NEW k \in Routings, k = key
  PROVE  /\ AddFinalizer(ok) => Held(k)'
         /\ WriteStatus(ok) => /\ Held(k) => Held(k)'
                               /\ routings'[k].fin => Held(k)'
<1>1. routings \in [Routings -> Objects \cup {Absent}]
  BY DEF TypeOK, ApiTypes
<1>2. ASSUME AddFinalizer(ok) PROVE Held(k)'
  <2>1. routings[k] \in Objects /\ routings'[k] \in Objects
    BY <1>2, UpdateSteps, UpdateKeeps DEF UpdateCall
  <2>2. routings'[k] = [routings[k] EXCEPT !.fin = TRUE]
    BY <1>1, <1>2 DEF AddFinalizer, Put
  <2>3. routings'[k].fin
    BY <2>1, <2>2 DEF Objects
  <2> QED BY <2>1, <2>3, AbsentAssumption DEF Held, Exists
<1>3. ASSUME WriteStatus(ok) PROVE (Held(k) => Held(k)') /\ (routings'[k].fin => Held(k)')
  <2>1. routings[k] \in Objects /\ mine \in Objects /\ routings'[k] \in Objects
    BY <1>3, UpdateSteps, UpdateKeeps DEF UpdateCall
  <2>2. routings'[k] = routings[k] \/
        routings'[k] = [routings[k] EXCEPT !.phase = mine.phase, !.obs = mine.obs,
                  !.cudnCreated = mine.cudnCreated, !.raCreated = mine.raCreated]
    BY <1>1, <1>3 DEF WriteStatus, Put
  <2>3. routings'[k].fin = routings[k].fin
    BY <2>1, <2>2, Zenon DEF Objects
  <2> QED BY <2>1, <2>3, AbsentAssumption DEF Held, Exists
<1> QED BY <1>2, <1>3

(* No step gives a routing a network that is not one of its claims. *)
LEMMA ClaimsKeptStep ==
  ASSUME TypeOK, CacheFollows, FreshCopy, ObservedGenerations, ClaimsKept, Step
  PROVE  ClaimsKept'
<1>1. ASSUME NEW r \in Routings, NEW v \in Versions(r)' \cup {routings'[r]}, v # Absent
      PROVE  v.net \in Claims[r]
  <2>1. v \in Versions(r) \cup {routings[r]} => v.net \in Claims[r]
    BY <1>1 DEF ClaimsKept
  <2>2. CASE UserStep
    <3>1. PICK s \in Routings, n \in Networks :
             \/ n \in Claims[s] /\ (CreateRouting(s, n) \/ EditRouting(s, n))
             \/ DeleteRouting(s)
      BY <2>2 DEF UserStep
    <3>2. CASE r # s
      BY <1>1, <2>1, <3>1, <3>2, UserKeeps
    <3>3. CASE r = s
      <4>1. v \in Versions(r) \/ v = routings'[r]
        BY <1>1, <3>1, <3>3, UserKeeps
      <4>2. Exists(r) => routings[r].net \in Claims[r]
        BY DEF ClaimsKept, Exists
      <4> QED BY <1>1, <2>1, <3>1, <3>3, <4>1, <4>2, UserHolds
    <3> QED BY <3>2, <3>3
  <2>3. ASSUME NEW ok \in BOOLEAN, UpdateCall(ok) PROVE v.net \in Claims[r]
    <3>1. PICK k \in Routings : k = key
      BY <2>3, CallMoves
    <3>2. CASE r # k
      BY <1>1, <2>1, <2>3, <3>1, <3>2, UpdateKeeps
    <3>3. CASE r = k
      <4>1. v \in Versions(r) \/ v = routings'[r]
        BY <1>1, <2>3, <3>1, <3>3, UpdateKeeps
      <4>2. routings'[r] = Absent \/ routings'[r].net = routings[r].net
        BY <2>3, <3>1, <3>3, UpdateKeeps DEF UpdateCall
      <4>3. routings[r] # Absent
        BY <2>3, <3>1, <3>3
           DEF UpdateCall, AddFinalizer, WriteStatus, RemoveFinalizer, FreshCopy, Exists
      <4>4. routings[r].net \in Claims[r]
        BY <4>3 DEF ClaimsKept
      <4> QED BY <1>1, <2>1, <4>1, <4>2, <4>4
    <3> QED BY <3>2, <3>3
  <2>4. CASE /\ routings' = routings
             /\ \A s \in Routings : Versions(s)' \subseteq Versions(s) \cup {routings[s]}
    BY <1>1, <2>1, <2>4
  <2>5. CASE ~UserStep
    <3>1. \/ \E ok \in BOOLEAN : UpdateCall(ok)
          \/ UNCHANGED <<routings, watch, cache>> \/ DeliverRouting \/ Restart
      <4>1. QuietStep => UNCHANGED <<routings, watch, cache>>
        BY QuietSteps
      <4>2. (\E s \in Routings : Reconcile(s)) => UNCHANGED <<routings, watch, cache>>
        BY DEF Reconcile, api, events
      <4>3. (\E ok \in BOOLEAN : OtherCalls(ok)) => UNCHANGED <<routings, watch, cache>>
        BY OtherCallSteps
      <4>4. Elsewhere => UNCHANGED <<routings, watch, cache>>
        BY DEF Elsewhere, api, events
      <4> QED BY <2>5, <4>1, <4>2, <4>3, <4>4, StepKinds
    <3>2. CASE UNCHANGED <<routings, watch, cache>>
      BY <2>4, <3>2, SameVersions
    <3>3. CASE DeliverRouting
      BY <2>4, <3>3, DeliverSteps DEF DeliverRouting, api
    <3>4. CASE Restart
      BY <2>4, <3>4, RestartSteps, Zenon DEF Restart, api
    <3> QED BY <2>3, <3>1, <3>2, <3>3, <3>4
  <2> QED BY <2>2, <2>5
<1>2. key' # Absent => mine'.net \in Claims[key']
  <2>1. CASE UNCHANGED <<pc, key, mine>>
    BY <2>1 DEF ClaimsKept
  <2>2. ASSUME NEW r \in Routings, Reconcile(r)
        PROVE  key' # Absent => mine'.net \in Claims[key']
    <3>1. cache[r] # Absent => cache[r].net \in Claims[r]
      BY DEF ClaimsKept, Versions
    <3> QED BY <2>1, <2>2, <3>1 DEF Reconcile, worker
  <2>3. CASE \E ok \in BOOLEAN : UpdateCall(ok) \/ OtherCalls(ok)
    BY <2>3, CallMoves, Zenon DEF Stays, Returns, ClaimsKept
  <2>4. CASE pc' = "idle"
    BY <2>4, TypeStep DEF TypeOK, WorkerTypes
  <2> QED BY <2>1, <2>2, <2>3, <2>4, WorkerEffects
<1> QED BY <1>1, <1>2 DEF ClaimsKept

(* Only RemoveFinalizer lets go of an object. *)
LEMMA HeldKept ==
  ASSUME TypeOK, CacheFollows, FreshCopy, Step, NEW r \in Routings, Held(r),
         ~\E ok \in BOOLEAN : RemoveFinalizer(ok) /\ key = r
  PROVE  Held(r)'
<1>1. CASE routings'[r] = routings[r]
  BY <1>1 DEF Held, Exists
<1>2. CASE UserStep
  <2>1. PICK s \in Routings, n \in Networks :
           \/ n \in Claims[s] /\ (CreateRouting(s, n) \/ EditRouting(s, n))
           \/ DeleteRouting(s)
    BY <1>2 DEF UserStep
  <2>2. CASE s = r
    BY <2>1, <2>2, UserHolds
  <2>3. CASE s # r
    <3>1. PICK obj \in Objects \cup {Absent} : Put(s, obj)
      BY <2>1, UserSteps
    <3>2. routings'[r] = routings[r]
      BY <2>3, <3>1 DEF Put, TypeOK, ApiTypes
    <3> QED BY <1>1, <3>2
  <2> QED BY <2>2, <2>3
<1>3. ASSUME NEW ok \in BOOLEAN, UpdateCall(ok) PROVE Held(r)'
  <2>1. PICK k \in Routings : k = key
    BY <1>3, CallMoves
  <2>2. CASE r # k
    <3>1. routings'[r] = routings[r]
      BY <1>3, <2>1, <2>2, UpdateOthers, Zenon
    <3> QED BY <1>1, <3>1, Zenon
  <2> QED BY <1>3, <2>1, <2>2, UpdateHolds DEF UpdateCall
<1>4. QuietStep => routings' = routings
  BY QuietSteps
<1>5. (\E s \in Routings : Reconcile(s)) \/ DeliverRouting \/ Restart \/ Elsewhere
         => routings' = routings
  BY DEF Reconcile, DeliverRouting, Restart, api, Elsewhere
<1>6. (\E ok \in BOOLEAN : OtherCalls(ok)) => routings' = routings
  BY OtherCallSteps
<1> QED BY <1>1, <1>2, <1>3, <1>4, <1>5, <1>6, StepKinds

Building == pc \in {"checkDuplicate", "checkConfig", "checkNamespace", "ensureCUDN",
                    "ensureRA", "writeStatus"}
Deleting == pc \in {"deleteCUDN", "listRemaining", "deleteRA", "removeFinalizer"}
Deleted == pc \in {"listRemaining", "deleteRA", "removeFinalizer"}

(* The two halves of Reconcile do not mix. *)
LEMMA Halves ==
  ASSUME NEW ok \in BOOLEAN, UpdateCall(ok) \/ OtherCalls(ok)
  PROVE  /\ Building' => Building \/ AddFinalizer(ok)
         /\ Deleting' => Deleting
         /\ Deleted' => Deleted \/ DeleteCUDN(ok)
         /\ Deleted' => UNCHANGED cudns \/ DeleteCUDN(ok)
<1>1. CASE UpdateCall(ok)
  BY <1>1 DEF UpdateCall, AddFinalizer, WriteStatus, RemoveFinalizer, ReturnError,
              ReturnRequeueAfter, ReturnDone, GoIdle, Building, Deleting, Deleted
<1>2. CASE \/ CheckDuplicate \/ ConfigChecked(ok) \/ ValidateNamespaceLabels(ok)
           \/ EnsureCUDN(ok) \/ EnsureRouteAdvertisements(ok)
  BY <1>2 DEF CheckDuplicate, ConfigChecked, ConfigSeen, ValidateNamespaceLabels, EnsureCUDN,
              EnsureRouteAdvertisements, SetDegraded, GotoWriteStatus, Goto,
              Building, Deleting, Deleted
<1>3. CASE DeleteCUDN(ok) \/ ListRemaining \/ DeleteRouteAdvertisements(ok)
  BY <1>3 DEF DeleteCUDN, ListRemaining, DeleteRouteAdvertisements, ReturnError,
              GoIdle, Goto, Building, Deleting, Deleted, api
<1>4. CASE Conflict \/ CallFails
  BY <1>4 DEF Conflict, CallFails, ReturnError, GoIdle, SetDegraded, GotoWriteStatus,
              Building, Deleting, Deleted, api
<1> QED BY <1>1, <1>2, <1>3, <1>4 DEF OtherCalls

(* A version still to be read with the finalizer has a held object behind it. *)
LEMMA VersionsHeldStep ==
  ASSUME TypeOK, CacheFollows, FreshCopy, ObservedGenerations, HeldBehind, Step,
         NEW r \in Routings, NEW v \in Versions(r)', v # Absent, v.fin, ~v.del
  PROVE  Held(r)'
<1>1. v \in Versions(r) => Held(r)
  BY DEF HeldBehind
<1>2. ASSUME NEW ok \in BOOLEAN, UpdateCall(ok) PROVE Held(r)'
  <2>1. PICK k \in Routings : k = key
    BY <1>2, CallMoves
  <2>2. CASE r # k
    <3>1. routings'[r] = routings[r] /\ Versions(r)' = Versions(r)
      BY <1>2, <2>1, <2>2, UpdateVersions
    <3> QED BY <1>1, <3>1 DEF Held, Exists
  <2>3. CASE r = k /\ RemoveFinalizer(ok)
    <3>1. fresh /\ mine.del
      BY <2>3 DEF RemoveFinalizer, HeldBehind
    <3>2. v \in Versions(r) \/ v = Absent
      <4>1. v \in Versions(r) \/ v = routings'[r]
        BY <1>2, <2>1, <2>3, UpdateVersions
      <4>2. routings'[r] = Absent
        BY <1>2, <2>1, <2>3, UpdateKeeps
      <4> QED BY <4>1, <4>2
    <3>3. \A w \in Versions(r) : w.del = mine.del
      BY <2>1, <2>3, <3>1, Zenon DEF FreshCopy
    <3> QED BY <3>1, <3>2, <3>3, Zenon
  <2>4. CASE r = k /\ AddFinalizer(ok)
    BY <2>1, <2>4, UpdateHolds
  <2>5. CASE r = k /\ WriteStatus(ok)
    <3>1. v \in Versions(r) \/ v = routings'[r]
      BY <1>2, <2>1, <2>5, UpdateVersions
    <3> QED BY <1>1, <2>1, <2>5, <3>1, UpdateHolds
  <2> QED BY <1>2, <2>2, <2>3, <2>4, <2>5 DEF UpdateCall
<1>3. CASE UserStep
  <2>1. PICK s \in Routings, n \in Networks :
           \/ n \in Claims[s] /\ (CreateRouting(s, n) \/ EditRouting(s, n))
           \/ DeleteRouting(s)
    BY <1>3 DEF UserStep
  <2>2. CASE s # r
    BY <1>1, <2>1, <2>2, UserKeeps DEF Held, Exists
  <2>3. CASE s = r
    <3>1. v \in Versions(r) \/ v = routings'[r]
      BY <2>1, <2>3, UserKeeps
    <3> QED BY <1>1, <2>1, <2>3, <3>1, UserHolds
  <2> QED BY <2>2, <2>3
<1>4. CASE ~UserStep /\ ~\E ok \in BOOLEAN : UpdateCall(ok)
  <2>1. routings' = routings /\ Versions(r)' \subseteq Versions(r) \cup {routings[r]}
    <3>1. CASE UNCHANGED <<routings, watch, cache>>
      BY <3>1, SameVersions
    <3>2. CASE QuietStep
      BY <3>1, <3>2, QuietSteps
    <3>3. CASE DeliverRouting
      BY <3>3, DeliverSteps DEF DeliverRouting, api
    <3>4. CASE Restart
      BY <3>4, RestartSteps, Zenon DEF Restart, api
    <3>5. CASE \E s \in Routings : Reconcile(s)
      BY <3>1, <3>5 DEF Reconcile, api, events
    <3>6. CASE \E ok \in BOOLEAN : OtherCalls(ok)
      BY <3>1, <3>6, OtherCallSteps
    <3>7. CASE Elsewhere
      BY <3>1, <3>7 DEF Elsewhere, api, events
    <3> QED BY <1>4, <3>2, <3>3, <3>4, <3>5, <3>6, <3>7, StepKinds
  <2> QED BY <1>1, <2>1 DEF Held, Exists
<1> QED BY <1>2, <1>3, <1>4

(* The finalizer is there as long as a reconcile may build something. *)
LEMMA HeldBehindStep ==
  ASSUME TypeOK, CacheFollows, FreshCopy, ObservedGenerations, HeldBehind, Step
  PROVE  HeldBehind'
<1>1. Building' => Held(key)'
  <2> SUFFICES ASSUME Building' PROVE Held(key)'
    OBVIOUS
  <2>1. PICK k \in Routings : k = key'
    BY TypeStep DEF TypeOK, WorkerTypes, Building
  <2>2. CASE key' = key /\ Building
    <3>1. Held(k) /\ ~\E ok \in BOOLEAN : RemoveFinalizer(ok)
      BY <2>1, <2>2 DEF HeldBehind, Building, RemoveFinalizer
    <3>2. Held(k)'
      BY <3>1, HeldKept
    <3> QED BY <2>1, <3>2 DEF Held, Exists
  <2>3. CASE UNCHANGED <<pc, key, mine>>
    BY <2>2, <2>3 DEF Building
  <2>4. ASSUME NEW r \in Routings, Reconcile(r) PROVE Held(key)'
    <3>1. CASE cache[r] = Absent
      BY <2>3, <2>4, <3>1 DEF Reconcile, worker
    <3>2. CASE cache[r] # Absent
      <4>1. key' = r /\ ~cache[r].del /\ cache[r].fin
        BY <2>4, <3>2 DEF Reconcile, Building
      <4>2. Held(r) /\ routings' = routings
        BY <2>4, <3>2, <4>1 DEF HeldBehind, Versions, Reconcile, api
      <4> QED BY <4>1, <4>2 DEF Held, Exists
    <3> QED BY <3>1, <3>2
  <2>5. ASSUME NEW ok \in BOOLEAN, UpdateCall(ok) \/ OtherCalls(ok) PROVE Held(key)'
    <3>1. key' = key
      BY <2>5, CallMoves, Zenon DEF Stays, Returns, Building
    <3>2. CASE AddFinalizer(ok)
      <4>1. Held(k)'
        BY <2>1, <3>1, <3>2, UpdateHolds
      <4> QED BY <2>1, <4>1 DEF Held, Exists
    <3> QED BY <2>2, <2>5, <3>1, <3>2, Halves
  <2> QED BY <2>3, <2>4, <2>5, WorkerEffects DEF Building
<1>2. Deleting' => mine'.del
  <2> SUFFICES ASSUME Deleting' PROVE mine'.del
    OBVIOUS
  <2>1. CASE UNCHANGED <<pc, key, mine>>
    BY <2>1 DEF HeldBehind, Deleting
  <2>2. ASSUME NEW r \in Routings, Reconcile(r) PROVE mine'.del
    BY <2>1, <2>2 DEF Reconcile, worker, Deleting
  <2>3. ASSUME NEW ok \in BOOLEAN, UpdateCall(ok) \/ OtherCalls(ok) PROVE mine'.del
    <3>1. Deleting /\ Stays
      BY <2>3, CallMoves, Halves, Zenon DEF Returns, Deleting
    <3>2. mine.del
      BY <3>1 DEF HeldBehind, Deleting
    <3> QED BY <3>1, <3>2 DEF Stays
  <2> QED BY <2>1, <2>2, <2>3, WorkerEffects DEF Deleting
<1>3. \A r \in Routings : \A v \in Versions(r)' : v # Absent /\ v.fin /\ ~v.del => Held(r)'
  BY VersionsHeldStep
<1> QED BY <1>1, <1>2, <1>3 DEF HeldBehind, Building, Deleting

(* Only EnsureCUDN makes a CUDN that is the operator's. *)
LEMMA CUDNWrites ==
  ASSUME TypeOK, Step, NEW n \in Networks, Managed(cudns[n])'
  PROVE  \/ cudns'[n] = cudns[n] /\ ~\E ok \in BOOLEAN : DeleteCUDN(ok) /\ n = mine.net
         \/ /\ \E ok \in BOOLEAN : EnsureCUDN(ok)
            /\ n = mine.net /\ cudns'[n] = [by |-> key, gen |-> mine.gen]
<1>1. cudns'[n] \in ManagedCUDNs
  BY DEF Managed
<1>2. CASE UNCHANGED cudns /\ ~\E ok \in BOOLEAN : DeleteCUDN(ok)
  BY <1>2
<1>3. ASSUME NEW m \in Networks, NEW c \in {Absent, Foreign}, PutCUDN(m, c)
      PROVE  cudns'[n] = cudns[n] /\ n # m
  <2>1. cudns' = [cudns EXCEPT ![m] = c] /\ cudns'[n] # c
    BY <1>1, <1>3, AbsentAssumption DEF PutCUDN
  <2> QED BY <2>1 DEF TypeOK, ApiTypes
<1>4. ASSUME NEW ok \in BOOLEAN, EnsureCUDN(ok)
      PROVE  \/ cudns'[n] = cudns[n]
             \/ n = mine.net /\ cudns'[n] = [by |-> key, gen |-> mine.gen]
  BY <1>4 DEF EnsureCUDN, PutCUDN, TypeOK, ApiTypes
<1>5. ASSUME NEW ok \in BOOLEAN, DeleteCUDN(ok)
      PROVE  cudns'[n] = cudns[n] /\ n # mine.net
  <2>1. mine.net \in Networks /\ PutCUDN(mine.net, Absent)
    BY <1>5 DEF DeleteCUDN, TypeOK, WorkerTypes, Objects
  <2> QED BY <1>3, <2>1
<1>6. pc # "deleteCUDN" => ~\E ok \in BOOLEAN : DeleteCUDN(ok)
  BY DEF DeleteCUDN
<1>7. UNCHANGED pc /\ UNCHANGED key => ~\E ok \in BOOLEAN : DeleteCUDN(ok)
  BY AbsentAssumption DEF DeleteCUDN, Goto, ReturnError, GoIdle, TypeOK, WorkerTypes
<1>8. CASE UserStep
  BY <1>2, <1>7, <1>8, UserSteps DEF UserStep
<1>9. CASE QuietStep
  <2>1. ~\E ok \in BOOLEAN : DeleteCUDN(ok)
    BY <1>7, <1>9, QuietSteps
  <2> QED BY <1>2, <1>3, <1>9, <2>1
          DEF QuietStep, DriftCUDN, DriftRA, DeliverCUDN, DeliverRA, DelayOver, api
<1>10. CASE DeliverRouting \/ Elsewhere
  BY <1>2, <1>7, <1>10, Zenon DEF DeliverRouting, Elsewhere, worker, api
<1>11. CASE \E r \in Routings : Reconcile(r)
  BY <1>2, <1>6, <1>11 DEF Reconcile, api
<1>12. CASE \E ok \in BOOLEAN : UpdateCall(ok)
  BY <1>2, <1>6, <1>12 DEF UpdateCall, AddFinalizer, WriteStatus, RemoveFinalizer
<1>13. ASSUME NEW ok \in BOOLEAN, OtherCalls(ok), ~EnsureCUDN(ok),
              ~\E d \in BOOLEAN : DeleteCUDN(d)
       PROVE  UNCHANGED cudns
  BY <1>13 DEF OtherCalls, CheckDuplicate, ConfigChecked, ConfigSeen, ValidateNamespaceLabels,
       EnsureRouteAdvertisements, ListRemaining, DeleteRouteAdvertisements, Conflict,
       CallFails, api
<1>14. CASE \E ok \in BOOLEAN : OtherCalls(ok)
  <2>1. (\E ok \in BOOLEAN : EnsureCUDN(ok)) => pc # "deleteCUDN"
    BY DEF EnsureCUDN
  <2> QED BY <1>2, <1>4, <1>5, <1>6, <1>13, <1>14, <2>1
<1>15. CASE Restart
  <2>1. (\E ok \in BOOLEAN : DeleteCUDN(ok)) => cudns'[n] = cudns[n] /\ n # mine.net
    BY <1>5
  <2> QED BY <1>15, <2>1 DEF Restart, api
<1> QED BY <1>8, <1>9, <1>10, <1>11, <1>12, <1>14, <1>15, StepKinds

(* Nothing is written for the routing between DeleteCUDN and the finalizer. *)
LEMMA CleanedUpStep ==
  ASSUME NoRename, TypeOK, CacheFollows, FreshCopy, ObservedGenerations,
         ClaimsKept, NoOrphanCUDN, CleanedUp, Step
  PROVE  CleanedUp'
<1> SUFFICES ASSUME Deleted', NEW n \in Networks, Managed(cudns[n])', cudns'[n].by = key'
             PROVE  FALSE
  BY DEF CleanedUp, Deleted
<1>1. CASE key' = key /\ Deleted /\ cudns'[n] = cudns[n]
  BY <1>1 DEF CleanedUp, Deleted, Managed
<1>2. CASE \E ok \in BOOLEAN : EnsureCUDN(ok)
  <2>1. pc' # "listRemaining" /\ pc' # "deleteRA" /\ pc' # "removeFinalizer"
    BY <1>2 DEF EnsureCUDN, SetDegraded, GotoWriteStatus
  <2> QED BY <2>1 DEF Deleted
<1>3. CASE cudns'[n] = cudns[n] /\ ~\E ok \in BOOLEAN : DeleteCUDN(ok) /\ n = mine.net
  <2>1. CASE UNCHANGED <<pc, key, mine>>
    BY <1>1, <1>3, <2>1 DEF Deleted
  <2>2. CASE \E r \in Routings : Reconcile(r)
    BY <2>1, <2>2, ReconcileMoves DEF Deleted
  <2>3. ASSUME NEW ok \in BOOLEAN, UpdateCall(ok) \/ OtherCalls(ok) PROVE FALSE
    <3>1. key' = key /\ key \in Routings
      BY <2>3, CallMoves, Zenon DEF Stays, Returns, Deleted
    <3>2. CASE DeleteCUDN(ok)
      <4>1. PICK k \in Routings : k = key
        BY <3>1
      <4>2. Managed(cudns[n]) /\ cudns[n].by = k
        BY <1>3, <3>1, <4>1 DEF Managed
      <4>3. Exists(k) /\ routings[k].net = n
        BY <4>2 DEF NoOrphanCUDN
      <4>4. n \in Claims[k]
        BY <4>3 DEF ClaimsKept, Exists
      <4>5. mine.net \in Claims[k]
        BY <4>1, AbsentAssumption DEF ClaimsKept
      <4>6. n = mine.net
        BY <4>4, <4>5 DEF NoRename
      <4> QED BY <1>3, <3>2, <4>6
    <3> QED BY <1>1, <1>3, <2>3, <3>1, <3>2, Halves
  <2> QED BY <2>1, <2>2, <2>3, WorkerEffects DEF Deleted
<1> QED BY <1>2, <1>3, CUDNWrites

(* Every step keeps a held routing behind every CUDN. *)
LEMMA NoOrphanCUDNStep ==
  ASSUME NoRename, TypeOK, CacheFollows, FreshCopy, ObservedGenerations,
         ClaimsKept, HeldBehind, CleanedUp, NoOrphanCUDN, Step
  PROVE  NoOrphanCUDN'
<1> SUFFICES ASSUME NEW n \in Networks, Managed(cudns[n])',
                    NEW r \in Routings, r = cudns'[n].by
             PROVE  Held(r)' /\ routings'[r].net = n
  <2>1. \A n \in Networks : Managed(cudns[n])' => cudns'[n].by \in Routings
    BY DEF Managed, ManagedCUDNs
  <2> QED BY <2>1 DEF NoOrphanCUDN, Held, Exists
<1>1. \/ cudns'[n] = cudns[n]
      \/ /\ \E ok \in BOOLEAN : EnsureCUDN(ok)
         /\ n = mine.net /\ cudns'[n] = [by |-> key, gen |-> mine.gen]
  BY CUDNWrites
<1>2. Held(r) /\ n \in Claims[r] /\ ~\E ok \in BOOLEAN : RemoveFinalizer(ok) /\ key = r
  <2>1. CASE cudns'[n] = cudns[n]
    <3>1. Managed(cudns[n]) /\ cudns[n].by = r
      BY <2>1 DEF Managed
    <3>2. Held(r) /\ routings[r].net = n
      BY <3>1 DEF NoOrphanCUDN, Held
    <3>3. n \in Claims[r]
      BY <3>2 DEF ClaimsKept, Held, Exists
    <3>4. ~\E ok \in BOOLEAN : RemoveFinalizer(ok) /\ key = r
      BY <3>1 DEF RemoveFinalizer, CleanedUp
    <3> QED BY <3>2, <3>3, <3>4
  <2>2. CASE /\ \E ok \in BOOLEAN : EnsureCUDN(ok)
             /\ n = mine.net /\ cudns'[n] = [by |-> key, gen |-> mine.gen]
    <3>1. r = key /\ pc = "ensureCUDN"
      BY <2>2 DEF EnsureCUDN
    <3>2. Held(r) /\ mine.net \in Claims[r]
      BY <3>1, AbsentAssumption DEF HeldBehind, ClaimsKept
    <3> QED BY <2>2, <3>1, <3>2 DEF RemoveFinalizer
  <2> QED BY <1>1, <2>1, <2>2
<1>3. Held(r)'
  BY <1>2, HeldKept
<1>4. routings'[r].net \in Claims[r]
  BY <1>3, ClaimsKeptStep DEF ClaimsKept, Held, Exists
<1> QED BY <1>2, <1>3, <1>4 DEF NoRename

(* The invariant that the finalizer gives holds initially. *)
LEMMA InitFinalizer ==
  ASSUME Init
  PROVE  FinalizerInv
<1>1. Len(watch) = 0 /\ 1..0 = {}
  BY DEF Init
<1>2. \A r \in Routings : Versions(r) = {Absent} /\ routings[r] = Absent
  BY <1>1, Zenon DEF Init, Versions
<1>3. \A n \in Networks : ~Managed(cudns[n])
  BY AbsentAssumption, Zenon DEF Init, Managed
<1>4. pc = "idle" /\ key = Absent
  BY DEF Init
<1>5. ClaimsKept
  BY <1>2, <1>4 DEF ClaimsKept
<1>6. HeldBehind
  BY <1>2, <1>4 DEF HeldBehind
<1>7. CleanedUp
  BY <1>3 DEF CleanedUp
<1>8. NoOrphanCUDN
  BY <1>3 DEF NoOrphanCUDN
<1> QED BY <1>5, <1>6, <1>7, <1>8 DEF FinalizerInv

(* Every step keeps it, when no routing is ever given a second network. *)
LEMMA FinalizerStep ==
  ASSUME NoRename, IInv, FinalizerInv, Step
  PROVE  FinalizerInv'
<1>1. TypeOK /\ CacheFollows /\ FreshCopy /\ ObservedGenerations
  BY DEF IInv
<1>2. ClaimsKept /\ HeldBehind /\ CleanedUp /\ NoOrphanCUDN
  BY DEF FinalizerInv
<1> QED BY <1>1, <1>2, ClaimsKeptStep, HeldBehindStep, CleanedUpStep, NoOrphanCUDNStep
        DEF FinalizerInv

(* When no routing is ever given a second network, every CUDN written for  *)
(* a routing has that routing behind it, held by the finalizer, through    *)
(* errors, lost answers, stale copies and restarts.                        *)
THEOREM NoOrphanCUDNAlways ==
  ASSUME NoRename PROVE Spec => []NoOrphanCUDN
<1>1. Init => FinalizerInv
  BY InitFinalizer
<1>2. IInv /\ FinalizerInv /\ [Next]_vars => FinalizerInv'
  BY FinalizerStep DEF Step
<1>3. FinalizerInv => NoOrphanCUDN
  BY DEF FinalizerInv
<1> QED BY <1>1, <1>2, <1>3, Inductive, PTL DEF Spec

-----------------------------------------------------------------------------
(* A CUDN of the operator changes only with an event, and only the event's *)
(* delivery or a restart takes it away.                                    *)
LEMMA CUDNEvents ==
  ASSUME TypeOK, Step, NEW n \in Networks
  PROVE  /\ Managed(cudns[n]) => cudns'[n] = cudns[n] \/ n \in cudnEvents'
         /\ n \in cudnEvents => n \in cudnEvents' \/ DeliverCUDN(n) \/ Restart
<1>1. CASE UNCHANGED <<cudns, cudnEvents>>
  BY <1>1
<1>2. ASSUME NEW m \in Networks, NEW c, PutCUDN(m, c)
      PROVE  /\ Managed(cudns[n]) => cudns'[n] = cudns[n] \/ n \in cudnEvents'
             /\ cudnEvents \subseteq cudnEvents'
  BY <1>2 DEF PutCUDN, TypeOK, ApiTypes
<1>3. CASE UserStep
  BY <1>1, <1>3 DEF UserStep, CreateRouting, EditRouting, DeleteRouting
<1>4. CASE QuietStep
  <2>1. CASE \E m \in Networks : DeliverCUDN(m)
    BY <2>1 DEF DeliverCUDN, api
  <2> QED BY <1>1, <1>2, <1>4, <2>1
          DEF QuietStep, DriftCUDN, DriftRA, DeliverRA, DelayOver, api, events
<1>5. CASE DeliverRouting \/ \E r \in Routings : Reconcile(r)
  BY <1>1, <1>5 DEF DeliverRouting, Reconcile, api, events
<1>6. CASE \E ok \in BOOLEAN : UpdateCall(ok)
  BY <1>1, <1>6 DEF UpdateCall, AddFinalizer, WriteStatus, RemoveFinalizer
<1>7. ASSUME NEW ok \in BOOLEAN, OtherCalls(ok)
      PROVE  /\ Managed(cudns[n]) => cudns'[n] = cudns[n] \/ n \in cudnEvents'
             /\ cudnEvents \subseteq cudnEvents'
  <2>1. mine.net \in Networks
    BY <1>7, OtherCallSteps DEF Objects
  <2>2. CASE EnsureCUDN(ok) \/ DeleteCUDN(ok)
    BY <1>2, <2>1, <2>2 DEF EnsureCUDN, DeleteCUDN
  <2>3. CASE ~EnsureCUDN(ok) /\ ~DeleteCUDN(ok)
    <3>1. UNCHANGED <<cudns, cudnEvents>>
      BY <1>7, <2>3 DEF OtherCalls, CheckDuplicate, ConfigChecked, ConfigSeen,
           ValidateNamespaceLabels, EnsureRouteAdvertisements, ListRemaining,
           DeleteRouteAdvertisements, Conflict, CallFails, api, events
    <3> QED BY <3>1
  <2> QED BY <2>2, <2>3
<1>8. CASE Restart
  BY <1>8 DEF Restart, api
<1>9. CASE Elsewhere
  BY <1>1, <1>9 DEF Elsewhere, api, events
<1> QED BY <1>3, <1>4, <1>5, <1>6, <1>7, <1>8, <1>9, StepKinds

(* EnsureCUDN writes the network its routing claims. *)
LEMMA CUDNsClaimedStep ==
  ASSUME TypeOK, ClaimsKept, CUDNsClaimed, Step
  PROVE  CUDNsClaimed'
<1> SUFFICES ASSUME NEW n \in Networks, Managed(cudns[n])'
             PROVE  n \in Claims[cudns'[n].by]
  BY DEF CUDNsClaimed
<1>1. CASE cudns'[n] = cudns[n]
  BY <1>1 DEF CUDNsClaimed, Managed
<1>2. CASE /\ \E ok \in BOOLEAN : EnsureCUDN(ok)
           /\ n = mine.net /\ cudns'[n] = [by |-> key, gen |-> mine.gen]
  <2>1. key \in Routings /\ cudns'[n].by = key
    BY <1>2 DEF EnsureCUDN, TypeOK, WorkerTypes
  <2>2. mine.net \in Claims[key]
    BY <2>1, AbsentAssumption DEF ClaimsKept
  <2> QED BY <1>2, <2>1, <2>2
<1> QED BY <1>1, <1>2, CUDNWrites

(* Where networks are disjoint, the first routing listed for a network is  *)
(* the one that claims it.                                                 *)
LEMMA OwnerQueued ==
  ASSUME Disjoint, TypeOK, ClaimsKept, NEW r \in Routings, cache[r] # Absent,
         DeliverCUDN(cache[r].net)
  PROVE  r \in queue'
<1>1. PICK n : n = cache[r].net
  OBVIOUS
<1>2. r \in Claimants(n)
  BY <1>1 DEF Claimants
<1>3. ASSUME NEW s \in Claimants(n) PROVE s = r
  <2>1. s \in Routings /\ cache[s] # Absent /\ cache[s].net = n
    BY <1>3 DEF Claimants
  <2>2. n \in Claims[s] /\ n \in Claims[r]
    BY <1>1, <2>1 DEF ClaimsKept, Versions
  <2> QED BY <2>1, <2>2 DEF Disjoint
<1>4. PICK keys \in MapCUDNToRouting(n) : queue' = queue \cup keys
  BY <1>1 DEF DeliverCUDN
<1>5. PICK s \in Claimants(n) : keys = {s}
  BY <1>2, <1>4 DEF MapCUDNToRouting
<1> QED BY <1>3, <1>4, <1>5

(* Between EnsureCUDN and the Ready status a change of the CUDN raises an  *)
(* event, or has queued the routing already.                               *)
LEMMA CUDNToBeTrueStep ==
  ASSUME Disjoint, TypeOK, CacheFollows, FreshCopy, ClaimsKept, CUDNToBeTrue, Step
  PROVE  CUDNToBeTrue'
<1> DEFINE Due == pc = "ensureRA" \/ (pc = "writeStatus" /\ mine.phase = "Ready")
           Right == \/ cudns[mine.net] = [by |-> key, gen |-> mine.gen]
                    \/ mine.net \in cudnEvents
                    \/ key \in queue
<1> SUFFICES ASSUME fresh', Due' PROVE Right'
  BY DEF CUDNToBeTrue
<1>1. ASSUME fresh, Due, key' = key, mine'.net = mine.net, mine'.gen = mine.gen,
             queue \subseteq queue'
      PROVE  Right'
  <2>1. PICK k \in Routings : k = key
    BY <1>1 DEF TypeOK, WorkerTypes
  <2>2. mine \in Objects
    BY <1>1 DEF TypeOK, WorkerTypes
  <2>3. mine.net \in Networks /\ mine.gen \in 1..MaxGeneration
    BY <2>2 DEF Objects
  <2>4. CASE cudns[mine.net] = [by |-> k, gen |-> mine.gen]
    <3>1. Managed(cudns[mine.net])
      <4>1. Managed([by |-> k, gen |-> mine.gen])
        BY <2>3, Zenon DEF Managed, ManagedCUDNs
      <4> QED BY <2>4, <4>1, Zenon
    <3>2. PICK n \in Networks : n = mine.net
      BY <2>3
    <3>3. cudns'[n] = cudns[n] \/ n \in cudnEvents'
      BY <3>1, <3>2, CUDNEvents
    <3> QED BY <1>1, <2>1, <2>4, <3>2, <3>3
  <2>5. CASE mine.net \in cudnEvents
    <3>1. CASE DeliverCUDN(mine.net)
      <4>1. cache[k] # Absent /\ cache[k].net = mine.net
        BY <1>1, <2>1 DEF FreshCopy, Versions
      <4>2. k \in queue'
        BY <3>1, <4>1, OwnerQueued
      <4> QED BY <1>1, <2>1, <4>2
    <3>2. CASE Restart
      BY <3>2 DEF Restart, GoIdle
    <3>3. PICK n \in Networks : n = mine.net
      BY <2>3
    <3>4. n \in cudnEvents' \/ DeliverCUDN(n) \/ Restart
      BY <2>5, <3>3, CUDNEvents
    <3> QED BY <1>1, <3>1, <3>2, <3>3, <3>4
  <2>6. CASE key \in queue
    BY <1>1, <2>6
  <2> QED BY <1>1, <2>1, <2>4, <2>5, <2>6 DEF CUDNToBeTrue
<1>2. CASE UserStep
  <2>1. UNCHANGED <<pc, key, mine, queue>> /\ fresh
    BY <1>2, UserSteps, Zenon DEF UserStep
  <2> QED BY <1>1, <2>1
<1>3. CASE QuietStep
  BY <1>1, <1>3, QuietSteps, Zenon
<1>4. CASE DeliverRouting
  BY <1>1, <1>4 DEF DeliverRouting, worker
<1>5. CASE \E r \in Routings : Reconcile(r)
  <2>1. pc = "idle"
    BY <1>5 DEF Reconcile
  <2> QED BY <1>5, <2>1, ReconcileMoves
<1>6. ASSUME NEW ok \in BOOLEAN, UpdateCall(ok) PROVE Right'
  <2>1. pc' \in {"idle", "checkDuplicate"}
    BY <1>6 DEF UpdateCall, AddFinalizer, WriteStatus, RemoveFinalizer, ReturnError,
                ReturnRequeueAfter, ReturnDone, GoIdle
  <2> QED BY <2>1
<1>7. ASSUME NEW ok \in BOOLEAN, OtherCalls(ok) PROVE Right'
  <2>1. mine \in Objects /\ Stays
    BY <1>7, OtherCallSteps, CallMoves DEF Returns
  <2>2. ~SetDegraded(FailedCUDN) /\ ~SetDegraded(FailedRA)
    BY <2>1, Zenon DEF SetDegraded, GotoWriteStatus, FailedCUDN, FailedRA, Objects
  <2>3. \A p \in {"checkConfig", "checkNamespace", "ensureCUDN", "listRemaining",
                  "deleteRA", "removeFinalizer"} : ~Goto(p)
    BY Zenon DEF Goto
  <2>4. EnsureCUDN(ok) \/ EnsureRouteAdvertisements(ok)
    <3>1. ~ConfigChecked(ok)
      BY <2>1, <2>3, Zenon DEF ConfigChecked, ConfigSeen, GotoWriteStatus, Objects
    <3>2. ~ReturnError
      BY DEF ReturnError, GoIdle
    <3> QED BY <1>7, <2>2, <2>3, <3>1, <3>2
            DEF OtherCalls, CheckDuplicate, ValidateNamespaceLabels, DeleteCUDN,
                ListRemaining, DeleteRouteAdvertisements, Conflict, CallFails
  <2>5. CASE EnsureCUDN(ok)
    <3>1. mine.net \in Networks
      BY <2>1 DEF Objects
    <3>2. cudns'[mine.net] = [by |-> key, gen |-> mine.gen]
      BY <2>5, <3>1 DEF EnsureCUDN, PutCUDN, TypeOK, ApiTypes
    <3> QED BY <2>1, <3>2 DEF Stays
  <2>6. CASE EnsureRouteAdvertisements(ok)
    <3>1. pc = "ensureRA"
      BY <2>6 DEF EnsureRouteAdvertisements
    <3> QED BY <1>1, <2>1, <3>1 DEF Stays, requeues
  <2> QED BY <2>4, <2>5, <2>6
<1>8. CASE Restart
  BY <1>8 DEF Restart, GoIdle
<1>9. CASE Elsewhere
  BY <1>1, <1>9 DEF Elsewhere, worker, requeues
<1> QED BY <1>2, <1>3, <1>4, <1>5, <1>6, <1>7, <1>8, <1>9, StepKinds

(* Every change of a Ready routing's CUDN, and every edit of its spec,     *)
(* has it reconciled again.                                                *)
LEMMA CUDNDriftNoticedStep ==
  ASSUME Disjoint, TypeOK, CacheFollows, FreshCopy, ObservedGenerations, ReadyIsCached,
         ClaimsKept, CUDNToBeTrue, CUDNDriftNoticed, Step
  PROVE  CUDNDriftNoticed'
<1> DEFINE Right(r) == cudns[routings[r].net] = [by |-> r, gen |-> routings[r].gen]
<1> SUFFICES ASSUME NEW r \in Routings, Ready(r)', ~Right(r)', ~Noticed(r)'
             PROVE  routings'[r].net \in cudnEvents'
  BY Zenon DEF CUDNDriftNoticed
<1>0. ~Pending(r)' /\ r \notin queue'
  BY DEF Noticed
<1>1. CASE \E ok \in BOOLEAN : WriteStatus(ok) /\ key = r
  <2>1. PICK ok \in BOOLEAN : WriteStatus(ok) /\ key = r
    BY <1>1
  <2>2. /\ mine.phase = "Ready"
        /\ routings'[r].net = mine.net /\ routings'[r].gen = mine.gen
    <3>1. /\ routings'[r].phase = mine.phase /\ routings'[r].net = routings[r].net
          /\ routings'[r].gen = routings[r].gen
      BY <2>1, UpdateKeeps, Zenon DEF UpdateCall
    <3>2. fresh /\ routings[r].net = mine.net /\ routings[r].gen = mine.gen
      BY <2>1 DEF WriteStatus, FreshCopy
    <3> QED BY <3>1, <3>2 DEF Ready
  <2>3. \/ cudns[mine.net] = [by |-> r, gen |-> mine.gen]
        \/ mine.net \in cudnEvents
        \/ r \in queue
    BY <2>1, <2>2 DEF WriteStatus, CUDNToBeTrue
  <2>4. UNCHANGED <<cudns, cudnEvents, queue>>
    BY <2>1 DEF WriteStatus, ReturnRequeueAfter, ReturnError
  <2> QED BY <1>0, <2>2, <2>3, <2>4
<1>2. CASE ~\E ok \in BOOLEAN : WriteStatus(ok) /\ key = r
  <2>1. /\ Ready(r)
        /\ routings'[r].net = routings[r].net /\ routings'[r].gen = routings[r].gen
    <3>1. CASE routings'[r] = routings[r]
      BY <3>1 DEF Ready, Exists
    <3>2. ASSUME NEW s \in Routings, NEW n \in Networks,
                 CreateRouting(s, n) \/ EditRouting(s, n) \/ DeleteRouting(s)
          PROVE  routings'[r] = routings[r]
      BY <1>0, <3>2, UserKeeps, Zenon
    <3>3. ASSUME NEW ok \in BOOLEAN, UpdateCall(ok) PROVE routings'[r] = routings[r]
      <4>1. PICK k \in Routings : k = key
        BY <3>3, CallMoves
      <4>2. CASE r # k
        BY <3>3, <4>1, <4>2, UpdateOthers
      <4>3. CASE r = k
        BY <1>0, <1>2, <3>3, <4>1, <4>3, UpdateKeeps
      <4> QED BY <4>2, <4>3
    <3> QED BY <3>1, <3>2, <3>3, StepEffects
  <2>2. cache[r] # Absent
    BY <2>1, Zenon DEF ReadyIsCached, Versions
  <2>3. ~Noticed(r)
    BY <1>2, <2>2, NoticedKept DEF Ready
  <2>4. cache[r] = routings[r] /\ routings[r] \in Objects
    BY <2>1, <2>3, Zenon DEF Noticed, CacheFollows, TypeOK, ApiTypes, Ready, Exists
  <2>5. PICK n \in Networks : n = routings[r].net
    BY <2>4, Zenon DEF Objects
  <2>6. CASE Right(r)
    <3>1. routings[r].gen \in 1..MaxGeneration
      BY <2>4, Zenon DEF Objects
    <3>2. Managed([by |-> r, gen |-> routings[r].gen])
      BY <3>1, Zenon DEF Managed, ManagedCUDNs
    <3>3. Managed(cudns[n])
      BY <2>5, <2>6, <3>2, Zenon
    <3> QED BY <2>1, <2>5, <2>6, <3>3, CUDNEvents
  <2>7. CASE n \in cudnEvents
    <3>1. ~DeliverCUDN(n)
      BY <1>0, <2>2, <2>4, <2>5, OwnerQueued
    <3>2. ~Restart
      BY <1>0, <2>1 DEF Restart, Ready, Exists
    <3> QED BY <2>1, <2>5, <2>7, <3>1, <3>2, CUDNEvents
  <2> QED BY <2>1, <2>3, <2>5, <2>6, <2>7, Zenon DEF CUDNDriftNoticed
<1> QED BY <1>1, <1>2

(* What the drift of CUDNs needs holds initially. *)
LEMMA InitDrift ==
  ASSUME Init
  PROVE  DriftInv
<1>1. Len(watch) = 0 /\ 1..0 = {}
  BY DEF Init
<1>2. \A r \in Routings : Versions(r) = {Absent} /\ routings[r] = Absent
  BY <1>1, Zenon DEF Init, Versions
<1>3. \A n \in Networks : ~Managed(cudns[n])
  BY AbsentAssumption, Zenon DEF Init, Managed
<1>4. pc = "idle" /\ key = Absent /\ \A r \in Routings : ~Ready(r)
  BY <1>2 DEF Init, Ready, Exists
<1>5. ClaimsKept
  <2>1. ASSUME NEW r \in Routings, NEW v \in Versions(r) \cup {routings[r]}
        PROVE  v = Absent
    <3>1. Versions(r) = {Absent} /\ routings[r] = Absent
      BY <1>2, Zenon
    <3> QED BY <3>1, SMT
  <2> QED BY <1>4, <2>1, Zenon DEF ClaimsKept
<1>6. CUDNsClaimed /\ CUDNDriftNoticed
  BY <1>3, <1>4, Zenon DEF CUDNsClaimed, CUDNDriftNoticed
<1>7. CUDNToBeTrue
  <2>1. pc # "ensureRA" /\ pc # "writeStatus"
    BY <1>4, Zenon
  <2> QED BY <2>1, Zenon DEF CUDNToBeTrue
<1> QED BY <1>5, <1>6, <1>7, Zenon DEF DriftInv

(* Every step keeps it, when no network is claimed twice. *)
LEMMA DriftStep ==
  ASSUME Disjoint, IInv, DriftInv, Step
  PROVE  DriftInv'
<1>1. /\ TypeOK /\ CacheFollows /\ FreshCopy /\ ObservedGenerations /\ ReadyIsCached
      /\ ClaimsKept /\ CUDNsClaimed /\ CUDNToBeTrue /\ CUDNDriftNoticed
  BY DEF IInv, DriftInv
<1> QED BY <1>1, ClaimsKeptStep, CUDNsClaimedStep, CUDNToBeTrueStep, CUDNDriftNoticedStep
        DEF DriftInv

(* What the drift of CUDNs needs, in every reachable state. *)
LEMMA DriftInductive ==
  ASSUME Disjoint PROVE Spec => []DriftInv
<1>1. Init => DriftInv
  BY InitDrift
<1>2. IInv /\ DriftInv /\ [Next]_vars => DriftInv'
  BY DriftStep DEF Step
<1> QED BY <1>1, <1>2, Inductive, PTL DEF Spec

(* When no network is claimed twice, a Ready routing is reconciled again,  *)
(* before its timer, after every change of its CUDN by an outsider and     *)
(* after every edit of its own spec.                                       *)
THEOREM CUDNDriftNoticedAlways ==
  ASSUME Disjoint PROVE Spec => []CUDNDriftNoticed
<1>1. DriftInv => CUDNDriftNoticed
  BY DEF DriftInv
<1> QED BY <1>1, DriftInductive, PTL

(* When no network is claimed twice, reconcileDelete deletes no CUDN that  *)
(* was written for another routing, renamed routings included.             *)
THEOREM DeletesOwnCUDNAlways ==
  ASSUME Disjoint PROVE Spec => []DeletesOwnCUDN
<1>1. TypeOK /\ ClaimsKept /\ CUDNsClaimed => DeletesOwnCUDN
  <2> SUFFICES ASSUME TypeOK, ClaimsKept, CUDNsClaimed, pc = "deleteCUDN",
                      Managed(cudns[mine.net])
               PROVE  cudns[mine.net].by = key
    BY DEF DeletesOwnCUDN
  <2>1. key \in Routings /\ mine.net \in Networks /\ cudns[mine.net].by \in Routings
    BY DEF TypeOK, WorkerTypes, Objects, Managed, ManagedCUDNs
  <2>2. mine.net \in Claims[key] /\ mine.net \in Claims[cudns[mine.net].by]
    BY <2>1, AbsentAssumption DEF ClaimsKept, CUDNsClaimed
  <2> QED BY <2>1, <2>2 DEF Disjoint
<1>2. IInv /\ DriftInv => DeletesOwnCUDN
  BY <1>1 DEF IInv, DriftInv
<1> QED BY <1>2, Inductive, DriftInductive, PTL
=============================================================================
