------------------------ MODULE ConfigControllerInv ------------------------
(***************************************************************************)
(* Why ConfigController keeps its promises although it reads a cache and   *)
(* users, outsiders and failures come between its calls: the inductive     *)
(* invariant its proofs use, in parts that TLC checks too.                 *)
(***************************************************************************)
EXTENDS ConfigController

(* The versions of config n that a reconcile may yet read. *)
Versions(n) ==
    {cache[n]} \cup {watch[i].obj : i \in {k \in 1..Len(watch) : watch[k].name = n}}

(* The cache lags behind the server by the pending events and by nothing   *)
(* else: without one it is current, and the last one makes it current.     *)
CacheFollows ==
    /\ \A n \in Names : Pending(n) \/ cache[n] = configs[n]
    /\ \A i \in 1..Len(watch) :
          (\A j \in 1..Len(watch) : j > i => watch[j].name # watch[i].name)
              => watch[i].obj = configs[watch[i].name]

(* A copy with the server's resourceVersion is a copy of what the server   *)
(* has, and no version of another kind is on its way to the cache.         *)
FreshCopy ==
    fresh => /\ key # Absent /\ Exists(key)
             /\ configs[key].spec = mine.spec /\ configs[key].gen = mine.gen
             /\ configs[key].del = mine.del
             /\ key # SingletonName => configs[key].obs = mine.obs
             /\ \A v \in Versions(key) :
                    v # Absent /\ v.del = mine.del /\ v.phase = configs[key].phase

(* Whatever outdates the worker's copy brings its key back to the queue. *)
NewsComing == key # Absent => fresh \/ Pending(key) \/ key \in queue

(* The calls between the finalizer and the status, which build.            *)
Building ==
    \/ pc \in {"patchNetwork", "checkFRR", "discover", "startFRR", "ensureFRR", "reconcileNodes"}
    \/ pc \in {"listFRR", "deleteFRR"} /\ ~mine.del

(* The calls of a deletion. *)
Deleting ==
    \/ pc \in {"checkRoutings", "cleanup", "removeFinalizer"}
    \/ pc \in {"listFRR", "deleteFRR"} /\ mine.del

(* Everything but the complaint about a wrong name is for the singleton,   *)
(* and for a copy that asks for it.                                        *)
Stages ==
    /\ pc # "idle" /\ pc # "writeStatus" => key = SingletonName
    /\ Building \/ pc = "addFinalizer" => ~mine.del
    /\ Deleting => mine.del
    /\ pc = "writeStatus" =>
          IF key = SingletonName THEN ~mine.del ELSE mine.phase = "Degraded"
    /\ pc = "ensureFRR" => step \in 1..FRRCount(mine)

(* The server's object is held by the finalizer. *)
Held == Exists(SingletonName) /\ configs[SingletonName].fin

(* A version that a reconcile would build for has an object behind it that *)
(* the finalizer holds, and so has the worker that builds or reports.      *)
HeldBehind ==
    /\ \A v \in Versions(SingletonName) : v # Absent /\ v.fin /\ ~v.del => Held
    /\ Building \/ (pc = "writeStatus" /\ key = SingletonName) => Held
    /\ \A n \in Names : Ready(n) => n = SingletonName /\ Held

(* Past the list, a deletion knows every FRRConfiguration of the operator. *)
CleanedUp ==
    /\ pc = "deleteFRR" /\ mine.del => \A i \in Zones : Managed(frrs[i]) => i \in doomed
    /\ pc = "removeFinalizer" => \A i \in Zones : ~Managed(frrs[i])

(* The first k FRRConfigurations are those of the worker's copy. *)
WrittenUpTo(k) == \A i \in 1..k : frrs[i] = FRRFor(mine, i)

(* What a reconcile has written stays so until its status is written, or   *)
(* another reconcile is on its way.                                        *)
WorkNoticed ==
    \/ frrEvent \/ SingletonName \in queue
    \/ /\ pc = "ensureFRR" => WrittenUpTo(step - 1)
       /\ pc = "listFRR" /\ ~mine.del => WrittenUpTo(FRRCount(mine))
       /\ pc = "deleteFRR" /\ ~mine.del =>
             /\ WrittenUpTo(FRRCount(mine))
             /\ \A i \in Zones : i > FRRCount(mine) /\ Managed(frrs[i]) => i \in doomed
       /\ pc = "reconcileNodes" \/ (pc = "writeStatus" /\ mine.phase = "Ready") => Applied(mine)

(* A Ready status that no reconcile is coming to replace is about the      *)
(* current generation.                                                     *)
Observed ==
    \A n \in Names : Ready(n) /\ ~configs[n].del =>
        Noticed(n) \/ configs[n].obs = configs[n].gen

(* A status never speaks of a generation that is still to come, and the    *)
(* one the worker gathers has the condition of every step behind it.       *)
StatusStages ==
    /\ \A n \in Names : Exists(n) => configs[n].obs <= configs[n].gen
    /\ Building => mine.phase = "Configuring" /\ mine.obs = mine.gen
    /\ Building /\ pc # "patchNetwork" => Holds(mine, {"NetworkOperatorPatched"})
    /\ Building /\ pc \notin {"patchNetwork", "checkFRR"} => Holds(mine, {"FRRNamespaceReady"})
    /\ Building /\ pc \notin {"patchNetwork", "checkFRR", "discover"} /\ mine.spec.aws
          => Holds(mine, {"AWSEndpointsDiscovered"}) /\ mine.found # Absent
    /\ pc = "reconcileNodes" => mine.spec.aws /\ Holds(mine, {"FRRConfigurationApplied"})
    /\ pc = "writeStatus" =>
          Coherent(mine) /\ (key = SingletonName => mine.obs = mine.gen)

(* Of two versions on their way to the cache, the older one has the        *)
(* server's readiness only if the newer one has it too.                    *)
IsReady(obj) == obj # Absent /\ obj.phase = "Ready"

OneChange ==
    LET now == IsReady(configs[SingletonName])
        pending == {i \in 1..Len(watch) : watch[i].name = SingletonName}
    IN  /\ IsReady(cache[SingletonName]) = now =>
              \A i \in pending : IsReady(watch[i].obj) = now
        /\ \A i, j \in pending :
              i < j /\ IsReady(watch[i].obj) = now => IsReady(watch[j].obj) = now

IInv ==
    /\ TypeOK /\ CacheFollows /\ FreshCopy /\ NewsComing /\ Stages /\ HeldBehind
    /\ CleanedUp /\ WorkNoticed /\ Observed /\ StatusStages /\ OneChange
    /\ NeverForgotten /\ StatusCoherent /\ FRRDriftNoticed /\ NoOrphanFRR
=============================================================================
