----------------------- MODULE RoutingControllerInv -----------------------
(***************************************************************************)
(* Why RoutingController is safe although it decides on cached lists: the  *)
(* inductive invariant its proofs use, in parts that TLC checks too.       *)
(***************************************************************************)
EXTENDS RoutingController

(* The versions of routing r that a reconcile may yet read. *)
Versions(r) ==
    {cache[r]} \cup {watch[i].obj : i \in {k \in 1..Len(watch) : watch[k].name = r}}

(* The cache lags behind the server by the pending events and by nothing   *)
(* else: without one it is current, and the last one makes it current.     *)
CacheFollows ==
    /\ \A r \in Routings : Pending(r) \/ cache[r] = routings[r]
    /\ \A i \in 1..Len(watch) :
          (\A j \in 1..Len(watch) : j > i => watch[j].name # watch[i].name)
              => watch[i].obj = routings[watch[i].name]

(* A copy with the server's resourceVersion is a copy of what the server   *)
(* has, and nothing older of another kind is on its way to the cache.      *)
FreshCopy ==
    fresh => /\ key # Absent /\ Exists(key)
             /\ routings[key].net = mine.net /\ routings[key].gen = mine.gen
             /\ routings[key].del = mine.del
             /\ \A v \in Versions(key) :
                    v # Absent /\ v.net = mine.net /\ v.del = mine.del

(* A status never speaks of a generation that is still to come. *)
ObservedGenerations ==
    /\ \A r \in Routings : Exists(r) => routings[r].obs <= routings[r].gen
    /\ pc = "writeStatus" => mine.obs = mine.gen

(* The cache knows, and goes on knowing, every routing that is Ready, and  *)
(* the network of every routing that is Ready for its current spec.        *)
ReadyIsCached ==
    \A r \in Routings :
        /\ Ready(r) => Absent \notin Versions(r)
        /\ Settled(r) => \A v \in Versions(r) : v.net = routings[r].net

(* Once its duplicate check has passed, no other routing gets settled on   *)
(* the network before the worker's own reconcile is over.                  *)
CheckStaysValid ==
    \/ pc \in {"checkConfig", "checkNamespace", "ensureCUDN", "ensureRA"}
    \/ pc = "writeStatus" /\ mine.phase = "Ready"
    => \A o \in Routings \ {key} : Settled(o) => routings[o].net # mine.net

(* A Ready status about to be written is true, or its untruth is noticed. *)
ReadyToBeTrue ==
    pc = "writeStatus" /\ mine.phase = "Ready" /\ fresh
        => ra = "managed" \/ raEvent \/ key \in queue

(* A status about to be written is coherent, and the last step of building *)
(* finds the condition of the first one set.                               *)
CoherentToBe ==
    /\ pc = "ensureRA" => mine.cudnCreated = "True"
    /\ pc = "writeStatus" => Coherent(mine)

IInv ==
    /\ TypeOK /\ CacheFollows /\ FreshCopy /\ ObservedGenerations
    /\ ReadyIsCached /\ CheckStaysValid /\ ReadyToBeTrue /\ CoherentToBe
    /\ NeverForgotten /\ RAKept /\ NetworkExclusive /\ RADriftNoticed
    /\ StatusCoherent

-----------------------------------------------------------------------------
(* The server's object of r is held by the finalizer. *)
Held(r) == Exists(r) /\ routings[r].fin

(* Networks are given once and for all: no routing is ever renamed. *)
NoRename == \A r \in Routings : \A m, n \in Claims[r] : m = n

(* What a routing's versions and the worker's copy claim. *)
ClaimsKept ==
    /\ \A r \in Routings : \A v \in Versions(r) \cup {routings[r]} :
          v # Absent => v.net \in Claims[r]
    /\ key # Absent => mine.net \in Claims[key]

(* A version that a reconcile would build a network for has an object      *)
(* behind it that the finalizer holds; so has the worker that builds one;  *)
(* and the worker that removes the finalizer read a deletionTimestamp.     *)
HeldBehind ==
    /\ \A r \in Routings : \A v \in Versions(r) :
          v # Absent /\ v.fin /\ ~v.del => Held(r)
    /\ pc \in {"checkDuplicate", "checkConfig", "checkNamespace", "ensureCUDN",
               "ensureRA", "writeStatus"} => Held(key)
    /\ pc \in {"deleteCUDN", "listRemaining", "deleteRA", "removeFinalizer"}
          => mine.del

(* Past DeleteCUDN nothing written for the worker's routing is left. *)
CleanedUp ==
    pc \in {"listRemaining", "deleteRA", "removeFinalizer"}
        => \A n \in Networks : Managed(cudns[n]) => cudns[n].by # key

FinalizerInv == ClaimsKept /\ HeldBehind /\ CleanedUp /\ NoOrphanCUDN

-----------------------------------------------------------------------------
(* No network is given to two routings. *)
Disjoint == \A r, s \in Routings : r # s => Claims[r] \cap Claims[s] = {}

(* A CUDN is written only for a routing that claims its network. *)
CUDNsClaimed ==
    \A n \in Networks : Managed(cudns[n]) => n \in Claims[cudns[n].by]

(* Once EnsureCUDN has succeeded, the CUDN is as the status will say, or   *)
(* the change is noticed.                                                  *)
CUDNToBeTrue ==
    fresh /\ (pc = "ensureRA" \/ (pc = "writeStatus" /\ mine.phase = "Ready"))
        => \/ cudns[mine.net] = [by |-> key, gen |-> mine.gen]
           \/ mine.net \in cudnEvents
           \/ key \in queue

DriftInv == ClaimsKept /\ CUDNsClaimed /\ CUDNToBeTrue /\ CUDNDriftNoticed
=============================================================================
