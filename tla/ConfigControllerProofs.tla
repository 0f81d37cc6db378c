----------------------- MODULE ConfigControllerProofs -----------------------
(***************************************************************************)
(* Every kind of step of ConfigController keeps every part of its          *)
(* inductive invariant.                                                    *)
(***************************************************************************)
EXTENDS ConfigControllerSteps

(* Leaves go to Zenon, and to SMT where they say so. *)
USE Zenon

(* What these proofs need of the numbering of FRRConfigurations. *)
Numbering ==
    \A obj \in Objects : (obj.spec.aws => obj.found # Absent) =>
        /\ FRRCount(obj) \in 0..ZoneCount
        /\ \A i \in 1..FRRCount(obj) : i \in Zones /\ Managed(FRRFor(obj, i))

-----------------------------------------------------------------------------
(***************************************************************************)
(* What the kinds of steps have in common.                                 *)
(***************************************************************************)

(* The worker's updates find an object and write its key, if anything. *)
LEMMA WorkerWrites ==
  ASSUME TypeOK, FreshCopy, Bound \/ Reported \/ Released
  PROVE  /\ key \in Names /\ configs[key] \in Objects /\ mine \in Objects /\ UNCHANGED cache
         /\ \/ UNCHANGED <<configs, watch>>
            \/ \E obj \in Objects \cup {Absent} : Put(key, obj)
<1>1. pc # "idle" /\ fresh /\ UNCHANGED cache
  BY DEF Bound, Reported, Released
<1>2. key \in Names /\ configs[key] \in Objects /\ mine \in Objects
  BY <1>1, Busy, Present DEF FreshCopy, Exists
<1>3. UNCHANGED <<configs, watch>> \/ \E obj \in Objects \cup {Absent} : Put(key, obj)
  BY DEF Bound, Reported, Released
<1> QED BY <1>1, <1>2, <1>3

(* A step leaves the stream alone, writes, delivers or starts it anew. *)
LEMMA StreamKinds ==
  ASSUME TypeOK, FreshCopy, AnyStep
  PROVE  \/ UNCHANGED <<configs, watch, cache>>
         \/ \E n \in Names, obj \in Objects \cup {Absent} : Put(n, obj) /\ UNCHANGED cache
         \/ Delivered \/ Restarted
<1>1. CASE Bound \/ Reported \/ Released
  BY <1>1, WorkerWrites
<1>2. CASE Moved \/ Returned
  BY <1>2 DEF Moved, Returned
<1>3. CASE \E n \in Names, obj \in Objects \cup {Absent} : UserWrite(n, obj)
  BY <1>3 DEF UserWrite
<1>4. CASE Aside \/ Drifted \/ Heard \/ \E n \in Names : Elapsed(n) \/ Begun(n)
  BY <1>4 DEF Aside, Drifted, Heard, Elapsed, Begun
<1> QED BY <1>1, <1>2, <1>3, <1>4 DEF AnyStep, WorkerStep

(* What is said of the stream alone stays true when it is left alone. *)
LEMMA StreamFrame ==
  ASSUME UNCHANGED <<configs, watch, cache>>
  PROVE  /\ \A n \in Names : Versions(n)' = Versions(n) /\ (Pending(n)' <=> Pending(n))
         /\ CacheFollows' <=> CacheFollows
         /\ OneChange' <=> OneChange
<1>1. \A n \in Names : Versions(n)' = Versions(n) /\ (Pending(n)' <=> Pending(n))
  BY DEF Versions, Pending
<1>2. CacheFollows' <=> CacheFollows
  BY DEF CacheFollows, Pending
<1>3. OneChange' <=> OneChange
  BY SMT DEF OneChange
<1> QED BY <1>1, <1>2, <1>3

(* A reconcile that goes on keeps its key and what users wrote. *)
LEMMA MovedKeeps ==
  ASSUME TypeOK, Moved
  PROVE  /\ pc # "idle" /\ key \in Names /\ mine \in Objects
         /\ pc' \in {"checkFRR", "discover", "startFRR", "ensureFRR", "listFRR", "deleteFRR",
                     "reconcileNodes", "writeStatus", "cleanup", "removeFinalizer"}
         /\ mine' \in Objects /\ SameRest(mine', mine) /\ mine'.obs = mine.obs
         /\ UNCHANGED <<configs, watch, cache, queue, delayed, key, fresh>>
<1>1. pc # "idle" /\ UNCHANGED <<configs, watch, cache, queue, delayed, key, fresh>>
  BY DEF Moved, Prepares, Concludes, Clears, Numbers, Lists, Ensures, Prunes, Fails
<1>2. key \in Names /\ mine \in Objects
  BY <1>1, Busy
<1>3. ASSUME mine' = mine
      PROVE  mine' \in Objects /\ SameRest(mine', mine) /\ mine'.obs = mine.obs
  BY <1>2, <1>3 DEF SameRest
<1>4. CASE Prepares \/ Concludes \/ Fails
  BY <1>1, <1>2, <1>4 DEF Prepares, Concludes, Fails, Onward, Finishes, Complains, Kept
<1>5. CASE Clears \/ Numbers \/ Lists \/ Ensures \/ \E i \in Zones : Prunes(i)
  <2>1. mine' = mine
    BY <1>5 DEF Clears, Numbers, Lists, Ensures, Prunes, Stay
  <2>2. pc' \in {"checkFRR", "discover", "startFRR", "ensureFRR", "listFRR", "deleteFRR",
                 "reconcileNodes", "writeStatus", "cleanup", "removeFinalizer"}
    BY <1>5 DEF Clears, Numbers, Lists, Ensures, Prunes, Stay
  <2> QED BY <1>1, <1>2, <1>3, <2>1, <2>2
<1> QED BY <1>4, <1>5 DEF Moved

-----------------------------------------------------------------------------
(***************************************************************************)
(* The stream.                                                             *)
(***************************************************************************)
LEMMA CacheFollowsStep ==
  ASSUME TypeOK, FreshCopy, CacheFollows, AnyStep
  PROVE  CacheFollows'
<1>1. CASE UNCHANGED <<configs, watch, cache>>
  BY <1>1, StreamFrame
<1>2. CASE \E n \in Names, obj \in Objects \cup {Absent} : Put(n, obj) /\ UNCHANGED cache
  BY <1>2, PutFollows
<1>3. CASE Delivered
  BY <1>3, DeliverSteps DEF Delivered
<1>4. CASE Restarted
  <2>1. cache' = configs' /\ 1..Len(watch') = {}
    BY <1>4, SMT DEF Restarted
  <2> QED BY <2>1 DEF CacheFollows
<1> QED BY <1>1, <1>2, <1>3, <1>4, StreamKinds

(* Who writes the object of the worker makes its copy outdated. *)
LEMMA FreshCopyStep ==
  ASSUME TypeOK, CacheFollows, FreshCopy, Stages, AnyStep
  PROVE  FreshCopy'
<1>1. SUFFICES ASSUME fresh' PROVE FreshCopy'
  BY DEF FreshCopy
<1>2. ASSUME fresh, UNCHANGED <<key, mine>>, configs'[key] = configs[key],
             Versions(key)' \subseteq Versions(key)
      PROVE  FreshCopy'
  BY <1>2 DEF FreshCopy, Exists
<1>3. fresh => key \in Names
  BY DEF TypeOK, WorkerTypes, FreshCopy
<1>4. CASE \E n \in Names, obj \in Objects \cup {Absent} : UserWrite(n, obj)
  <2>1. PICK n \in Names, obj \in Objects \cup {Absent} : UserWrite(n, obj)
    BY <1>4
  <2>2. fresh /\ key # n /\ key \in Names /\ UNCHANGED <<key, mine, cache>> /\ Put(n, obj)
    BY <1>1, <1>3, <2>1 DEF UserWrite
  <2>3. Versions(key)' = Versions(key)
    BY <2>2, PutSteps
  <2>4. configs'[key] = configs[key]
    BY <2>2, PutEntries
  <2> QED BY <1>2, <2>2, <2>3, <2>4
<1>5. CASE Aside \/ Drifted \/ Heard \/ \E n \in Names : Elapsed(n)
  <2>1. UNCHANGED <<configs, watch, cache, key, mine, fresh>>
    BY <1>5 DEF Aside, Drifted, Heard, Elapsed, worker
  <2> QED BY <1>1, <1>2, <1>3, <2>1, StreamFrame
<1>6. CASE Delivered
  <2>1. UNCHANGED <<configs, key, mine, fresh>> /\ DeliverConfig
    BY <1>6 DEF Delivered, worker
  <2> QED BY <1>1, <1>2, <1>3, <2>1, DeliverSteps
<1>7. CASE Restarted \/ Reported \/ Released \/ Returned
  BY <1>1, <1>7 DEF Restarted, Reported, Released, Returned, GoIdle
<1>8. ASSUME NEW n \in Names, Begun(n)
      PROVE  FreshCopy'
  <2>1. UNCHANGED <<configs, watch, cache>>
    BY <1>8 DEF Begun
  <2>2. CASE UNCHANGED worker
    <3>1. UNCHANGED <<key, mine, fresh>>
      BY <2>2 DEF worker
    <3> QED BY <1>1, <1>2, <1>3, <2>1, <3>1, StreamFrame
  <2>3. CASE ~UNCHANGED worker
    <3>1. /\ key' = n /\ ~Pending(n) /\ cache[n] \in Objects
          /\ mine'.spec = cache[n].spec /\ mine'.gen = cache[n].gen /\ mine'.del = cache[n].del
          /\ n # SingletonName => mine'.obs = cache[n].obs
      BY <1>1, <1>8, <2>3 DEF Begun
    <3>2. cache[n] = configs[n] /\ Versions(n) = {cache[n]}
      BY <3>1 DEF CacheFollows, Versions, Pending
    <3>3. n # Absent /\ configs[n] # Absent
      BY <3>1, <3>2, ConstantsAssumption, AbsentAssumption
    <3>4. Versions(n)' = Versions(n) /\ configs' = configs
      BY <2>1, StreamFrame
    <3>5. Versions(key)' = {configs[n]}
      BY <3>1, <3>2, <3>4 DEF Versions
    <3> QED BY <3>1, <3>2, <3>3, <3>4, <3>5 DEF FreshCopy, Exists
  <2> QED BY <2>2, <2>3
<1>9. CASE Bound
  <2>1. /\ mine'.spec = mine.spec /\ mine'.gen = mine.gen /\ mine'.del = mine.del
        /\ UNCHANGED <<key, cache>> /\ fresh /\ pc = "addFinalizer"
    BY <1>1, <1>9 DEF Bound, GoIdle
  <2>2. PICK obj \in Objects :
          /\ Put(key, obj) /\ obj.fin /\ SameStatus(obj, configs[key])
          /\ obj.spec = configs[key].spec /\ obj.gen = configs[key].gen
          /\ obj.del = configs[key].del
    BY <1>9 DEF Bound
  <2>3. key = SingletonName /\ key \in Names /\ obj # Absent
    BY <1>3, <2>1, AbsentAssumption DEF Stages
  <2>4. Versions(key)' = Versions(key) \cup {obj} /\ configs'[key] = obj
    BY <2>1, <2>2, <2>3, PutSteps, PutEntries
  <2>5. obj.phase = configs[key].phase
    BY <2>2 DEF SameStatus
  <2>6. /\ \A v \in Versions(key) : v # Absent /\ v.del = mine.del /\ v.phase = configs[key].phase
        /\ configs[key].spec = mine.spec /\ configs[key].gen = mine.gen
        /\ configs[key].del = mine.del
    BY <2>1 DEF FreshCopy
  <2>7. \A v \in Versions(key)' : v # Absent /\ v.del = mine'.del /\ v.phase = obj.phase
    <3> SUFFICES ASSUME NEW v \in Versions(key)'
                 PROVE  v # Absent /\ v.del = mine'.del /\ v.phase = obj.phase
      OBVIOUS
    <3>1. CASE v = obj
      BY <2>1, <2>2, <2>3, <2>6, <3>1
    <3>2. CASE v \in Versions(key)
      BY <2>1, <2>5, <2>6, <3>2
    <3> QED BY <2>4, <3>1, <3>2
  <2>8. configs'[key'] = obj /\ key' = SingletonName /\ key' # Absent
    BY <2>1, <2>3, <2>4, ConstantsAssumption
  <2> QED BY <2>1, <2>2, <2>3, <2>6, <2>7, <2>8 DEF FreshCopy, Exists
<1>10. CASE Moved
  <2>1. /\ UNCHANGED <<configs, watch, cache, key, fresh>> /\ key \in Names
        /\ SameRest(mine', mine) /\ mine'.obs = mine.obs
    BY <1>10, MovedKeeps
  <2>2. Versions(key)' = Versions(key)
    BY <2>1, StreamFrame
  <2> QED BY <1>1, <2>1, <2>2 DEF FreshCopy, SameRest, Exists
<1> QED BY <1>4, <1>5, <1>6, <1>7, <1>8, <1>9, <1>10 DEF AnyStep, WorkerStep

(* What outdates the copy is an event, and a delivery queues the key. *)
LEMMA NewsComingStep ==
  ASSUME TypeOK, CacheFollows, FreshCopy, NewsComing, AnyStep
  PROVE  NewsComing'
<1>1. key \in Names \cup {Absent} /\ (pc = "idle" => key = Absent)
  BY DEF TypeOK, WorkerTypes
<1>2. ASSUME UNCHANGED <<configs, watch, cache, key, fresh>>, queue \subseteq queue'
      PROVE  NewsComing'
  BY <1>1, <1>2, StreamFrame DEF NewsComing, Pending
<1>3. ASSUME NEW n \in Names, NEW obj \in Objects \cup {Absent}, UserWrite(n, obj)
      PROVE  NewsComing'
  <2>1. /\ Put(n, obj) /\ fresh' = (fresh /\ key # n) /\ UNCHANGED <<cache, key, queue>>
    BY <1>3 DEF UserWrite
  <2>2. Pending(n)' /\ \A o \in Names \ {n} : Pending(o) => Pending(o)'
    BY <2>1, PutSteps
  <2>3. CASE key \in Names /\ key # n
    BY <2>1, <2>2, <2>3 DEF NewsComing, Pending
  <2>4. CASE key = n
    BY <2>1, <2>2, <2>4 DEF NewsComing, Pending
  <2>5. CASE key = Absent
    BY <2>1, <2>5 DEF NewsComing
  <2> QED BY <1>1, <2>3, <2>4, <2>5
<1>4. CASE Aside \/ Drifted \/ Heard \/ \E n \in Names : Elapsed(n)
  BY <1>2, <1>4 DEF Aside, Drifted, Heard, Elapsed, worker
<1>5. CASE Delivered
  <2>1. UNCHANGED <<key, fresh>> /\ DeliverConfig /\ queue \subseteq queue'
    BY <1>5 DEF Delivered, DeliverConfig, worker
  <2>2. \A n \in Names : Pending(n) => Pending(n)' \/ n \in queue'
    BY <2>1, DeliverSteps
  <2> QED BY <1>1, <2>1, <2>2 DEF NewsComing, Pending
<1>6. CASE Restarted \/ Reported \/ Released \/ Returned
  BY <1>6 DEF Restarted, Reported, Released, Returned, GoIdle, NewsComing
<1>7. ASSUME NEW n \in Names, Begun(n)
      PROVE  NewsComing'
  <2>1. UNCHANGED <<configs, watch, cache>>
    BY <1>7 DEF Begun
  <2>2. CASE key' = Absent
    BY <2>2 DEF NewsComing
  <2>3. CASE key' # Absent
    <3>1. key' = n /\ fresh' = ~Pending(n)
      BY <1>1, <1>7, <2>3 DEF Begun, worker
    <3> QED BY <2>1, <3>1 DEF NewsComing, Pending
  <2> QED BY <2>2, <2>3
<1>8. CASE Bound
  BY <1>8 DEF Bound, GoIdle, NewsComing
<1>9. CASE Moved
  BY <1>2, <1>9, MovedKeeps
<1> QED BY <1>3, <1>4, <1>5, <1>6, <1>7, <1>8, <1>9 DEF AnyStep, WorkerStep

(* What becomes of the reasons to come back to an object that is there. *)
LEMMA NeverForgottenStep ==
  ASSUME TypeOK, CacheFollows, FreshCopy, NeverForgotten, AnyStep
  PROVE  NeverForgotten'
<1> DEFINE Late(n) == delayed[n] \in {"backoff", "timer"}
           Kn(n) == n \in queue \/ Late(n) \/ key = n \/ Pending(n)
<1>1. \A n \in Names : Exists(n) => Kn(n)
  BY DEF NeverForgotten, Noticed
<1>2. SUFFICES \A n \in Names : Exists(n)' => Kn(n)'
  BY DEF NeverForgotten, Noticed
<1>3. /\ delayed \in [Names -> {"none", "timer", "backoff"}] /\ (pc = "idle" => key = Absent)
      /\ Absent \notin Names
  BY ConstantsAssumption DEF TypeOK, RequeueTypes, WorkerTypes
<1>4. ASSUME UNCHANGED <<configs, watch, cache, key>>, queue \subseteq queue',
             \A n \in Names : Late(n) => Late(n)' \/ n \in queue'
      PROVE  \A n \in Names : Exists(n)' => Kn(n)'
  BY <1>1, <1>4, StreamFrame DEF Exists
<1>5. ASSUME NEW n \in Names, NEW obj \in Objects \cup {Absent}, UserWrite(n, obj)
      PROVE  \A o \in Names : Exists(o)' => Kn(o)'
  <2>1. Put(n, obj) /\ UNCHANGED <<cache, key, queue, delayed>>
    BY <1>5 DEF UserWrite
  <2>2. /\ Pending(n)' /\ \A o \in Names \ {n} : Pending(o) => Pending(o)'
        /\ \A o \in Names \ {n} : configs'[o] = configs[o]
    BY <2>1, PutSteps, PutEntries
  <2> QED BY <1>1, <2>1, <2>2 DEF Exists
<1>6. CASE Aside \/ Drifted \/ Heard
  BY <1>4, <1>6 DEF Aside, Drifted, Heard, worker
<1>7. ASSUME NEW n \in Names, Elapsed(n)
      PROVE  \A o \in Names : Exists(o)' => Kn(o)'
  BY <1>3, <1>4, <1>7 DEF Elapsed, worker
<1>8. CASE Delivered
  <2>1. UNCHANGED <<configs, key, delayed>> /\ DeliverConfig /\ queue \subseteq queue'
    BY <1>8 DEF Delivered, DeliverConfig, worker
  <2>2. \A n \in Names : Pending(n) => Pending(n)' \/ n \in queue'
    BY <2>1, DeliverSteps
  <2> QED BY <1>1, <2>1, <2>2 DEF Exists
<1>9. CASE Restarted
  BY <1>9 DEF Restarted, Exists
<1>10. ASSUME NEW n \in Names, Begun(n)
       PROVE  \A o \in Names : Exists(o)' => Kn(o)'
  <2>1. UNCHANGED <<configs, watch, cache, delayed>> /\ queue' = queue \ {n} /\ pc = "idle"
    BY <1>10 DEF Begun
  <2>2. \A o \in Names : key # o
    BY <1>3, <2>1
  <2>3. \A o \in Names : Exists(o)' => Exists(o) /\ (Pending(o) => Pending(o)')
    BY <2>1, StreamFrame DEF Exists
  <2>4. key' = n \/ cache[n] = Absent
    BY <1>10 DEF Begun
  <2>5. cache[n] = Absent /\ Exists(n) => Pending(n)
    BY DEF CacheFollows, Exists
  <2> QED BY <1>1, <2>1, <2>2, <2>3, <2>4, <2>5
<1>11. ASSUME GoIdle, key \in Names, UNCHANGED queue,
              \A o \in Names \ {key} : configs'[o] = configs[o] /\ delayed'[o] = delayed[o]
                                       /\ (Pending(o) => Pending(o)'),
              delayed'[key] \in {"backoff", "timer"} \/ configs'[key] = Absent
       PROVE  \A o \in Names : Exists(o)' => Kn(o)'
  <2> SUFFICES ASSUME NEW o \in Names, Exists(o)'
               PROVE  Kn(o)'
    OBVIOUS
  <2>1. CASE o = key
    BY <1>11, <2>1 DEF Exists
  <2>2. CASE o # key
    <3>1. Kn(o)
      BY <1>1, <1>11, <2>2 DEF Exists
    <3> QED BY <1>11, <2>2, <3>1
  <2> QED BY <2>1, <2>2
<1>12. ASSUME key \in Names, \/ delayed' = [delayed EXCEPT ![key] = "backoff"]
                             \/ delayed' = [delayed EXCEPT ![key] = IF @ = "backoff" THEN @ ELSE "timer"]
       PROVE  delayed'[key] \in {"backoff", "timer"} /\ \A o \in Names \ {key} : delayed'[o] = delayed[o]
  BY <1>3, <1>12, SMT
<1>13. CASE Reported \/ Released \/ Bound
  <2>1. /\ key \in Names /\ UNCHANGED cache
        /\ \A o \in Names \ {key} : configs'[o] = configs[o] /\ (Pending(o) => Pending(o)')
    <3>1. key \in Names /\ UNCHANGED cache
      BY <1>13, WorkerWrites
    <3>2. CASE UNCHANGED <<configs, watch>>
      BY <3>1, <3>2, StreamFrame
    <3>3. CASE \E obj \in Objects \cup {Absent} : Put(key, obj)
      BY <3>1, <3>3, PutSteps, PutEntries
    <3> QED BY <1>13, <3>1, <3>2, <3>3, WorkerWrites
  <2>2. CASE Reported
    BY <1>11, <1>12, <2>1, <2>2 DEF Reported
  <2>3. CASE Released
    <3>1. configs'[key] = Absent
      BY <2>1, <2>3, PutEntries DEF Released
    <3>2. \A o \in Names \ {key} : delayed'[o] = delayed[o]
      BY <1>12, <2>1, <2>3 DEF Released
    <3> QED BY <1>11, <2>1, <2>3, <3>1, <3>2 DEF Released
  <2>4. CASE Bound
    <3>1. CASE GoIdle
      <4>1. delayed' = [delayed EXCEPT ![key] = "backoff"] /\ UNCHANGED queue
        BY <2>1, <2>4, <3>1, <1>3 DEF Bound, GoIdle
      <4> QED BY <1>11, <1>12, <2>1, <3>1, <4>1
    <3>2. CASE UNCHANGED <<key, queue, delayed>>
      BY <1>1, <2>1, <3>2 DEF Exists
    <3> QED BY <2>4, <3>1, <3>2 DEF Bound
  <2> QED BY <1>13, <2>2, <2>3, <2>4
<1>14. CASE Returned
  <2>1. pc # "idle" /\ UNCHANGED <<configs, watch, cache, queue>> /\ GoIdle
    BY <1>14 DEF Returned
  <2>2. key \in Names
    BY <2>1, Busy
  <2>3. delayed'[key] \in {"backoff", "timer"} /\ \A o \in Names \ {key} : delayed'[o] = delayed[o]
    BY <1>12, <1>14, <2>2 DEF Returned
  <2> QED BY <1>11, <2>1, <2>2, <2>3, StreamFrame
<1>15. CASE Moved
  BY <1>4, <1>15, MovedKeeps
<1> QED BY <1>5, <1>6, <1>7, <1>8, <1>9, <1>10, <1>13, <1>14, <1>15 DEF AnyStep, WorkerStep

-----------------------------------------------------------------------------
(***************************************************************************)
(* The stages of a reconcile, and the finalizer behind them.               *)
(***************************************************************************)

(* A reconcile that builds goes on building or reports; one that deletes   *)
(* goes on deleting.                                                       *)
LEMMA MovedStages ==
  ASSUME TypeOK, Stages, Moved
  PROVE  /\ pc \notin {"idle", "writeStatus", "addFinalizer"}
         /\ key = SingletonName /\ key' = SingletonName
         /\ \/ /\ Building /\ ~mine.del /\ ~mine'.del /\ ~Deleting'
               /\ Building' \/ pc' = "writeStatus"
            \/ /\ Deleting /\ mine.del /\ mine'.del /\ ~Building'
               /\ Deleting' /\ pc' # "writeStatus"
<1>1. pc \notin {"idle", "writeStatus", "addFinalizer"}
  BY DEF Moved, Prepares, Concludes, Clears, Numbers, Lists, Ensures, Prunes, Fails
<1>2. key = SingletonName /\ UNCHANGED key /\ mine'.del = mine.del
  BY <1>1, MovedKeeps DEF Stages, SameRest
<1>3. Building => ~mine.del
  BY DEF Stages
<1>4. Deleting => mine.del
  BY DEF Stages
<1>5. CASE Prepares \/ Concludes
  <2>1. /\ pc \in {"patchNetwork", "checkFRR", "discover", "reconcileNodes"}
             \/ (pc = "deleteFRR" /\ ~mine.del)
        /\ pc' \in {"checkFRR", "discover", "startFRR", "reconcileNodes", "writeStatus"}
    BY <1>5 DEF Prepares, Concludes, Onward, Finishes
  <2>2. Building /\ (Building' \/ pc' = "writeStatus") /\ ~Deleting'
    BY <2>1 DEF Building, Deleting
  <2> QED BY <1>1, <1>2, <1>3, <2>2
<1>6. CASE Fails
  <2>1. Building /\ pc' = "writeStatus"
    BY <1>6 DEF Fails, Complains, Building
  <2>2. ~Deleting'
    BY <2>1 DEF Deleting
  <2> QED BY <1>1, <1>2, <1>3, <2>1, <2>2
<1>7. CASE Numbers \/ Ensures
  <2>1. pc \in {"startFRR", "ensureFRR"} /\ pc' \in {"ensureFRR", "listFRR"}
    BY <1>7 DEF Numbers, Ensures, Stay
  <2>2. Building
    BY <2>1 DEF Building
  <2>3. ~mine.del /\ ~mine'.del
    BY <1>2, <1>3, <2>2
  <2>4. Building' /\ ~Deleting'
    BY <2>1, <2>3 DEF Building, Deleting
  <2> QED BY <1>1, <1>2, <2>2, <2>3, <2>4
<1>8. CASE Clears
  <2>1. /\ pc \in {"checkRoutings", "cleanup"} \/ (pc = "deleteFRR" /\ mine.del)
        /\ pc' \in {"cleanup", "listFRR", "removeFinalizer"}
    BY <1>8 DEF Clears, Stay
  <2>2. Deleting
    BY <2>1 DEF Deleting
  <2>3. mine.del /\ mine'.del
    BY <1>2, <1>4, <2>2
  <2>4. Deleting' /\ ~Building' /\ pc' # "writeStatus"
    BY <2>1, <2>3 DEF Building, Deleting
  <2> QED BY <1>1, <1>2, <2>2, <2>3, <2>4
<1>9. CASE Lists \/ \E i \in Zones : Prunes(i)
  <2>1. pc \in {"listFRR", "deleteFRR"} /\ pc' = "deleteFRR"
    BY <1>9 DEF Lists, Prunes, Stay
  <2>2. CASE mine.del
    BY <1>1, <1>2, <2>1, <2>2 DEF Building, Deleting
  <2>3. CASE ~mine.del
    BY <1>1, <1>2, <2>1, <2>3 DEF Building, Deleting
  <2> QED BY <2>2, <2>3
<1> QED BY <1>5, <1>6, <1>7, <1>8, <1>9 DEF Moved

(* Past the discovery the zones are known, and so are their numbers. *)
LEMMA KnownZones ==
  ASSUME TypeOK, Numbering, StatusStages, Building,
         pc \notin {"patchNetwork", "checkFRR", "discover"}
  PROVE  /\ FRRCount(mine) \in 0..ZoneCount
         /\ \A i \in 1..FRRCount(mine) : i \in Zones /\ Managed(FRRFor(mine, i))
<1>1. mine \in Objects
  BY Busy DEF Building
<1>2. mine.spec.aws => mine.found # Absent
  BY DEF StatusStages
<1> QED BY <1>1, <1>2 DEF Numbering

(* The order of the calls. *)
LEMMA StagesStep ==
  ASSUME TypeOK, Numbering, StatusStages, Stages, AnyStep
  PROVE  Stages'
<1>1. ASSUME UNCHANGED <<pc, key, mine, step>>
      PROVE  Stages'
  BY <1>1 DEF Stages, Building, Deleting, FRRCount, FRRZones
<1>2. CASE \/ \E n \in Names, obj \in Objects \cup {Absent} : UserWrite(n, obj)
           \/ Aside \/ Drifted \/ Delivered \/ Heard \/ \E n \in Names : Elapsed(n)
  BY <1>1, <1>2 DEF UserWrite, Aside, Drifted, Delivered, Heard, Elapsed, worker
<1>3. ASSUME pc' = "idle"
      PROVE  Stages'
  BY <1>3 DEF Stages, Building, Deleting
<1>4. CASE Restarted \/ Reported \/ Released \/ Returned
  BY <1>3, <1>4 DEF Restarted, Reported, Released, Returned, GoIdle
<1>5. ASSUME NEW n \in Names, Begun(n)
      PROVE  Stages'
  <2>1. CASE UNCHANGED worker
    BY <1>1, <2>1 DEF worker
  <2>2. CASE ~UNCHANGED worker
    <3>1. /\ key' = n /\ mine'.del = cache[n].del
          /\ \/ n # SingletonName /\ pc' = "writeStatus" /\ mine'.phase = "Degraded"
             \/ n = SingletonName /\ cache[n].del /\ pc' = "checkRoutings"
             \/ n = SingletonName /\ ~cache[n].del /\ pc' \in {"patchNetwork", "addFinalizer"}
      BY <1>5, <2>2 DEF Begun
    <3> QED BY <3>1 DEF Stages, Building, Deleting
  <2> QED BY <2>1, <2>2
<1>6. CASE Bound
  <2>1. CASE pc' = "patchNetwork" /\ mine'.del = mine.del /\ key' = key
    <3>1. key = SingletonName /\ ~mine.del
      BY <1>6 DEF Bound, Stages
    <3> QED BY <2>1, <3>1 DEF Stages, Building, Deleting
  <2> QED BY <1>3, <1>6, <2>1 DEF Bound, GoIdle
<1>7. CASE Moved
  <2>1. pc' = "ensureFRR" => step' \in 1..FRRCount(mine)'
    <3>1. SUFFICES ASSUME pc' = "ensureFRR" PROVE step' \in 1..FRRCount(mine)'
      OBVIOUS
    <3>2. (Numbers \/ Ensures) /\ mine' = mine
      BY <1>7, <3>1 DEF Moved, Prepares, Concludes, Clears, Lists, Prunes, Fails, Onward,
                        Finishes, Complains, Stay, Numbers, Ensures
    <3>3. FRRCount(mine)' = FRRCount(mine)
      BY <3>2 DEF FRRCount, FRRZones
    <3>4. FRRCount(mine) \in Nat
      <4>1. Building /\ pc \notin {"patchNetwork", "checkFRR", "discover"}
        BY <3>2 DEF Building, Numbers, Ensures
      <4> QED BY <4>1, KnownZones, ConstantsAssumption, SMT
    <3>5. CASE Numbers
      <4>1. step' = 1 /\ FRRCount(mine) # 0
        BY <3>1, <3>5 DEF Numbers, Stay
      <4> QED BY <3>3, <3>4, <4>1, SMT
    <3>6. CASE Ensures
      <4>1. step' = step + 1 /\ step # FRRCount(mine) /\ step \in 1..FRRCount(mine)
        BY <3>1, <3>6 DEF Ensures, Stay, Stages
      <4> QED BY <3>3, <3>4, <4>1, SMT
    <3> QED BY <3>2, <3>5, <3>6
  <2>2. pc' # "addFinalizer"
    BY <1>7, MovedKeeps
  <2> QED BY <1>7, <2>1, <2>2, MovedStages DEF Stages
<1> QED BY <1>2, <1>4, <1>5, <1>6, <1>7 DEF AnyStep, WorkerStep

(* The finalizer is gone only when nothing needs it. *)
LEMMA HeldBehindStep ==
  ASSUME TypeOK, CacheFollows, FreshCopy, Stages, HeldBehind, AnyStep
  PROVE  HeldBehind'
<1> DEFINE S == SingletonName
           Asks(v) == v # Absent /\ v.fin /\ ~v.del
           Busied == Building \/ (pc = "writeStatus" /\ key = S)
<1>1. /\ \A v \in Versions(S) : Asks(v) => Held
      /\ Busied => Held
      /\ \A n \in Names : Ready(n) => n = S /\ Held
  BY DEF HeldBehind
<1>2. ASSUME \A v \in Versions(S)' : Asks(v) => Held', Busied' => Held',
             \A n \in Names : Ready(n)' => n = S /\ Held'
      PROVE  HeldBehind'
  BY <1>2 DEF HeldBehind
<1>3. S \in Names /\ Absent \notin Objects
  BY ConstantsAssumption, AbsentAssumption
<1>4. ASSUME UNCHANGED configs, Versions(S)' \subseteq Versions(S), Busied' => Held
      PROVE  HeldBehind'
  <2>1. (Held' <=> Held) /\ \A n \in Names : Ready(n)' <=> Ready(n)
    BY <1>4 DEF Held, Ready, Exists
  <2> QED BY <1>1, <1>2, <1>4, <2>1
<1>5. ASSUME UNCHANGED <<pc, key, mine>>
      PROVE  Busied' <=> Busied
  BY <1>5 DEF Building
<1>6. ASSUME pc' = "idle"
      PROVE  ~Busied'
  BY <1>6 DEF Building
<1>7. ASSUME NEW n \in Names, NEW obj \in Objects \cup {Absent}, UserWrite(n, obj)
      PROVE  HeldBehind'
  <2>1. Put(n, obj) /\ UNCHANGED <<cache, pc, key, mine>>
    BY <1>7 DEF UserWrite
  <2>2. /\ Versions(n)' = Versions(n) \cup {obj}
        /\ \A o \in Names \ {n} : Versions(o)' = Versions(o)
        /\ configs'[n] = obj /\ \A o \in Names \ {n} : configs'[o] = configs[o]
    BY <2>1, PutSteps, PutEntries
  <2>3. Ready(n)' => Ready(n) /\ obj # Absent
    BY <1>3, <1>7, <2>2 DEF UserWrite, Created, Edited, Deleted, SameStatus, Ready, Exists
  <2>4. \A o \in Names : Ready(o)' => Ready(o)
    BY <2>2, <2>3 DEF Ready, Exists
  <2>5. CASE n # S
    <3>1. Versions(S)' = Versions(S) /\ configs'[S] = configs[S]
      BY <1>3, <2>2, <2>5
    <3>2. Held' <=> Held
      BY <3>1 DEF Held, Exists
    <3> QED BY <1>1, <1>2, <1>5, <2>1, <2>4, <3>1, <3>2
  <2>6. CASE n = S
    <3>1. Held => Held'
      BY <1>3, <1>7, <2>2, <2>6 DEF UserWrite, Created, Edited, Deleted, Held, Exists
    <3>2. Asks(obj) => Held'
      BY <2>2, <2>6 DEF Held, Exists
    <3>3. \A v \in Versions(S)' : Asks(v) => Held'
      BY <1>1, <2>2, <2>6, <3>1, <3>2
    <3> QED BY <1>1, <1>2, <1>5, <2>1, <2>4, <3>1, <3>3
  <2> QED BY <2>5, <2>6
<1>8. CASE Aside \/ Drifted \/ Heard \/ \E n \in Names : Elapsed(n)
  <2>1. UNCHANGED <<configs, watch, cache, pc, key, mine>>
    BY <1>8 DEF Aside, Drifted, Heard, Elapsed, worker
  <2> QED BY <1>1, <1>3, <1>4, <1>5, <2>1, StreamFrame
<1>9. CASE Delivered
  <2>1. UNCHANGED <<configs, pc, key, mine>> /\ DeliverConfig
    BY <1>9 DEF Delivered, worker
  <2> QED BY <1>1, <1>3, <1>4, <1>5, <2>1, DeliverSteps
<1>10. CASE Restarted
  <2>1. pc' = "idle" /\ UNCHANGED configs
    BY <1>10 DEF Restarted, GoIdle
  <2>2. Versions(S)' = {configs[S]}
    <3>1. cache' = configs /\ 1..Len(watch') = {}
      BY <1>10, SMT DEF Restarted
    <3> QED BY <3>1 DEF Versions
  <2>3. (Held' <=> Held) /\ \A n \in Names : Ready(n)' <=> Ready(n)
    BY <2>1 DEF Held, Ready, Exists
  <2>4. Asks(configs[S]) => Held
    BY DEF Held, Exists
  <2> QED BY <1>1, <1>2, <1>6, <2>1, <2>2, <2>3, <2>4
<1>11. CASE Returned
  <2>1. pc' = "idle" /\ UNCHANGED <<configs, watch, cache>>
    BY <1>11 DEF Returned, GoIdle
  <2> QED BY <1>3, <1>4, <1>6, <2>1, StreamFrame
<1>12. ASSUME NEW n \in Names, Begun(n)
       PROVE  HeldBehind'
  <2>1. UNCHANGED <<configs, watch, cache>> /\ Versions(S)' = Versions(S)
    BY <1>3, <1>12, StreamFrame DEF Begun
  <2>2. CASE UNCHANGED worker
    BY <1>1, <1>4, <1>5, <2>1, <2>2 DEF worker
  <2>3. CASE ~UNCHANGED worker
    <3>1. /\ key' = n /\ cache[n] \in Objects
          /\ \/ n # S /\ pc' = "writeStatus"
             \/ n = S /\ Asks(cache[n]) /\ pc' = "patchNetwork"
             \/ n = S /\ pc' \in {"checkRoutings", "addFinalizer"}
      BY <1>3, <1>12, <2>3 DEF Begun
    <3>2. cache[S] \in Versions(S)
      BY DEF Versions
    <3>3. Busied' => Held
      BY <1>1, <3>1, <3>2 DEF Building
    <3> QED BY <1>4, <2>1, <3>3
  <2> QED BY <2>2, <2>3
<1>13. CASE Bound
  <2>1. PICK obj \in Objects : Put(key, obj) /\ obj.fin /\ SameStatus(obj, configs[key])
    BY <1>13 DEF Bound
  <2>2. key = S /\ UNCHANGED cache /\ configs[S] \in Objects
    BY <1>13, WorkerWrites DEF Bound, Stages
  <2>3. configs'[S] = obj /\ \A o \in Names \ {S} : configs'[o] = configs[o]
    BY <1>3, <2>1, <2>2, PutEntries
  <2>4. Held'
    BY <1>3, <2>1, <2>3 DEF Held, Exists
  <2>5. \A n \in Names : Ready(n)' => n = S
    BY <1>1, <2>3 DEF Ready, Exists
  <2> QED BY <1>2, <2>4, <2>5
<1>14. CASE Reported
  <2>1. pc' = "idle" /\ fresh /\ pc = "writeStatus" /\ UNCHANGED cache
    BY <1>14 DEF Reported, GoIdle
  <2>2. key \in Names /\ configs[key] \in Objects
    BY <1>14, WorkerWrites
  <2>3. PICK obj \in Objects :
          /\ SameRest(obj, configs[key]) /\ SameStatus(obj, mine)
          /\ IF obj = configs[key] THEN UNCHANGED <<configs, watch>> ELSE Put(key, obj)
    BY <1>14 DEF Reported
  <2>4. CASE UNCHANGED <<configs, watch>>
    BY <1>3, <1>4, <1>6, <2>1, <2>4, StreamFrame
  <2>5. CASE Put(key, obj)
    <3>1. /\ configs'[key] = obj
          /\ \A o \in Names \ {key} : Versions(o)' = Versions(o) /\ configs'[o] = configs[o]
      BY <2>1, <2>2, <2>3, <2>5, PutSteps, PutEntries
    <3>2. CASE key = S
      <4>1. Held
        BY <1>1, <2>1, <3>2
      <4>2. Held'
        BY <1>3, <2>3, <3>1, <3>2, <4>1 DEF Held, Exists, SameRest
      <4>3. \A n \in Names : Ready(n)' => n = S
        BY <1>1, <3>1, <3>2 DEF Ready, Exists
      <4> QED BY <1>2, <4>2, <4>3
    <3>3. CASE key # S
      <4>1. Versions(S)' = Versions(S) /\ configs'[S] = configs[S]
        BY <1>3, <3>1, <3>3
      <4>2. Held' <=> Held
        BY <4>1 DEF Held, Exists
      <4>3. obj.phase # "Ready"
        BY <2>1, <2>3, <3>3 DEF Stages, SameStatus
      <4>4. \A n \in Names : Ready(n)' => Ready(n)
        BY <3>1, <4>3 DEF Ready, Exists
      <4> QED BY <1>1, <1>2, <1>6, <2>1, <4>1, <4>2, <4>4
    <3> QED BY <3>2, <3>3
  <2> QED BY <2>3, <2>4, <2>5
<1>15. CASE Released
  <2>1. pc' = "idle" /\ fresh /\ pc = "removeFinalizer" /\ UNCHANGED cache /\ Put(key, Absent)
    BY <1>15 DEF Released, GoIdle
  <2>2. key = S /\ mine.del
    BY <2>1 DEF Stages, Deleting
  <2>3. /\ Versions(S)' = Versions(S) \cup {Absent} /\ configs'[S] = Absent
        /\ \A o \in Names \ {S} : configs'[o] = configs[o]
    BY <1>3, <2>1, <2>2, PutSteps, PutEntries
  <2>4. \A v \in Versions(S) : ~Asks(v)
    BY <2>1, <2>2 DEF FreshCopy
  <2>5. \A n \in Names : ~Ready(n)'
    BY <1>1, <2>3 DEF Ready, Exists
  <2> QED BY <1>2, <1>6, <2>1, <2>3, <2>4, <2>5
<1>16. CASE Moved
  <2>1. UNCHANGED <<configs, watch, cache>> /\ Versions(S)' = Versions(S)
    BY <1>3, <1>16, MovedKeeps, StreamFrame
  <2>2. Busied' => Building
    BY <1>16, MovedStages
  <2> QED BY <1>1, <1>4, <2>1, <2>2
<1> QED BY <1>7, <1>8, <1>9, <1>10, <1>11, <1>12, <1>13, <1>14, <1>15, <1>16
        DEF AnyStep, WorkerStep

(* The readiness on its way to the cache changes at most once. *)
LEMMA OneChangeStep ==
  ASSUME TypeOK, CacheFollows, FreshCopy, HeldBehind, OneChange, AnyStep
  PROVE  OneChange'
<1> DEFINE S == SingletonName
           Agree(n) == \A v \in Versions(n) : IsReady(v) = IsReady(configs[n])
<1>1. CASE UNCHANGED <<configs, watch, cache>>
  BY <1>1, StreamFrame
<1>2. ASSUME NEW n \in Names, NEW obj \in Objects \cup {Absent}, UserWrite(n, obj)
      PROVE  OneChange'
  <2>1. CASE IsReady(obj) = IsReady(configs[n])
    BY <1>2, <2>1, PutChange DEF UserWrite
  <2>2. CASE IsReady(obj) # IsReady(configs[n]) /\ n = S
    <3>1. configs[n] # Absent /\ ~configs[n].fin /\ IsReady(configs[n])
      BY <1>2, <2>2, AbsentAssumption
         DEF UserWrite, Created, Edited, Deleted, SameStatus, IsReady
    <3> QED BY <3>1 DEF HeldBehind, Held, Ready, Exists, IsReady
  <2>3. CASE n # S
    BY <1>2, <2>3, PutChange DEF UserWrite
  <2> QED BY <2>1, <2>2, <2>3
<1>3. CASE Bound \/ Reported \/ Released
  <2>1. CASE UNCHANGED <<configs, watch>>
    BY <1>1, <1>3, <2>1, WorkerWrites
  <2>2. CASE \E obj \in Objects \cup {Absent} : Put(key, obj)
    <3>1. PICK obj \in Objects \cup {Absent} : Put(key, obj)
      BY <2>2
    <3>2. key \in Names /\ configs[key] \in Objects /\ UNCHANGED cache /\ fresh
      BY <1>3, WorkerWrites DEF Bound, Reported, Released
    <3>3. Agree(key)
      BY <3>2, AbsentAssumption DEF FreshCopy, IsReady
    <3> QED BY <3>1, <3>2, <3>3, PutChange
  <2> QED BY <1>3, <2>1, <2>2, WorkerWrites
<1>4. CASE Delivered
  BY <1>4, DeliverChange DEF Delivered
<1>5. CASE Restarted
  <2>1. cache' = configs' /\ 1..Len(watch') = {}
    BY <1>5, SMT DEF Restarted
  <2> QED BY <2>1 DEF OneChange
<1>6. CASE Aside \/ Drifted \/ Heard \/ Moved \/ Returned \/ \E n \in Names : Elapsed(n) \/ Begun(n)
  BY <1>1, <1>6 DEF Aside, Drifted, Heard, Moved, Returned, Elapsed, Begun
<1> QED BY <1>2, <1>3, <1>4, <1>5, <1>6 DEF AnyStep, WorkerStep

-----------------------------------------------------------------------------
(***************************************************************************)
(* FRRConfigurations.                                                      *)
(***************************************************************************)

(* What a write of an FRRConfiguration does. *)
LEMMA FRRWritten ==
  ASSUME TypeOK, NEW i \in Zones, NEW f \in ManagedFRRs \cup {Absent, Foreign}, PutFRR(i, f)
  PROVE  /\ frrs' \in [Zones -> ManagedFRRs \cup {Absent, Foreign}] /\ frrEvent' \in BOOLEAN
         /\ frrs'[i] = f /\ \A j \in Zones \ {i} : frrs'[j] = frrs[j]
         /\ frrEvent => frrEvent'
         /\ frrEvent' \/ f = frrs[i] \/ (~Managed(f) /\ ~Managed(frrs[i]))
BY DEF TypeOK, ApiTypes, EventTypes, PutFRR

(* A step leaves the FRRConfigurations alone, takes managed ones away, or  *)
(* writes the one of the worker's step, and forgets no event of one.       *)
LEMMA FRRKinds ==
  ASSUME TypeOK, Numbering, StatusStages, Stages, AnyStep
  PROVE  /\ frrs' \in [Zones -> ManagedFRRs \cup {Absent, Foreign}] /\ frrEvent' \in BOOLEAN
         /\ \/ UNCHANGED frrs
            \/ \E i \in Zones, f \in {Absent, Foreign} :
                   PutFRR(i, f) /\ (Drifted \/ (pc = "deleteFRR" /\ (Moved \/ Returned)))
            \/ /\ pc = "ensureFRR" /\ PutFRR(step, FRRFor(mine, step)) /\ Moved
               /\ Building /\ step \in Zones /\ Managed(FRRFor(mine, step))
         /\ frrEvent /\ ~Restarted => frrEvent' \/ SingletonName \in queue'
<1>1. frrs \in [Zones -> ManagedFRRs \cup {Absent, Foreign}] /\ frrEvent \in BOOLEAN
  BY DEF TypeOK, ApiTypes, EventTypes
<1>2. CASE UNCHANGED <<frrs, frrEvent>>
  BY <1>1, <1>2
<1>3. CASE Heard \/ Restarted
  BY <1>1, <1>3 DEF Heard, Restarted
<1>4. ASSUME NEW i \in Zones, NEW f \in {Absent, Foreign}, PutFRR(i, f),
             Drifted \/ (pc = "deleteFRR" /\ (Moved \/ Returned))
      PROVE  /\ frrs' \in [Zones -> ManagedFRRs \cup {Absent, Foreign}] /\ frrEvent' \in BOOLEAN
             /\ frrEvent => frrEvent'
  BY <1>4, FRRWritten
<1>5. CASE Drifted
  BY <1>4, <1>5 DEF Drifted
<1>6. doomed \subseteq Zones
  BY DEF TypeOK, WorkerTypes
<1>7. CASE Returned
  <2>1. CASE ~UNCHANGED <<frrs, frrEvent>>
    <3>1. pc = "deleteFRR" /\ \E i \in doomed : PutFRR(i, Absent)
      BY <1>7, <2>1 DEF Returned
    <3> QED BY <1>4, <1>6, <1>7, <3>1
  <2> QED BY <1>2, <2>1
<1>8. CASE Moved
  <2>1. \/ UNCHANGED <<frrs, frrEvent>>
        \/ pc = "ensureFRR" /\ PutFRR(step, FRRFor(mine, step))
        \/ pc = "deleteFRR" /\ \E i \in doomed : PutFRR(i, Absent)
    BY <1>8 DEF Moved, Ensures, Prunes, Fails
  <2>2. CASE pc = "deleteFRR" /\ \E i \in doomed : PutFRR(i, Absent)
    BY <1>4, <1>6, <1>8, <2>2
  <2>3. CASE pc = "ensureFRR" /\ PutFRR(step, FRRFor(mine, step))
    <3>1. Building /\ step \in 1..FRRCount(mine)
      BY <2>3 DEF Building, Stages
    <3>2. step \in Zones /\ Managed(FRRFor(mine, step))
      BY <2>3, <3>1, KnownZones
    <3> QED BY <1>8, <2>3, <3>1, <3>2, FRRWritten DEF Managed
  <2> QED BY <1>2, <2>1, <2>2, <2>3
<1>9. CASE \/ \E n \in Names, obj \in Objects \cup {Absent} : UserWrite(n, obj)
           \/ Aside \/ Delivered \/ \E n \in Names : Elapsed(n) \/ Begun(n)
           \/ Bound \/ Reported \/ Released
  BY <1>2, <1>9 DEF UserWrite, Aside, Delivered, Elapsed, Begun, Bound, Reported, Released
<1> QED BY <1>3, <1>5, <1>7, <1>8, <1>9 DEF AnyStep, WorkerStep

(* But for the worker that builds, nobody makes a managed one. *)
LEMMA OnlyBuildingAdds ==
  ASSUME TypeOK, Numbering, StatusStages, Stages, AnyStep, NEW i \in Zones, Managed(frrs'[i])
  PROVE  Managed(frrs[i]) \/ (pc = "ensureFRR" /\ Building /\ Moved)
<1>1. CASE UNCHANGED frrs
  BY <1>1
<1>2. CASE \E j \in Zones, f \in {Absent, Foreign} : PutFRR(j, f)
  <2>1. PICK j \in Zones, f \in {Absent, Foreign} : PutFRR(j, f)
    BY <1>2
  <2>2. ~Managed(f)
    BY AbsentAssumption DEF Managed
  <2> QED BY <2>1, <2>2, FRRWritten
<1> QED BY <1>1, <1>2, FRRKinds

(* A deletion lists all of them, and takes them off its list one by one. *)
LEMMA CleanedUpStep ==
  ASSUME TypeOK, Numbering, StatusStages, Stages, CleanedUp, AnyStep
  PROVE  CleanedUp'
<1>1. ASSUME UNCHANGED <<pc, mine, doomed>>, pc # "ensureFRR" \/ ~Moved
      PROVE  CleanedUp'
  BY <1>1, OnlyBuildingAdds DEF CleanedUp
<1>2. ASSUME pc' \notin {"deleteFRR", "removeFinalizer"}
      PROVE  CleanedUp'
  BY <1>2 DEF CleanedUp
<1>3. CASE \/ \E n \in Names, obj \in Objects \cup {Absent} : UserWrite(n, obj)
           \/ Aside \/ Drifted \/ Delivered \/ Heard \/ \E n \in Names : Elapsed(n)
  <2>1. UNCHANGED <<pc, mine, doomed>>
    BY <1>3 DEF UserWrite, Aside, Drifted, Delivered, Heard, Elapsed, worker
  <2>2. CASE pc = "ensureFRR"
    BY <1>2, <2>1, <2>2
  <2> QED BY <1>1, <2>1, <2>2
<1>4. CASE Restarted \/ Reported \/ Released \/ Returned \/ Bound
  BY <1>2, <1>4 DEF Restarted, Reported, Released, Returned, Bound, GoIdle
<1>5. CASE \E n \in Names : Begun(n)
  <2>1. pc' \in {"idle", "writeStatus", "checkRoutings", "patchNetwork", "addFinalizer"}
    BY <1>5 DEF Begun, worker
  <2> QED BY <1>2, <2>1
<1>6. CASE Moved
  <2>1. mine'.del = mine.del
    BY <1>6, MovedKeeps DEF SameRest
  <2>2. CASE pc' = "deleteFRR" /\ mine'.del
    <3>1. (Lists /\ UNCHANGED frrs) \/ \E i \in Zones : Prunes(i)
      BY <1>6, <2>1, <2>2 DEF Moved, Prepares, Concludes, Clears, Numbers, Ensures, Fails,
                              Onward, Finishes, Complains, Stay
    <3>2. CASE Lists /\ UNCHANGED frrs
      BY <2>1, <2>2, <3>2 DEF Lists, CleanedUp
    <3>3. ASSUME NEW i \in Zones, Prunes(i)
          PROVE  CleanedUp'
      <4>1. pc = "deleteFRR" /\ PutFRR(i, Absent) /\ doomed' = doomed \ {i}
        BY <3>3 DEF Prunes
      <4>2. ~Managed(frrs'[i]) /\ \A j \in Zones \ {i} : frrs'[j] = frrs[j]
        BY <4>1, FRRWritten, AbsentAssumption DEF Managed
      <4> QED BY <2>1, <2>2, <4>1, <4>2 DEF CleanedUp
    <3> QED BY <3>1, <3>2, <3>3
  <2>3. CASE pc' = "removeFinalizer"
    <3>1. pc = "deleteFRR" /\ doomed = {} /\ mine.del /\ UNCHANGED frrs
      BY <1>6, <2>3 DEF Moved, Prepares, Concludes, Clears, Numbers, Lists, Ensures, Prunes,
                        Fails, Onward, Finishes, Complains, Stay
    <3> QED BY <2>3, <3>1 DEF CleanedUp
  <2>4. CASE pc' # "removeFinalizer" /\ ~(pc' = "deleteFRR" /\ mine'.del)
    BY <2>4 DEF CleanedUp
  <2> QED BY <2>2, <2>3, <2>4
<1> QED BY <1>3, <1>4, <1>5, <1>6 DEF AnyStep, WorkerStep

(* The finalizer holds the object until the worker releases it. *)
LEMMA HeldStays ==
  ASSUME TypeOK, FreshCopy, Stages, Held, AnyStep
  PROVE  Held' \/ Released
<1> DEFINE S == SingletonName
<1>1. S \in Names /\ Absent \notin Objects
  BY ConstantsAssumption, AbsentAssumption
<1>2. CASE UNCHANGED configs
  BY <1>2 DEF Held, Exists
<1>3. ASSUME NEW n \in Names, NEW obj \in Objects, Put(n, obj), n = S => obj.fin
      PROVE  Held'
  <2>1. configs'[n] = obj /\ \A o \in Names \ {n} : configs'[o] = configs[o]
    BY <1>3, PutEntries
  <2> QED BY <1>1, <1>3, <2>1 DEF Held, Exists
<1>4. ASSUME NEW n \in Names, NEW obj \in Objects \cup {Absent}, UserWrite(n, obj)
      PROVE  Held'
  <2>1. CASE n = S
    <3>1. obj \in Objects /\ obj.fin
      BY <1>4, <2>1 DEF UserWrite, Created, Edited, Deleted, Held, Exists
    <3> QED BY <1>3, <1>4, <3>1 DEF UserWrite
  <2>2. CASE n # S
    <3>1. S \in Names \ {n} /\ Put(n, obj)
      BY <1>1, <1>4, <2>2 DEF UserWrite
    <3>2. configs'[S] = configs[S]
      BY <3>1, PutEntries
    <3> QED BY <3>2 DEF Held, Exists
  <2> QED BY <2>1, <2>2
<1>5. CASE Bound
  BY <1>3, <1>5, WorkerWrites DEF Bound
<1>6. CASE Reported
  <2>1. PICK obj \in Objects :
          /\ SameRest(obj, configs[key])
          /\ IF obj = configs[key] THEN UNCHANGED <<configs, watch>> ELSE Put(key, obj)
    BY <1>6 DEF Reported
  <2>2. key = S => obj.fin
    BY <2>1 DEF SameRest, Held
  <2> QED BY <1>2, <1>3, <1>6, <2>1, <2>2, WorkerWrites
<1>7. CASE \/ Aside \/ Drifted \/ Delivered \/ Heard \/ Restarted \/ Moved \/ Returned
           \/ \E n \in Names : Elapsed(n) \/ Begun(n)
  BY <1>2, <1>7 DEF Aside, Drifted, Delivered, Heard, Restarted, Moved, Returned, Elapsed, Begun
<1> QED BY <1>4, <1>5, <1>6, <1>7 DEF AnyStep, WorkerStep

(* The finalizer goes when no managed one is left, and none comes without. *)
LEMMA NoOrphanFRRStep ==
  ASSUME TypeOK, Numbering, FreshCopy, StatusStages, Stages, HeldBehind, CleanedUp,
         NoOrphanFRR, AnyStep
  PROVE  NoOrphanFRR'
<1>1. SUFFICES ASSUME NEW i \in Zones, Managed(frrs'[i]) PROVE Held'
  BY DEF NoOrphanFRR, Held, Exists, Managed
<1>2. Managed(frrs[i]) \/ (pc = "ensureFRR" /\ Building /\ Moved)
  BY <1>1, OnlyBuildingAdds
<1>3. Held
  BY <1>2 DEF NoOrphanFRR, HeldBehind, Held
<1>4. ~Released
  <2>1. ASSUME Released PROVE FALSE
    <3>1. pc = "removeFinalizer" /\ UNCHANGED frrs
      BY <2>1 DEF Released
    <3> QED BY <1>1, <3>1 DEF CleanedUp
  <2> QED BY <2>1
<1> QED BY <1>3, <1>4, HeldStays

-----------------------------------------------------------------------------
(***************************************************************************)
(* Work done and work noticed.                                             *)
(***************************************************************************)

(* What WrittenUpTo and Applied say of the FRRConfigurations f and object  *)
(* o; changes of f to g that need no event.                                *)
Written(f, o, k) == \A i \in 1..k : f[i] = FRRFor(o, i)
Fits(f, o) ==
    \A i \in Zones : IF i <= FRRCount(o) THEN f[i] = FRRFor(o, i) ELSE ~Managed(f[i])
Quiet(f, g) == \A i \in Zones : Managed(f[i]) \/ Managed(g[i]) => g[i] = f[i]

(* A change that matters raises an event. *)
LEMMA QuietStep ==
  ASSUME TypeOK, Numbering, StatusStages, Stages, AnyStep
  PROVE  frrEvent' \/ Quiet(frrs, frrs')
<1>1. CASE UNCHANGED frrs
  BY <1>1 DEF Quiet
<1>2. ASSUME NEW i \in Zones, NEW f \in ManagedFRRs \cup {Absent, Foreign}, PutFRR(i, f)
      PROVE  frrEvent' \/ Quiet(frrs, frrs')
  BY <1>2, FRRWritten DEF Quiet
<1> QED BY <1>1, <1>2, FRRKinds DEF Managed

(* Only spec, generation and zones of an object matter here. *)
LEMMA SameFRRs ==
  ASSUME NEW o, NEW p, o.spec = p.spec, o.gen = p.gen, o.found = p.found
  PROVE  FRRCount(o) = FRRCount(p) /\ \A i : FRRFor(o, i) = FRRFor(p, i)
BY DEF FRRCount, FRRFor, FRRZones

(* Quiet changes leave the work of a reconcile as it is. *)
LEMMA QuietKeeps ==
  ASSUME Numbering, NEW f, NEW g, Quiet(f, g),
         NEW o \in Objects, o.spec.aws => o.found # Absent
  PROVE  /\ Fits(f, o) => Fits(g, o)
         /\ \A k \in 0..FRRCount(o) : Written(f, o, k) => Written(g, o, k)
<1>1. /\ FRRCount(o) \in 0..ZoneCount
      /\ \A i \in 1..FRRCount(o) : i \in Zones /\ Managed(FRRFor(o, i))
  BY DEF Numbering
<1>2. FRRCount(o) \in Nat /\ \A i \in Zones : i <= FRRCount(o) => i \in 1..FRRCount(o)
  BY <1>1, ConstantsAssumption, SMT DEF Zones
<1>3. Fits(f, o) => Fits(g, o)
  BY <1>1, <1>2 DEF Fits, Quiet
<1>4. \A k \in 0..FRRCount(o) : \A i \in 1..k : i \in 1..FRRCount(o)
  BY <1>2, SMT
<1>5. \A k \in 0..FRRCount(o) : Written(f, o, k) => Written(g, o, k)
  BY <1>1, <1>4 DEF Written, Quiet
<1> QED BY <1>3, <1>5

(* A Ready config goes unnoticed only if it did before, or at the end of a *)
(* reconcile that found it just as it was to be reported.                  *)
LEMMA Unnoticed ==
  ASSUME TypeOK, CacheFollows, FreshCopy, NewsComing, Stages, AnyStep,
         Ready(SingletonName)', ~configs'[SingletonName].del, ~Noticed(SingletonName)'
  PROVE  /\ configs'[SingletonName] = configs[SingletonName]
         /\ \/ ~Noticed(SingletonName)
            \/ /\ Reported /\ key = SingletonName /\ SameStatus(configs[key], mine)
               /\ configs[key].spec = mine.spec /\ configs[key].gen = mine.gen
<1> DEFINE S == SingletonName
<1>1. S \in Names /\ S # Absent
  BY ConstantsAssumption
<1>2. /\ configs'[S] # Absent /\ S \notin queue' /\ delayed'[S] # "backoff" /\ key' # S
      /\ ~Pending(S)'
  BY DEF Ready, Exists, Noticed
<1>3. ASSUME configs'[S] = configs[S], S \in queue => S \in queue',
             delayed[S] = "backoff" => delayed'[S] = "backoff", key = S => key' = S,
             Pending(S) => Pending(S)' \/ S \in queue'
      PROVE  configs'[S] = configs[S] /\ ~Noticed(S)
  BY <1>2, <1>3 DEF Noticed
<1>4. ASSUME NEW obj \in Objects \cup {Absent}, Put(S, obj), UNCHANGED cache
      PROVE  FALSE
  BY <1>1, <1>2, <1>4, PutSteps
<1>5. ASSUME NEW n \in Names, NEW obj \in Objects \cup {Absent}, Put(n, obj), UNCHANGED cache
      PROVE  n # S /\ configs'[S] = configs[S] /\ (Pending(S)' <=> Pending(S))
  <2>1. n # S
    BY <1>4, <1>5
  <2>2. S \in Names \ {n}
    BY <1>1, <2>1
  <2> QED BY <1>5, <2>1, <2>2, PutSteps, PutEntries
<1>6. ASSUME NEW n \in Names, NEW obj \in Objects \cup {Absent}, UserWrite(n, obj)
      PROVE  configs'[S] = configs[S] /\ ~Noticed(S)
  BY <1>3, <1>5, <1>6 DEF UserWrite
<1>7. CASE Aside \/ Drifted \/ Heard \/ Moved
  <2>1. UNCHANGED <<configs, watch, cache, delayed, key>> /\ queue \subseteq queue'
    BY <1>7 DEF Aside, Drifted, Heard, Moved, worker
  <2>2. Pending(S) <=> Pending(S)'
    BY <1>1, <2>1, StreamFrame
  <2> QED BY <1>3, <2>1, <2>2
<1>8. CASE Delivered
  <2>1. UNCHANGED <<configs, delayed, key>> /\ DeliverConfig /\ queue \subseteq queue'
    BY <1>8 DEF Delivered, worker, DeliverConfig
  <2> QED BY <1>1, <1>3, <2>1, DeliverSteps
<1>9. CASE Restarted
  <2>1. configs[S] # Absent => S \in queue'
    BY <1>1, <1>9 DEF Restarted
  <2> QED BY <1>2, <1>9, <2>1 DEF Restarted
<1>10. ASSUME NEW n \in Names, Elapsed(n)
       PROVE  configs'[S] = configs[S] /\ ~Noticed(S)
  <2>1. n # S
    BY <1>2, <1>10 DEF Elapsed
  <2>2. delayed'[S] = delayed[S]
    BY <1>1, <1>10, <2>1 DEF Elapsed, TypeOK, RequeueTypes
  <2>3. UNCHANGED <<configs, watch, cache, key>> /\ queue \subseteq queue'
    BY <1>10 DEF Elapsed, worker
  <2>4. Pending(S) <=> Pending(S)'
    BY <1>1, <2>3, StreamFrame
  <2> QED BY <1>3, <2>2, <2>3, <2>4

<1>11. ASSUME NEW n \in Names, Begun(n)
       PROVE  configs'[S] = configs[S] /\ ~Noticed(S)
  <2>1. UNCHANGED <<configs, watch, cache, delayed>> /\ pc = "idle" /\ queue' = queue \ {n}
    BY <1>11 DEF Begun
  <2>2. (Pending(S) <=> Pending(S)') /\ key = Absent
    BY <1>1, <2>1, StreamFrame DEF TypeOK, WorkerTypes
  <2>3. n # S
    <3>1. cache[S] = configs[S]
      BY <1>1, <1>2, <2>2 DEF CacheFollows
    <3> QED BY <1>2, <1>11, <2>1, <3>1 DEF Begun
  <2> QED BY <1>1, <1>3, <2>1, <2>2, <2>3
<1>12. ASSUME key # S, UNCHANGED <<configs, watch, cache, queue>>, delayed'[S] = delayed[S]
       PROVE  configs'[S] = configs[S] /\ ~Noticed(S)
  <2>1. Pending(S) <=> Pending(S)'
    BY <1>1, <1>12, StreamFrame
  <2> QED BY <1>3, <1>12, <2>1
<1>13. CASE Returned
  <2>1. UNCHANGED <<configs, watch, cache, queue>> /\ pc # "idle" /\ key \in Names
    BY <1>13, Busy DEF Returned
  <2>2. CASE key = S
    <3>1. pc = "checkRoutings"
      BY <1>1, <1>2, <1>13, <2>2 DEF Returned, TypeOK, RequeueTypes
    <3>2. mine.del
      BY <3>1 DEF Stages, Deleting
    <3>3. ~fresh
      BY <2>1, <2>2, <3>2 DEF FreshCopy
    <3>4. Pending(S) \/ S \in queue
      BY <1>1, <2>2, <3>3 DEF NewsComing
    <3> QED BY <1>1, <1>2, <2>1, <3>4, StreamFrame
  <2>3. CASE key # S
    <3>1. delayed'[S] = delayed[S]
      BY <1>1, <1>13, <2>1, <2>3 DEF Returned, TypeOK, RequeueTypes
    <3> QED BY <1>12, <2>1, <2>3, <3>1
  <2> QED BY <2>2, <2>3
<1>14. CASE Bound \/ Released
  <2>1. key = S /\ UNCHANGED cache /\ \E obj \in Objects \cup {Absent} : Put(key, obj)
    BY <1>14 DEF Bound, Released, Stages
  <2> QED BY <1>4, <2>1
<1>15. CASE Reported
  <2>1. /\ key \in Names /\ fresh /\ UNCHANGED <<cache, queue>> /\ key' # S
        /\ \A n \in Names \ {key} : delayed'[n] = delayed[n]
    BY <1>1, <1>15, WorkerWrites DEF Reported, GoIdle, TypeOK, RequeueTypes
  <2>2. PICK obj \in Objects :
          /\ SameStatus(obj, mine)
          /\ IF obj = configs[key] THEN UNCHANGED <<configs, watch>> ELSE Put(key, obj)
    BY <1>15 DEF Reported
  <2>3. CASE key = S
    <3>1. obj = configs[key] /\ UNCHANGED configs
      BY <1>4, <2>1, <2>2, <2>3
    <3> QED BY <1>15, <2>1, <2>2, <2>3, <3>1 DEF FreshCopy
  <2>4. CASE key # S
    <3>1. delayed'[S] = delayed[S]
      BY <1>1, <2>1, <2>4
    <3>2. CASE UNCHANGED <<configs, watch>>
      BY <1>12, <2>1, <2>4, <3>1, <3>2
    <3>3. CASE Put(key, obj)
      <4>1. configs'[S] = configs[S] /\ (Pending(S)' <=> Pending(S))
        BY <1>5, <2>1, <3>3
      <4> QED BY <1>3, <2>1, <2>4, <3>1, <4>1
    <3> QED BY <2>2, <3>2, <3>3
  <2> QED BY <2>3, <2>4
<1> QED BY <1>6, <1>7, <1>8, <1>9, <1>10, <1>11, <1>13, <1>14, <1>15 DEF AnyStep, WorkerStep

(* The steps that forget an FRRConfiguration's event ask for a reconcile. *)
LEMMA EventKept ==
  ASSUME TypeOK, Numbering, StatusStages, Stages, AnyStep, frrEvent, Ready(SingletonName)'
  PROVE  frrEvent' \/ SingletonName \in queue'
<1>1. CASE Restarted
  BY <1>1, ConstantsAssumption DEF Restarted, Ready, Exists
<1> QED BY <1>1, FRRKinds

(* A status that ends a reconcile is about the generation it read. *)
LEMMA ObservedStep ==
  ASSUME TypeOK, CacheFollows, FreshCopy, NewsComing, Stages, StatusStages, Observed, AnyStep,
         HeldBehind'
  PROVE  Observed'
<1> DEFINE S == SingletonName
<1>1. SUFFICES ASSUME Ready(S)', ~configs'[S].del, ~Noticed(S)'
               PROVE  configs'[S].obs = configs'[S].gen
  BY DEF Observed, HeldBehind
<1>2. S \in Names
  BY ConstantsAssumption
<1>3. configs'[S] = configs[S] /\ Ready(S)
  BY <1>1, Unnoticed DEF Ready, Exists
<1>4. CASE ~Noticed(S)
  BY <1>1, <1>2, <1>3, <1>4 DEF Observed
<1>5. CASE /\ Reported /\ key = S /\ SameStatus(configs[key], mine)
           /\ configs[key].gen = mine.gen
  <2>1. mine.obs = mine.gen
    BY <1>5 DEF Reported, StatusStages
  <2>2. configs[S].obs = mine.obs /\ configs[S].gen = mine.gen
    BY <1>5 DEF SameStatus
  <2> QED BY <1>3, <2>1, <2>2
<1> QED BY <1>1, <1>4, <1>5, Unnoticed

(* A Ready config is as applied, or a reconcile is coming. *)
LEMMA FRRDriftNoticedStep ==
  ASSUME TypeOK, Numbering, CacheFollows, FreshCopy, NewsComing, Stages, StatusStages, Observed,
         StatusCoherent, WorkNoticed, FRRDriftNoticed, AnyStep, HeldBehind'
  PROVE  FRRDriftNoticed'
<1> DEFINE S == SingletonName
<1>1. SUFFICES ASSUME Ready(S)', ~configs'[S].del, ~Noticed(S)', ~frrEvent'
               PROVE  Fits(frrs', configs'[S])
  BY DEF FRRDriftNoticed, HeldBehind, Applied, Fits, Managed
<1>2. S \in Names /\ S \notin queue'
  BY <1>1, ConstantsAssumption DEF Noticed
<1>3. configs'[S] = configs[S] /\ Ready(S)
  BY <1>1, Unnoticed DEF Ready, Exists
<1>4. ~frrEvent
  BY <1>1, <1>2, EventKept
<1>5. CASE ~Noticed(S)
  <2>1. Fits(frrs, configs[S])
    BY <1>1, <1>2, <1>3, <1>4, <1>5 DEF FRRDriftNoticed, Applied, Fits
  <2>2. configs[S] \in Objects /\ configs[S].obs = configs[S].gen /\ configs[S].phase = "Ready"
    BY <1>1, <1>2, <1>3, <1>5, Present DEF Observed, Ready, Exists
  <2>3. configs[S].spec.aws => configs[S].found # Absent
    BY <1>2, <1>3, <2>2 DEF StatusCoherent, Coherent, Ready
  <2> QED BY <1>1, <1>3, <2>1, <2>2, <2>3, QuietStep, QuietKeeps
<1>6. CASE /\ Reported /\ key = S /\ SameStatus(configs[key], mine)
           /\ configs[key].spec = mine.spec /\ configs[key].gen = mine.gen
  <2>1. pc = "writeStatus" /\ mine.phase = "Ready" /\ UNCHANGED <<frrs, queue>>
    BY <1>3, <1>6 DEF Reported, SameStatus, Ready
  <2>2. Fits(frrs, mine)
    BY <1>2, <1>4, <2>1 DEF WorkNoticed, Applied, Fits
  <2>3. FRRCount(configs[S]) = FRRCount(mine) /\ \A i : FRRFor(configs[S], i) = FRRFor(mine, i)
    BY <1>6, SameFRRs DEF SameStatus
  <2> QED BY <1>3, <2>1, <2>2, <2>3 DEF Fits
<1> QED BY <1>1, <1>5, <1>6, Unnoticed

(* What a reconcile that goes on has written, or writes now, stays. *)
LEMMA WorkMoved ==
  ASSUME TypeOK, Numbering, StatusStages, Stages, WorkNoticed, AnyStep, Moved,
         ~frrEvent', SingletonName \notin queue'
  PROVE  WorkNoticed'
<1> DEFINE Past == Building /\ pc \notin {"patchNetwork", "checkFRR", "discover"}
           c == FRRCount(mine)
<1>1. Quiet(frrs, frrs') /\ mine \in Objects /\ mine' \in Objects /\ mine'.del = mine.del
  BY QuietStep, MovedKeeps DEF SameRest
<1>2. ~frrEvent /\ SingletonName \notin queue
  <2>1. UNCHANGED queue
    BY MovedKeeps
  <2>2. ~Restarted
    BY MovedKeeps DEF Restarted, GoIdle
  <2> QED BY <2>1, <2>2, FRRKinds
<1>3. ASSUME pc' \notin {"ensureFRR", "reconcileNodes"}, pc' \in {"listFRR", "deleteFRR"} => mine.del,
             pc' = "writeStatus" => mine'.phase # "Ready"
      PROVE  WorkNoticed'
  BY <1>1, <1>3 DEF WorkNoticed
<1>4. CASE Prepares
  <2>1. Building => mine.phase = "Configuring"
    BY DEF StatusStages
  <2>2. mine.phase = "Configuring"
    BY <1>4, <2>1 DEF Prepares, Building
  <2> QED BY <1>3, <1>4, <2>2 DEF Prepares, Onward
<1>5. CASE Fails
  BY <1>3, <1>5 DEF Fails, Complains
<1>6. CASE Clears
  <2>1. pc' \in {"cleanup", "listFRR", "removeFinalizer"}
    BY <1>6 DEF Clears, Stay
  <2>2. Deleting
    BY <1>6 DEF Clears, Deleting
  <2> QED BY <1>3, <2>1, <2>2 DEF Stages
<1>7. CASE Deleting
  <2>1. mine'.del /\ Deleting' /\ pc' # "writeStatus"
    BY <1>7, MovedStages DEF Stages
  <2> QED BY <1>1, <1>3, <2>1 DEF Deleting
<1>8. ASSUME Past
      PROVE  /\ c \in Nat /\ \A i \in 1..c : i \in Zones /\ Managed(FRRFor(mine, i))
             /\ mine.spec.aws => mine.found # Absent
             /\ Fits(frrs, mine) => Fits(frrs', mine)
             /\ \A k \in 0..c : Written(frrs, mine, k) => Written(frrs', mine, k)
  <2>1. mine.spec.aws => mine.found # Absent
    BY <1>8 DEF StatusStages
  <2>2. c \in 0..ZoneCount /\ \A i \in 1..c : i \in Zones /\ Managed(FRRFor(mine, i))
    BY <1>8, KnownZones
  <2>3. c \in Nat
    BY <2>2, ConstantsAssumption, SMT
  <2> QED BY <1>1, <2>1, <2>2, <2>3, QuietKeeps
<1>9. ASSUME mine' = mine
      PROVE  /\ FRRCount(mine)' = c
             /\ \A k : WrittenUpTo(k)' <=> Written(frrs', mine, k)
  BY <1>9 DEF FRRCount, FRRZones, WrittenUpTo, Written, FRRFor
<1>10. CASE Numbers
  <2>1. Past /\ mine' = mine /\ step' = 1 /\ pc' \in {"ensureFRR", "listFRR"}
    BY <1>10 DEF Numbers, Stay, Building
  <2>2. ~mine.del
    BY <2>1 DEF Stages
  <2>3. pc' = "listFRR" => c = 0
    BY <1>10 DEF Numbers, Stay
  <2>4. Written(frrs', mine, 0) /\ step' - 1 = 0
    <3>1. 1..0 = {} /\ 1 - 1 = 0
      BY SMT
    <3> QED BY <2>1, <3>1 DEF Written
  <2>5. pc' = "ensureFRR" => WrittenUpTo(step - 1)'
    <3>1. (step - 1)' = 0
      BY <2>4
    <3> QED BY <1>9, <2>1, <2>4, <3>1
  <2>6. pc' = "listFRR" => WrittenUpTo(FRRCount(mine))'
    BY <1>9, <2>1, <2>3, <2>4
  <2> QED BY <2>1, <2>5, <2>6 DEF WorkNoticed
<1>11. CASE Ensures
  <2>1. /\ Past /\ mine' = mine /\ step' = step + 1 /\ pc' \in {"ensureFRR", "listFRR"}
        /\ pc = "ensureFRR" /\ PutFRR(step, FRRFor(mine, step)) /\ step \in 1..c
    BY <1>11 DEF Ensures, Stay, Building, Stages
  <2>2. step \in Zones /\ frrs'[step] = FRRFor(mine, step)
    <3>1. step \in Zones /\ FRRFor(mine, step) \in ManagedFRRs
      BY <1>8, <2>1 DEF Managed
    <3> QED BY <2>1, <3>1, FRRWritten
  <2>3. /\ step - 1 \in 0..c /\ step' - 1 = step
        /\ \A i \in 1..step : i = step \/ i \in 1..(step - 1)
    BY <1>8, <2>1, SMT
  <2>4. Written(frrs, mine, step - 1)
    BY <1>2, <2>1 DEF WorkNoticed, WrittenUpTo, Written
  <2>5. Written(frrs', mine, step)
    BY <1>8, <2>1, <2>2, <2>3, <2>4 DEF Written
  <2>6. pc' = "ensureFRR" => WrittenUpTo(step - 1)'
    <3>1. (step - 1)' = step
      BY <2>3
    <3> QED BY <1>9, <2>1, <2>5, <3>1
  <2>7. pc' = "listFRR" => WrittenUpTo(FRRCount(mine))'
    <3>1. pc' = "listFRR" => step = c
      BY <1>11 DEF Ensures, Stay
    <3> QED BY <1>9, <2>1, <2>5, <3>1
  <2> QED BY <2>1, <2>6, <2>7 DEF WorkNoticed
<1>12. CASE (Lists \/ \E i \in Zones : Prunes(i)) /\ ~mine.del
  <2>1. Past /\ mine' = mine /\ pc' = "deleteFRR" /\ pc \in {"listFRR", "deleteFRR"}
    BY <1>12 DEF Lists, Prunes, Stay, Building
  <2>2. Written(frrs, mine, c)
    BY <1>2, <1>12, <2>1 DEF WorkNoticed, WrittenUpTo, Written
  <2>3. Written(frrs', mine, c)
    <3>1. c \in 0..c
      BY <1>8, <2>1, SMT
    <3> QED BY <1>8, <2>1, <2>2, <3>1
  <2>4. WrittenUpTo(FRRCount(mine))'
    BY <1>9, <2>1, <2>3
  <2>5. \A i \in Zones : i > c /\ Managed(frrs'[i]) => i \in doomed'
    <3>1. CASE Lists
      BY <1>1, <3>1 DEF Lists, Quiet
    <3>2. ASSUME NEW j \in Zones, Prunes(j)
          PROVE  \A i \in Zones : i > c /\ Managed(frrs'[i]) => i \in doomed'
      <4>1. pc = "deleteFRR" /\ doomed' = doomed \ {j} /\ PutFRR(j, Absent)
        BY <3>2 DEF Prunes
      <4>2. ~Managed(frrs'[j]) /\ \A i \in Zones \ {j} : frrs'[i] = frrs[i]
        BY <4>1, FRRWritten, AbsentAssumption DEF Managed
      <4> QED BY <1>2, <1>12, <4>1, <4>2 DEF WorkNoticed
    <3> QED BY <1>12, <3>1, <3>2
  <2>6. FRRCount(mine)' = c
    BY <1>9, <2>1
  <2> QED BY <2>1, <2>4, <2>5, <2>6 DEF WorkNoticed, Managed
<1>13. CASE Concludes
  <2>1. Past /\ pc \in {"deleteFRR", "reconcileNodes"} /\ pc' \in {"reconcileNodes", "writeStatus"}
    BY <1>13 DEF Concludes, Building, Onward, Finishes
  <2>2. mine'.spec = mine.spec /\ mine'.gen = mine.gen /\ mine'.found = mine.found
    BY <1>13 DEF Concludes, Onward, Finishes, Kept, SameRest
  <2>3. Fits(frrs, mine)
    <3>1. CASE pc = "reconcileNodes"
      BY <1>2, <3>1 DEF WorkNoticed, Applied, Fits
    <3>2. CASE pc = "deleteFRR"
      <4>1. doomed = {} /\ ~mine.del
        BY <1>13, <3>2 DEF Concludes
      <4>2. Written(frrs, mine, c) /\ \A i \in Zones : i > c => ~Managed(frrs[i])
        BY <1>2, <3>2, <4>1 DEF WorkNoticed, WrittenUpTo, Written
      <4>3. \A i \in Zones : (i <= c => i \in 1..c) /\ (~(i <= c) => i > c)
        BY <1>8, <2>1, ConstantsAssumption, SMT DEF Zones
      <4> QED BY <4>2, <4>3 DEF Fits, Written
    <3> QED BY <2>1, <3>1, <3>2
  <2>4. Fits(frrs', mine)
    BY <1>8, <2>1, <2>3
  <2>5. FRRCount(mine') = FRRCount(mine) /\ \A i : FRRFor(mine', i) = FRRFor(mine, i)
    BY <2>2, SameFRRs
  <2>6. Applied(mine)'
    BY <2>4, <2>5 DEF Applied, Fits, Managed, FRRCount, FRRFor, FRRZones
  <2> QED BY <2>1, <2>6 DEF WorkNoticed
<1>14. CASE Lists \/ \E i \in Zones : Prunes(i)
  <2>1. CASE mine.del
    <3>1. Deleting
      BY <1>14, <2>1 DEF Lists, Prunes, Deleting
    <3> QED BY <1>7, <3>1
  <2> QED BY <1>12, <1>14, <2>1
<1> QED BY <1>4, <1>5, <1>6, <1>10, <1>11, <1>13, <1>14 DEF Moved

(* Others undo the work of a reconcile only with an event. *)
LEMMA WorkNoticedStep ==
  ASSUME TypeOK, Numbering, StatusStages, Stages, WorkNoticed, AnyStep
  PROVE  WorkNoticed'
<1>1. SUFFICES ASSUME ~frrEvent', SingletonName \notin queue' PROVE WorkNoticed'
  BY DEF WorkNoticed
<1>2. ASSUME pc' \notin {"ensureFRR", "listFRR", "deleteFRR", "reconcileNodes"},
             pc' = "writeStatus" => mine'.phase # "Ready"
      PROVE  WorkNoticed'
  BY <1>2 DEF WorkNoticed
<1>3. CASE \/ \E n \in Names, obj \in Objects \cup {Absent} : UserWrite(n, obj)
           \/ Aside \/ Drifted \/ Delivered \/ Heard \/ \E n \in Names : Elapsed(n)
  <2>1. UNCHANGED <<pc, key, mine, step, doomed>> /\ queue \subseteq queue'
    BY <1>3 DEF UserWrite, Aside, Drifted, Delivered, DeliverConfig, Heard, Elapsed, worker
  <2>2. SingletonName \notin queue
    BY <1>1, <2>1
  <2>3. ASSUME Restarted
        PROVE  WorkNoticed'
    BY <1>2, <2>3 DEF Restarted, GoIdle
  <2>4. CASE ~Restarted
    <3>1. ~frrEvent /\ Quiet(frrs, frrs')
      BY <1>1, <2>4, FRRKinds, QuietStep
    <3>2. CASE Building /\ pc \notin {"patchNetwork", "checkFRR", "discover"}
      <4>1. mine \in Objects /\ (mine.spec.aws => mine.found # Absent)
        BY <3>2, Busy DEF StatusStages, Building
      <4>2. FRRCount(mine) \in Nat
        BY <3>2, KnownZones, ConstantsAssumption, SMT
      <4>3. /\ Fits(frrs, mine) => Fits(frrs', mine)
            /\ \A k \in 0..FRRCount(mine) : Written(frrs, mine, k) => Written(frrs', mine, k)
        BY <3>1, <4>1, QuietKeeps
      <4>4. /\ pc = "ensureFRR" => step - 1 \in 0..FRRCount(mine)
            /\ FRRCount(mine) \in 0..FRRCount(mine)
        BY <4>2, SMT DEF Stages
      <4>5. \A i \in Zones : Managed(frrs'[i]) => Managed(frrs[i])
        BY <3>1 DEF Quiet
      <4>6. /\ FRRCount(mine)' = FRRCount(mine) /\ (Applied(mine)' <=> Fits(frrs', mine))
            /\ \A k : WrittenUpTo(k)' <=> Written(frrs', mine, k)
        <5>1. FRRCount(mine)' = FRRCount(mine)
          BY <2>1 DEF FRRCount, FRRZones
        <5>2. Applied(mine)' <=> Fits(frrs', mine)
          BY <2>1 DEF Applied, Fits, FRRCount, FRRZones, FRRFor, Managed
        <5>3. \A k : WrittenUpTo(k)' <=> Written(frrs', mine, k)
          BY <2>1 DEF WrittenUpTo, Written, FRRFor, FRRZones
        <5> QED BY <5>1, <5>2, <5>3
      <4>7. /\ pc = "ensureFRR" => Written(frrs, mine, step - 1)
            /\ pc = "listFRR" \/ pc = "deleteFRR" => Written(frrs, mine, FRRCount(mine))
            /\ pc = "deleteFRR" =>
                  \A i \in Zones : i > FRRCount(mine) /\ Managed(frrs[i]) => i \in doomed
            /\ pc = "reconcileNodes" => Fits(frrs, mine)
        BY <2>2, <3>1, <3>2 DEF WorkNoticed, WrittenUpTo, Written, Applied, Fits, Building
      <4>8. (step - 1)' = step - 1
        BY <2>1
      <4>9. pc = "ensureFRR" => WrittenUpTo(step - 1)'
        BY <4>3, <4>4, <4>6, <4>7, <4>8
      <4>10. pc = "listFRR" \/ pc = "deleteFRR" => WrittenUpTo(FRRCount(mine))'
        BY <4>3, <4>4, <4>6, <4>7
      <4>11. pc = "deleteFRR" =>
               \A i \in Zones : i > FRRCount(mine)' /\ Managed(frrs'[i]) => i \in doomed'
        BY <2>1, <4>5, <4>6, <4>7
      <4> QED BY <2>1, <3>2, <4>3, <4>6, <4>7, <4>9, <4>10, <4>11 DEF WorkNoticed, Building, Managed
    <3>3. CASE pc = "writeStatus" /\ mine.phase = "Ready"
      <4>1. mine \in Objects
        BY <3>3, Busy
      <4>2. mine.spec.aws => mine.found # Absent
        BY <3>3 DEF Stages, StatusStages, Coherent
      <4>3. Fits(frrs, mine)
        BY <2>2, <3>1, <3>3 DEF WorkNoticed, Applied, Fits
      <4>4. Fits(frrs', mine)
        BY <3>1, <4>1, <4>2, <4>3, QuietKeeps
      <4>5. Applied(mine)'
        BY <2>1, <4>4 DEF Applied, Fits, FRRCount, FRRZones, FRRFor, Managed
      <4> QED BY <2>1, <3>3, <4>5 DEF WorkNoticed
    <3>4. CASE /\ ~(Building /\ pc \notin {"patchNetwork", "checkFRR", "discover"})
               /\ ~(pc = "writeStatus" /\ mine.phase = "Ready")
      BY <2>1, <3>4 DEF WorkNoticed, Building
    <3> QED BY <3>2, <3>3, <3>4
  <2> QED BY <2>3, <2>4
<1>4. CASE Restarted \/ Reported \/ Released \/ Returned \/ Bound
  BY <1>2, <1>4 DEF Restarted, Reported, Released, Returned, Bound, GoIdle
<1>5. ASSUME NEW n \in Names, Begun(n)
      PROVE  WorkNoticed'
  <2>1. pc = "idle" /\ (UNCHANGED pc \/ pc' \in {"checkRoutings", "patchNetwork", "addFinalizer"}
                        \/ (pc' = "writeStatus" /\ mine'.phase = "Degraded"))
    BY <1>5 DEF Begun, worker
  <2> QED BY <1>2, <2>1
<1>6. CASE Moved
  BY <1>1, <1>6, WorkMoved
<1> QED BY <1>3, <1>4, <1>5, <1>6 DEF AnyStep, WorkerStep

-----------------------------------------------------------------------------
(***************************************************************************)
(* The status.                                                             *)
(***************************************************************************)

(* What a user or the finalizer does to a coherent object keeps it so. *)
LEMMA SameCoherent ==
  ASSUME NEW o, NEW p, SameStatus(o, p), Coherent(p),
         o.obs = o.gen => p.obs = p.gen /\ o.spec = p.spec
  PROVE  Coherent(o)
BY DEF Coherent, Holds, SameStatus

(* An object whose phase is Degraded or none has little to agree with. *)
LEMMA EasilyCoherent ==
  ASSUME NEW o, \/ o.phase = ""
                \/ o.phase = "Degraded" /\ \E t \in ConditionTypes : o.conditions[t] = "False"
                \/ o.phase = "Configuring" /\ o.conditions["FRRNamespaceReady"] = "False"
  PROVE  Coherent(o)
BY DEF Coherent

(* What is written to the server is coherent and about no later generation. *)
LEMMA WrittenStatus ==
  ASSUME TypeOK, FreshCopy, Stages, StatusStages, StatusCoherent, AnyStep,
         NEW n \in Names, Exists(n)'
  PROVE  Coherent(configs'[n]) /\ configs'[n].obs <= configs'[n].gen
<1> DEFINE Good(o) == Coherent(o) /\ o.obs <= o.gen
<1>1. Exists(n) => Good(configs[n])
  BY DEF StatusStages, StatusCoherent
<1>2. CASE configs'[n] = configs[n]
  BY <1>1, <1>2 DEF Exists
<1>3. ASSUME NEW m \in Names, NEW obj \in Objects \cup {Absent}, Put(m, obj),
             m = n => Good(obj)
      PROVE  Good(configs'[n])
  <2>1. CASE m = n
    BY <1>3, <2>1, PutEntries
  <2>2. CASE m # n
    <3>1. configs'[n] = configs[n]
      BY <1>3, <2>2, PutEntries
    <3> HIDE DEF Good
    <3> QED BY <1>2, <3>1 DEF Good
  <2> QED BY <2>1, <2>2
<1>4. ASSUME NEW obj \in Objects \cup {Absent}, UserWrite(n, obj)
      PROVE  Good(obj)
  <2>1. obj # Absent
    <3>1. configs'[n] = obj
      BY <1>4, PutEntries DEF UserWrite
    <3> QED BY <3>1 DEF Exists
  <2>2. CASE Created(n, obj)
    <3>1. 0 <= 1
      BY SMT
    <3> QED BY <2>2, <3>1, EasilyCoherent DEF Created
  <2>3. CASE Edited(n, obj)
    <3>1. Exists(n) /\ configs[n].gen \in Nat /\ configs[n].obs \in Nat
      <4>1. configs[n] \in Objects /\ configs[n] # Absent
        BY <2>3, AbsentAssumption DEF Edited
      <4>2. configs[n].gen \in 1..MaxGeneration /\ configs[n].obs \in 0..MaxGeneration
        BY <4>1 DEF Objects
      <4> QED BY <4>1, <4>2, ConstantsAssumption, SMT DEF Exists
    <3>2. obj.gen = configs[n].gen + 1 /\ obj.obs = configs[n].obs /\ SameStatus(obj, configs[n])
      BY <2>3 DEF Edited, SameStatus
    <3>3. obj.obs # obj.gen /\ obj.obs <= obj.gen
      BY <1>1, <3>1, <3>2, SMT
    <3> QED BY <1>1, <3>1, <3>2, <3>3, SameCoherent
  <2>4. CASE Deleted(n, obj)
    <3>1. /\ Exists(n) /\ SameStatus(obj, configs[n]) /\ obj.gen = configs[n].gen
          /\ obj.spec = configs[n].spec
      BY <2>1, <2>4, AbsentAssumption DEF Deleted, Exists
    <3> QED BY <1>1, <3>1, SameCoherent DEF SameStatus
  <2> QED BY <1>4, <2>2, <2>3, <2>4 DEF UserWrite
<1>5. CASE \E m \in Names, obj \in Objects \cup {Absent} : UserWrite(m, obj)
  BY <1>3, <1>4, <1>5 DEF UserWrite
<1>6. CASE Bound
  <2>1. PICK obj \in Objects : /\ Put(key, obj) /\ SameStatus(obj, configs[key])
                               /\ obj.gen = configs[key].gen /\ obj.spec = configs[key].spec
    BY <1>6 DEF Bound
  <2>2. key \in Names /\ Exists(key)
    BY <1>6, WorkerWrites, AbsentAssumption DEF Exists
  <2>3. key = n => Good(obj)
    BY <1>1, <2>1, <2>2, SameCoherent DEF SameStatus
  <2> QED BY <1>3, <2>1, <2>2, <2>3
<1>7. CASE Reported
  <2>1. PICK obj \in Objects :
          /\ SameRest(obj, configs[key]) /\ SameStatus(obj, mine)
          /\ IF obj = configs[key] THEN UNCHANGED <<configs, watch>> ELSE Put(key, obj)
    BY <1>7 DEF Reported
  <2>2. key \in Names /\ pc = "writeStatus" /\ fresh /\ mine \in Objects
    BY <1>7, WorkerWrites DEF Reported
  <2>3. /\ obj.spec = mine.spec /\ obj.gen = mine.gen /\ Exists(key)
        /\ key # SingletonName => configs[key].obs = mine.obs
    BY <2>1, <2>2 DEF FreshCopy, SameRest
  <2>4. Coherent(obj)
    BY <2>1, <2>2, <2>3, SameCoherent DEF StatusStages, SameStatus
  <2>5. key = n => obj.obs <= obj.gen
    <3>1. CASE key = SingletonName
      <4>1. obj.obs = obj.gen /\ obj.gen \in 1..MaxGeneration
        BY <2>1, <2>2, <2>3, <3>1 DEF StatusStages, SameStatus, Objects
      <4> QED BY <4>1, ConstantsAssumption, SMT
    <3>2. CASE key # SingletonName
      BY <1>1, <2>1, <2>3, <3>2 DEF SameRest, SameStatus
    <3> QED BY <3>1, <3>2
  <2> QED BY <1>2, <1>3, <2>1, <2>2, <2>4, <2>5
<1>8. CASE Released
  BY <1>2, <1>8, PutEntries, WorkerWrites DEF Released, Exists
<1>9. CASE \/ Aside \/ Drifted \/ Delivered \/ Heard \/ Restarted \/ Moved \/ Returned
           \/ \E m \in Names : Elapsed(m) \/ Begun(m)
  BY <1>2, <1>9 DEF Aside, Drifted, Delivered, Heard, Restarted, Moved, Returned, Elapsed, Begun
<1> QED BY <1>5, <1>6, <1>7, <1>8, <1>9 DEF AnyStep, WorkerStep

(* The conditions agree with the phase. *)
LEMMA StatusCoherentStep ==
  ASSUME TypeOK, FreshCopy, Stages, StatusStages, StatusCoherent, AnyStep
  PROVE  StatusCoherent'
<1> SUFFICES ASSUME NEW n \in Names, Exists(n)' PROVE Coherent(configs'[n])
  BY DEF StatusCoherent, Coherent, Holds
<1> QED BY WrittenStatus

(* The stages of the status after a step that goes on. *)
LEMMA StatusMoved ==
  ASSUME TypeOK, Stages, StatusStages, Moved
  PROVE  /\ Building' => mine'.phase = "Configuring" /\ mine'.obs = mine'.gen
         /\ Building' /\ pc' # "patchNetwork" => Holds(mine', {"NetworkOperatorPatched"})
         /\ Building' /\ pc' \notin {"patchNetwork", "checkFRR"} => Holds(mine', {"FRRNamespaceReady"})
         /\ Building' /\ pc' \notin {"patchNetwork", "checkFRR", "discover"} /\ mine'.spec.aws
               => Holds(mine', {"AWSEndpointsDiscovered"}) /\ mine'.found # Absent
         /\ pc' = "reconcileNodes" => mine'.spec.aws /\ Holds(mine', {"FRRConfigurationApplied"})
         /\ pc' = "writeStatus" => Coherent(mine') /\ mine'.obs = mine'.gen
<1> DEFINE H(m, t) == m.conditions[t] = "True"
           Net(m) == H(m, "NetworkOperatorPatched")
           Nsp(m) == H(m, "FRRNamespaceReady")
           Fnd(m) == m.spec.aws => H(m, "AWSEndpointsDiscovered") /\ m.found # Absent
           App(m) == H(m, "FRRConfigurationApplied")
           Early == {"patchNetwork", "checkFRR", "discover"}
<1>1. SUFFICES ASSUME Building
               PROVE  /\ mine'.obs = mine'.gen
                      /\ pc' # "writeStatus" =>
                            /\ mine'.phase = "Configuring" /\ Net(mine')
                            /\ pc' # "checkFRR" => Nsp(mine')
                            /\ pc' \notin {"checkFRR", "discover"} => Fnd(mine')
                      /\ pc' = "reconcileNodes" => mine'.spec.aws /\ App(mine')
                      /\ pc' = "writeStatus" => Coherent(mine')
  <2>1. CASE Deleting
    <3>1. ~Building' /\ Deleting' /\ pc' # "writeStatus"
      BY <2>1, MovedStages DEF Stages
    <3> QED BY <3>1 DEF Building
  <2>2. CASE Building
    <3>1. Building' => pc' # "writeStatus"
      BY DEF Building
    <3>2. pc' = "reconcileNodes" => pc' # "writeStatus"
      OBVIOUS
    <3> QED BY <1>1, <2>2, <3>1, <3>2 DEF Holds
  <2> QED BY <2>1, <2>2, MovedStages
<1>2. /\ mine.phase = "Configuring" /\ mine.obs = mine.gen
      /\ pc # "patchNetwork" => Net(mine)
      /\ pc \notin {"patchNetwork", "checkFRR"} => Nsp(mine)
      /\ pc \notin Early => Fnd(mine)
      /\ pc = "reconcileNodes" => mine.spec.aws /\ App(mine)
  BY <1>1 DEF StatusStages, Holds
<1>3. mine'.obs = mine'.gen /\ mine'.spec = mine.spec
  BY <1>2, MovedKeeps DEF SameRest
<1>4. {"NetworkOperatorPatched", "FRRNamespaceReady", "AWSEndpointsDiscovered",
       "FRRConfigurationApplied", "AWSResourcesReconciled"} = ConditionTypes
  BY DEF ConditionTypes
<1>5. CASE Fails
  <2>1. pc' = "writeStatus" /\ Coherent(mine')
    BY <1>5, EasilyCoherent DEF Fails, Complains
  <2> QED BY <1>3, <2>1
<1>6. CASE Prepares
  <2>1. CASE pc = "patchNetwork" /\ Onward("checkFRR", "NetworkOperatorPatched")
    BY <1>2, <1>3, <2>1 DEF Onward, Gains
  <2>2. CASE \/ pc = "checkFRR" /\ mine.spec.aws /\ Onward("discover", "FRRNamespaceReady")
             \/ pc = "checkFRR" /\ ~mine.spec.aws /\ Onward("startFRR", "FRRNamespaceReady")
    <3>1. Net(mine') /\ Nsp(mine') /\ mine'.phase = "Configuring"
      BY <1>2, <1>4, <2>2 DEF Onward, Gains
    <3>2. pc' = "discover" \/ (pc' = "startFRR" /\ ~mine'.spec.aws)
      BY <1>3, <2>2 DEF Onward
    <3> QED BY <1>3, <3>1, <3>2
  <2>3. CASE /\ pc = "checkFRR" /\ pc' = "writeStatus" /\ Kept /\ mine'.phase = mine.phase
             /\ mine'.conditions["FRRNamespaceReady"] = "False"
    BY <1>2, <1>3, <2>3, EasilyCoherent
  <2>4. CASE pc = "discover" /\ Onward("startFRR", "AWSEndpointsDiscovered") /\ mine'.found # Absent
    <3>1. Net(mine') /\ Nsp(mine') /\ Fnd(mine') /\ mine'.phase = "Configuring" /\ pc' = "startFRR"
      BY <1>2, <1>4, <2>4 DEF Onward, Gains
    <3> QED BY <1>3, <3>1
  <2> QED BY <1>6, <2>1, <2>2, <2>3, <2>4 DEF Prepares
<1>7. CASE Concludes
  <2>1. CASE /\ pc = "deleteFRR" /\ mine.spec.aws
             /\ Onward("reconcileNodes", "FRRConfigurationApplied") /\ mine'.found = mine.found
    <3>1. /\ Net(mine') /\ Nsp(mine') /\ Fnd(mine') /\ App(mine') /\ mine'.phase = "Configuring"
          /\ pc' = "reconcileNodes" /\ mine'.spec.aws
      BY <1>2, <1>3, <1>4, <2>1 DEF Onward, Gains
    <3> QED BY <1>3, <3>1
  <2>2. CASE pc = "deleteFRR" /\ ~mine.spec.aws /\ Finishes("FRRConfigurationApplied")
    <3>1. /\ Net(mine') /\ Nsp(mine') /\ App(mine') /\ mine'.phase = "Ready"
          /\ pc' = "writeStatus" /\ ~mine'.spec.aws
      BY <1>2, <1>3, <1>4, <2>2 DEF Finishes, Gains
    <3> QED BY <1>3, <3>1 DEF Coherent, Holds
  <2>3. CASE pc = "reconcileNodes" /\ Finishes("AWSResourcesReconciled")
    <3>1. /\ Net(mine') /\ Nsp(mine') /\ App(mine') /\ Fnd(mine') /\ mine'.phase = "Ready"
          /\ pc' = "writeStatus" /\ H(mine', "AWSResourcesReconciled")
      BY <1>2, <1>3, <1>4, <2>3 DEF Finishes, Gains
    <3> QED BY <1>3, <3>1 DEF Coherent, Holds
  <2> QED BY <1>7, <2>1, <2>2, <2>3 DEF Concludes
<1>8. CASE Clears \/ Numbers \/ Lists \/ Ensures \/ \E i \in Zones : Prunes(i)
  <2>1. /\ mine' = mine /\ pc' \in {"cleanup", "removeFinalizer", "ensureFRR", "listFRR", "deleteFRR"}
        /\ pc \in {"checkRoutings", "cleanup", "startFRR", "ensureFRR", "listFRR", "deleteFRR"}
    BY <1>8 DEF Clears, Numbers, Lists, Ensures, Prunes, Stay
  <2> QED BY <1>2, <1>3, <2>1
<1> QED BY <1>5, <1>6, <1>7, <1>8 DEF Moved

(* The status grows with the calls behind it. *)
LEMMA StatusStagesStep ==
  ASSUME TypeOK, FreshCopy, Stages, StatusStages, StatusCoherent, AnyStep
  PROVE  StatusStages'
<1> DEFINE Works == /\ Building => mine.phase = "Configuring" /\ mine.obs = mine.gen
                    /\ Building /\ pc # "patchNetwork" => Holds(mine, {"NetworkOperatorPatched"})
                    /\ Building /\ pc \notin {"patchNetwork", "checkFRR"}
                          => Holds(mine, {"FRRNamespaceReady"})
                    /\ Building /\ pc \notin {"patchNetwork", "checkFRR", "discover"}
                          /\ mine.spec.aws
                          => Holds(mine, {"AWSEndpointsDiscovered"}) /\ mine.found # Absent
                    /\ pc = "reconcileNodes"
                          => mine.spec.aws /\ Holds(mine, {"FRRConfigurationApplied"})
                    /\ pc = "writeStatus" =>
                          Coherent(mine) /\ (key = SingletonName => mine.obs = mine.gen)
<1>1. SUFFICES Works'
  <2>1. \A n \in Names : Exists(n)' => configs'[n].obs <= configs'[n].gen
    BY WrittenStatus
  <2> QED BY <1>1, <2>1 DEF StatusStages, Exists
<1>2. ASSUME UNCHANGED <<pc, key, mine>>
      PROVE  Works'
  BY <1>2 DEF StatusStages, Building, Holds, Coherent
<1>3. CASE \/ \E n \in Names, obj \in Objects \cup {Absent} : UserWrite(n, obj)
           \/ Aside \/ Drifted \/ Delivered \/ Heard \/ \E n \in Names : Elapsed(n)
  BY <1>2, <1>3 DEF UserWrite, Aside, Drifted, Delivered, Heard, Elapsed, worker
<1>4. ASSUME pc' \in {"idle", "checkRoutings", "addFinalizer"}
      PROVE  Works'
  BY <1>4 DEF Building
<1>5. ASSUME pc' = "patchNetwork", mine'.phase = "Configuring", mine'.obs = mine'.gen
      PROVE  Works'
  BY <1>5
<1>6. CASE Restarted \/ Reported \/ Released \/ Returned
  BY <1>4, <1>6 DEF Restarted, Reported, Released, Returned, GoIdle
<1>7. CASE Bound
  BY <1>4, <1>5, <1>7 DEF Bound, GoIdle
<1>8. ASSUME NEW n \in Names, Begun(n)
      PROVE  Works'
  <2>1. CASE UNCHANGED worker
    BY <1>2, <2>1 DEF worker
  <2>2. CASE /\ key' = n /\ n # SingletonName /\ pc' = "writeStatus" /\ mine'.phase = "Degraded"
             /\ \E t \in ConditionTypes : mine'.conditions[t] = "False"
    <3>1. Coherent(mine')
      BY <2>2, EasilyCoherent
    <3>2. Coherent(mine)'
      BY <3>1 DEF Coherent, Holds
    <3> QED BY <2>2, <3>2 DEF Building
  <2> QED BY <1>4, <1>5, <1>8, <2>1, <2>2 DEF Begun
<1>9. CASE Moved
  BY <1>9, StatusMoved DEF Coherent, Holds
<1> QED BY <1>3, <1>6, <1>7, <1>8, <1>9 DEF AnyStep, WorkerStep

-----------------------------------------------------------------------------
(***************************************************************************)
(* Types.                                                                  *)
(***************************************************************************)

(* The flags and the budgets, which the kinds of steps leave out. *)
Flags ==
    /\ patched \in BOOLEAN /\ routed \in BOOLEAN /\ offered \subseteq Zones
    /\ routedCache \in BOOLEAN /\ edits \in 0..MaxEdits /\ faults \in 0..MaxFaults

(* Every action counts what it spends and keeps the flags Boolean. *)
LEMMA FlagsStep ==
  ASSUME Flags, Next
  PROVE  Flags'
<1> DEFINE Some == UserActs \/ Fault \/ NoFault
           Bits == /\ patched' \in BOOLEAN /\ routed' \in BOOLEAN /\ offered' \subseteq Zones
                   /\ routedCache' \in BOOLEAN
<1>1. ASSUME Some, Bits
      PROVE  Flags'
  <2>1. edits' \in 0..MaxEdits /\ faults' \in 0..MaxFaults
    BY <1>1, ConstantsAssumption, SMT DEF UserActs, Fault, NoFault, Flags
  <2> QED BY <1>1, <2>1 DEF Flags
<1>2. ASSUME NEW ok, FaultUnless(ok)
      PROVE  Some
  BY <1>2 DEF FaultUnless
<1>3. CASE ConfigUsers
  BY <1>1, <1>3 DEF ConfigUsers, CreateConfig, EditConfig, DeleteConfig, ChangeEndpoints, events, Flags
<1>4. CASE ConfigWatches \/ RoutingsChange \/ Restart
  BY <1>1, <1>4 DEF ConfigWatches, DeliverConfig, DeliverFRR, DelayOver, RoutingsChange,
                    ChangeRoutings, DeliverRoutings, Restart, api, events, Flags
<1>5. CASE \E n \in Names : Reconcile(n)
  BY <1>1, <1>5 DEF Reconcile, api, events, Flags
<1>6. ASSUME NEW ok \in BOOLEAN, Calls(ok)
      PROVE  Flags'
  <2>1. CASE AddFinalizer(ok) \/ WriteStatus(ok) \/ RemoveFinalizer(ok) \/ Conflict
    BY <1>1, <1>2, <2>1 DEF AddFinalizer, WriteStatus, RemoveFinalizer, Conflict, api, events, Flags
  <2>2. CASE PatchNetworkOperator(ok) \/ IsFRRReady(ok) \/ DiscoverEndpoints(ok)
    BY <1>1, <1>2, <2>2 DEF PatchNetworkOperator, IsFRRReady, DiscoverEndpoints, api, events, Flags
  <2>3. CASE \/ StartFRR \/ EnsureSingleFRRConfiguration(ok) \/ ListFRR
             \/ (\E i \in Zones : DeleteFRR(i, ok)) \/ FRRDone \/ ReconcileNodes(ok)
    BY <1>1, <1>2, <2>3 DEF StartFRR, EnsureSingleFRRConfiguration, ListFRR, DeleteFRR, FRRDone,
                            ReconcileNodes, api, events, Flags
  <2>4. CASE CheckRoutings \/ Cleanup(IF ok THEN "done" ELSE "failed")
    BY <1>1, <1>2, <2>4 DEF CheckRoutings, Cleanup, api, events, Flags
  <2> QED BY <1>6, <2>1, <2>2, <2>3, <2>4 DEF Calls
<1>7. CASE ConfigFailures
  <2>1. CASE \/ \E i \in Zones, f \in {Absent, Foreign} : DriftFRR(i, f)
             \/ DeliverNode \/ Cleanup("skipped") \/ CallFails
    BY <1>1, <1>2, <2>1 DEF DriftFRR, DeliverNode, Cleanup, CallFails, api, events, Flags
  <2> QED BY <1>6, <1>7, <2>1 DEF ConfigFailures
<1> QED BY <1>3, <1>4, <1>5, <1>6, <1>7 DEF Next

(* The objects, the cache and the events between them. *)
LEMMA StreamTypes ==
  ASSUME TypeOK, CacheFollows, FreshCopy, AnyStep
  PROVE  /\ configs' \in [Names -> Objects \cup {Absent}]
         /\ cache' \in [Names -> Objects \cup {Absent}]
         /\ watch' \in Seq(Entries) /\ Len(watch') <= MaxLag
<1>1. /\ configs \in [Names -> Objects \cup {Absent}] /\ cache \in [Names -> Objects \cup {Absent}]
      /\ watch \in Seq(Entries) /\ Len(watch) <= MaxLag
  BY DEF TypeOK, ApiTypes, EventTypes, Entries
<1>2. CASE UNCHANGED <<configs, watch, cache>>
  BY <1>1, <1>2
<1>3. CASE \E n \in Names, obj \in Objects \cup {Absent} : Put(n, obj) /\ UNCHANGED cache
  BY <1>1, <1>3, PutSteps
<1>4. CASE Delivered
  BY <1>1, <1>4, DeliverSteps DEF Delivered
<1>5. CASE Restarted
  <2>1. << >> \in Seq(Entries) /\ Len(<< >>) <= MaxLag
    BY ConstantsAssumption, SMT
  <2> QED BY <1>1, <1>5, <2>1 DEF Restarted
<1> QED BY <1>2, <1>3, <1>4, <1>5, StreamKinds

(* The queue and the delays. *)
LEMMA RequeueTypesStep ==
  ASSUME TypeOK, CacheFollows, FreshCopy, AnyStep
  PROVE  RequeueTypes'
<1>1. queue \subseteq Names /\ delayed \in [Names -> {"none", "timer", "backoff"}]
  BY DEF TypeOK, RequeueTypes
<1>2. ASSUME queue' \subseteq Names, delayed' \in [Names -> {"none", "timer", "backoff"}]
      PROVE  RequeueTypes'
  BY <1>2 DEF RequeueTypes
<1>3. CASE \/ \E n \in Names, obj \in Objects \cup {Absent} : UserWrite(n, obj)
           \/ Aside \/ Drifted \/ Moved
  BY <1>1, <1>2, <1>3 DEF UserWrite, Aside, Drifted, Moved
<1>4. CASE Delivered
  BY <1>1, <1>2, <1>4, DeliverSteps DEF Delivered
<1>5. CASE Heard \/ Restarted \/ \E n \in Names : Elapsed(n) \/ Begun(n)
  BY <1>1, <1>2, <1>5, ConstantsAssumption DEF Heard, Restarted, Elapsed, Begun
<1>6. CASE Bound \/ Reported \/ Released \/ Returned
  <2>1. queue' = queue
    BY <1>6 DEF Bound, Reported, Released, Returned
  <2>2. \/ UNCHANGED delayed \/ delayed' = [delayed EXCEPT ![key] = "backoff"]
        \/ delayed' = [delayed EXCEPT ![key] = IF @ = "backoff" THEN @ ELSE "timer"]
    BY <1>6 DEF Bound, Reported, Released, Returned
  <2>3. delayed' \in [Names -> {"none", "timer", "backoff"}]
    BY <1>1, <2>2
  <2> QED BY <1>1, <1>2, <2>1, <2>3
<1> QED BY <1>3, <1>4, <1>5, <1>6 DEF AnyStep, WorkerStep

(* The worker. *)
LEMMA WorkerTypesStep ==
  ASSUME TypeOK, Numbering, Stages, StatusStages, AnyStep
  PROVE  WorkerTypes'
<1>1. fresh \in BOOLEAN /\ step \in 0..ZoneCount + 1 /\ doomed \subseteq Zones /\ WorkerTypes
  BY DEF TypeOK, WorkerTypes
<1>2. CASE UNCHANGED worker
  BY <1>1, <1>2 DEF WorkerTypes, worker
<1>3. CASE GoIdle
  <2>1. 0 \in 0..ZoneCount + 1
    BY ConstantsAssumption, SMT
  <2> QED BY <1>3, <2>1 DEF GoIdle, WorkerTypes
<1>4. CASE \E n \in Names, obj \in Objects \cup {Absent} : UserWrite(n, obj)
  <2>1. fresh' \in BOOLEAN /\ UNCHANGED <<pc, key, mine, step, doomed>>
    BY <1>1, <1>4 DEF UserWrite
  <2> QED BY <1>1, <2>1 DEF WorkerTypes
<1>5. CASE Aside \/ Drifted \/ Delivered \/ Heard \/ \E n \in Names : Elapsed(n)
  BY <1>2, <1>5 DEF Aside, Drifted, Delivered, Heard, Elapsed
<1>6. CASE Restarted \/ Reported \/ Released \/ Returned
  BY <1>3, <1>6 DEF Restarted, Reported, Released, Returned
<1>7. CASE \E n \in Names : Begun(n)
  BY <1>1, <1>2, <1>7 DEF Begun, WorkerTypes
<1>8. CASE Bound
  <2>1. pc # "idle"
    BY <1>8 DEF Bound
  <2>2. key \in Names
    BY <2>1, Busy
  <2> QED BY <1>1, <1>3, <1>8, <2>2 DEF Bound, WorkerTypes
<1>9. CASE Moved
  <2>1. doomed' \subseteq Zones
    BY <1>1, <1>9 DEF Moved, Numbers, Lists, Ensures, Prunes
  <2>2. step' \in 0..ZoneCount + 1
    <3>1. CASE step' = step
      BY <1>1, <3>1
    <3>2. CASE Numbers
      BY <3>2, ConstantsAssumption, SMT DEF Numbers
    <3>3. CASE Ensures
      <4>1. step' = step + 1 /\ step \in 1..FRRCount(mine) /\ Building /\ pc = "ensureFRR"
        BY <3>3 DEF Ensures, Stages, Building
      <4>2. FRRCount(mine) \in 0..ZoneCount
        BY <4>1, KnownZones
      <4> QED BY <4>1, <4>2, ConstantsAssumption, SMT
    <3> QED BY <1>9, <3>1, <3>2, <3>3 DEF Moved, Lists, Prunes
  <2> QED BY <1>1, <1>9, <2>1, <2>2, MovedKeeps DEF WorkerTypes
<1> QED BY <1>4, <1>5, <1>6, <1>7, <1>8, <1>9 DEF AnyStep, WorkerStep

(* All variables. *)
LEMMA TypeStep ==
  ASSUME TypeOK, Numbering, CacheFollows, FreshCopy, Stages, StatusStages, AnyStep, Next
  PROVE  TypeOK'
<1>1. Flags'
  <2>1. Flags
    BY DEF TypeOK, ApiTypes, EventTypes, Flags
  <2> QED BY <2>1, FlagsStep
<1>2. RequeueTypes' /\ WorkerTypes'
  BY RequeueTypesStep, WorkerTypesStep
<1>3. frrs' \in [Zones -> ManagedFRRs \cup {Absent, Foreign}] /\ frrEvent' \in BOOLEAN
  BY FRRKinds
<1> QED BY <1>1, <1>2, <1>3, StreamTypes DEF TypeOK, ApiTypes, EventTypes, Flags, Entries

-----------------------------------------------------------------------------
(***************************************************************************)
(* The life of the singleton, as others see it: steps of ConfigLifecycle.  *)
(***************************************************************************)
Object == Stage(configs[SingletonName])
Shown == IsReady(configs[SingletonName])
Cached == IsReady(cache[SingletonName])
Built == \E i \in Zones : Managed(frrs[i])
Cleared == pc \in {"cleanup", "listFRR", "deleteFRR", "removeFinalizer"} /\ mine.del

(* Writes by the worker change one of these at most, and find the cache    *)
(* as ready as the server's object.                                        *)
LEMMA WritesVisible ==
  ASSUME TypeOK, FreshCopy, Stages, HeldBehind, CleanedUp, Bound \/ Reported \/ Released
  PROVE  Lifecycle!Next
<1> DEFINE S == SingletonName
<1> USE DEF Lifecycle!Next, Lifecycle!vars, Lifecycle!UpToDate,
            Object, Shown, Cached, Built, Cleared, IsReady, Ready, Exists
<1>1. ASSUME UNCHANGED <<Object, Shown, Cached, Built, Cleared>>
      PROVE  Lifecycle!Next
  BY <1>1
<1>2. ASSUME Cached = Shown, Object = "bare", Object' = "held",
             UNCHANGED <<Shown, Cached, Built, Cleared>>
      PROVE  Lifecycle!Next
  BY <1>2 DEF Lifecycle!Hold
<1>3. ASSUME Cached = Shown, Object = "held", Shown' # Shown,
             UNCHANGED <<Object, Cached, Built, Cleared>>
      PROVE  Lifecycle!Next
  BY <1>3 DEF Lifecycle!Report
<1>4. ASSUME Cached = Shown, Object = "deleting", Cleared, ~Built,
             Object' = "absent", ~Shown', ~Cleared', UNCHANGED <<Cached, Built>>
      PROVE  Lifecycle!Next
  BY <1>4 DEF Lifecycle!Release
<1>5. S \in Names /\ Absent \notin Objects
  BY ConstantsAssumption, AbsentAssumption
<1>6. /\ key \in Names /\ configs[key] \in Objects /\ fresh /\ UNCHANGED <<cache, frrs>>
      /\ key = S => Cached = Shown
  <2>1. key \in Names /\ configs[key] \in Objects /\ fresh /\ UNCHANGED <<cache, frrs>>
    BY WorkerWrites DEF Bound, Reported, Released
  <2>2. cache[S] \in Versions(S)
    BY DEF Versions
  <2> QED BY <1>5, <2>1, <2>2 DEF FreshCopy
<1>7. UNCHANGED <<Cached, Built>>
  BY <1>6
<1>8. ASSUME NEW obj \in Objects \cup {Absent}, Put(key, obj)
      PROVE  /\ key = S => configs'[S] = obj
             /\ key # S => configs'[S] = configs[S]
  <2>1. configs'[key] = obj /\ \A o \in Names \ {key} : configs'[o] = configs[o]
    BY <1>6, <1>8, PutEntries
  <2> QED BY <1>5, <2>1
<1>9. CASE Bound
  <2>1. PICK obj \in Objects : /\ Put(key, obj) /\ obj.fin /\ SameStatus(obj, configs[key])
                               /\ obj.del = configs[key].del
    BY <1>9 DEF Bound
  <2>2. key = S /\ ~mine.del /\ pc = "addFinalizer" /\ (pc' = "patchNetwork" \/ pc' = "idle")
    BY <1>9 DEF Bound, Stages, GoIdle
  <2>3. configs'[S] = obj /\ ~configs[S].del
    BY <1>6, <1>8, <2>1, <2>2 DEF FreshCopy
  <2>4. UNCHANGED <<Shown, Cleared>>
    BY <1>5, <1>6, <2>1, <2>2, <2>3 DEF SameStatus
  <2>5. Object' = "held" /\ Object \in {"held", "bare"}
    BY <1>5, <1>6, <2>1, <2>2, <2>3 DEF Stage
  <2> QED BY <1>1, <1>2, <1>6, <1>7, <2>2, <2>4, <2>5
<1>10. CASE Reported
  <2>1. PICK obj \in Objects :
          /\ SameRest(obj, configs[key]) /\ SameStatus(obj, mine)
          /\ IF obj = configs[key] THEN UNCHANGED <<configs, watch>> ELSE Put(key, obj)
    BY <1>10 DEF Reported
  <2>2. UNCHANGED Cleared /\ pc = "writeStatus"
    BY <1>10 DEF Reported, GoIdle
  <2>3. CASE key # S \/ UNCHANGED configs
    <3>1. configs'[S] = configs[S]
      BY <1>8, <2>1, <2>3
    <3> QED BY <1>1, <1>7, <2>2, <3>1
  <2>4. CASE key = S /\ Put(key, obj)
    <3>1. configs'[S] = obj
      BY <1>8, <2>4
    <3>2. ~configs[S].del /\ configs[S].fin
      BY <1>6, <2>2, <2>4 DEF FreshCopy, Stages, HeldBehind, Held
    <3>3. Object = "held" /\ Object' = "held"
      BY <1>5, <1>6, <2>1, <2>4, <3>1, <3>2 DEF Stage, SameRest
    <3>4. CASE Shown' = Shown
      BY <1>1, <1>7, <2>2, <3>3, <3>4
    <3>5. CASE Shown' # Shown
      BY <1>3, <1>6, <1>7, <2>2, <2>4, <3>3, <3>5
    <3> QED BY <3>4, <3>5
  <2> QED BY <2>1, <2>3, <2>4
<1>11. CASE Released
  <2>1. key = S /\ Put(key, Absent) /\ pc = "removeFinalizer" /\ pc' = "idle" /\ mine.del
    BY <1>11 DEF Released, GoIdle, Stages, Deleting
  <2>2. configs'[S] = Absent /\ configs[S].del
    BY <1>6, <1>8, <2>1 DEF FreshCopy
  <2>3. Object = "deleting" /\ Object' = "absent"
    BY <1>5, <1>6, <2>1, <2>2 DEF Stage
  <2>4. ~Shown' /\ Cleared /\ ~Cleared' /\ ~Built
    BY <2>1, <2>2 DEF CleanedUp
  <2> QED BY <1>4, <1>6, <1>7, <2>1, <2>3, <2>4
<1> QED BY <1>9, <1>10, <1>11

(* Every step is one of ConfigLifecycle, or shows in nothing it has. *)
LEMMA LifecycleStep ==
  ASSUME TypeOK, Numbering, CacheFollows, FreshCopy, Stages, StatusStages, HeldBehind, CleanedUp,
         OneChange, AnyStep
  PROVE  Lifecycle!Next
<1> DEFINE S == SingletonName
<1> USE DEF Lifecycle!Next, Lifecycle!vars, Lifecycle!UpToDate,
            Object, Shown, Cached, Built, Cleared, IsReady, Ready, Exists
<1>1. ASSUME UNCHANGED <<Object, Shown, Cached, Built, Cleared>>
      PROVE  Lifecycle!Next
  BY <1>1
<1>2. ASSUME \/ Object = "absent" /\ Object' = "bare"
             \/ Object = "bare" /\ Object' = "absent"
             \/ Object = "held" /\ Object' = "deleting",
             UNCHANGED <<Shown, Cached, Built, Cleared>>
      PROVE  Lifecycle!Next
  BY <1>2 DEF Lifecycle!Create, Lifecycle!Delete
<1>3. ASSUME Cached # Shown, Cached' = Shown, UNCHANGED <<Object, Shown, Built, Cleared>>
      PROVE  Lifecycle!Next
  BY <1>3 DEF Lifecycle!Hear
<1>4. ASSUME Object \in {"held", "deleting"}, ~Built, Built',
             UNCHANGED <<Object, Shown, Cached, Cleared>>
      PROVE  Lifecycle!Next
  BY <1>4 DEF Lifecycle!Build
<1>5. ASSUME Built, ~Built', Cleared' => Cleared, UNCHANGED <<Object, Shown, Cached>>
      PROVE  Lifecycle!Next
  BY <1>5 DEF Lifecycle!Unbuild
<1>6. ASSUME ~Cleared, ~routedCache, Cleared', UNCHANGED <<Object, Shown, Cached, Built>>
      PROVE  Lifecycle!Next
  BY <1>6 DEF Lifecycle!Clear
<1>7. ASSUME Cleared, ~Cleared', UNCHANGED <<Object, Shown, Cached, Built>>
      PROVE  Lifecycle!Next
  BY <1>7 DEF Lifecycle!GiveUp
<1>8. ASSUME ~Cleared', Cached' = Shown, UNCHANGED <<Object, Shown, Built>>
      PROVE  Lifecycle!Next
  BY <1>8 DEF Lifecycle!Restart
<1>9. S \in Names /\ Absent \notin Objects
  BY ConstantsAssumption, AbsentAssumption
<1>10. ASSUME configs'[S] = configs[S]
       PROVE  UNCHANGED <<Object, Shown>>
  BY <1>10 DEF Stage
<1>11. ASSUME NEW n \in Names, NEW obj \in Objects \cup {Absent}, UserWrite(n, obj)
       PROVE  Lifecycle!Next
  <2>1. UNCHANGED <<frrs, cache, pc, mine>> /\ Put(n, obj)
    BY <1>11 DEF UserWrite
  <2>2. UNCHANGED <<Cached, Built, Cleared>>
    BY <2>1
  <2>3. configs'[n] = obj /\ \A o \in Names \ {n} : configs'[o] = configs[o]
    BY <2>1, PutEntries
  <2>4. CASE n # S
    BY <1>1, <1>9, <1>10, <2>2, <2>3, <2>4
  <2>5. CASE n = S
    <3>1. Shown => Held
      BY <1>9 DEF HeldBehind
    <3>2. UNCHANGED Shown
      BY <1>9, <1>11, <2>3, <2>5, <3>1 DEF UserWrite, Created, Edited, Deleted, SameStatus, Held
    <3>3. \/ Object' = Object
          \/ Object = "absent" /\ Object' = "bare"
          \/ Object = "bare" /\ Object' = "absent"
          \/ Object = "held" /\ Object' = "deleting"
      <4>1. CASE Created(S, obj)
        BY <1>9, <2>3, <2>5, <4>1 DEF Created, Stage
      <4>2. CASE Edited(S, obj)
        <5>1. /\ obj # Absent /\ configs[S] # Absent /\ configs'[S] = obj
              /\ obj.del = configs[S].del /\ obj.fin = configs[S].fin
          BY <1>9, <2>3, <2>5, <4>2 DEF Edited
        <5>2. Object' = Object
          BY <5>1 DEF Stage
        <5> QED BY <5>2
      <4>3. CASE Deleted(S, obj)
        BY <1>9, <2>3, <2>5, <4>3 DEF Deleted, Stage
      <4> QED BY <1>11, <2>5, <4>1, <4>2, <4>3 DEF UserWrite
    <3> QED BY <1>1, <1>2, <2>2, <3>2, <3>3
  <2> QED BY <2>4, <2>5
<1>12. CASE Aside \/ Heard \/ \E n \in Names : Elapsed(n)
  <2>1. UNCHANGED <<configs, cache, frrs, pc, mine>>
    BY <1>12 DEF Aside, Heard, Elapsed, worker
  <2> QED BY <1>1, <1>10, <2>1
<1>13. CASE Delivered
  <2>1. UNCHANGED <<configs, frrs, pc, mine>> /\ DeliverConfig
    BY <1>13 DEF Delivered, worker
  <2>2. UNCHANGED <<Object, Shown, Built, Cleared>>
    BY <1>10, <2>1
  <2>3. Cached' = Cached \/ Cached' = Shown
    BY <2>1, DeliverChange
  <2>4. CASE Cached' = Cached
    BY <1>1, <2>2, <2>4
  <2>5. CASE Cached' = Shown /\ Cached' # Cached
    BY <1>3, <2>2, <2>5
  <2> QED BY <2>3, <2>4, <2>5
<1>14. CASE Restarted
  <2>1. UNCHANGED <<configs, frrs>> /\ cache' = configs /\ pc' = "idle"
    BY <1>14 DEF Restarted, GoIdle
  <2>2. ~Cleared' /\ Cached' = Shown /\ UNCHANGED Built
    BY <2>1
  <2> QED BY <1>8, <1>10, <2>1, <2>2
<1>15. CASE \E n \in Names : Begun(n)
  <2>1. /\ UNCHANGED <<configs, cache, frrs>> /\ pc = "idle"
        /\ pc' \in {"idle", "writeStatus", "checkRoutings", "patchNetwork", "addFinalizer"}
    BY <1>15 DEF Begun, worker
  <2>2. UNCHANGED <<Cached, Built, Cleared>>
    BY <2>1
  <2> QED BY <1>1, <1>10, <2>1, <2>2
<1>16. ASSUME ~(Building /\ pc = "ensureFRR" /\ Moved)
       PROVE  Built' => Built
  BY <1>16, OnlyBuildingAdds
<1>17. ASSUME UNCHANGED <<configs, cache>>, Cleared' => Cleared, Built' => Built
       PROVE  Lifecycle!Next
  <2>1. UNCHANGED <<Object, Shown, Cached>>
    BY <1>10, <1>17
  <2>2. CASE Built /\ ~Built'
    BY <1>5, <1>17, <2>1, <2>2
  <2>3. CASE UNCHANGED Built /\ Cleared /\ ~Cleared'
    BY <1>7, <2>1, <2>3
  <2>4. CASE UNCHANGED Built /\ UNCHANGED Cleared
    BY <1>1, <2>1, <2>4
  <2> QED BY <1>17, <2>2, <2>3, <2>4
<1>18. CASE Drifted
  <2>1. UNCHANGED <<configs, cache, pc, mine>>
    BY <1>18 DEF Drifted, worker
  <2>2. Built' => Built
    <3>1. \A i \in Zones : Managed(frrs'[i]) => Managed(frrs[i])
      <4>1. PICK i \in Zones, f \in {Absent, Foreign} : PutFRR(i, f)
        BY <1>18 DEF Drifted
      <4>2. ~Managed(f)
        BY AbsentAssumption DEF Managed
      <4> QED BY <4>1, <4>2, FRRWritten
    <3> QED BY <3>1
  <2> QED BY <1>17, <2>1, <2>2
<1>19. CASE Returned
  <2>1. UNCHANGED <<configs, cache>> /\ pc' = "idle"
    BY <1>19 DEF Returned, GoIdle
  <2>2. ~Moved
    BY <2>1, MovedKeeps
  <2> QED BY <1>16, <1>17, <2>1, <2>2
<1>20. CASE Moved
  <2>1. UNCHANGED <<configs, cache>> /\ UNCHANGED <<Object, Shown, Cached>>
    BY <1>10, <1>20, MovedKeeps
  <2>2. CASE Building
    <3>1. ~mine.del /\ ~mine'.del
      BY <1>20, <2>2, MovedStages DEF Stages
    <3>2. ~Cleared /\ ~Cleared'
      BY <3>1
    <3>3. Held
      BY <2>2 DEF HeldBehind
    <3>4. Object \in {"held", "deleting"}
      BY <3>3 DEF Held, Stage
    <3>5. CASE Built' => Built
      BY <1>17, <2>1, <3>2, <3>5
    <3>6. CASE ~Built /\ Built'
      BY <1>4, <2>1, <3>2, <3>4, <3>6
    <3> QED BY <3>5, <3>6
  <2>3. CASE ~Building
    <3>1. Deleting /\ mine.del /\ (Built' => Built)
      BY <1>16, <1>20, <2>3, MovedStages DEF Stages
    <3>2. CASE pc # "checkRoutings"
      BY <1>17, <2>1, <3>1, <3>2 DEF Deleting
    <3>3. CASE pc = "checkRoutings"
      <4>1. Clears /\ ~routedCache /\ pc' \in {"cleanup", "listFRR"} /\ mine' = mine /\ UNCHANGED frrs
        BY <1>20, <3>3 DEF Moved, Prepares, Concludes, Clears, Numbers, Lists, Ensures, Prunes,
                           Fails, Stay
      <4>2. ~Cleared /\ Cleared' /\ UNCHANGED Built
        BY <3>1, <3>3, <4>1
      <4> QED BY <1>6, <2>1, <4>1, <4>2
    <3> QED BY <3>2, <3>3
  <2> QED BY <2>2, <2>3
<1> QED BY <1>11, <1>12, <1>13, <1>14, <1>15, <1>18, <1>19, <1>20, WritesVisible
        DEF AnyStep, WorkerStep
=============================================================================
