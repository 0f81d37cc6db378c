----------------------- MODULE ConfigControllerSteps -----------------------
(***************************************************************************)
(* Lemmas about the steps of ConfigController: what they do to the watch   *)
(* stream and to the objects, and the kinds of them there are.             *)
(***************************************************************************)
EXTENDS ConfigControllerInv, TLAPS

(* Leaves go to Zenon, and to SMT where they say so. *)
USE Zenon

Entries == [name : Names, obj : Objects \cup {Absent}]

-----------------------------------------------------------------------------
(***************************************************************************)
(* The watch stream.                                                       *)
(***************************************************************************)

(* A write shows up as one more version of the config it writes. *)
LEMMA PutSteps ==
  ASSUME TypeOK, NEW n \in Names, NEW obj \in Objects \cup {Absent},
         Put(n, obj), UNCHANGED cache
  PROVE  /\ configs' \in [Names -> Objects \cup {Absent}]
         /\ watch' \in Seq(Entries) /\ Len(watch') <= MaxLag
         /\ Versions(n)' = Versions(n) \cup {obj}
         /\ \A o \in Names \ {n} : Versions(o)' = Versions(o)
         /\ Pending(n)'
         /\ \A o \in Names \ {n} : Pending(o)' <=> Pending(o)
<1> DEFINE e == [name |-> n, obj |-> obj]
<1>1. watch \in Seq(Entries) /\ e \in Entries
  BY DEF TypeOK, ApiTypes, EventTypes, RequeueTypes, Entries
<1>2. watch' = Append(watch, e) /\ Len(watch) < MaxLag
  BY DEF Put
<1>3. /\ watch' \in Seq(Entries) /\ Len(watch') = Len(watch) + 1
      /\ Len(watch) \in Nat
      /\ \A i \in 1..Len(watch) : watch'[i] = watch[i]
      /\ watch'[Len(watch) + 1] = e
  BY <1>1, <1>2, SMT
<1>4. configs' \in [Names -> Objects \cup {Absent}] /\ Len(watch') <= MaxLag
  BY <1>2, <1>3, ConstantsAssumption, SMT DEF Put, TypeOK, ApiTypes, EventTypes, RequeueTypes
<1>5. Pending(n)' /\ \A o \in Names \ {n} : Pending(o)' <=> Pending(o)
  BY <1>3, SMT DEF Pending
<1>6. Versions(n)' = Versions(n) \cup {obj}
  <2>1. \A k \in 1..Len(watch') : k \in 1..Len(watch) \/ k = Len(watch) + 1
    BY <1>3, SMT
  <2>2. Len(watch) + 1 \in 1..Len(watch') /\ 1..Len(watch) \subseteq 1..Len(watch')
    BY <1>3, SMT
  <2> QED BY <1>3, <2>1, <2>2, SMT DEF Versions
<1>7. \A o \in Names \ {n} : Versions(o)' = Versions(o)
  <2>1. \A k \in 1..Len(watch') : k \in 1..Len(watch) \/ k = Len(watch) + 1
    BY <1>3, SMT
  <2>2. 1..Len(watch) \subseteq 1..Len(watch')
    BY <1>3, SMT
  <2> QED BY <1>3, <2>1, <2>2, SMT DEF Versions
<1> QED BY <1>3, <1>4, <1>5, <1>6, <1>7

(* A write leaves the cache one event behind. *)
LEMMA PutFollows ==
  ASSUME TypeOK, CacheFollows, NEW n \in Names,
         NEW obj \in Objects \cup {Absent}, Put(n, obj), UNCHANGED cache
  PROVE  CacheFollows'
<1> DEFINE e == [name |-> n, obj |-> obj]
<1>1. watch \in Seq(Entries) /\ e \in Entries
  BY DEF TypeOK, ApiTypes, EventTypes, RequeueTypes, Entries
<1>2. watch' = Append(watch, e) /\ configs' = [configs EXCEPT ![n] = obj]
  BY DEF Put
<1>3. /\ Len(watch') = Len(watch) + 1 /\ Len(watch) \in Nat
      /\ \A i \in 1..Len(watch) : watch'[i] = watch[i] /\ watch[i] \in Entries
      /\ watch'[Len(watch) + 1] = e
  BY <1>1, <1>2, SMT
<1>4. /\ configs'[n] = obj
      /\ \A o \in Names \ {n} : configs'[o] = configs[o]
  BY <1>2 DEF TypeOK, ApiTypes, EventTypes, RequeueTypes
<1>5. \A o \in Names : Pending(o)' \/ cache'[o] = configs'[o]
  BY PutSteps, <1>4 DEF CacheFollows
<1>6. ASSUME NEW i \in 1..Len(watch'),
             \A j \in 1..Len(watch') : j > i => watch'[j].name # watch'[i].name
      PROVE  watch'[i].obj = configs'[watch'[i].name]
  <2>1. CASE i = Len(watch) + 1
    BY <2>1, <1>3, <1>4, SMT
  <2>2. CASE i \in 1..Len(watch)
    <3>1. watch[i].name # n /\ watch[i].name \in Names
      BY <2>2, <1>3, <1>6, SMT DEF Entries
    <3>2. \A j \in 1..Len(watch) : j > i => watch[j].name # watch[i].name
      BY <2>2, <1>3, <1>6, SMT
    <3> QED BY <2>2, <3>1, <3>2, <1>3, <1>4, SMT DEF CacheFollows
  <2> QED BY <2>1, <2>2, <1>3, SMT
<1> QED BY <1>5, <1>6 DEF CacheFollows

(* A delivery forgets old versions, brings none, and leaves no gap. *)
LEMMA DeliverSteps ==
  ASSUME TypeOK, CacheFollows, DeliverConfig
  PROVE  /\ cache' \in [Names -> Objects \cup {Absent}]
         /\ watch' \in Seq(Entries) /\ Len(watch') <= MaxLag
         /\ queue' \subseteq Names
         /\ CacheFollows'
         /\ \A n \in Names : Versions(n)' \subseteq Versions(n)
         /\ \A n \in Names : Pending(n) => Pending(n)' \/ n \in queue'
<1> DEFINE h == Head(watch)
<1>1. watch \in Seq(Entries) /\ watch # << >>
  BY DEF TypeOK, ApiTypes, EventTypes, RequeueTypes, Entries, DeliverConfig
<1>2. /\ h \in Entries /\ watch' \in Seq(Entries)
      /\ Len(watch') = Len(watch) - 1 /\ Len(watch) \in Nat /\ Len(watch) > 0
      /\ \A i \in 1..Len(watch') : watch'[i] = watch[i + 1]
      /\ \A i \in 1..Len(watch) : watch[i] \in Entries
      /\ h = watch[1]
  BY <1>1, SMT DEF DeliverConfig
<1>3. /\ cache' = [cache EXCEPT ![h.name] = h.obj]
      /\ queue' = queue \cup {h.name} /\ configs' = configs
  BY DEF DeliverConfig, api
<1>4. h.name \in Names /\ h.obj \in Objects \cup {Absent}
  BY <1>2 DEF Entries
<1>5. /\ cache' \in [Names -> Objects \cup {Absent}]
      /\ queue' \subseteq Names /\ Len(watch') <= MaxLag
  BY <1>2, <1>3, <1>4, ConstantsAssumption, SMT DEF TypeOK, ApiTypes, EventTypes, RequeueTypes
<1>6. \A k \in 1..Len(watch') : k + 1 \in 1..Len(watch) /\ watch'[k] = watch[k + 1]
  BY <1>2, SMT
<1>7. \A n \in Names : Versions(n)' \subseteq Versions(n)
  <2> SUFFICES ASSUME NEW n \in Names, NEW v \in Versions(n)'
               PROVE  v \in Versions(n)
    OBVIOUS
  <2>1. CASE v = cache'[n]
    <3>1. v = cache[n] \/ (n = watch[1].name /\ v = watch[1].obj)
      BY <2>1, <1>2, <1>3, <1>4 DEF TypeOK, ApiTypes, EventTypes, RequeueTypes
    <3> QED BY <3>1, <1>2, SMT DEF Versions
  <2>2. CASE \E k \in 1..Len(watch') : watch'[k].name = n /\ v = watch'[k].obj
    BY <2>2, <1>6, SMT DEF Versions
  <2> QED BY <2>1, <2>2 DEF Versions
<1>8. \A k \in 1..Len(watch) : k = 1 \/ (k - 1 \in 1..Len(watch') /\ watch'[k - 1] = watch[k])
  BY <1>2, SMT
<1>9. \A n \in Names : Pending(n) => Pending(n)' \/ n = h.name
  BY <1>2, <1>8 DEF Pending
<1>10. \A n \in Names : Pending(n)' \/ cache'[n] = configs'[n]
  <2> SUFFICES ASSUME NEW n \in Names, ~Pending(n)'
               PROVE  cache'[n] = configs'[n]
    OBVIOUS
  <2>1. CASE n = h.name
    <3>1. \A j \in 1..Len(watch) : j > 1 => watch[j].name # watch[1].name
      BY <2>1, <1>2, <1>8, SMT DEF Pending
    <3>2. h.obj = configs[n]
      BY <2>1, <3>1, <1>2, SMT DEF CacheFollows
    <3> QED BY <2>1, <3>2, <1>3, <1>4 DEF TypeOK, ApiTypes, EventTypes, RequeueTypes
  <2>2. CASE n # h.name
    BY <2>2, <1>3, <1>9 DEF CacheFollows, TypeOK, ApiTypes, EventTypes, RequeueTypes
  <2> QED BY <2>1, <2>2
<1>11. ASSUME NEW i \in 1..Len(watch'),
              \A j \in 1..Len(watch') : j > i => watch'[j].name # watch'[i].name
       PROVE  watch'[i].obj = configs'[watch'[i].name]
  <2>1. ASSUME NEW j \in 1..Len(watch), j > i + 1
        PROVE  watch[j].name # watch[i + 1].name
    <3>1. j - 1 \in 1..Len(watch') /\ j - 1 > i
      BY <2>1, <1>2, <1>11, SMT
    <3>2. watch'[j - 1] = watch[j] /\ watch'[i] = watch[i + 1]
      BY <3>1, <1>6, <1>8, <1>2, <1>11, SMT
    <3> QED BY <3>1, <3>2, <1>11
  <2>2. i + 1 \in 1..Len(watch) /\ watch'[i] = watch[i + 1]
    BY <1>6, <1>11
  <2>3. watch[i + 1].obj = configs[watch[i + 1].name]
    BY <2>1, <2>2 DEF CacheFollows
  <2> QED BY <2>2, <2>3, <1>3
<1> QED BY <1>2, <1>3, <1>5, <1>7, <1>9, <1>10, <1>11 DEF CacheFollows

(* Where the pending versions of the singleton are after a write. *)
LEMMA PutEntries ==
  ASSUME TypeOK, NEW n \in Names, NEW obj \in Objects \cup {Absent}, Put(n, obj)
  PROVE  /\ Len(watch) \in Nat /\ Len(watch') = Len(watch) + 1
         /\ \A i \in 1..Len(watch) : watch'[i] = watch[i]
         /\ watch'[Len(watch) + 1].name = n /\ watch'[Len(watch) + 1].obj = obj
         /\ configs'[n] = obj
         /\ \A o \in Names \ {n} : configs'[o] = configs[o]
<1> DEFINE e == [name |-> n, obj |-> obj]
<1>1. watch \in Seq(Entries) /\ e \in Entries
  BY DEF TypeOK, EventTypes, Entries
<1>2. watch' = Append(watch, e) /\ configs' = [configs EXCEPT ![n] = obj]
  BY DEF Put
<1>3. /\ Len(watch) \in Nat /\ Len(watch') = Len(watch) + 1
      /\ \A i \in 1..Len(watch) : watch'[i] = watch[i]
      /\ watch'[Len(watch) + 1] = e
  BY <1>1, <1>2, SMT
<1>4. configs'[n] = obj /\ \A o \in Names \ {n} : configs'[o] = configs[o]
  BY <1>2 DEF TypeOK, ApiTypes
<1> QED BY <1>3, <1>4, SMT

(* A write that makes the singleton Ready or unready must find no version  *)
(* of another readiness; one that does not may find any.                   *)
LEMMA PutChange ==
  ASSUME TypeOK, OneChange, NEW n \in Names, NEW obj \in Objects \cup {Absent},
         Put(n, obj), UNCHANGED cache,
         n = SingletonName /\ IsReady(obj) # IsReady(configs[n])
             => \A v \in Versions(n) : IsReady(v) = IsReady(configs[n])
  PROVE  OneChange'
<1> DEFINE S == SingletonName
           now == IsReady(configs[S])
           R(i) == IsReady(watch[i].obj)
           P(i) == i \in 1..Len(watch) /\ watch[i].name = S
           Rn(i) == IsReady(watch'[i].obj)
           Pn(i) == i \in 1..Len(watch') /\ watch'[i].name = S
           new == IsReady(configs'[S])
<1>1. /\ Len(watch) \in Nat /\ Len(watch') = Len(watch) + 1
      /\ \A i \in 1..Len(watch) : watch'[i] = watch[i]
      /\ watch'[Len(watch) + 1].name = n /\ watch'[Len(watch) + 1].obj = obj
      /\ configs'[n] = obj /\ (n # S => configs'[S] = configs[S])
  <2>1. S \in Names
    BY ConstantsAssumption
  <2>2. n # S => S \in Names \ {n}
    BY <2>1
  <2> QED BY <2>2, PutEntries
<1>2. /\ IsReady(cache[S]) = now => \A i : P(i) => R(i) = now
      /\ \A i, j : P(i) /\ P(j) /\ i < j /\ R(i) = now => R(j) = now
  BY DEF OneChange
<1>3. \A i : Pn(i) => (P(i) /\ Rn(i) = R(i)) \/ (i = Len(watch) + 1 /\ n = S /\ Rn(i) = new)
  <2>1. \A i \in 1..Len(watch') : i \in 1..Len(watch) \/ i = Len(watch) + 1
    BY <1>1, SMT
  <2> QED BY <1>1, <2>1
<1>4. \A i, j : P(j) /\ i = Len(watch) + 1 => ~(i < j)
  BY <1>1, SMT
<1>5. now \in BOOLEAN /\ new \in BOOLEAN /\ (\A i : R(i) \in BOOLEAN)
  BY DEF IsReady
<1>6. n = S /\ new # now => IsReady(cache[S]) = now /\ \A i : P(i) => R(i) = now
  <2>1. cache[S] \in Versions(S) /\ \A i : P(i) => watch[i].obj \in Versions(S)
    BY DEF Versions
  <2> QED BY <2>1, <1>1
<1>7. n # S => new = now
  BY <1>1
<1> HIDE DEF now, new, R, P, Rn, Pn
<1>8. /\ IsReady(cache[S]) = new => \A i : Pn(i) => Rn(i) = new
      /\ \A i, j : Pn(i) /\ Pn(j) /\ i < j /\ Rn(i) = new => Rn(j) = new
  <2>1. CASE new = now
    BY <2>1, <1>2, <1>3, <1>4
  <2>2. CASE new # now
    BY <2>2, <1>3, <1>4, <1>6, <1>7
  <2> QED BY <2>1, <2>2
<1>9. cache' = cache
  OBVIOUS
<1> QED BY <1>8, <1>9 DEF OneChange, now, new, R, P, Rn, Pn

(* A delivery changes what the cache says of readiness at most to what the *)
(* server says, and at most once.                                          *)
LEMMA DeliverChange ==
  ASSUME TypeOK, OneChange, DeliverConfig
  PROVE  /\ OneChange'
         /\ \/ IsReady(cache'[SingletonName]) = IsReady(cache[SingletonName])
            \/ IsReady(cache'[SingletonName]) = IsReady(configs[SingletonName])
<1> DEFINE S == SingletonName
           now == IsReady(configs[S])
           R(i) == IsReady(watch[i].obj)
           P(i) == i \in 1..Len(watch) /\ watch[i].name = S
           Rn(i) == IsReady(watch'[i].obj)
           Pn(i) == i \in 1..Len(watch') /\ watch'[i].name = S
           c == IsReady(cache[S])
           cn == IsReady(cache'[S])
<1>1. watch \in Seq(Entries) /\ watch # << >>
  BY DEF TypeOK, EventTypes, Entries, DeliverConfig
<1>2. /\ Len(watch') = Len(watch) - 1 /\ Len(watch) \in Nat /\ Len(watch) > 0
      /\ \A i \in 1..Len(watch') : watch'[i] = watch[i + 1]
      /\ Head(watch) = watch[1]
  BY <1>1, SMT DEF DeliverConfig
<1>3. configs' = configs /\ cache' = [cache EXCEPT ![watch[1].name] = watch[1].obj]
  BY <1>2 DEF DeliverConfig, api
<1>4. cache'[S] = IF watch[1].name = S THEN watch[1].obj ELSE cache[S]
  BY <1>3, ConstantsAssumption DEF TypeOK, EventTypes
<1>5. 1 \in 1..Len(watch) /\ (\A i : Pn(i) => P(i + 1) /\ Rn(i) = R(i + 1) /\ 1 < i + 1)
  BY <1>2, SMT
<1>6. \A i, j : Pn(i) /\ Pn(j) /\ i < j => i + 1 < j + 1
  BY <1>2, SMT
<1>7. /\ c = now => \A i : P(i) => R(i) = now
      /\ \A i, j : P(i) /\ P(j) /\ i < j /\ R(i) = now => R(j) = now
  BY DEF OneChange
<1>8. now \in BOOLEAN /\ c \in BOOLEAN /\ cn \in BOOLEAN
  BY DEF IsReady
<1>9. (P(1) /\ cn = R(1)) \/ cn = c
  BY <1>4, <1>5
<1> HIDE DEF now, R, P, Rn, Pn, c, cn
<1>10. /\ cn = now => \A i : Pn(i) => Rn(i) = now
       /\ \A i, j : Pn(i) /\ Pn(j) /\ i < j /\ Rn(i) = now => Rn(j) = now
  BY <1>5, <1>6, <1>7, <1>9
<1>11. cn = c \/ cn = now
  <2>1. c = now => cn = now
    BY <1>7, <1>9
  <2> QED BY <1>8, <2>1
<1>12. now = IsReady(configs'[S])
  BY <1>3 DEF now
<1> QED BY <1>10, <1>11, <1>12 DEF OneChange, now, R, P, Rn, Pn, c, cn

-----------------------------------------------------------------------------
(***************************************************************************)
(* The objects that users and the controller write.                        *)
(***************************************************************************)
Complaint(o, t) == [SetStatusCondition(o, t, "False") EXCEPT !.phase = "Degraded"]
Discovered(o) == [SetStatusCondition(o, "AWSEndpointsDiscovered", "True") EXCEPT !.found = offered]
WithStatus(o, m) ==
    [o EXCEPT !.phase = m.phase, !.obs = m.obs, !.conditions = m.conditions, !.found = m.found]

(* The parts of two objects that a status has, and the other parts. *)
SameStatus(o, p) ==
    o.phase = p.phase /\ o.obs = p.obs /\ o.conditions = p.conditions /\ o.found = p.found
SameRest(o, p) == o.spec = p.spec /\ o.gen = p.gen /\ o.del = p.del /\ o.fin = p.fin

(* The conditions of o are those of p, but for that of type t. *)
Gains(o, p, t, s) ==
    o.conditions[t] = s /\ \A u \in ConditionTypes \ {t} : o.conditions[u] = p.conditions[u]

(* What users write are objects. *)
LEMMA NewObjects ==
  ASSUME NEW spec \in Specs
  PROVE  LET x == NewObject(spec) IN
         x \in Objects /\ ~x.del /\ ~x.fin /\ x.phase = "" /\ x.obs = 0 /\ x.gen = 1
<1> DEFINE new == NewObject(spec)
<1>1. new \in Objects
  <2>1. 1 \in 1..MaxGeneration /\ 0 \in 0..MaxGeneration
    BY ConstantsAssumption, SMT
  <2>2. [c \in ConditionTypes |-> "none"] \in Conditions
    BY DEF Conditions
  <2>3. "" \in Phases /\ Absent \in Findings
    BY DEF Phases, Findings
  <2> QED BY <2>1, <2>2, <2>3 DEF NewObject, Objects
<1>2. ~new.del /\ ~new.fin /\ new.phase = "" /\ new.obs = 0 /\ new.gen = 1
  BY SMT DEF NewObject
<1> QED BY <1>1, <1>2

(* So is what they make of them. *)
LEMMA UserObjects ==
  ASSUME NEW o \in Objects, NEW spec \in Specs
  PROVE  /\ o.gen < MaxGeneration =>
               LET x == [o EXCEPT !.spec = spec, !.gen = @ + 1] IN
               x \in Objects /\ x.gen = o.gen + 1 /\ x.del = o.del /\ x.fin = o.fin
               /\ SameStatus(x, o)
         /\ LET x == [o EXCEPT !.del = TRUE] IN
            x \in Objects /\ x.del /\ x.spec = o.spec /\ x.gen = o.gen /\ x.fin = o.fin
            /\ SameStatus(x, o)
<1> DEFINE edited == [o EXCEPT !.spec = spec, !.gen = @ + 1]
           deleted == [o EXCEPT !.del = TRUE]
<1>1. ASSUME o.gen < MaxGeneration
      PROVE  /\ edited \in Objects /\ edited.gen = o.gen + 1 /\ edited.del = o.del
             /\ edited.fin = o.fin /\ SameStatus(edited, o)
  <2>1. o.gen + 1 \in 1..MaxGeneration
    <3>1. o.gen \in 1..MaxGeneration
      BY DEF Objects
    <3> QED BY <1>1, <3>1, ConstantsAssumption, SMT
  <2>2. edited \in Objects
    BY <2>1 DEF Objects
  <2>3. /\ edited.gen = o.gen + 1 /\ edited.del = o.del
        /\ edited.fin = o.fin /\ SameStatus(edited, o)
    BY SMT DEF Objects, SameStatus
  <2> QED BY <2>2, <2>3
<1>2. /\ deleted \in Objects /\ deleted.del /\ deleted.spec = o.spec /\ deleted.gen = o.gen
      /\ deleted.fin = o.fin /\ SameStatus(deleted, o)
  <2>1. deleted \in Objects
    BY DEF Objects
  <2>2. /\ deleted.del /\ deleted.spec = o.spec /\ deleted.gen = o.gen
        /\ deleted.fin = o.fin /\ SameStatus(deleted, o)
    BY SMT DEF Objects, SameStatus
  <2> QED BY <2>1, <2>2
<1> QED BY <1>1, <1>2

(* So are the controller's objects, which keep what users write. *)
LEMMA ControllerObjects ==
  ASSUME NEW o \in Objects
  PROVE  /\ LET x == [o EXCEPT !.fin = TRUE] IN
            x \in Objects /\ x.fin /\ x.spec = o.spec /\ x.gen = o.gen /\ x.del = o.del
            /\ SameStatus(x, o)
         /\ LET x == Configuring(o) IN
            x \in Objects /\ x.spec = o.spec /\ x.gen = o.gen /\ x.del = o.del
            /\ x.phase = "Configuring" /\ x.obs = o.gen
         /\ LET x == Finished(o) IN
            x \in Objects /\ SameRest(x, o) /\ x.phase = "Ready" /\ x.obs = o.obs
            /\ x.conditions = o.conditions /\ x.found = o.found
         /\ \A m \in Objects : LET x == WithStatus(o, m) IN
               x \in Objects /\ SameRest(x, o) /\ SameStatus(x, m)
<1> DEFINE held == [o EXCEPT !.fin = TRUE]
           started == Configuring(o)
           done == Finished(o)
<1>1. held \in Objects
  BY DEF Objects
<1>2. held.fin /\ held.spec = o.spec /\ held.gen = o.gen /\ held.del = o.del /\ SameStatus(held, o)
  BY SMT DEF Objects, SameStatus
<1>3. started \in Objects
  <2>1. o.gen \in 0..MaxGeneration
    <3>1. o.gen \in 1..MaxGeneration
      BY DEF Objects
    <3> QED BY <3>1, ConstantsAssumption, SMT
  <2>2. "Configuring" \in Phases
    BY DEF Phases
  <2> QED BY <2>1, <2>2 DEF Objects, Configuring
<1>4. /\ started.spec = o.spec /\ started.gen = o.gen /\ started.del = o.del
      /\ started.phase = "Configuring" /\ started.obs = o.gen
  BY SMT DEF Objects, Configuring
<1>5. done \in Objects
  <2>1. "Ready" \in Phases
    BY DEF Phases
  <2> QED BY <2>1, SMT DEF Objects, Finished
<1>6. /\ SameRest(done, o) /\ done.phase = "Ready" /\ done.obs = o.obs
      /\ done.conditions = o.conditions /\ done.found = o.found
  BY SMT DEF Objects, Finished, SameRest
<1>7. ASSUME NEW m \in Objects
      PROVE  WithStatus(o, m) \in Objects
  BY DEF Objects, WithStatus
<1>8. ASSUME NEW m \in Objects
      PROVE  SameRest(WithStatus(o, m), o) /\ SameStatus(WithStatus(o, m), m)
  BY SMT DEF Objects, WithStatus, SameRest, SameStatus
<1> QED BY <1>1, <1>2, <1>3, <1>4, <1>5, <1>6, <1>7, <1>8

(* Conditions are set one at a time. *)
LEMMA ConditionObjects ==
  ASSUME NEW o \in Objects, NEW t \in ConditionTypes
  PROVE  /\ \A s \in {"True", "False"} : LET x == SetStatusCondition(o, t, s) IN
               x \in Objects /\ SameRest(x, o) /\ x.phase = o.phase /\ x.obs = o.obs
               /\ x.found = o.found /\ Gains(x, o, t, s)
<1> DEFINE Values == {"none", "True", "False"}
<1>1. Conditions = [ConditionTypes -> Values] /\ o.conditions \in [ConditionTypes -> Values]
  BY DEF Objects, Conditions
<1>2. ASSUME NEW s \in {"True", "False"}
      PROVE  LET x == SetStatusCondition(o, t, s) IN
             x \in Objects /\ SameRest(x, o) /\ x.phase = o.phase /\ x.obs = o.obs
             /\ x.found = o.found /\ Gains(x, o, t, s)
  <2> DEFINE x == SetStatusCondition(o, t, s)
             after == [o.conditions EXCEPT ![t] = s]
  <2>1. after \in Conditions
    BY <1>1
  <2>2. after[t] = s /\ \A u \in ConditionTypes \ {t} : after[u] = o.conditions[u]
    BY <1>1
  <2>3. x = [o EXCEPT !.conditions = after]
    BY SMT DEF SetStatusCondition
  <2> HIDE DEF after, x
  <2>4. x \in Objects
    BY <2>1, <2>3, SMT DEF Objects
  <2>5. /\ SameRest(x, o) /\ x.phase = o.phase /\ x.obs = o.obs /\ x.found = o.found
        /\ x.conditions = after
    BY <2>3, SMT DEF Objects, SameRest
  <2> QED BY <2>2, <2>4, <2>5 DEF Gains, x
<1> QED BY <1>2

(* A complaint changes the phase along with a condition. *)
LEMMA ComplaintObject ==
  ASSUME NEW o \in Objects, NEW t \in ConditionTypes
  PROVE  LET x == Complaint(o, t) IN
         x \in Objects /\ SameRest(x, o) /\ x.phase = "Degraded" /\ x.obs = o.obs
         /\ x.conditions[t] = "False"
<1> DEFINE y == SetStatusCondition(o, t, "False")
           x == Complaint(o, t)
<1>1. y \in Objects /\ SameRest(y, o) /\ y.obs = o.obs /\ y.conditions[t] = "False"
  <2>1. y \in Objects /\ SameRest(y, o) /\ y.obs = o.obs /\ Gains(y, o, t, "False")
    BY ConditionObjects
  <2> QED BY <2>1 DEF Gains
<1>2. x = [y EXCEPT !.phase = "Degraded"]
  BY DEF Complaint
<1> HIDE DEF y, x
<1>3. x \in Objects
  <2>1. "Degraded" \in Phases
    BY DEF Phases
  <2> QED BY <1>1, <1>2, <2>1, SMT DEF Objects
<1>4. SameRest(x, y) /\ x.phase = "Degraded" /\ x.obs = y.obs /\ x.conditions = y.conditions
  BY <1>1, <1>2, SMT DEF Objects, SameRest
<1> QED BY <1>1, <1>3, <1>4 DEF SameRest, x

(* The zones that are found are zones. *)
LEMMA DiscoveredObject ==
  ASSUME NEW o \in Objects, offered \subseteq Zones
  PROVE  LET x == Discovered(o) IN
         x \in Objects /\ SameRest(x, o) /\ x.phase = o.phase /\ x.obs = o.obs
         /\ x.found = offered /\ x.found # Absent
         /\ Gains(x, o, "AWSEndpointsDiscovered", "True")
<1> DEFINE t == "AWSEndpointsDiscovered"
           y == SetStatusCondition(o, t, "True")
           x == Discovered(o)
<1>1. y \in Objects /\ SameRest(y, o) /\ y.phase = o.phase /\ y.obs = o.obs /\ Gains(y, o, t, "True")
  BY ConditionObjects DEF ConditionTypes
<1>2. x = [y EXCEPT !.found = offered]
  BY DEF Discovered
<1> HIDE DEF y, x
<1>3. x \in Objects
  <2>1. offered \in Findings
    BY DEF Findings
  <2> QED BY <1>1, <1>2, <2>1, SMT DEF Objects
<1>4. /\ SameRest(x, y) /\ x.phase = y.phase /\ x.obs = y.obs /\ x.conditions = y.conditions
      /\ x.found = offered
  BY <1>1, <1>2, SMT DEF Objects, SameRest
<1>5. offered # Absent
  BY AbsentAssumption
<1> QED BY <1>1, <1>3, <1>4, <1>5 DEF SameRest, Gains, x

-----------------------------------------------------------------------------
(***************************************************************************)
(* The kinds of steps.                                                     *)
(***************************************************************************)

(* A user creates, edits or deletes config n, which becomes obj. *)
Created(n, obj) ==
    configs[n] = Absent /\ obj \in Objects /\ ~obj.del /\ ~obj.fin /\ obj.phase = ""
    /\ obj.obs = 0 /\ obj.gen = 1
Edited(n, obj) ==
    configs[n] \in Objects /\ obj \in Objects /\ SameStatus(obj, configs[n])
    /\ obj.gen = configs[n].gen + 1 /\ obj.del = configs[n].del /\ obj.fin = configs[n].fin
Deleted(n, obj) ==
    configs[n] \in Objects /\ ~configs[n].del
    /\ IF configs[n].fin
       THEN obj \in Objects /\ obj.del /\ obj.fin /\ SameStatus(obj, configs[n])
            /\ obj.gen = configs[n].gen /\ obj.spec = configs[n].spec
       ELSE obj = Absent

UserWrite(n, obj) ==
    /\ Created(n, obj) \/ Edited(n, obj) \/ Deleted(n, obj)
    /\ Put(n, obj) /\ fresh' = (fresh /\ key # n)
    /\ UNCHANGED <<frrs, cache, frrEvent, queue, delayed, pc, key, mine, step, doomed>>

(* What no invariant looks at changes; a node may ask for a reconcile. *)
Aside ==
    /\ queue \subseteq queue' /\ queue' \subseteq Names
    /\ UNCHANGED <<configs, frrs, watch, cache, frrEvent, delayed, worker>>

Drifted ==
    /\ \E i \in Zones, f \in {Absent, Foreign} : PutFRR(i, f)
    /\ UNCHANGED <<configs, watch, cache, queue, delayed, worker>>

Delivered ==
    DeliverConfig /\ UNCHANGED <<configs, frrs, frrEvent, delayed, worker>>

Heard ==
    /\ frrEvent' = FALSE /\ queue' = queue \cup {SingletonName}
    /\ UNCHANGED <<configs, frrs, watch, cache, delayed, worker>>

Elapsed(n) ==
    /\ delayed' = [delayed EXCEPT ![n] = "none"] /\ queue' = queue \cup {n}
    /\ UNCHANGED <<configs, frrs, watch, cache, frrEvent, worker>>

Restarted ==
    /\ cache' = configs /\ watch' = << >> /\ frrEvent' = FALSE
    /\ queue' = {n \in Names : configs[n] # Absent} /\ delayed' = [n \in Names |-> "none"]
    /\ GoIdle /\ UNCHANGED <<configs, frrs>>

(* A reconcile of n begins, or ends at once for want of an object. *)
Begun(n) ==
    /\ pc = "idle" /\ n \in queue /\ queue' = queue \ {n}
    /\ \/ cache[n] = Absent /\ UNCHANGED worker
       \/ /\ cache[n] \in Objects /\ mine' \in Objects
          /\ key' = n /\ fresh' = ~Pending(n) /\ UNCHANGED <<step, doomed>>
          /\ mine'.spec = cache[n].spec /\ mine'.gen = cache[n].gen /\ mine'.del = cache[n].del
          /\ \/ /\ n # SingletonName /\ pc' = "writeStatus" /\ mine'.obs = cache[n].obs
                /\ mine'.phase = "Degraded" /\ \E t \in ConditionTypes : mine'.conditions[t] = "False"
             \/ n = SingletonName /\ cache[n].del /\ pc' = "checkRoutings"
             \/ /\ n = SingletonName /\ ~cache[n].del /\ cache[n].fin /\ pc' = "patchNetwork"
                /\ mine'.phase = "Configuring" /\ mine'.obs = mine'.gen
             \/ n = SingletonName /\ ~cache[n].del /\ ~cache[n].fin /\ pc' = "addFinalizer"
    /\ UNCHANGED <<configs, frrs, watch, cache, frrEvent, delayed>>

(* A reconcile ends after a failure, or because a CUDNBgpRouting blocks. *)
Returned ==
    /\ pc # "idle" /\ GoIdle
    /\ \/ delayed' = [delayed EXCEPT ![key] = "backoff"]
       \/ /\ pc = "checkRoutings"
          /\ delayed' = [delayed EXCEPT ![key] = IF @ = "backoff" THEN @ ELSE "timer"]
    /\ \/ UNCHANGED <<frrs, frrEvent>>
       \/ pc = "deleteFRR" /\ mine.del /\ \E i \in doomed : PutFRR(i, Absent)
    /\ UNCHANGED <<configs, watch, cache, queue>>

(* The updates of the worker's own object. *)
Bound ==
    /\ pc = "addFinalizer" /\ fresh
    /\ \E obj \in Objects :
          /\ Put(key, obj) /\ obj.fin /\ SameStatus(obj, configs[key])
          /\ obj.spec = configs[key].spec /\ obj.gen = configs[key].gen
          /\ obj.del = configs[key].del
    /\ \/ /\ pc' = "patchNetwork" /\ mine' \in Objects /\ mine'.spec = mine.spec
          /\ mine'.gen = mine.gen /\ mine'.del = mine.del
          /\ mine'.phase = "Configuring" /\ mine'.obs = mine'.gen
          /\ UNCHANGED <<key, fresh, step, doomed, queue, delayed>>
       \/ GoIdle /\ delayed' = [delayed EXCEPT ![key] = "backoff"] /\ UNCHANGED queue
    /\ UNCHANGED <<frrs, cache, frrEvent>>

Reported ==
    /\ pc = "writeStatus" /\ fresh /\ GoIdle
    /\ \E obj \in Objects :
          /\ SameRest(obj, configs[key]) /\ SameStatus(obj, mine)
          /\ IF obj = configs[key] THEN UNCHANGED <<configs, watch>> ELSE Put(key, obj)
    /\ \/ delayed' = [delayed EXCEPT ![key] = "backoff"]
       \/ delayed' = [delayed EXCEPT ![key] = IF @ = "backoff" THEN @ ELSE "timer"]
    /\ UNCHANGED <<frrs, cache, frrEvent, queue>>

Released ==
    /\ pc = "removeFinalizer" /\ fresh /\ Put(key, Absent) /\ GoIdle
    /\ \/ delayed' = [delayed EXCEPT ![key] = "backoff"] \/ UNCHANGED delayed
    /\ UNCHANGED <<frrs, cache, frrEvent, queue>>

(* How a reconcile goes on: with what it had, with one more condition, or  *)
(* with a status to write.                                                 *)
Stay(q) == pc' = q /\ mine' = mine

Kept == mine' \in Objects /\ SameRest(mine', mine) /\ mine'.obs = mine.obs

Onward(q, t) == pc' = q /\ Kept /\ mine'.phase = mine.phase /\ Gains(mine', mine, t, "True")

Finishes(t) ==
    pc' = "writeStatus" /\ Kept /\ mine'.phase = "Ready" /\ mine'.found = mine.found
    /\ Gains(mine', mine, t, "True")

Complains ==
    pc' = "writeStatus" /\ Kept /\ mine'.phase = "Degraded"
    /\ \E t \in ConditionTypes : mine'.conditions[t] = "False"

Prepares ==
    \/ pc = "patchNetwork" /\ Onward("checkFRR", "NetworkOperatorPatched")
    \/ pc = "checkFRR" /\ mine.spec.aws /\ Onward("discover", "FRRNamespaceReady")
    \/ pc = "checkFRR" /\ ~mine.spec.aws /\ Onward("startFRR", "FRRNamespaceReady")
    \/ /\ pc = "checkFRR" /\ pc' = "writeStatus" /\ Kept /\ mine'.phase = mine.phase
       /\ mine'.conditions["FRRNamespaceReady"] = "False"
    \/ /\ pc = "discover" /\ Onward("startFRR", "AWSEndpointsDiscovered")
       /\ mine'.found # Absent

Concludes ==
    \/ /\ pc = "deleteFRR" /\ doomed = {} /\ ~mine.del /\ mine.spec.aws
       /\ Onward("reconcileNodes", "FRRConfigurationApplied") /\ mine'.found = mine.found
    \/ /\ pc = "deleteFRR" /\ doomed = {} /\ ~mine.del /\ ~mine.spec.aws
       /\ Finishes("FRRConfigurationApplied")
    \/ pc = "reconcileNodes" /\ Finishes("AWSResourcesReconciled")

Clears ==
    \/ pc = "checkRoutings" /\ ~routedCache /\ (Stay("cleanup") \/ Stay("listFRR"))
    \/ pc = "cleanup" /\ Stay("listFRR")
    \/ pc = "deleteFRR" /\ doomed = {} /\ mine.del /\ Stay("removeFinalizer")

Numbers ==
    /\ pc = "startFRR" /\ step' = 1 /\ UNCHANGED doomed
    /\ IF FRRCount(mine) = 0 THEN Stay("listFRR") ELSE Stay("ensureFRR")

Lists ==
    /\ pc = "listFRR" /\ Stay("deleteFRR") /\ UNCHANGED step
    /\ doomed' = {i \in Zones : Managed(frrs[i]) /\ (mine.del \/ i > FRRCount(mine))}

Ensures ==
    /\ pc = "ensureFRR" /\ PutFRR(step, FRRFor(mine, step)) /\ step' = step + 1
    /\ UNCHANGED doomed
    /\ IF step = FRRCount(mine) THEN Stay("listFRR") ELSE Stay("ensureFRR")

Prunes(i) ==
    /\ pc = "deleteFRR" /\ i \in doomed /\ PutFRR(i, Absent) /\ doomed' = doomed \ {i}
    /\ Stay("deleteFRR") /\ UNCHANGED step

(* A call fails, with or without an effect. *)
Fails ==
    /\ Complains
    /\ \/ pc \in {"patchNetwork", "checkFRR", "discover", "ensureFRR", "reconcileNodes"}
       \/ pc \in {"listFRR", "deleteFRR"} /\ ~mine.del
    /\ \/ UNCHANGED <<frrs, frrEvent>>
       \/ pc = "ensureFRR" /\ PutFRR(step, FRRFor(mine, step))
       \/ pc = "deleteFRR" /\ \E i \in doomed : PutFRR(i, Absent)

Moved ==
    /\ \/ (Prepares \/ Concludes \/ Clears) /\ UNCHANGED <<frrs, frrEvent, step, doomed>>
       \/ (Numbers \/ Lists) /\ UNCHANGED <<frrs, frrEvent>>
       \/ Ensures \/ \E i \in Zones : Prunes(i)
       \/ Fails /\ UNCHANGED <<step, doomed>>
    /\ UNCHANGED <<configs, watch, cache, queue, delayed, key, fresh>>

-----------------------------------------------------------------------------
(***************************************************************************)
(* Every step is of one of the kinds.                                      *)
(***************************************************************************)

(* A busy worker has a key and an object. *)
LEMMA Busy ==
  ASSUME TypeOK, pc # "idle"
  PROVE  key \in Names /\ mine \in Objects
BY DEF TypeOK, WorkerTypes

(* What is not absent is an object. *)
LEMMA Present ==
  ASSUME TypeOK
  PROVE  /\ \A n \in Names : configs[n] # Absent <=> configs[n] \in Objects
         /\ \A n \in Names : cache[n] # Absent <=> cache[n] \in Objects
BY AbsentAssumption DEF TypeOK, ApiTypes, EventTypes

(* What users do is to create, edit or delete. *)
LEMMA UserKinds ==
  ASSUME TypeOK, NEW n \in Names, NEW spec \in Specs,
         CreateConfig(n, spec) \/ EditConfig(n, spec) \/ DeleteConfig(n)
  PROVE  \E obj \in Objects \cup {Absent} : UserWrite(n, obj)
<1>1. /\ fresh' = (fresh /\ key # n)
      /\ UNCHANGED <<frrs, cache, frrEvent, queue, delayed, pc, key, mine, step, doomed>>
  BY DEF CreateConfig, EditConfig, DeleteConfig, Outdate, requeues
<1>2. CASE CreateConfig(n, spec)
  BY <1>1, <1>2, NewObjects DEF CreateConfig, UserWrite, Created
<1>3. CASE EditConfig(n, spec)
  <2>1. configs[n] \in Objects /\ configs[n].gen < MaxGeneration
    BY <1>3, Present DEF EditConfig
  <2>2. Put(n, [configs[n] EXCEPT !.spec = spec, !.gen = @ + 1])
    BY <1>3 DEF EditConfig
  <2> DEFINE x == [configs[n] EXCEPT !.spec = spec, !.gen = @ + 1]
  <2>3. /\ x \in Objects /\ x.gen = configs[n].gen + 1 /\ x.del = configs[n].del
        /\ x.fin = configs[n].fin /\ SameStatus(x, configs[n])
    BY <2>1, UserObjects
  <2> HIDE DEF x
  <2> QED BY <1>1, <2>1, <2>2, <2>3 DEF UserWrite, Edited, x
<1>4. CASE DeleteConfig(n)
  <2>1. configs[n] \in Objects /\ ~configs[n].del
    BY <1>4, Present DEF DeleteConfig
  <2>2. Put(n, IF configs[n].fin THEN [configs[n] EXCEPT !.del = TRUE] ELSE Absent)
    BY <1>4 DEF DeleteConfig
  <2> QED BY <1>1, <2>1, <2>2, UserObjects DEF UserWrite, Deleted
<1> QED BY <1>2, <1>3, <1>4

(* What happens around the worker. *)
LEMMA OutsideKinds ==
  ASSUME TypeOK
  PROVE  /\ ChangeRoutings \/ DeliverRoutings \/ DeliverNode => Aside
         /\ \A zones \in SUBSET Zones : ChangeEndpoints(zones) => Aside
         /\ \A i \in Zones, f \in {Absent, Foreign} : DriftFRR(i, f) => Drifted
         /\ DeliverConfig => Delivered
         /\ DeliverFRR => Heard
         /\ \A n \in Names : DelayOver(n) => Elapsed(n)
         /\ Restart => Restarted
<1>1. queue \subseteq Names /\ SingletonName \in Names
  BY ConstantsAssumption DEF TypeOK, RequeueTypes
<1>2. ChangeRoutings \/ DeliverRoutings \/ DeliverNode => Aside
  BY <1>1 DEF ChangeRoutings, DeliverRoutings, DeliverNode, Aside, requeues, api, events
<1>3. ASSUME NEW zones \in SUBSET Zones, ChangeEndpoints(zones)
      PROVE  Aside
  BY <1>1, <1>3 DEF ChangeEndpoints, Aside, requeues, events
<1>4. ASSUME NEW i \in Zones, NEW f \in {Absent, Foreign}, DriftFRR(i, f)
      PROVE  Drifted
  BY <1>4 DEF DriftFRR, Drifted, requeues
<1>5. DeliverConfig => Delivered
  BY DEF DeliverConfig, Delivered, api
<1>6. DeliverFRR => Heard
  BY DEF DeliverFRR, Heard, api
<1>7. ASSUME NEW n \in Names, DelayOver(n)
      PROVE  Elapsed(n)
  BY <1>7 DEF DelayOver, Elapsed, api, events
<1>8. Restart => Restarted
  BY DEF Restart, Restarted, api
<1> QED BY <1>2, <1>3, <1>4, <1>5, <1>6, <1>7, <1>8

(* How a reconcile begins, by the name and the state of what it reads. *)
LEMMA ReconcileKinds ==
  ASSUME TypeOK, NEW n \in Names, Reconcile(n)
  PROVE  Begun(n)
<1>1. /\ pc = "idle" /\ n \in queue /\ queue' = queue \ {n}
      /\ UNCHANGED <<configs, frrs, watch, cache, frrEvent, delayed>>
  BY DEF Reconcile, api, events
<1>2. CASE cache[n] = Absent
  BY <1>1, <1>2 DEF Reconcile, Begun
<1>3. CASE cache[n] # Absent
  <2>1. cache[n] \in Objects
    BY <1>3, Present
  <2>2. /\ key' = n /\ fresh' = ~Pending(n) /\ UNCHANGED <<step, doomed>>
        /\ \/ /\ n # SingletonName /\ pc' = "writeStatus"
              /\ mine' = Complaint(cache[n], "NetworkOperatorPatched")
           \/ /\ n = SingletonName /\ cache[n].del
              /\ pc' = "checkRoutings" /\ mine' = cache[n]
           \/ /\ n = SingletonName /\ ~cache[n].del /\ cache[n].fin
              /\ pc' = "patchNetwork" /\ mine' = Configuring(cache[n])
           \/ /\ n = SingletonName /\ ~cache[n].del /\ ~cache[n].fin
              /\ pc' = "addFinalizer" /\ mine' = cache[n]
    BY <1>3 DEF Reconcile, Complaint
  <2>3. LET x == Complaint(cache[n], "NetworkOperatorPatched") IN
        /\ x \in Objects /\ SameRest(x, cache[n]) /\ x.phase = "Degraded"
        /\ x.obs = cache[n].obs /\ \E t \in ConditionTypes : x.conditions[t] = "False"
    <3> DEFINE t == "NetworkOperatorPatched"
               x == Complaint(cache[n], t)
    <3>1. t \in ConditionTypes
      BY DEF ConditionTypes
    <3>2. /\ x \in Objects /\ SameRest(x, cache[n]) /\ x.phase = "Degraded"
          /\ x.obs = cache[n].obs /\ x.conditions[t] = "False"
      BY <2>1, <3>1, ComplaintObject
    <3> HIDE DEF x
    <3> QED BY <3>1, <3>2 DEF x
  <2>4. LET x == Configuring(cache[n]) IN
        /\ x \in Objects /\ x.spec = cache[n].spec /\ x.gen = cache[n].gen
        /\ x.del = cache[n].del /\ x.phase = "Configuring" /\ x.obs = x.gen
    <3> DEFINE x == Configuring(cache[n])
    <3>1. /\ x \in Objects /\ x.spec = cache[n].spec /\ x.gen = cache[n].gen
          /\ x.del = cache[n].del /\ x.phase = "Configuring" /\ x.obs = cache[n].gen
      BY <2>1, ControllerObjects
    <3> HIDE DEF x
    <3> QED BY <3>1 DEF x
  <2> HIDE DEF Complaint, Configuring
  <2> QED BY <1>1, <2>1, <2>2, <2>3, <2>4 DEF Begun, SameRest
<1> QED BY <1>2, <1>3

(* However a reconcile ends without a write, and however it complains. *)
LEMMA EndKinds ==
  ASSUME TypeOK, pc # "idle", UNCHANGED <<configs, watch, cache>>
  PROVE  /\ ReturnError /\ UNCHANGED <<frrs, frrEvent>> => Returned
         /\ \A t \in ConditionTypes : SetDegraded(mine, t) =>
               Complains /\ UNCHANGED <<queue, delayed, key, fresh, step, doomed>>
<1>1. ReturnError /\ UNCHANGED <<frrs, frrEvent>> => Returned
  BY DEF ReturnError, Returned
<1>2. ASSUME NEW t \in ConditionTypes, SetDegraded(mine, t)
      PROVE  Complains /\ UNCHANGED <<queue, delayed, key, fresh, step, doomed>>
  <2>1. /\ pc' = "writeStatus" /\ mine' = Complaint(mine, t)
        /\ UNCHANGED <<queue, delayed, key, fresh, step, doomed>>
    BY <1>2 DEF SetDegraded, GotoWith, Complaint, requeues
  <2>2. mine \in Objects
    BY Busy
  <2>3. LET x == Complaint(mine, t) IN
        /\ x \in Objects /\ SameRest(x, mine) /\ x.phase = "Degraded"
        /\ x.obs = mine.obs /\ x.conditions[t] = "False"
    BY <2>2, ComplaintObject
  <2> QED BY <2>1, <2>3 DEF Complains, Kept
<1> QED BY <1>1, <1>2

(* The three calls that update the config itself. *)
LEMMA UpdateKinds ==
  ASSUME TypeOK, FreshCopy, NEW ok \in BOOLEAN
  PROVE  /\ AddFinalizer(ok) => Bound
         /\ WriteStatus(ok) => Reported
         /\ RemoveFinalizer(ok) => Released
<1>1. ASSUME AddFinalizer(ok)
      PROVE  Bound
  <2>1. /\ pc = "addFinalizer" /\ fresh /\ Put(key, [configs[key] EXCEPT !.fin = TRUE])
        /\ UNCHANGED <<frrs, cache, frrEvent>>
        /\ IF ok THEN GotoWith("patchNetwork", Configuring(mine)) ELSE ReturnError
    BY <1>1 DEF AddFinalizer
  <2>2. key \in Names /\ mine \in Objects /\ configs[key] \in Objects
    BY <2>1, Busy, Present DEF FreshCopy, Exists
  <2>3. \E obj \in Objects :
          /\ Put(key, obj) /\ obj.fin /\ SameStatus(obj, configs[key])
          /\ obj.spec = configs[key].spec /\ obj.gen = configs[key].gen
          /\ obj.del = configs[key].del
    BY <2>1, <2>2, ControllerObjects
  <2>4. CASE ok
    <3>1. pc' = "patchNetwork" /\ mine' = Configuring(mine)
          /\ UNCHANGED <<key, fresh, step, doomed, queue, delayed>>
      BY <2>1, <2>4 DEF GotoWith, requeues
    <3>2. /\ mine' \in Objects /\ mine'.spec = mine.spec /\ mine'.gen = mine.gen
          /\ mine'.del = mine.del /\ mine'.phase = "Configuring" /\ mine'.obs = mine.gen
      BY <2>2, <3>1, ControllerObjects
    <3> QED BY <2>1, <2>3, <3>1, <3>2 DEF Bound
  <2>5. CASE ~ok
    BY <2>1, <2>3, <2>5 DEF Bound, ReturnError
  <2> QED BY <2>4, <2>5
<1>2. ASSUME WriteStatus(ok)
      PROVE  Reported
  <2>1. /\ pc = "writeStatus" /\ fresh /\ UNCHANGED <<frrs, cache, frrEvent>>
        /\ IF WithStatus(configs[key], mine) = configs[key] THEN UNCHANGED <<configs, watch>>
           ELSE Put(key, WithStatus(configs[key], mine))
        /\ IF ok THEN ReturnRequeueAfter ELSE ReturnError
    BY <1>2 DEF WriteStatus, WithStatus
  <2>2. key \in Names /\ mine \in Objects /\ configs[key] \in Objects
    BY <2>1, Busy, Present DEF FreshCopy, Exists
  <2>3. /\ WithStatus(configs[key], mine) \in Objects
        /\ SameRest(WithStatus(configs[key], mine), configs[key])
        /\ SameStatus(WithStatus(configs[key], mine), mine)
    BY <2>2, ControllerObjects
  <2> HIDE DEF WithStatus
  <2> QED BY <2>1, <2>3 DEF Reported, ReturnRequeueAfter, ReturnError
<1>3. ASSUME RemoveFinalizer(ok)
      PROVE  Released
  BY <1>3 DEF RemoveFinalizer, Released, ReturnDone, ReturnError, requeues
<1> QED BY <1>1, <1>2, <1>3

(* Conflicts and failed calls end a reconcile, or Degraded is reported. *)
LEMMA FailureKinds ==
  ASSUME TypeOK, Conflict \/ CallFails
  PROVE  Returned \/ Moved
<1>1. /\ pc # "idle"
      /\ UNCHANGED <<configs, frrs, watch, cache, frrEvent>>
  BY DEF Conflict, CallFails, UpdateCalls, api, events
<1>2. {"NetworkOperatorPatched", "FRRNamespaceReady", "FRRConfigurationApplied"}
        \subseteq ConditionTypes
  BY DEF ConditionTypes
<1>3. CASE ReturnError
  BY <1>1, <1>3, EndKinds
<1>4. CASE /\ \/ pc \in {"patchNetwork", "checkFRR", "ensureFRR"}
              \/ pc \in {"listFRR", "deleteFRR"} /\ ~mine.del
           /\ \E t \in ConditionTypes : SetDegraded(mine, t)
  BY <1>1, <1>4, EndKinds DEF Moved, Fails
<1> QED BY <1>2, <1>3, <1>4 DEF Conflict, CallFails

(* Setting one condition is a step onward. *)
LEMMA GoingOn ==
  ASSUME TypeOK, pc # "idle", NEW q, NEW t \in ConditionTypes
  PROVE  /\ GotoWith(q, SetStatusCondition(mine, t, "True")) =>
               Onward(q, t) /\ mine'.found = mine.found
         /\ GotoWith("writeStatus", Finished(SetStatusCondition(mine, t, "True"))) =>
               Finishes(t)
         /\ GotoWith("writeStatus", SetStatusCondition(mine, t, "False")) =>
               pc' = "writeStatus" /\ Kept /\ mine'.phase = mine.phase
               /\ mine'.conditions[t] = "False"
<1> DEFINE yes == SetStatusCondition(mine, t, "True")
           no == SetStatusCondition(mine, t, "False")
<1>1. mine \in Objects
  BY Busy
<1>2. /\ yes \in Objects /\ SameRest(yes, mine) /\ yes.phase = mine.phase
      /\ yes.obs = mine.obs /\ yes.found = mine.found /\ Gains(yes, mine, t, "True")
  BY <1>1, ConditionObjects
<1>3. /\ no \in Objects /\ SameRest(no, mine) /\ no.phase = mine.phase
      /\ no.obs = mine.obs /\ Gains(no, mine, t, "False")
  BY <1>1, ConditionObjects
<1> HIDE DEF yes, no
<1>4. /\ Finished(yes) \in Objects /\ SameRest(Finished(yes), yes)
      /\ Finished(yes).phase = "Ready" /\ Finished(yes).obs = yes.obs
      /\ Finished(yes).conditions = yes.conditions /\ Finished(yes).found = yes.found
  BY <1>2, ControllerObjects
<1>5. GotoWith(q, yes) => Onward(q, t) /\ mine'.found = mine.found
  BY <1>2 DEF GotoWith, Onward, Kept
<1>6. GotoWith("writeStatus", Finished(yes)) => Finishes(t)
  <2>1. SameRest(Finished(yes), mine) /\ Gains(Finished(yes), mine, t, "True")
    BY <1>2, <1>4 DEF SameRest, Gains
  <2> QED BY <1>2, <1>4, <2>1 DEF GotoWith, Finishes, Kept
<1>7. GotoWith("writeStatus", no) =>
         pc' = "writeStatus" /\ Kept /\ mine'.phase = mine.phase /\ mine'.conditions[t] = "False"
  BY <1>3 DEF GotoWith, Kept, Gains
<1> QED BY <1>5, <1>6, <1>7 DEF yes, no

(* The calls before the FRRConfigurations. *)
LEMMA PreparingKinds ==
  ASSUME TypeOK, NEW ok \in BOOLEAN,
         PatchNetworkOperator(ok) \/ IsFRRReady(ok) \/ DiscoverEndpoints(ok)
  PROVE  Moved
<1>1. /\ pc \in {"patchNetwork", "checkFRR", "discover"} /\ pc # "idle"
      /\ UNCHANGED <<configs, frrs, watch, cache, frrEvent>>
  BY DEF PatchNetworkOperator, IsFRRReady, DiscoverEndpoints, api, events
<1>2. {"NetworkOperatorPatched", "FRRNamespaceReady", "AWSEndpointsDiscovered"} \subseteq ConditionTypes
  BY DEF ConditionTypes
<1>3. \A q, obj : GotoWith(q, obj) => UNCHANGED <<key, fresh, step, doomed, queue, delayed>>
  BY DEF GotoWith, requeues
<1>4. SUFFICES \/ Prepares /\ UNCHANGED <<key, fresh, step, doomed, queue, delayed>>
               \/ Fails /\ UNCHANGED <<key, fresh, step, doomed, queue, delayed>>
  BY <1>1 DEF Moved
<1>5. \A t \in ConditionTypes : SetDegraded(mine, t) =>
         Complains /\ UNCHANGED <<queue, delayed, key, fresh, step, doomed>>
  BY <1>1, EndKinds
<1>6. CASE PatchNetworkOperator(ok)
  <2>1. CASE ok
    BY <1>1, <1>2, <1>3, <1>6, <2>1, GoingOn DEF PatchNetworkOperator, Prepares
  <2>2. CASE ~ok
    BY <1>1, <1>2, <1>5, <1>6, <2>2 DEF PatchNetworkOperator, Fails
  <2> QED BY <2>1, <2>2
<1>7. CASE IsFRRReady(ok)
  <2>1. CASE ok
    <3>1. GotoWith(IF mine.spec.aws THEN "discover" ELSE "startFRR",
                   SetStatusCondition(mine, "FRRNamespaceReady", "True")) /\ pc = "checkFRR"
      BY <1>7, <2>1 DEF IsFRRReady
    <3> QED BY <1>1, <1>2, <1>3, <3>1, GoingOn DEF Prepares
  <2>2. CASE ~ok
    BY <1>1, <1>2, <1>3, <1>7, <2>2, GoingOn DEF IsFRRReady, Prepares
  <2> QED BY <2>1, <2>2
<1>8. CASE DiscoverEndpoints(ok)
  <2>1. CASE ok
    <3>1. GotoWith("startFRR", Discovered(mine)) /\ pc = "discover"
      BY <1>8, <2>1 DEF DiscoverEndpoints, Discovered
    <3>2. mine \in Objects /\ offered \subseteq Zones
      BY <1>1, Busy DEF TypeOK, ApiTypes
    <3>3. LET x == Discovered(mine) IN
          x \in Objects /\ SameRest(x, mine) /\ x.phase = mine.phase /\ x.obs = mine.obs
          /\ x.found # Absent /\ Gains(x, mine, "AWSEndpointsDiscovered", "True")
      BY <3>2, DiscoveredObject
    <3> HIDE DEF Discovered
    <3>4. Onward("startFRR", "AWSEndpointsDiscovered") /\ mine'.found # Absent
      BY <3>1, <3>3 DEF GotoWith, Onward, Kept
    <3> QED BY <1>3, <3>1, <3>4 DEF Prepares
  <2>2. CASE ~ok
    BY <1>1, <1>2, <1>5, <1>8, <2>2 DEF DiscoverEndpoints, Fails
  <2> QED BY <2>1, <2>2
<1> QED BY <1>6, <1>7, <1>8

(* The calls of a deletion before it deletes FRRConfigurations. *)
LEMMA DeletingKinds ==
  ASSUME TypeOK, CheckRoutings \/ \E o \in {"done", "failed", "skipped"} : Cleanup(o)
  PROVE  Returned \/ Moved
<1>1. pc # "idle" /\ UNCHANGED <<configs, frrs, watch, cache, frrEvent>>
  BY DEF CheckRoutings, Cleanup, api, events
<1>2. \A q : Goto(q) => Stay(q) /\ UNCHANGED <<key, fresh, step, doomed, queue, delayed>>
  BY DEF Goto, GotoWith, Stay, requeues
<1>3. CASE CheckRoutings
  <2>1. CASE routedCache
    BY <1>1, <1>3, <2>1 DEF CheckRoutings, ReturnRequeueAfter, Returned
  <2>2. CASE ~routedCache
    BY <1>1, <1>2, <1>3, <2>2 DEF CheckRoutings, Clears, Moved
  <2> QED BY <2>1, <2>2
<1>4. CASE \E o \in {"done", "failed", "skipped"} : Cleanup(o)
  <2>1. CASE ReturnError
    BY <1>1, <2>1, EndKinds
  <2>2. CASE Goto("listFRR") /\ pc = "cleanup"
    BY <1>1, <1>2, <2>2 DEF Clears, Moved
  <2> QED BY <1>4, <2>1, <2>2 DEF Cleanup
<1> QED BY <1>3, <1>4

(* The calls about FRRConfigurations and what follows them. *)
LEMMA BuildingKinds ==
  ASSUME TypeOK, NEW ok \in BOOLEAN,
         \/ StartFRR \/ EnsureSingleFRRConfiguration(ok) \/ ListFRR
         \/ (\E i \in Zones : DeleteFRR(i, ok)) \/ FRRDone \/ ReconcileNodes(ok)
  PROVE  Returned \/ Moved
<1>1. pc # "idle" /\ UNCHANGED <<configs, watch, cache>>
  BY DEF StartFRR, EnsureSingleFRRConfiguration, ListFRR, DeleteFRR, FRRDone, ReconcileNodes,
         api, events
<1>2. {"FRRConfigurationApplied", "AWSResourcesReconciled"} \subseteq ConditionTypes
  BY DEF ConditionTypes
<1>3. \A q, obj : GotoWith(q, obj) => UNCHANGED <<key, fresh, step, doomed, queue, delayed>>
  BY DEF GotoWith, requeues
<1>4. \A t \in ConditionTypes : SetDegraded(mine, t) =>
         Complains /\ UNCHANGED <<queue, delayed, key, fresh, step, doomed>>
  BY <1>1, EndKinds
<1>5. CASE StartFRR
  BY <1>1, <1>5 DEF StartFRR, Numbers, Stay, Moved, requeues, api, events
<1>6. CASE ListFRR
  BY <1>1, <1>6 DEF ListFRR, Lists, Stay, Moved, requeues, api, events
<1>7. CASE EnsureSingleFRRConfiguration(ok)
  <2>1. pc = "ensureFRR" /\ PutFRR(step, FRRFor(mine, step))
    BY <1>7 DEF EnsureSingleFRRConfiguration
  <2>2. CASE ok
    <3>1. /\ step' = step + 1 /\ pc' = IF step = FRRCount(mine) THEN "listFRR" ELSE pc
          /\ UNCHANGED <<key, mine, fresh, doomed, queue, delayed>>
      BY <1>7, <2>2 DEF EnsureSingleFRRConfiguration, requeues
    <3> QED BY <1>1, <2>1, <3>1 DEF Ensures, Stay, Moved
  <2>3. CASE ~ok
    BY <1>1, <1>2, <1>4, <1>7, <2>1, <2>3 DEF EnsureSingleFRRConfiguration, Fails, Moved
  <2> QED BY <2>2, <2>3
<1>8. ASSUME NEW i \in Zones, DeleteFRR(i, ok)
      PROVE  Returned \/ Moved
  <2>1. pc = "deleteFRR" /\ i \in doomed /\ PutFRR(i, Absent)
    BY <1>8 DEF DeleteFRR
  <2>2. CASE ok
    <3>1. doomed' = doomed \ {i} /\ UNCHANGED <<pc, key, mine, fresh, step, queue, delayed>>
      BY <1>8, <2>2 DEF DeleteFRR, requeues
    <3> QED BY <1>1, <2>1, <3>1 DEF Prunes, Stay, Moved
  <2>3. CASE ~ok /\ mine.del
    BY <1>1, <1>8, <2>1, <2>3 DEF DeleteFRR, ReturnError, Returned
  <2>4. CASE ~ok /\ ~mine.del
    BY <1>1, <1>2, <1>4, <1>8, <2>1, <2>4 DEF DeleteFRR, Fails, Moved
  <2> QED BY <2>2, <2>3, <2>4
<1>9. CASE FRRDone
  <2>1. /\ pc = "deleteFRR" /\ doomed = {} /\ UNCHANGED <<frrs, frrEvent>>
        /\ IF mine.del THEN Goto("removeFinalizer")
           ELSE IF mine.spec.aws
           THEN GotoWith("reconcileNodes", SetStatusCondition(mine, "FRRConfigurationApplied", "True"))
           ELSE GotoWith("writeStatus",
                    Finished(SetStatusCondition(mine, "FRRConfigurationApplied", "True")))
    BY <1>9 DEF FRRDone, api, events
  <2>2. CASE mine.del
    BY <1>1, <1>3, <2>1, <2>2 DEF Goto, GotoWith, Stay, Clears, Moved
  <2>3. CASE ~mine.del /\ mine.spec.aws
    BY <1>1, <1>2, <1>3, <2>1, <2>3, GoingOn DEF Concludes, Moved
  <2>4. CASE ~mine.del /\ ~mine.spec.aws
    BY <1>1, <1>2, <1>3, <2>1, <2>4, GoingOn DEF Concludes, Moved
  <2> QED BY <2>2, <2>3, <2>4
<1>10. CASE ReconcileNodes(ok)
  <2>1. pc = "reconcileNodes" /\ UNCHANGED <<frrs, frrEvent>>
    BY <1>10 DEF ReconcileNodes, api, events
  <2>2. CASE ok
    BY <1>1, <1>2, <1>3, <1>10, <2>1, <2>2, GoingOn DEF ReconcileNodes, Concludes, Moved
  <2>3. CASE ~ok
    BY <1>1, <1>2, <1>4, <1>10, <2>1, <2>3 DEF ReconcileNodes, Fails, Moved
  <2> QED BY <2>2, <2>3
<1> QED BY <1>5, <1>6, <1>7, <1>8, <1>9, <1>10

(* A step of any kind. *)
WorkerStep == Bound \/ Reported \/ Released \/ Moved \/ Returned

AnyStep ==
    \/ \E n \in Names, obj \in Objects \cup {Absent} : UserWrite(n, obj)
    \/ Aside \/ Drifted \/ Delivered \/ Heard \/ Restarted
    \/ \E n \in Names : Elapsed(n) \/ Begun(n)
    \/ WorkerStep

(* No step of the specification is of another kind. *)
LEMMA StepKinds ==
  ASSUME TypeOK, FreshCopy, Next
  PROVE  AnyStep
<1>1. ASSUME NEW ok \in BOOLEAN, Calls(ok)
      PROVE  WorkerStep
  <2>1. CASE \/ AddFinalizer(ok) \/ WriteStatus(ok) \/ RemoveFinalizer(ok)
    BY <2>1, UpdateKinds DEF WorkerStep
  <2>2. CASE PatchNetworkOperator(ok) \/ IsFRRReady(ok) \/ DiscoverEndpoints(ok)
    BY <2>2, PreparingKinds DEF WorkerStep
  <2>3. CASE \/ StartFRR \/ EnsureSingleFRRConfiguration(ok) \/ ListFRR
             \/ (\E i \in Zones : DeleteFRR(i, ok)) \/ FRRDone \/ ReconcileNodes(ok)
    BY <2>3, BuildingKinds DEF WorkerStep
  <2>4. CASE CheckRoutings \/ \E o \in {"done", "failed", "skipped"} : Cleanup(o)
    BY <2>4, DeletingKinds DEF WorkerStep
  <2>5. CASE Conflict
    BY <2>5, FailureKinds DEF WorkerStep
  <2>6. Cleanup(IF ok THEN "done" ELSE "failed")
           => \E o \in {"done", "failed", "skipped"} : Cleanup(o)
    OBVIOUS
  <2> QED BY <1>1, <2>1, <2>2, <2>3, <2>4, <2>5, <2>6 DEF Calls
<1>2. CASE ConfigUsers
  <2>1. CASE \E n \in Names, spec \in Specs : CreateConfig(n, spec) \/ EditConfig(n, spec)
    BY <2>1, UserKinds DEF AnyStep
  <2>2. CASE \E n \in Names : DeleteConfig(n)
    <3>1. PICK spec : spec \in Specs
      <4>1. [aws |-> TRUE, zones |-> {}] \in Specs
        BY DEF Specs
      <4> QED BY <4>1
    <3> QED BY <2>2, <3>1, UserKinds DEF AnyStep
  <2>3. CASE \E zones \in SUBSET Zones : ChangeEndpoints(zones)
    BY <2>3, OutsideKinds DEF AnyStep
  <2> QED BY <1>2, <2>1, <2>2, <2>3 DEF ConfigUsers
<1>3. CASE ConfigWatches
  BY <1>3, OutsideKinds DEF ConfigWatches, AnyStep
<1>4. CASE ConfigFailures
  <2>1. CASE Cleanup("skipped")
    BY <2>1, DeletingKinds DEF AnyStep, WorkerStep
  <2>2. CASE CallFails
    BY <2>2, FailureKinds DEF AnyStep, WorkerStep
  <2>3. CASE (\E i \in Zones, f \in {Absent, Foreign} : DriftFRR(i, f)) \/ DeliverNode
    BY <2>3, OutsideKinds DEF AnyStep
  <2>4. CASE Calls(FALSE)
    BY <1>1, <2>4 DEF AnyStep
  <2> QED BY <1>4, <2>1, <2>2, <2>3, <2>4 DEF ConfigFailures
<1>5. CASE RoutingsChange \/ Restart
  BY <1>5, OutsideKinds DEF RoutingsChange, AnyStep
<1>6. CASE \E n \in Names : Reconcile(n)
  BY <1>6, ReconcileKinds DEF AnyStep
<1>7. CASE Calls(TRUE)
  BY <1>1, <1>7 DEF AnyStep
<1> QED BY <1>2, <1>3, <1>4, <1>5, <1>6, <1>7 DEF Next
=============================================================================
