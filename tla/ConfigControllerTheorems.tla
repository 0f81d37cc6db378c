---------------------- MODULE ConfigControllerTheorems ----------------------
(***************************************************************************)
(* What ConfigController guarantees for every set of names, every number   *)
(* of zones and every bound.                                               *)
(***************************************************************************)
EXTENDS ConfigControllerProofs, FiniteSetTheorems, WellFoundedInduction

(* Leaves go to Zenon, and to SMT where they say so. *)
USE Zenon

-----------------------------------------------------------------------------
(***************************************************************************)
(* The numbering: the i-th FRRConfiguration has a zone to be for.          *)
(***************************************************************************)

(* Sets of numbers have least elements: the induction of the next lemma. *)
LEMMA Least ==
  ASSUME NEW T, T \subseteq Nat, T # {}
  PROVE  \E m \in T : \A k \in T : m <= k
<1>1. PICK m \in T : \A k \in T : ~(<<k, m>> \in OpToRel(<, Nat))
  BY WFMin, NatLessThanWellFounded
<1>2. ASSUME NEW k \in T, k < m
      PROVE  FALSE
  <2>1. <<k, m>> \in Nat \X Nat /\ <<k, m>>[1] = k /\ <<k, m>>[2] = m
    BY SMT
  <2>2. <<k, m>> \in OpToRel(<, Nat)
    BY <1>2, <2>1 DEF OpToRel
  <2> QED BY <1>1, <2>2
<1> QED BY <1>2, SMT

(* A set of zones has a first, a second, ... and a last one. *)
LEMMA Ranked ==
  ASSUME NEW S, S \subseteq Zones, NEW i \in 1..Cardinality(S)
  PROVE  \E z \in S : Cardinality({y \in S : y <= z}) = i
<1> DEFINE UpTo(z) == {y \in S : y <= z}
           Missing == {k \in 1..Cardinality(S) : \A z \in S : Cardinality(UpTo(z)) # k}
<1>1. IsFiniteSet(S) /\ Cardinality(S) \in Nat /\ S \subseteq Nat
  <2>1. IsFiniteSet(Zones) /\ Zones \subseteq Nat
    BY FS_Interval, ConstantsAssumption, SMT DEF Zones
  <2>2. IsFiniteSet(S)
    BY <2>1, FS_Subset
  <2> QED BY <2>1, <2>2, FS_CardinalityType
<1>2. \A z \in S : IsFiniteSet(UpTo(z))
  BY <1>1, FS_Subset
<1> HIDE DEF UpTo
<1>3. SUFFICES ASSUME Missing # {} PROVE FALSE
  BY DEF UpTo
<1>4. PICK m \in Missing : \A k \in Missing : m <= k
  <2>1. Missing \subseteq Nat
    BY <1>1, SMT
  <2> QED BY <1>3, <2>1, Least
<1>5. m \in 1..Cardinality(S) /\ \A z \in S : Cardinality(UpTo(z)) # m
  BY <1>4
<1>6. ASSUME NEW P, P \subseteq S, IsFiniteSet(P), Cardinality(P) = m - 1,
             \A x \in P, y \in S \ P : x < y
      PROVE  FALSE
  <2>1. S \ P # {}
    <3>1. SUFFICES ASSUME S = P PROVE FALSE
      BY <1>6
    <3> QED BY <3>1, <1>1, <1>5, <1>6, SMT
  <2>2. PICK z \in S \ P : \A y \in S \ P : z <= y
    BY <2>1, <1>1, Least
  <2>3. UpTo(z) = P \cup {z}
    <3>1. \A y \in P : y <= z
      BY <2>2, <1>1, <1>6, SMT
    <3>2. \A y \in S \ P : y <= z <=> y = z
      BY <2>2, <1>1, SMT
    <3> QED BY <2>2, <3>1, <3>2, <1>6 DEF UpTo
  <2>4. Cardinality(UpTo(z)) = Cardinality(P) + 1
    BY <2>2, <2>3, <1>6, FS_AddElement
  <2> QED BY <2>2, <2>4, <1>5, <1>6, <1>1, SMT
<1>7. CASE m = 1
  <2>1. IsFiniteSet({}) /\ Cardinality({}) = m - 1
    BY <1>7, FS_EmptySet, SMT
  <2> QED BY <1>6, <2>1
<1>8. CASE m # 1
  <2>1. m - 1 \in 1..Cardinality(S) /\ ~(m <= m - 1)
    BY <1>5, <1>8, <1>1, SMT
  <2>2. PICK z \in S : Cardinality(UpTo(z)) = m - 1
    BY <2>1, <1>4
  <2>3. \A x \in UpTo(z), y \in S \ UpTo(z) : x < y
    BY <1>1, <2>2, SMT DEF UpTo
  <2>4. UpTo(z) \subseteq S
    BY DEF UpTo
  <2> QED BY <1>2, <1>6, <2>2, <2>3, <2>4
<1> QED BY <1>7, <1>8

(* An object whose zones are known has as many FRRConfigurations as zones, *)
(* at most one for each zone there is, and each of them is the operator's. *)
LEMMA FRRTypes ==
  ASSUME NEW obj \in Objects, obj.spec.aws => obj.found # Absent
  PROVE  /\ FRRCount(obj) \in 0..ZoneCount
         /\ \A i \in 1..FRRCount(obj) : i \in Zones /\ Managed(FRRFor(obj, i))
<1>1. FRRZones(obj) \subseteq Zones /\ obj.gen \in 1..MaxGeneration
  <2>1. /\ obj.spec \in Specs /\ obj.found \in (SUBSET Zones) \cup {Absent}
        /\ obj.gen \in 1..MaxGeneration
    BY DEF Objects, Findings
  <2>2. CASE obj.spec \in [aws : {TRUE}, zones : {{}}]
    <3>1. obj.spec.aws = TRUE
      BY <2>2
    <3> QED BY <2>1, <3>1 DEF FRRZones
  <2>3. CASE obj.spec \in [aws : {FALSE}, zones : ZoneLists]
    <3>1. obj.spec.zones \in ZoneLists /\ obj.spec.aws = FALSE
      BY <2>3
    <3>2. ZoneLists \subseteq SUBSET Zones
      BY ConstantsAssumption
    <3> QED BY <2>1, <3>1, <3>2 DEF FRRZones
  <2> QED BY <2>1, <2>2, <2>3 DEF Specs
<1>2. FRRCount(obj) \in 0..ZoneCount
  <2>1. IsFiniteSet(Zones) /\ Cardinality(Zones) = ZoneCount
    BY FS_Interval, ConstantsAssumption, SMT DEF Zones
  <2>2. Cardinality(FRRZones(obj)) \in Nat /\ Cardinality(FRRZones(obj)) <= ZoneCount
    BY <1>1, <2>1, FS_Subset, FS_CardinalityType
  <2> QED BY <2>2, ConstantsAssumption, SMT DEF FRRCount
<1>3. ASSUME NEW i \in 1..FRRCount(obj)
      PROVE  i \in Zones /\ Managed(FRRFor(obj, i))
  <2>1. i \in Zones
    BY <1>2, ConstantsAssumption, SMT DEF Zones
  <2>2. \E z \in FRRZones(obj) : Cardinality({y \in FRRZones(obj) : y <= z}) = i
    BY <1>1, Ranked DEF FRRCount
  <2>3. (CHOOSE z \in FRRZones(obj) : Cardinality({y \in FRRZones(obj) : y <= z}) = i)
            \in Zones
    BY <1>1, <2>2
  <2> QED BY <1>1, <2>1, <2>3, SMT DEF FRRFor, Managed, ManagedFRRs
<1> QED BY <1>2, <1>3

(* So the numbering is as the proofs need it. *)
LEMMA NumberingHolds == Numbering
BY FRRTypes DEF Numbering

-----------------------------------------------------------------------------
(***************************************************************************)
(* The inductive invariant.                                                *)
(***************************************************************************)

(* It holds before anything happens. *)
LEMMA InvInit ==
  ASSUME Init
  PROVE  IInv
<1>1. Len(watch) = 0 /\ 1..0 = {} /\ watch \in Seq(Entries) /\ 0 <= MaxLag
  BY ConstantsAssumption, SMT DEF Init
<1>2. \A n \in Names : /\ configs[n] = Absent /\ cache[n] = Absent
                        /\ Versions(n) = {Absent} /\ ~Pending(n)
  BY <1>1 DEF Init, Versions, Pending
<1>3. pc = "idle" /\ key = Absent /\ mine = Absent /\ fresh = FALSE
  BY DEF Init
<1>4. \A i \in Zones : ~Managed(frrs[i])
  BY AbsentAssumption DEF Init, Managed
<1>5. TypeOK
  <2>1. /\ 0 \in 0..ZoneCount + 1 /\ 0 \in 0..MaxEdits /\ 0 \in 0..MaxFaults
    BY ConstantsAssumption, SMT
  <2>2. ApiTypes /\ RequeueTypes /\ WorkerTypes
    BY <1>3, <2>1 DEF Init, ApiTypes, RequeueTypes, WorkerTypes
  <2>3. EventTypes
    BY <1>1 DEF Init, EventTypes, Entries
  <2> QED BY <2>1, <2>2, <2>3 DEF Init, TypeOK
<1>6. CacheFollows /\ OneChange
  BY <1>1, <1>2, ConstantsAssumption DEF CacheFollows, OneChange
<1>7. FreshCopy /\ NewsComing
  BY <1>3 DEF FreshCopy, NewsComing
<1>8. Stages /\ CleanedUp /\ WorkNoticed
  BY <1>3 DEF Stages, Building, Deleting, CleanedUp, WorkNoticed
<1>9. HeldBehind
  <2>1. SingletonName \in Names
    BY ConstantsAssumption
  <2>2. Versions(SingletonName) = {Absent}
    BY <1>2, <2>1
  <2>3. \A n \in Names : ~Ready(n)
    BY <1>2 DEF Ready, Exists
  <2> QED BY <1>3, <2>2, <2>3 DEF HeldBehind, Building
<1>10. NeverForgotten /\ StatusCoherent /\ FRRDriftNoticed /\ Observed
  BY <1>2 DEF NeverForgotten, StatusCoherent, FRRDriftNoticed, Observed, Ready, Exists
<1>11. StatusStages
  BY <1>2, <1>3 DEF StatusStages, Building, Exists
<1>12. NoOrphanFRR
  BY <1>4 DEF NoOrphanFRR
<1> QED BY <1>5, <1>6, <1>7, <1>8, <1>9, <1>10, <1>11, <1>12 DEF IInv

(* Every step of any kind keeps it, if it keeps the types. *)
LEMMA InvKinds ==
  ASSUME IInv, AnyStep, TypeOK'
  PROVE  IInv'
<1>1. /\ TypeOK /\ CacheFollows /\ FreshCopy /\ NewsComing /\ Stages /\ HeldBehind
      /\ CleanedUp /\ WorkNoticed /\ Observed /\ StatusStages /\ OneChange
      /\ NeverForgotten /\ StatusCoherent /\ FRRDriftNoticed /\ NoOrphanFRR
  BY DEF IInv
<1>2. Numbering
  BY NumberingHolds
<1>3. Stages' /\ StatusStages'
  BY <1>1, <1>2, StagesStep, StatusStagesStep
<1>4. CacheFollows' /\ FreshCopy' /\ NewsComing' /\ OneChange'
  BY <1>1, CacheFollowsStep, FreshCopyStep, NewsComingStep, OneChangeStep
<1>5. HeldBehind'
  BY <1>1, HeldBehindStep
<1>6. CleanedUp' /\ NoOrphanFRR'
  BY <1>1, <1>2, CleanedUpStep, NoOrphanFRRStep
<1>7. WorkNoticed' /\ Observed' /\ FRRDriftNoticed'
  BY <1>1, <1>2, <1>5, WorkNoticedStep, ObservedStep, FRRDriftNoticedStep
<1>8. NeverForgotten' /\ StatusCoherent'
  BY <1>1, NeverForgottenStep, StatusCoherentStep
<1> QED BY <1>3, <1>4, <1>5, <1>6, <1>7, <1>8 DEF IInv

(* A step is of some kind, or changes nothing as if it were aside. *)
LEMMA Progress ==
  ASSUME IInv, [Next]_vars
  PROVE  AnyStep /\ TypeOK'
<1>1. TypeOK /\ CacheFollows /\ FreshCopy /\ Stages /\ StatusStages
  BY DEF IInv
<1>2. CASE Next
  <2>1. AnyStep
    BY <1>1, <1>2, StepKinds
  <2> QED BY <1>1, <1>2, <2>1, NumberingHolds, TypeStep
<1>3. CASE UNCHANGED vars
  <2>1. Aside
    BY <1>1, <1>3 DEF vars, api, events, requeues, worker, Aside, TypeOK, RequeueTypes
  <2>2. TypeOK'
    <3>1. ApiTypes' /\ EventTypes'
      BY <1>1, <1>3 DEF vars, api, events, TypeOK, ApiTypes, EventTypes
    <3>2. RequeueTypes' /\ WorkerTypes'
      BY <1>1, <1>3 DEF vars, requeues, worker, TypeOK, RequeueTypes, WorkerTypes
    <3> QED BY <1>1, <1>3, <3>1, <3>2 DEF vars, TypeOK
  <2> QED BY <2>1, <2>2 DEF AnyStep
<1> QED BY <1>2, <1>3

(* What errors, lost answers, conflicts, stale copies, edits, deletions,   *)
(* drift and restarts leave true, in any order.                            *)
THEOREM Inductive == Spec => []IInv
<1>1. Init => IInv
  BY InvInit
<1>2. IInv /\ [Next]_vars => IInv'
  BY Progress, InvKinds
<1> QED BY <1>1, <1>2, PTL DEF Spec

(* The variables of the controller and of the API server keep their types. *)
THEOREM TypesOK == Spec => []TypeOK
<1>1. IInv => TypeOK
  BY DEF IInv
<1> QED BY <1>1, Inductive, PTL

(* However a reconcile ends, its object is reconciled again: every exit of *)
(* Reconcile requeues it, or an event of it is still to be delivered.      *)
THEOREM NeverForgottenAlways == Spec => []NeverForgotten
<1>1. IInv => NeverForgotten
  BY DEF IInv
<1> QED BY <1>1, Inductive, PTL

(* The status that updateStatus writes agrees with itself: a phase has the *)
(* conditions that its meaning asks for, whatever conditions earlier       *)
(* reconciles left there.                                                  *)
THEOREM StatusCoherentAlways == Spec => []StatusCoherent
<1>1. IInv => StatusCoherent
  BY DEF IInv
<1> QED BY <1>1, Inductive, PTL

(* FRRConfigurations that differ from what a Ready config asks for are     *)
(* noticed without waiting for the periodic requeue.                       *)
THEOREM FRRDriftNoticedAlways == Spec => []FRRDriftNoticed
<1>1. IInv => FRRDriftNoticed
  BY DEF IInv
<1> QED BY <1>1, Inductive, PTL

(* No FRRConfiguration of the operator outlives the finalizer of its       *)
(* config.                                                                 *)
THEOREM NoOrphanFRRAlways == Spec => []NoOrphanFRR
<1>1. IInv => NoOrphanFRR
  BY DEF IInv
<1> QED BY <1>1, Inductive, PTL

(* The controller implements ConfigLifecycle, on which the controller of   *)
(* CUDNBgpRouting and the composition of the two rely.                     *)
THEOREM LifecycleKept == Spec => KeepsLifecycle
<1>1. Init => Lifecycle!Init
  <2> SUFFICES ASSUME Init PROVE Lifecycle!Init
    OBVIOUS
  <2>1. configs[SingletonName] = Absent /\ cache[SingletonName] = Absent /\ pc = "idle"
    BY ConstantsAssumption DEF Init
  <2>2. ~\E i \in Zones : Managed(frrs[i])
    BY AbsentAssumption DEF Init, Managed
  <2> QED BY <2>1, <2>2 DEF Lifecycle!Init, Stage, Ready, Exists
<1>2. IInv /\ [Next]_vars => [Lifecycle!Next]_(Lifecycle!vars)
  <2> SUFFICES ASSUME IInv, [Next]_vars PROVE Lifecycle!Next
    OBVIOUS
  <2>1. AnyStep
    BY Progress
  <2> QED BY <2>1, NumberingHolds, LifecycleStep DEF IInv
<1> QED BY <1>1, <1>2, Inductive, PTL DEF Spec, KeepsLifecycle, Lifecycle!Spec
=============================================================================
