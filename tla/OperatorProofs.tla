--------------------------- MODULE OperatorProofs ---------------------------
(***************************************************************************)
(* What is proved of the CUDNBgpRouting controller alone holds in the      *)
(* manager that runs both controllers, where the config it depends on is   *)
(* created, deleted and fails, and restarts hit both.                      *)
(***************************************************************************)
EXTENDS RoutingClaimsProofs, Operator

USE Zenon

(* A step of both controllers is, for the variables of the first, a step   *)
(* of its own, a check of a config that need not be Ready, or none.        *)
LEMMA OperatorSteps ==
  ASSUME TypeOK, [OperatorNext]_operatorVars
  PROVE  Step
<1>1. ASSUME NEW ok \in BOOLEAN, RoutingCalls(ok) PROVE Step
  <2>1. CASE Calls(ok)
    BY <2>1 DEF Step, Next
  <2>2. CASE NoFault /\ ConfigSeen(cachedReady)
    <3>1. ConfigSeen(TRUE) \/ ConfigSeen(FALSE)
      BY <2>2, SMT DEF ConfigSeen
    <3> QED BY <2>2, <3>1 DEF Step
  <2> QED BY <1>1, <2>1, <2>2 DEF RoutingCalls
<1>2. CASE RoutingStep
  BY <1>1, <1>2 DEF RoutingStep, Step, Next
<1>3. CASE ConfigStep
  <2>1. UserActs \/ Fault \/ NoFault
    BY <1>3 DEF ConfigStep, ConfigUsers, ConfigFails, ConfigOutdated, ConfigGoesOn
  <2>2. edits' \in 0..MaxEdits /\ faults' \in 0..MaxFaults
    BY <2>1, BudgetTypes
  <2> QED BY <1>3, <2>2 DEF ConfigStep, Elsewhere, Step
<1>4. CASE RestartBoth
  BY <1>4 DEF RestartBoth, Step, Next
<1>5. CASE UNCHANGED operatorVars
  BY <1>5 DEF operatorVars, Step
<1> QED BY <1>2, <1>3, <1>4, <1>5 DEF OperatorNext

(* The inductive invariant of the CUDNBgpRouting controller is one of both *)
(* controllers.                                                            *)
THEOREM OperatorInductive == OperatorSpec => []IInv
<1>1. OperatorInit => IInv
  BY InitIInv DEF OperatorInit
<1>2. IInv /\ [OperatorNext]_operatorVars => IInv'
  <2> SUFFICES ASSUME IInv, [OperatorNext]_operatorVars PROVE IInv'
    OBVIOUS
  <2>1. TypeOK
    BY DEF IInv
  <2> QED BY <2>1, OperatorSteps, IInvStep
<1> QED BY <1>1, <1>2, PTL DEF OperatorSpec

(* A config that comes, goes and fails makes no two routings Ready on one  *)
(* network: one that waits in Pending has passed its duplicate check, and  *)
(* is checked again before it is built.                                    *)
THEOREM OperatorNetworkExclusive == OperatorSpec => []NetworkExclusive
<1>1. IInv => NetworkExclusive
  BY DEF IInv
<1> QED BY <1>1, OperatorInductive, PTL

(* Nor is the RouteAdvertisements deleted under a Ready routing. *)
THEOREM OperatorRAKept == OperatorSpec => []RAKept
<1>1. IInv => RAKept
  BY DEF IInv
<1> QED BY <1>1, OperatorInductive, PTL

(* A routing that waits for the config, which no watch tells it of, is     *)
(* never without the timer or the retry that ends the wait.                *)
THEOREM OperatorNeverForgets == OperatorSpec => []NeverForgotten
<1>1. IInv => NeverForgotten
  BY DEF IInv
<1> QED BY <1>1, OperatorInductive, PTL

(* The conditions of a routing agree with its phase, however often it goes *)
(* from Ready to Pending and back with the config.                         *)
THEOREM OperatorStatusCoherent == OperatorSpec => []StatusCoherent
<1>1. IInv => StatusCoherent
  BY DEF IInv
<1> QED BY <1>1, OperatorInductive, PTL

(* Drift of the RouteAdvertisements reaches every Ready routing. *)
THEOREM OperatorRADriftNoticed == OperatorSpec => []RADriftNoticed
<1>1. IInv => RADriftNoticed
  BY DEF IInv
<1> QED BY <1>1, OperatorInductive, PTL

(* A CUDN has its routing behind it, held by the finalizer, although the   *)
(* routing goes back to Pending with the config and may be deleted while   *)
(* there is none.  As for the controller alone, no routing is renamed.     *)
THEOREM OperatorNoOrphanCUDN ==
  ASSUME NoRename PROVE OperatorSpec => []NoOrphanCUDN
<1>1. OperatorInit => FinalizerInv
  BY InitFinalizer DEF OperatorInit
<1>2. IInv /\ FinalizerInv /\ [OperatorNext]_operatorVars => FinalizerInv'
  <2> SUFFICES ASSUME IInv, FinalizerInv, [OperatorNext]_operatorVars PROVE FinalizerInv'
    OBVIOUS
  <2>1. TypeOK
    BY DEF IInv
  <2> QED BY <2>1, OperatorSteps, FinalizerStep
<1>3. FinalizerInv => NoOrphanCUDN
  BY DEF FinalizerInv
<1> QED BY <1>1, <1>2, <1>3, OperatorInductive, PTL DEF OperatorSpec

(* Drift of a CUDN reaches the Ready routing it was written for, when no   *)
(* network is claimed twice.                                               *)
THEOREM OperatorCUDNDriftNoticed ==
  ASSUME Disjoint PROVE OperatorSpec => []CUDNDriftNoticed
<1>1. OperatorInit => DriftInv
  BY InitDrift DEF OperatorInit
<1>2. IInv /\ DriftInv /\ [OperatorNext]_operatorVars => DriftInv'
  <2> SUFFICES ASSUME IInv, DriftInv, [OperatorNext]_operatorVars PROVE DriftInv'
    OBVIOUS
  <2>1. TypeOK
    BY DEF IInv
  <2> QED BY <2>1, OperatorSteps, DriftStep
<1>3. DriftInv => CUDNDriftNoticed
  BY DEF DriftInv
<1> QED BY <1>1, <1>2, <1>3, OperatorInductive, PTL DEF OperatorSpec

(* Both controllers together keep the promise of the CUDNBgpConfig         *)
(* controller, which sees the routings in the cache they share.            *)
THEOREM OperatorKeepsLifecycle == OperatorSpec => Config!Spec
<1>1. OperatorInit => Config!Init
  BY DEF OperatorInit
<1>2. [OperatorNext]_operatorVars => [Config!Next]_(Config!vars)
  <2> SUFFICES ASSUME [OperatorNext]_operatorVars
               PROVE  Config!Next \/ UNCHANGED Config!vars
    OBVIOUS
  <2>1. CASE RoutingStep \/ UNCHANGED operatorVars
    BY <2>1 DEF RoutingStep, operatorVars, configVars, Config!vars
  <2>2. CASE ConfigStep
    BY <2>2 DEF ConfigStep, ConfigUsers, ConfigFails, ConfigOutdated, ConfigGoesOn, ConfigBuilds,
                ConfigTearsDown, Config!Next
  <2>3. CASE RestartBoth
    BY <2>3 DEF RestartBoth, Config!Next
  <2> QED BY <2>1, <2>2, <2>3 DEF OperatorNext
<1> QED BY <1>1, <1>2, PTL DEF OperatorSpec, Config!Spec
=============================================================================
