------------------------ MODULE PrestoOperator_proofs ------------------------
(***************************************************************************)
(* Theorems about PrestoOperator, for every number of managers, every set  *)
(* of worker counts, every choice of disturbances and every bound.         *)
(***************************************************************************)
EXTENDS PrestoOperator, TLAPS

USE ResourcesAssumption, OperatorAssumption

-----------------------------------------------------------------------------
(***************************************************************************)
(* Lemmas about the helpers                                                *)
(***************************************************************************)
\* Both orders name a resource at each of their five positions.
LEMMA OrdersNameResources ==
    \A k \in 1..5 : ReconcileOrder[k] \in Resources
                    /\ InspectOrder[k] \in Resources
BY DEF ReconcileOrder, InspectOrder, Resources

\* A walk along an order moves forward, to a position or to Done.
LEMMA NextStepsType ==
    ASSUME NEW order, NEW k \in 0..5, NEW n \in NextSteps(order, k)
    PROVE  /\ n \in 1..6
           /\ n > k
           /\ n < Done => n \in 1..5
BY DEF NextSteps, Done

\* An instance has at least one child, so both walks have a first position.
LEMMA FirstStepType ==
    ASSUME NEW order \in {InspectOrder, ReconcileOrder},
           NEW n \in NextSteps(order, 0)
    PROVE  n \in 1..5
<1>1. n \in 1..6
  BY NextStepsType
<1>2. ASSUME n = 6 PROVE FALSE
  <2>1. \A i \in 1..5 : order[i] \notin Children
    BY <1>2 DEF NextSteps
  <2>2. \A r \in Resources : \E i \in 1..5 : order[i] = r
    <3>1. CASE order = InspectOrder
      BY <3>1 DEF InspectOrder, Resources
    <3>2. CASE order = ReconcileOrder
      BY <3>2 DEF ReconcileOrder, Resources
    <3> QED BY <3>1, <3>2
  <2> QED BY <2>1, <2>2 DEF ResourcesAssumption
<1> QED BY <1>1, <1>2

\* What a CR asks for is a child if the API accepts its content.
LEMMA DesiredType ==
    ASSUME NEW cr \in Cluster, NEW r \in Resources
    PROVE  /\ Desired(cr, r) = [owner     |-> cr.uid,
                                config    |-> DesiredConfig(cr, r),
                                replicas  |-> DesiredReplicas(cr, r),
                                available |-> 0]
           /\ DesiredReplicas(cr, r) \in Int \cup {Absent}
           /\ Desired(cr, r) /= Absent
           /\ Valid(r, Desired(cr, r)) => Desired(cr, r) \in Child
<1>1. cr /= Absent /\ cr.workers \in Int \cup {Absent}
      /\ cr.uid \in Nat \ {0} /\ cr.config \in Configs \cup {NoConfig}
  BY DEF Cluster, OperatorAssumption
<1>2. DesiredReplicas(cr, r) \in Int \cup {Absent}
  BY <1>1 DEF DesiredReplicas
<1>3. DesiredConfig(cr, r) \in Configs \cup {NoConfig}
  BY <1>1 DEF DesiredConfig
<1>4. Desired(cr, r) = [owner     |-> cr.uid,
                        config    |-> DesiredConfig(cr, r),
                        replicas  |-> DesiredReplicas(cr, r),
                        available |-> 0]
  BY <1>1 DEF Desired, OwnerReference
<1>5. Desired(cr, r) \in Objects
  BY <1>1, <1>2, <1>3, <1>4 DEF Objects
<1>6. Desired(cr, r) /= Absent
  BY <1>5 DEF ResourcesAssumption
<1>7. Valid(r, Desired(cr, r)) => Desired(cr, r) \in Child
  BY <1>1, <1>3, <1>4 DEF Child, Valid
<1> QED BY <1>2, <1>4, <1>6, <1>7

\* A cached child is well typed.
LEMMA ViewType ==
    ASSUME NEW obj \in Child \cup {Absent}
    PROVE  View(obj) \in Seen \cup {Absent}
BY DEF View, Child, Seen

\* Leaving a pass keeps the types of everything a pass keeps.
LEMMA PassReturnsType ==
    ASSUME TypeOK, NEW m \in Managers, ReturnFromPass(m)
    PROVE  /\ pc' \in [Managers -> PassStages]
           /\ step' \in [Managers -> 1..5]
           /\ inspectedCluster' \in [Managers -> Cluster \cup {Absent}]
           /\ inspectedChild' \in [Managers -> [Resources -> Nat \cup {Absent}]]
           /\ newAvailable' \in [Managers -> Nat]
BY DEF TypeOK, ReturnFromPass, PassStages, NoChildren

\* An accepted request leaves a child or nothing behind.
LEMMA WriteTargetType ==
    ASSUME TypeOK, NEW m \in Managers, inspectedCluster[m] /= Absent,
           step[m] \in 1..5, WriteTarget(m)
    PROVE  child' \in [Resources -> Child \cup {Absent}]
<1> DEFINE r == Target(m)
           d == DesiredTarget(m)
           v == PlannedVerb(m)
<1>1. r \in Resources
  BY OrdersNameResources DEF Target
<1>2. inspectedCluster[m] \in Cluster
  BY DEF TypeOK
<1>3. Valid(r, d) => d \in Child
  BY <1>1, <1>2, DesiredType DEF DesiredTarget
<1>4. d /= Absent /\ v \in {"create", "update", "none"}
  <2>1. d /= Absent
    BY <1>1, <1>2, DesiredType DEF DesiredTarget
  <2> QED BY <2>1 DEF PlannedVerb, Verb
<1>5. Written(r, v, d) \in Child \cup {Absent}
  <2>1. CASE v = "create"
    BY <2>1, <1>3 DEF Written, WriteTarget, Accepted
  <2>2. CASE v = "update"
    <3>1. d \in Child
      BY <2>2, <1>3 DEF WriteTarget, Accepted
    <3>2. child[r].available \in Nat
      BY <2>2, <1>1 DEF WriteTarget, Accepted, TypeOK, Child
    <3>3. [d EXCEPT !.available = child[r].available] \in Child
      BY <3>1, <3>2 DEF Child
    <3> QED BY <3>3, <2>2 DEF Written
  <2>3. CASE v = "none"
    BY <2>3 DEF Written
  <2> QED BY <1>4, <2>1, <2>2, <2>3
<1> QED BY <1>1, <1>5 DEF WriteTarget, TypeOK

\* Moving a pass to a stage and a position keeps the types of both.
LEMMA GotoType ==
    ASSUME TypeOK, NEW m \in Managers, NEW stage \in PassStages,
           NEW n \in 1..5, Goto(m, stage, n)
    PROVE  pc' \in [Managers -> PassStages] /\ step' \in [Managers -> 1..5]
BY DEF Goto, TypeOK

\* So does a panic.
LEMMA GotoPanicType ==
    ASSUME TypeOK, NEW m \in Managers, GotoPanic(m)
    PROVE  /\ pc' \in [Managers -> PassStages]
           /\ step' \in [Managers -> 1..5]
           /\ inspectedChild' \in [Managers -> [Resources -> Nat \cup {Absent}]]
BY GotoType DEF GotoPanic, PassStages, TypeOK, NoChildren

\* The end of a pass keeps the types, whether it returns or panics.
LEMMA FinishPassType ==
    ASSUME TypeOK, NEW m \in Managers, NEW available, FinishPass(m, available)
    PROVE  /\ pc' \in [Managers -> PassStages]
           /\ step' \in [Managers -> 1..5]
           /\ inspectedCluster' \in [Managers -> Cluster \cup {Absent}]
           /\ inspectedChild' \in [Managers -> [Resources -> Nat \cup {Absent}]]
           /\ newAvailable' \in [Managers -> Nat]
           /\ delayed' \in [Managers -> BOOLEAN]
<1>1. CASE inspectedCluster[m].workers = Absent
  BY <1>1, GotoPanicType DEF FinishPass, TypeOK
<1>2. CASE inspectedCluster[m].workers /= Absent
  BY <1>2, PassReturnsType DEF FinishPass, RequeueLater, TypeOK
<1> QED BY <1>1, <1>2

\* Going on to the next child keeps the pass well typed.
LEMMA AfterChildType ==
    ASSUME TypeOK, NEW m \in Managers, AfterChild(m)
    PROVE  /\ pc' \in [Managers -> PassStages]
           /\ step' \in [Managers -> 1..5]
           /\ inspectedChild' \in [Managers -> [Resources -> Nat \cup {Absent}]]
<1>1. step[m] \in 1..5
  BY DEF TypeOK
<1> PICK n \in NextSteps(ReconcileOrder, step[m]) :
           IF n < Done THEN Goto(m, "reconcile", n) ELSE Goto(m, "status", 1)
  BY DEF AfterChild
<1>2. n < Done => n \in 1..5
  BY <1>1, NextStepsType
<1>3. pc' \in [Managers -> PassStages] /\ step' \in [Managers -> 1..5]
  <2>1. CASE n < Done
    BY <2>1, <1>2, GotoType DEF PassStages
  <2>2. CASE ~(n < Done)
    BY <2>2, GotoType DEF PassStages
  <2> QED BY <2>1, <2>2
<1>4. inspectedChild' \in [Managers -> [Resources -> Nat \cup {Absent}]]
  BY DEF AfterChild, TypeOK
<1> QED BY <1>3, <1>4

\* A written status leaves a CR behind.
LEMMA WriteStatusType ==
    ASSUME TypeOK, NEW m \in Managers, WriteStatus(m)
    PROVE  cluster' \in Cluster /\ newest' \subseteq Copies
BY DEF TypeOK, WriteStatus, StatusConflict, NewVersion, Cluster

\* Deriving the status keeps the types, whatever count it is derived from.
LEMMA DeriveStatusType ==
    ASSUME TypeOK, NEW m \in Managers, NEW available \in Nat,
           DeriveStatusFrom(m, available), disturbances' \in Nat
    PROVE  TypeOK'
<1> USE DEF apiVars, cacheVars
<1>1. CASE StatusDiffers(m, available)
  <2>1. Goto(m, "updateStatus", 1)
    BY <1>1 DEF DeriveStatusFrom
  <2>2. pc' \in [Managers -> PassStages] /\ step' \in [Managers -> 1..5]
    BY <2>1, GotoType DEF PassStages
  <2>3. newAvailable' \in [Managers -> Nat]
    BY <1>1 DEF DeriveStatusFrom, TypeOK
  <2> QED BY <1>1, <2>2, <2>3 DEF DeriveStatusFrom, TypeOK
<1>2. CASE ~StatusDiffers(m, available)
  BY <1>2, FinishPassType DEF DeriveStatusFrom, DropInspected, TypeOK
<1> QED BY <1>1, <1>2

-----------------------------------------------------------------------------
(***************************************************************************)
(* Types                                                                   *)
(***************************************************************************)
\* The steps of a pass keep the types.
LEMMA PassKeepsTypes ==
    ASSUME TypeOK, NEW m \in Managers, ReconcilePass(m)
    PROVE  TypeOK'
<1> USE DEF apiVars, cacheVars, queueVars
<1>1. CASE Dequeue(m)
  BY <1>1 DEF Dequeue, Goto, TypeOK, PassStages
<1>2. CASE InspectCluster(m)
  <2> PICK n \in NextSteps(InspectOrder, 0) :
             Goto(m, "inspect", n)
    BY <1>2 DEF InspectCluster
  <2>1. n \in 1..5
    BY FirstStepType
  <2>2. pc' \in [Managers -> PassStages] /\ step' \in [Managers -> 1..5]
    BY <2>1 DEF Goto, TypeOK, PassStages
  <2>3. newest' \subseteq Copies
    BY <1>2 DEF InspectCluster, TypeOK, Copies
  <2>4. inspectedCluster' \in [Managers -> Cluster \cup {Absent}]
    BY <1>2 DEF InspectCluster, TypeOK
  <2> QED BY <1>2, <2>2, <2>3, <2>4 DEF InspectCluster, TypeOK
<1>3. CASE InspectChild(m)
  <2> DEFINE r == InspectOrder[step[m]]
             seen == cachedChild[m][r]
  <2>1. step[m] \in 1..5 /\ r \in Resources
    BY OrdersNameResources DEF TypeOK
  <2>2. pc' \in [Managers -> PassStages] /\ step' \in [Managers -> 1..5]
    <3> PICK n \in NextSteps(InspectOrder, step[m]) :
               IF n < Done THEN Goto(m, "inspect", n)
               ELSE \E k \in NextSteps(ReconcileOrder, 0) :
                       Goto(m, "reconcile", k)
      BY <1>3 DEF InspectChild
    <3>1. CASE n < Done
      <4>1. n \in 1..5
        BY <3>1, <2>1, NextStepsType
      <4> QED BY <3>1, <4>1, GotoType DEF PassStages
    <3>2. CASE ~(n < Done)
      BY <3>2, FirstStepType DEF Goto, TypeOK, PassStages
    <3> QED BY <3>1, <3>2
  <2>3. inspectedChild' \in [Managers -> [Resources -> Nat \cup {Absent}]]
    <3>1. (IF seen = Absent THEN Absent ELSE seen.replicas)
             \in Nat \cup {Absent}
      BY <2>1 DEF TypeOK, Seen
    <3>2. inspectedChild' = [inspectedChild EXCEPT ![m][r] =
                               IF seen = Absent THEN Absent ELSE seen.replicas]
      BY <1>3 DEF InspectChild
    <3> HIDE DEF seen
    <3> QED BY <3>1, <3>2, <2>1 DEF TypeOK
  <2> QED BY <1>3, <2>2, <2>3 DEF InspectChild, TypeOK
<1>4. CASE InspectFails(m)
  BY <1>4, PassReturnsType DEF InspectFails, Disturb, RequeueLater,
                               DropInspected, TypeOK
<1>5. CASE ReconcileGone(m)
  BY <1>5 DEF ReconcileGone, EndReconcile, Goto, TypeOK, PassStages,
              NoChildren
<1>6. CASE ReconcileNoAction(m)
  BY <1>6, AfterChildType DEF ReconcileNoAction, TypeOK
<1>7. CASE ReconcileRequest(m)
  <2>1. child' \in [Resources -> Child \cup {Absent}]
    BY <1>7, WriteTargetType
       DEF ReconcileRequest, Requests, SkipReconcile, TypeOK
  <2> QED BY <1>7, <2>1, AfterChildType DEF ReconcileRequest, TypeOK
<1>8. CASE ReconcileRejected(m)
  BY <1>8 DEF ReconcileRejected, EndReconcile, Goto, TypeOK, PassStages,
              NoChildren
<1>9. CASE ReconcileFails(m)
  <2>1. child' \in [Resources -> Child \cup {Absent}]
    BY <1>9, WriteTargetType
       DEF ReconcileFails, Requests, SkipReconcile, TypeOK
  <2>2. disturbances' \in Nat
    BY <1>9 DEF ReconcileFails, Disturb, TypeOK
  <2> QED BY <1>9, <2>1, <2>2
          DEF ReconcileFails, EndReconcile, Goto, TypeOK, PassStages,
              NoChildren
<1>10. CASE StatusGone(m)
  BY <1>10, PassReturnsType DEF StatusGone, DropInspected, TypeOK
<1>11. CASE DeriveStatus(m)
  <2>1. CachedAvailable(m) \in Nat
    BY DEF CachedAvailable, TypeOK, Seen, Resources
  <2> QED BY <1>11, <2>1, DeriveStatusType DEF DeriveStatus, TypeOK
<1>12. CASE DeriveStatusFails(m)
  <2>1. disturbances' \in Nat
    BY <1>12 DEF DeriveStatusFails, Disturb, TypeOK
  <2> QED BY <1>12, <2>1, DeriveStatusType DEF DeriveStatusFails, TypeOK
<1>13. CASE UpdateStatus(m)
  BY <1>13, FinishPassType, WriteStatusType DEF UpdateStatus, TypeOK
<1>14. CASE UpdateStatusRejected(m)
  BY <1>14, PassReturnsType DEF UpdateStatusRejected, RequeueLater,
                                DropInspected, TypeOK
<1>15. CASE UpdateStatusFails(m)
  <2>1. cluster' \in Cluster \cup {Absent} /\ newest' \subseteq Copies
    BY <1>15, WriteStatusType
       DEF UpdateStatusFails, DropInspected, TypeOK
  <2>2. disturbances' \in Nat
    BY <1>15 DEF UpdateStatusFails, Disturb, TypeOK
  <2> QED BY <1>15, <2>1, <2>2, PassReturnsType
          DEF UpdateStatusFails, RequeueLater, TypeOK
<1>16. CASE ReconcilePanics(m)
  BY <1>16, GotoPanicType DEF ReconcilePanics, TypeOK
<1> QED BY <1>1, <1>2, <1>3, <1>4, <1>5, <1>6, <1>7, <1>8, <1>9, <1>10,
           <1>11, <1>12, <1>13, <1>14, <1>15, <1>16 DEF ReconcilePass

\* So does a restart of the process.
LEMMA RestartKeepsTypes ==
    ASSUME TypeOK, NEW m \in Managers, Restart(m), disturbances' \in Nat
    PROVE  TypeOK'
<1>1. \A r \in Resources : View(child[r]) \in Seen \cup {Absent}
  BY ViewType DEF TypeOK
<1>2. cachedChild' \in [Managers -> [Resources -> Seen \cup {Absent}]]
  BY <1>1 DEF Restart, TypeOK
<1>3. newest' \subseteq Copies
  BY DEF Restart, TypeOK, Copies
<1>4. /\ cachedCluster' \in [Managers -> Cluster \cup {Absent}]
      /\ queued' \in [Managers -> BOOLEAN]
      /\ delayed' \in [Managers -> BOOLEAN]
  BY DEF Restart, TypeOK
<1> QED BY <1>2, <1>3, <1>4, PassReturnsType DEF Restart, TypeOK

\* So do the steps of the manager around it.
LEMMA ManagerKeepsTypes ==
    ASSUME TypeOK, NEW m \in Managers, ManagerStep(m)
    PROVE  TypeOK'
<1> USE DEF apiVars, cacheVars, passVars
<1>1. CASE ReconcilePass(m)
  BY <1>1, PassKeepsTypes
<1>2. CASE SyncCluster(m)
  BY <1>2 DEF SyncCluster, TypeOK, Copies
<1>3. ASSUME NEW i \in ChildInformers, SyncChildren(m, i)
      PROVE  TypeOK'
  <2>1. \A r \in Resources : View(child[r]) \in Seen \cup {Absent}
    BY ViewType DEF TypeOK
  <2>2. cachedChild' \in [Managers -> [Resources -> Seen \cup {Absent}]]
    BY <1>3, <2>1 DEF SyncChildren, TypeOK
  <2> QED BY <1>3, <2>2 DEF SyncChildren, TypeOK
<1>4. CASE DelayElapsed(m)
  BY <1>4 DEF DelayElapsed, TypeOK
<1>5. CASE Resync(m)
  BY <1>5 DEF Resync, TypeOK
<1>6. CASE Crash(m)
  BY <1>6, RestartKeepsTypes DEF Crash, Disturb, TypeOK
<1>7. CASE Panic(m)
  BY <1>7, RestartKeepsTypes DEF Panic, TypeOK
<1> QED BY <1>1, <1>2, <1>3, <1>4, <1>5, <1>6, <1>7 DEF ManagerStep

\* And those of users and of Kubernetes.
LEMMA EnvironmentKeepsTypes ==
    ASSUME TypeOK, UserCreate \/ KubernetesStep \/ DisturbanceStep
    PROVE  TypeOK'
<1> USE DEF cacheVars, queueVars, passVars
<1> DEFINE w == "workerDeployment"
<1>0. w \in Resources
  BY DEF Resources
<1>1. CASE UserCreate
  <2>1. cluster' \in Cluster /\ lastUid' \in Nat
    BY <1>1 DEF UserCreate, Specs, Cluster, TypeOK
  <2> QED BY <1>1, <2>1 DEF UserCreate, NewVersion, TypeOK
<1>2. CASE UserEdit
  <2>1. cluster' \in Cluster
    BY <1>2 DEF UserEdit, Specs, Cluster, TypeOK
  <2> QED BY <1>2, <2>1 DEF UserEdit, NewVersion, Disturb, TypeOK
<1>3. CASE UserDelete
  BY <1>3 DEF UserDelete, NewVersion, Disturb, TypeOK
<1>4. ASSUME NEW r \in Resources, GarbageCollect(r)
      PROVE  TypeOK'
  BY <1>4 DEF GarbageCollect, TypeOK
<1>5. CASE DeploymentProgress
  <2>1. child[w] \in Child
    BY <1>0, <1>5 DEF DeploymentProgress, TypeOK
  <2>2. (IF child[w].available < child[w].replicas
         THEN child[w].available + 1 ELSE child[w].available - 1) \in Nat
    BY <1>5, <2>1 DEF DeploymentProgress, Child
  <2>3. [child[w] EXCEPT !.available =
           IF child[w].available < child[w].replicas
           THEN child[w].available + 1 ELSE child[w].available - 1] \in Child
    BY <2>1, <2>2 DEF Child
  <2>4. child' \in [Resources -> Child \cup {Absent}]
    BY <1>0, <1>5, <2>3 DEF DeploymentProgress, TypeOK
  <2> QED BY <1>5, <2>4 DEF DeploymentProgress, TypeOK
<1>6. CASE PodFails
  <2>1. child[w] \in Child
    BY <1>0, <1>6 DEF PodFails, TypeOK
  <2>2. [child[w] EXCEPT !.available = child[w].available - 1] \in Child
    BY <1>6, <2>1 DEF PodFails, Child
  <2>3. child' \in [Resources -> Child \cup {Absent}]
    BY <1>0, <1>6, <2>2 DEF PodFails, TypeOK
  <2> QED BY <1>6, <2>3 DEF PodFails, Disturb, TypeOK
<1>7. ASSUME NEW r \in Resources, ExternalDelete(r)
      PROVE  TypeOK'
  BY <1>7 DEF ExternalDelete, Disturb, TypeOK
<1>8. ASSUME NEW r \in Deployments, ExternalScale(r)
      PROVE  TypeOK'
  <2>1. r \in Resources
    BY DEF Deployments, Resources
  <2>2. PICK n \in Nat : child' = [child EXCEPT ![r].replicas = n]
    BY <1>8 DEF ExternalScale
  <2>3. [child[r] EXCEPT !.replicas = n] \in Child
    BY <1>8, <2>1 DEF ExternalScale, TypeOK, Child
  <2>4. child' \in [Resources -> Child \cup {Absent}]
    BY <2>1, <2>2, <2>3 DEF TypeOK
  <2> QED BY <1>8, <2>4 DEF ExternalScale, Disturb, TypeOK
<1> QED BY <1>1, <1>2, <1>3, <1>4, <1>5, <1>6, <1>7, <1>8
        DEF KubernetesStep, DisturbanceStep

\* The initial state is well typed.
LEMMA InitTypes == Init => TypeOK
<1> SUFFICES ASSUME Init PROVE TypeOK
  OBVIOUS
<1>1. /\ NoChildren \in [Resources -> Child \cup {Absent}]
      /\ NoChildren \in [Resources -> Seen \cup {Absent}]
      /\ NoChildren \in [Resources -> Nat \cup {Absent}]
  BY DEF NoChildren
<1>2. newest \subseteq Copies
  BY DEF Init, Copies
<1>3. disturbances \in Nat
  BY DEF Init, OperatorAssumption
<1>4. /\ pc \in [Managers -> PassStages]
      /\ step \in [Managers -> 1..5]
  BY DEF Init, PassStages
<1> QED BY <1>1, <1>2, <1>3, <1>4 DEF Init, TypeOK

\* TypeOK is inductive on its own.
LEMMA NextKeepsTypes == TypeOK /\ [Next]_vars => TypeOK'
<1> SUFFICES ASSUME TypeOK, [Next]_vars PROVE TypeOK'
  OBVIOUS
<1>1. CASE Next
  BY <1>1, ManagerKeepsTypes, EnvironmentKeepsTypes DEF Next
<1>2. CASE UNCHANGED vars
  BY <1>2 DEF vars, apiVars, cacheVars, queueVars, passVars, TypeOK
<1> QED BY <1>1, <1>2

(***************************************************************************)
(* TypeCorrect: TypeOK holds in every reachable state.  In particular the  *)
(* API never stores a negative number of replicas, whatever workers a CR   *)
(* asks for, and a walk over the children never leaves its order.          *)
(***************************************************************************)
THEOREM TypeCorrect == Spec => []TypeOK
<1>1. Init => TypeOK
  BY InitTypes
<1>2. TypeOK /\ [Next]_vars => TypeOK'
  BY NextKeepsTypes
<1> QED BY <1>1, <1>2, PTL DEF Spec

-----------------------------------------------------------------------------
(***************************************************************************)
(* No CR is left behind                                                    *)
(***************************************************************************)
\* The inductive invariant:
\* a cache that is newest holds the CR; a pass that no event has queued
\* anew works on the CR of the cache; and a pass that ends without a requeue
\* leaves that CR with its status equal to its workers.
HoldsTruth(m) == CacheIsNewest(m) => cachedCluster[m] = cluster

PassSeesCache(m) ==
    pc[m] \notin {"idle", "inspectCluster"} /\ ~queued[m]
        => inspectedCluster[m] = cachedCluster[m]

LeftServed(m) ==
    /\ Settled(m)
    /\ CacheIsNewest(m)
    /\ cachedCluster[m] /= Absent
    => cachedCluster[m].status = cachedCluster[m].workers

ServedInv ==
    \A m \in Managers : HoldsTruth(m) /\ PassSeesCache(m) /\ LeftServed(m)

\* A pass that writes children only, or nothing, leaves the facts alone.
LEMMA StillInPass ==
    ASSUME TypeOK, ServedInv, NEW m \in Managers,
           pc[m] \notin {"idle", "inspectCluster"},
           \E stage \in PassStages \ {"idle"}, n \in 1..5 : Goto(m, stage, n),
           UNCHANGED <<cluster, newest, cacheVars, queueVars, inspectedCluster>>
    PROVE  ServedInv'
BY DEF ServedInv, HoldsTruth, PassSeesCache, LeftServed, Settled, TypeOK,
       CacheIsNewest, Goto, cacheVars, queueVars, PassStages

\* A pass that returns is forgotten; who relied on it must not be settled.
LEMMA PassReturns ==
    ASSUME TypeOK, ServedInv, NEW m \in Managers, ReturnFromPass(m),
           UNCHANGED <<cluster, cacheVars, queued>>,
           newest' \subseteq newest,
           delayed' \in {delayed, [delayed EXCEPT ![m] = TRUE]},
           LeftServed(m)'
    PROVE  ServedInv'
BY DEF ServedInv, HoldsTruth, PassSeesCache, LeftServed, Settled, TypeOK,
       CacheIsNewest, ReturnFromPass, cacheVars

\* A pass that ends has either left its CR served, or asked for a requeue,
\* or it panics and stays what it was.
LEMMA PassFinishes ==
    ASSUME TypeOK, ServedInv, NEW m \in Managers, NEW available,
           FinishPass(m, available),
           pc[m] \notin {"idle", "inspectCluster"},
           inspectedCluster[m].workers /= Absent => LeftServed(m)',
           UNCHANGED <<cluster, cacheVars, queued>>,
           newest' \subseteq newest
    PROVE  ServedInv'
<1>1. CASE inspectedCluster[m].workers = Absent
  BY <1>1 DEF FinishPass, GotoPanic, Goto, ServedInv, HoldsTruth,
              PassSeesCache, LeftServed, Settled, TypeOK, CacheIsNewest,
              cacheVars
<1>2. CASE inspectedCluster[m].workers /= Absent
  BY <1>2, PassReturns DEF FinishPass, RequeueLater
<1> QED BY <1>1, <1>2

\* A new version of the CR makes every cache a stale one.
LEMMA VersionChanges ==
    ASSUME TypeOK, ServedInv, NewVersion,
           UNCHANGED <<cacheVars, queueVars, passVars>>
    PROVE  ServedInv'
BY DEF ServedInv, HoldsTruth, PassSeesCache, LeftServed, Settled, NewVersion,
       CacheIsNewest, cacheVars, queueVars, passVars

\* What happens to the children alone does not matter here.
LEMMA OnlyChildrenChange ==
    ASSUME ServedInv,
           UNCHANGED <<cluster, newest, cachedCluster, queueVars, passVars>>
    PROVE  ServedInv'
BY DEF ServedInv, HoldsTruth, PassSeesCache, LeftServed, Settled,
       CacheIsNewest, queueVars, passVars

\* After a child the pass is at another child or at its status.
LEMMA AfterChildGoes ==
    ASSUME TypeOK, NEW m \in Managers, AfterChild(m)
    PROVE  \E stage \in PassStages \ {"idle"}, n \in 1..5 : Goto(m, stage, n)
<1>1. PICK n \in NextSteps(ReconcileOrder, step[m]) :
             IF n < Done THEN Goto(m, "reconcile", n) ELSE Goto(m, "status", 1)
  BY DEF AfterChild
<1>2. step[m] \in 1..5
  BY DEF TypeOK
<1>3. n < Done => n \in 1..5
  BY <1>2, NextStepsType
<1> QED BY <1>1, <1>3 DEF PassStages

\* The status is derived from whatever count: either it differs and is going
\* to be written, or the pass ends, and without a requeue only if it is right.
LEMMA DeriveKeepsServed ==
    ASSUME TypeOK, ServedInv, NEW m \in Managers, NEW available,
           DeriveStatusFrom(m, available)
    PROVE  ServedInv'
<1>1. CASE StatusDiffers(m, available)
  BY <1>1, StillInPass DEF DeriveStatusFrom, PassStages, queueVars
<1>2. CASE ~StatusDiffers(m, available)
  <2>1. ASSUME inspectedCluster[m].workers /= Absent
        PROVE  LeftServed(m)'
    <3>1. CASE WantsRequeue(m, available)
      BY <1>2, <2>1, <3>1 DEF DeriveStatusFrom, FinishPass, RequeueLater,
                              LeftServed, Settled, TypeOK
    <3>2. CASE ~WantsRequeue(m, available)
      <4>1. inspectedCluster[m].status = inspectedCluster[m].workers
        BY <1>2, <3>2 DEF StatusDiffers, WantsRequeue
      <4>2. ~queued[m] => inspectedCluster[m] = cachedCluster[m]
        BY DEF DeriveStatusFrom, ServedInv, PassSeesCache
      <4> QED BY <4>1, <4>2 DEF DeriveStatusFrom, LeftServed, Settled,
                               cacheVars
    <3> QED BY <3>1, <3>2
  <2> QED BY <1>2, <2>1, PassFinishes DEF DeriveStatusFrom, DropInspected
<1> QED BY <1>1, <1>2

\* A written status is a new version of the CR.
LEMMA WriteKeepsServed ==
    ASSUME TypeOK, ServedInv, NEW m \in Managers, WriteStatus(m),
           pc[m] \notin {"idle", "inspectCluster"},
           ReturnFromPass(m) \/ (GotoPanic(m) /\ UNCHANGED inspectedCluster),
           UNCHANGED <<cacheVars, queued>>
    PROVE  ServedInv'
BY DEF WriteStatus, NewVersion, ReturnFromPass, GotoPanic, Goto, ServedInv,
       HoldsTruth, PassSeesCache, LeftServed, CacheIsNewest, TypeOK, cacheVars

\* No step of a pass breaks the invariant.
LEMMA PassKeepsServed ==
    ASSUME TypeOK, ServedInv, NEW m \in Managers, ReconcilePass(m)
    PROVE  ServedInv'
<1> USE DEF apiVars
<1>1. CASE Dequeue(m)
  BY <1>1 DEF Dequeue, Goto, ServedInv, HoldsTruth, PassSeesCache, LeftServed,
              Settled, CacheIsNewest, TypeOK, cacheVars
<1>2. CASE InspectCluster(m)
  <2>1. PICK n \in NextSteps(InspectOrder, 0) : Goto(m, "inspect", n)
    BY <1>2 DEF InspectCluster
  <2>2. \A k \in Managers : CacheIsNewest(k)' = CacheIsNewest(k)
    BY <1>2 DEF InspectCluster, CacheIsNewest
  <2> QED BY <1>2, <2>1, <2>2
          DEF InspectCluster, Goto, ServedInv, HoldsTruth, PassSeesCache,
              LeftServed, Settled, TypeOK, cacheVars, queueVars
<1>3. CASE InspectChild(m)
  <2>1. PICK n \in NextSteps(InspectOrder, step[m]) :
               IF n < Done THEN Goto(m, "inspect", n)
               ELSE \E k \in NextSteps(ReconcileOrder, 0) :
                       Goto(m, "reconcile", k)
    BY <1>3 DEF InspectChild
  <2>2. step[m] \in 1..5
    BY DEF TypeOK
  <2>3. n < Done => n \in 1..5
    BY <2>2, NextStepsType
  <2>4. \E stage \in PassStages \ {"idle"}, k \in 1..5 : Goto(m, stage, k)
    <3>1. CASE n < Done
      BY <3>1, <2>1, <2>3 DEF PassStages
    <3>2. CASE ~(n < Done)
      BY <3>2, <2>1, FirstStepType DEF PassStages
    <3> QED BY <3>1, <3>2
  <2> QED BY <1>3, <2>4, StillInPass DEF InspectChild
<1>4. CASE InspectFails(m)
  <2>1. LeftServed(m)'
    BY <1>4 DEF InspectFails, RequeueLater, LeftServed, Settled, TypeOK
  <2> QED BY <1>4, <2>1, PassReturns
          DEF InspectFails, RequeueLater, DropInspected
<1>5. CASE ReconcileGone(m)
  BY <1>5, StillInPass DEF ReconcileGone, EndReconcile, PassStages
<1>6. CASE ReconcileNoAction(m)
  BY <1>6, AfterChildGoes, StillInPass DEF ReconcileNoAction
<1>7. CASE ReconcileRequest(m)
  BY <1>7, AfterChildGoes, StillInPass DEF ReconcileRequest, Requests
<1>8. CASE ReconcileRejected(m)
  BY <1>8, StillInPass DEF ReconcileRejected, Requests, EndReconcile,
                           PassStages
<1>9. CASE ReconcileFails(m)
  BY <1>9, StillInPass DEF ReconcileFails, Requests, EndReconcile,
                           PassStages
<1>10. CASE StatusGone(m)
  <2>1. LeftServed(m)'
    BY <1>10 DEF StatusGone, LeftServed, Settled, ServedInv, PassSeesCache,
                 cacheVars, queueVars
  <2> QED BY <1>10, <2>1, PassReturns DEF StatusGone, DropInspected, queueVars
<1>11. CASE DeriveStatus(m)
  BY <1>11, DeriveKeepsServed DEF DeriveStatus
<1>12. CASE DeriveStatusFails(m)
  BY <1>12, DeriveKeepsServed DEF DeriveStatusFails
<1>13. CASE UpdateStatus(m)
  BY <1>13, WriteKeepsServed DEF UpdateStatus, FinishPass
<1>14. CASE UpdateStatusRejected(m)
  <2>1. LeftServed(m)'
    BY <1>14 DEF UpdateStatusRejected, RequeueLater, LeftServed, Settled,
                 TypeOK
  <2> QED BY <1>14, <2>1, PassReturns
          DEF UpdateStatusRejected, RequeueLater, DropInspected
<1>15. CASE UpdateStatusFails(m)
  <2>1. CASE WriteStatus(m)
    BY <1>15, <2>1, WriteKeepsServed DEF UpdateStatusFails, RequeueLater
  <2>2. CASE UNCHANGED cluster /\ DropInspected(m)
    <3>1. LeftServed(m)'
      BY <1>15 DEF UpdateStatusFails, RequeueLater, LeftServed, Settled,
                   TypeOK
    <3> QED BY <1>15, <2>2, <3>1, PassReturns
            DEF UpdateStatusFails, RequeueLater, DropInspected
  <2> QED BY <1>15, <2>1, <2>2 DEF UpdateStatusFails
<1>16. CASE ReconcilePanics(m)
  BY <1>16, StillInPass DEF ReconcilePanics, GotoPanic, PassStages
<1> QED BY <1>1, <1>2, <1>3, <1>4, <1>5, <1>6, <1>7, <1>8, <1>9, <1>10,
           <1>11, <1>12, <1>13, <1>14, <1>15, <1>16 DEF ReconcilePass

\* A restarted process has the CR it knows of in its queue.
LEMMA RestartKeepsServed ==
    ASSUME TypeOK, ServedInv, NEW m \in Managers, Restart(m)
    PROVE  ServedInv'
BY DEF Restart, ReturnFromPass, ServedInv, HoldsTruth, PassSeesCache,
       LeftServed, Settled, CacheIsNewest, TypeOK

\* Nor does a watch event, a delay, a resync or a restart.
LEMMA ManagerKeepsServed ==
    ASSUME TypeOK, ServedInv, NEW m \in Managers, ManagerStep(m)
    PROVE  ServedInv'
<1> USE DEF apiVars, cacheVars, passVars
<1>1. CASE ReconcilePass(m)
  BY <1>1, PassKeepsServed
<1>2. CASE SyncCluster(m)
  BY <1>2 DEF SyncCluster, ServedInv, HoldsTruth, PassSeesCache, LeftServed,
              Settled, CacheIsNewest, TypeOK
<1>3. ASSUME NEW i \in ChildInformers, SyncChildren(m, i)
      PROVE  ServedInv'
  BY <1>3, OnlyChildrenChange DEF SyncChildren, queueVars
<1>4. CASE DelayElapsed(m)
  BY <1>4 DEF DelayElapsed, ServedInv, HoldsTruth, PassSeesCache, LeftServed,
              Settled, CacheIsNewest, TypeOK
<1>5. CASE Resync(m)
  BY <1>5 DEF Resync, ServedInv, HoldsTruth, PassSeesCache, LeftServed,
              Settled, CacheIsNewest, TypeOK
<1>6. CASE Crash(m)
  BY <1>6, RestartKeepsServed DEF Crash
<1>7. CASE Panic(m)
  BY <1>7, RestartKeepsServed DEF Panic
<1> QED BY <1>1, <1>2, <1>3, <1>4, <1>5, <1>6, <1>7 DEF ManagerStep

\* Nor do users and Kubernetes.
LEMMA EnvironmentKeepsServed ==
    ASSUME TypeOK, ServedInv, UserCreate \/ KubernetesStep \/ DisturbanceStep
    PROVE  ServedInv'
<1> USE DEF cacheVars
<1>1. CASE UserCreate \/ UserEdit \/ UserDelete
  BY <1>1, VersionChanges DEF UserCreate, UserEdit, UserDelete
<1>2. ASSUME NEW r \in Resources, GarbageCollect(r) \/ ExternalDelete(r)
      PROVE  ServedInv'
  BY <1>2, OnlyChildrenChange DEF GarbageCollect, ExternalDelete
<1>3. CASE DeploymentProgress \/ PodFails
  BY <1>3, OnlyChildrenChange DEF DeploymentProgress, PodFails
<1>4. ASSUME NEW r \in Deployments, ExternalScale(r)
      PROVE  ServedInv'
  BY <1>4, OnlyChildrenChange DEF ExternalScale
<1> QED BY <1>1, <1>2, <1>3, <1>4 DEF KubernetesStep, DisturbanceStep

(***************************************************************************)
(* ServedInvariant: the strengthening of NeverForgotten is inductive       *)
(* relative to the types.                                                  *)
(***************************************************************************)
THEOREM ServedInvariant == Spec => []ServedInv
<1>1. Init => ServedInv
  BY DEF Init, ServedInv, HoldsTruth, PassSeesCache, LeftServed
<1>2. TypeOK /\ ServedInv /\ [Next]_vars => ServedInv'
  <2> SUFFICES ASSUME TypeOK, ServedInv, [Next]_vars PROVE ServedInv'
    OBVIOUS
  <2>1. CASE Next
    BY <2>1, ManagerKeepsServed, EnvironmentKeepsServed DEF Next
  <2>2. CASE UNCHANGED vars
    BY <2>2, OnlyChildrenChange DEF vars, apiVars, cacheVars
  <2> QED BY <2>1, <2>2
<1> QED BY <1>1, <1>2, TypeCorrect, PTL DEF Spec

(***************************************************************************)
(* NothingForgotten: a manager that has seen the newest CR and has nothing *)
(* pending has left it with the available workers it asks for.             *)
(***************************************************************************)
THEOREM NothingForgotten == Spec => []NeverForgotten
<1>1. ServedInv => NeverForgotten
  BY DEF ServedInv, HoldsTruth, LeftServed, NeverForgotten
<1> QED BY <1>1, ServedInvariant, PTL
=============================================================================
