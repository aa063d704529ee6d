--------------------------- MODULE PrestoRest_proofs ---------------------------
(***************************************************************************)
(* Self-stabilization has two halves.  That the operator comes to rest is  *)
(* a liveness property and left to TLC (EventuallyConverged).  That rest   *)
(* is not left again but by a disturbance is proved here.                  *)
(***************************************************************************)
EXTENDS PrestoConverged_proofs

USE ResourcesAssumption, OperatorAssumption

-----------------------------------------------------------------------------
(***************************************************************************)
(* Where a walk over the children stands                                   *)
(***************************************************************************)
\* Each order names each resource once.
LEMMA OrdersCover ==
    ASSUME NEW order \in {InspectOrder, ReconcileOrder}
    PROVE  /\ \A r \in Resources : \E i \in 1..5 : order[i] = r
           /\ \A i, j \in 1..5 : i /= j => order[i] /= order[j]
<1>1. CASE order = InspectOrder
  BY <1>1 DEF InspectOrder, Resources
<1>2. CASE order = ReconcileOrder
  BY <1>2 DEF ReconcileOrder, Resources
<1> QED BY <1>1, <1>2

\* A walk goes on to a child, past none.
LEMMA NextStepsSkip ==
    ASSUME NEW order, NEW k \in 0..5, NEW n \in NextSteps(order, k)
    PROVE  /\ n \in k+1 .. 6
           /\ n < Done => order[n] \in Children
           /\ \A i \in k+1 .. n-1 : order[i] \notin Children
BY DEF NextSteps, Done

\* A pass only ever looks at, or requests, children of this instance.
AtChild(m) ==
    /\ pc[m] = "inspect"   => InspectOrder[step[m]] \in Children
    /\ pc[m] = "reconcile" => ReconcileOrder[step[m]] \in Children

AtChildInv == \A m \in Managers : AtChild(m)

LEMMA PassKeepsWalk ==
    ASSUME TypeOK, AtChildInv, NEW m \in Managers, ReconcilePass(m)
    PROVE  AtChildInv'
<1>1. ASSUME NEW stage, NEW n, Goto(m, stage, n),
             stage = "inspect" => InspectOrder[n] \in Children,
             stage = "reconcile" => ReconcileOrder[n] \in Children
      PROVE  AtChildInv'
  BY <1>1 DEF Goto, AtChildInv, AtChild, TypeOK
<1>2. ASSUME ReturnFromPass(m)
      PROVE  AtChildInv'
  BY <1>2 DEF ReturnFromPass, AtChildInv, AtChild, TypeOK
<1>3. step[m] \in 1..5
  BY DEF TypeOK
<1>4. CASE InspectCluster(m)
  <2>1. PICK n \in NextSteps(InspectOrder, 0) : Goto(m, "inspect", n)
    BY <1>4 DEF InspectCluster
  <2>2. n \in 1..5
    BY FirstStepType
  <2>3. InspectOrder[n] \in Children
    BY <2>2, NextStepsSkip DEF Done
  <2> QED BY <1>1, <2>1, <2>3
<1>5. CASE InspectChild(m)
  <2>1. PICK n \in NextSteps(InspectOrder, step[m]) :
               IF n < Done THEN Goto(m, "inspect", n)
               ELSE \E k \in NextSteps(ReconcileOrder, 0) :
                       Goto(m, "reconcile", k)
    BY <1>5 DEF InspectChild
  <2>2. CASE n < Done
    BY <1>1, <1>3, <2>1, <2>2, NextStepsSkip
  <2>3. CASE ~(n < Done)
    <3>1. PICK k \in NextSteps(ReconcileOrder, 0) : Goto(m, "reconcile", k)
      BY <2>1, <2>3
    <3>2. k \in 1..5
      BY FirstStepType
    <3>3. ReconcileOrder[k] \in Children
      BY <3>2, NextStepsSkip DEF Done
    <3> QED BY <1>1, <3>1, <3>3
  <2> QED BY <2>2, <2>3
<1>6. CASE AfterChild(m)
  <2>1. PICK n \in NextSteps(ReconcileOrder, step[m]) :
               IF n < Done THEN Goto(m, "reconcile", n)
                           ELSE Goto(m, "status", 1)
    BY <1>6 DEF AfterChild
  <2> QED BY <1>1, <1>3, <2>1, NextStepsSkip
<1>7. CASE EndReconcile(m) \/ GotoPanic(m)
  BY <1>1, <1>7 DEF EndReconcile, GotoPanic
<1>8. ASSUME NEW available, FinishPass(m, available)
      PROVE  AtChildInv'
  BY <1>2, <1>7, <1>8 DEF FinishPass
<1>9. ASSUME NEW available, DeriveStatusFrom(m, available)
      PROVE  AtChildInv'
  BY <1>1, <1>8, <1>9 DEF DeriveStatusFrom
<1>10. CASE Dequeue(m)
  BY <1>1, <1>10 DEF Dequeue
<1> QED BY <1>2, <1>4, <1>5, <1>6, <1>7, <1>8, <1>9, <1>10
        DEF ReconcilePass, InspectFails, ReconcileGone, ReconcileNoAction,
            ReconcilePanics, ReconcileRequest, ReconcileRejected,
            ReconcileFails, StatusGone, DeriveStatus, DeriveStatusFails,
            UpdateStatus, UpdateStatusRejected, UpdateStatusFails

LEMMA WalkInvariant == Spec => []AtChildInv
<1>1. Init => AtChildInv
  BY DEF Init, AtChildInv, AtChild
<1>2. TypeOK /\ AtChildInv /\ [Next]_vars => AtChildInv'
  <2> SUFFICES ASSUME TypeOK, AtChildInv, [Next]_vars PROVE AtChildInv'
    OBVIOUS
  <2>1. ASSUME NEW m \in Managers, ReconcilePass(m)
        PROVE  AtChildInv'
    BY <2>1, PassKeepsWalk
  <2>2. ASSUME NEW m \in Managers, Restart(m)
        PROVE  AtChildInv'
    BY <2>2 DEF Restart, ReturnFromPass, AtChildInv, AtChild, TypeOK
  <2>3. CASE UNCHANGED <<pc, step>>
    BY <2>3 DEF AtChildInv, AtChild
  <2> QED BY <2>1, <2>2, <2>3
          DEF Next, ManagerStep, SyncCluster, SyncChildren, DelayElapsed,
              Resync, Crash, Panic, UserCreate, KubernetesStep,
              DisturbanceStep, UserEdit, UserDelete, GarbageCollect,
              DeploymentProgress, PodFails, ExternalDelete, ExternalScale,
              passVars, vars
<1> QED BY <1>1, <1>2, TypeCorrect, PTL DEF Spec

-----------------------------------------------------------------------------
(***************************************************************************)
(* Rest                                                                    *)
(***************************************************************************)
\* What is true at rest, in the terms of the CR and its children.
LEMMA RestFacts ==
    ASSUME TypeOK, ServedInv, AtRest
    PROVE  /\ cluster \in Cluster /\ cluster /= Absent
           /\ cluster.workers \in Nat /\ cluster.workers /= Absent
           /\ cluster.status = cluster.workers
           /\ \A r \in Children :
                 /\ r \in Resources
                 /\ child[r] /= Absent
                 /\ child[r].replicas \in Nat
                 /\ r \in Deployments =>
                       child[r].replicas = DesiredReplicas(cluster, r)
           /\ \A r \in Resources : child[r] /= Absent => Owned(child[r])
           /\ child["workerDeployment"] \in Child
           /\ child["workerDeployment"].available = cluster.workers
           /\ child["workerDeployment"].replicas = cluster.workers
           /\ \A m \in Managers :
                 /\ CacheIsNewest(m)
                 /\ cachedCluster[m] = cluster
                 /\ \A r \in Resources : cachedChild[m][r] = View(child[r])
                 /\ CachedAvailable(m) = cluster.workers
                 /\ Idles(m)
<1> DEFINE w == "workerDeployment"
<1>1. /\ cluster /= Absent
      /\ cluster \in Cluster
      /\ cluster.workers \in Nat
      /\ cluster.status = cluster.workers
      /\ child[w].available = cluster.workers
      /\ \A r \in Children : ChildConverged(r)
      /\ w \in Children
  BY DEF AtRest, Converged, Buildable, TypeOK
<1>2. \A r \in Children :
         /\ r \in Resources
         /\ child[r] /= Absent
         /\ child[r] \in Child
         /\ child[r].replicas \in Nat
         /\ r \in Deployments => child[r].replicas = DesiredReplicas(cluster, r)
  BY <1>1 DEF ChildConverged, TypeOK, Child, ResourcesAssumption
<1>3. child[w].replicas = cluster.workers
  BY <1>1, <1>2 DEF Deployments, DesiredReplicas
<1>4. cluster.workers /= Absent
  BY <1>1 DEF ResourcesAssumption
<1>5. ASSUME NEW m \in Managers
      PROVE  /\ CacheIsNewest(m)
             /\ cachedCluster[m] = cluster
             /\ \A r \in Resources : cachedChild[m][r] = View(child[r])
             /\ CachedAvailable(m) = cluster.workers
             /\ Idles(m)
  <2>1. CacheIsNewest(m) /\ Idles(m)
        /\ \A i \in ChildInformers : Delivered(m, i)
    BY DEF AtRest, InSync
  <2>2. cachedCluster[m] = cluster
    BY <2>1 DEF ServedInv, HoldsTruth
  <2>3. \A r \in Resources : \E i \in ChildInformers : r \in Watched(i)
    BY DEF Resources, ChildInformers, Watched, ConfigMaps, Deployments
  <2>4. \A r \in Resources : cachedChild[m][r] = View(child[r])
    BY <2>1, <2>3 DEF Delivered
  <2>5. CachedAvailable(m) = cluster.workers
    <3>1. /\ cachedChild[m][w] = [replicas  |-> child[w].replicas,
                                  available |-> child[w].available]
          /\ cachedChild[m][w] \in Seen
      BY <1>1, <1>2, <2>4 DEF View, Seen, Child
    <3>2. cachedChild[m][w] /= Absent
      BY <3>1 DEF OperatorAssumption
    <3> QED BY <1>1, <3>1, <3>2 DEF CachedAvailable
  <2> QED BY <2>1, <2>2, <2>4, <2>5
<1> QED BY <1>1, <1>2, <1>3, <1>4, <1>5 DEF AtRest

\* If neither the CR nor a child changes, and no cache goes back, all that
\* matters is that the one pass that may have gone on is still idle.
LEMMA RestKept ==
    ASSUME TypeOK, ServedInv, AtRest, NEW m \in Managers,
           UNCHANGED <<cluster, child>>,
           \A k \in Managers :
              /\ CacheIsNewest(k) => CacheIsNewest(k)'
              /\ \A r \in Resources :
                    cachedChild'[k][r] \in {cachedChild[k][r], View(child[r])},
           \A k \in Managers \ {m} :
              /\ pc'[k] = pc[k]
              /\ step'[k] = step[k]
              /\ inspectedCluster'[k] = inspectedCluster[k]
              /\ inspectedChild'[k] = inspectedChild[k],
           Idles(m)'
    PROVE  AtRest'
<1>1. \A k \in Managers : CacheIsNewest(k)'
  BY RestFacts
<1>2. \A k \in Managers : \A i \in ChildInformers : Delivered(k, i)'
  <2>1. \A i \in ChildInformers : Watched(i) \subseteq Resources
    BY DEF Resources, ChildInformers, Watched, ConfigMaps, Deployments
  <2>2. \A k \in Managers, r \in Resources :
           cachedChild'[k][r] = View(child[r])
    BY RestFacts
  <2> QED BY <2>1, <2>2 DEF Delivered, View
<1>3. \A k \in Managers \ {m} : Idles(k)'
  <2>1. \A k \in Managers : Idles(k)
    BY RestFacts
  <2> QED BY <2>1 DEF Idles, Remembered
<1>4. /\ (cluster /= Absent)'
      /\ Buildable'
      /\ Converged'
      /\ (\A r \in Resources : child[r] /= Absent => Owned(child[r]))'
  BY DEF AtRest, Buildable, Converged, ChildConverged, AsAsked, Owned
<1> QED BY <1>1, <1>2, <1>3, <1>4 DEF AtRest, InSync

\* At rest no pass plans a request or follows a nil pointer.
LEMMA NothingPlanned ==
    ASSUME TypeOK, ServedInv, AtChildInv, AtRest, NEW m \in Managers,
           pc[m] = "reconcile"
    PROVE  /\ ~SkipReconcile(m)
           /\ PlannedVerb(m) = "none"
           /\ ~ComparesNil(m)
<1> DEFINE r == Target(m)
<1>1. step[m] \in 1..5 /\ r \in Children
  BY DEF TypeOK, AtChildInv, AtChild, Target
<1>2. r \in Remembered(m)
  BY <1>1 DEF Remembered, Target, Done
<1>3. /\ inspectedCluster[m] = cluster
      /\ inspectedChild[m][r] = child[r].replicas
  BY <1>1, <1>2, RestFacts DEF Idles
<1>4. inspectedChild[m][r] \in Nat /\ inspectedChild[m][r] /= Absent
  BY <1>1, <1>3, RestFacts DEF ResourcesAssumption
<1>5. /\ cluster \in Cluster
      /\ r \in Resources
      /\ r \in Deployments => inspectedChild[m][r] = DesiredReplicas(cluster, r)
  BY <1>1, <1>3, RestFacts
<1>6. /\ DesiredTarget(m) /= Absent
      /\ DesiredTarget(m).replicas = DesiredReplicas(cluster, r)
  BY <1>3, <1>5, DesiredType DEF DesiredTarget
<1>7. ~NeedsUpdate(r, DesiredTarget(m), inspectedChild[m][r])
  BY <1>5, <1>6 DEF NeedsUpdate
<1>8. PlannedVerb(m) = "none"
  BY <1>4, <1>6, <1>7 DEF PlannedVerb, Verb
<1> QED BY <1>3, <1>8, RestFacts DEF SkipReconcile, ComparesNil

\* A pass at rest only looks, and finds nothing to write.
LEMMA PassKeepsRest ==
    ASSUME TypeOK, ServedInv, AtChildInv, AtRest, NEW m \in Managers,
           ReconcilePass(m), UNCHANGED disturbances
    PROVE  /\ UNCHANGED <<cluster, child, cachedChild>>
           /\ \A k \in Managers : CacheIsNewest(k) => CacheIsNewest(k)'
           /\ \A k \in Managers \ {m} :
                 /\ pc'[k] = pc[k]
                 /\ step'[k] = step[k]
                 /\ inspectedCluster'[k] = inspectedCluster[k]
                 /\ inspectedChild'[k] = inspectedChild[k]
           /\ Idles(m)'
<1> USE DEF apiVars, cacheVars
<1>1. /\ Idles(m)
      /\ step[m] \in 1..5
      /\ pc[m] \in {"idle", "inspectCluster", "inspect", "reconcile", "status"}
  BY RestFacts DEF Idles, TypeOK
<1>2. \A kind : ~Disturb(kind)
  BY DEF Disturb, TypeOK
<1>3. CASE Dequeue(m)
  BY <1>3 DEF Dequeue, Goto, Idles, Remembered, CacheIsNewest, TypeOK
<1>4. CASE InspectCluster(m)
  <2>1. PICK n \in NextSteps(InspectOrder, 0) : Goto(m, "inspect", n)
    BY <1>4 DEF InspectCluster
  <2>2. /\ pc'[m] = "inspect"
        /\ step'[m] = n
        /\ inspectedCluster'[m] = cluster
    BY <1>4, <2>1, RestFacts DEF InspectCluster, Goto, TypeOK
  <2>3. Remembered(m)' \cap Children = {}
    BY <2>2, NextStepsSkip DEF Remembered
  <2>4. Idles(m)'
    BY <1>4, <2>2, <2>3 DEF Idles, InspectCluster
  <2> QED BY <1>4, <2>1, <2>4 DEF InspectCluster, Goto, CacheIsNewest, TypeOK
<1>5. CASE InspectChild(m)
  <2> DEFINE r == InspectOrder[step[m]]
             seen == cachedChild[m][r]
  <2>1. PICK n \in NextSteps(InspectOrder, step[m]) :
               IF n < Done THEN Goto(m, "inspect", n)
               ELSE \E k \in NextSteps(ReconcileOrder, 0) :
                       Goto(m, "reconcile", k)
    BY <1>5 DEF InspectChild
  <2>2. /\ r \in Children
        /\ r \in Resources
    BY <1>1, <1>5, OrdersNameResources
       DEF InspectChild, AtChildInv, AtChild
  <2>3. inspectedChild'[m] = [inspectedChild[m] EXCEPT ![r] = child[r].replicas]
    <3>1. seen = View(child[r]) /\ child[r] /= Absent /\ child[r] \in Child
      BY <2>2, RestFacts DEF TypeOK
    <3>2. seen /= Absent /\ seen.replicas = child[r].replicas
      BY <3>1 DEF View, Child, Seen, OperatorAssumption
    <3> QED BY <1>5, <3>2 DEF InspectChild, TypeOK
  <2>4. ASSUME NEW q \in Children,
               \E i \in 1 .. n-1 : InspectOrder[i] = q
        PROVE  inspectedChild'[m][q] = child[q].replicas
    <3>1. q \in Resources
      BY DEF ResourcesAssumption
    <3>2. CASE q = r
      BY <2>2, <2>3, <3>2 DEF TypeOK
    <3>3. CASE q /= r
      <4>1. PICK i \in 1 .. n-1 : InspectOrder[i] = q
        BY <2>4
      <4>2. n \in step[m]+1 .. 6
            /\ \A j \in step[m]+1 .. n-1 : InspectOrder[j] \notin Children
        BY <1>1, NextStepsSkip
      <4>3. i \in 1 .. step[m]-1
        BY <1>1, <3>3, <4>1, <4>2
      <4>4. inspectedChild[m][q] = child[q].replicas
        BY <1>1, <1>5, <4>1, <4>3 DEF InspectChild, Idles, Remembered
      <4> QED BY <2>3, <3>1, <3>3, <4>4 DEF TypeOK
    <3> QED BY <3>2, <3>3
  <2>5. inspectedCluster'[m] = cluster
    BY <1>1, <1>5 DEF InspectChild, Idles
  <2>6. Idles(m)'
    <3>1. CASE n < Done
      <4>1. pc'[m] = "inspect" /\ step'[m] = n
        BY <2>1, <3>1 DEF Goto, TypeOK
      <4>2. \A q \in Remembered(m)' \cap Children :
               \E i \in 1 .. n-1 : InspectOrder[i] = q
        BY <4>1 DEF Remembered
      <4> QED BY <1>5, <2>4, <2>5, <4>1, <4>2 DEF Idles, InspectChild
    <3>2. CASE ~(n < Done)
      <4>1. pc'[m] = "reconcile"
        BY <2>1, <3>2 DEF Goto, TypeOK
      <4>2. n = 6
        BY <1>1, <3>2, NextStepsSkip DEF Done
      <4>3. \A q \in Children : \E i \in 1 .. n-1 : InspectOrder[i] = q
        BY <4>2, OrdersCover DEF ResourcesAssumption
      <4> QED BY <1>5, <2>4, <2>5, <4>1, <4>3 DEF Idles, InspectChild
    <3> QED BY <3>1, <3>2
  <2>7. \A k \in Managers \ {m} : pc'[k] = pc[k] /\ step'[k] = step[k]
    BY <2>1 DEF Goto, TypeOK
  <2>8. \A k \in Managers \ {m} : inspectedChild'[k] = inspectedChild[k]
    BY <1>5 DEF InspectChild, TypeOK
  <2> QED BY <1>5, <2>6, <2>7, <2>8 DEF InspectChild, CacheIsNewest
<1>6. CASE pc[m] = "reconcile"
  <2>1. ReconcileNoAction(m)
    BY <1>6, <1>2, NothingPlanned
       DEF ReconcilePass, Dequeue, InspectCluster, InspectChild, InspectFails,
           ReconcileGone, ReconcilePanics, ReconcileRequest,
           ReconcileRejected, ReconcileFails, Requests, StatusGone,
           DeriveStatus, DeriveStatusFails, DeriveStatusFrom, UpdateStatus,
           UpdateStatusRejected, UpdateStatusFails
  <2>2. PICK n \in NextSteps(ReconcileOrder, step[m]) :
               IF n < Done THEN Goto(m, "reconcile", n)
                           ELSE Goto(m, "status", 1)
    BY <2>1 DEF ReconcileNoAction, AfterChild
  <2>3. inspectedChild' = [inspectedChild EXCEPT ![m][Target(m)] = Absent]
        /\ inspectedCluster' = inspectedCluster
        /\ inspectedCluster[m] = cluster
        /\ UNCHANGED <<cluster, child, cachedChild, newest>>
    BY <1>1, <1>6, <2>1 DEF ReconcileNoAction, AfterChild, Idles
  <2>4. n \in step[m]+1 .. 6
    BY <1>1, NextStepsSkip
  <2>5. Idles(m)'
    <3>1. CASE n < Done
      <4>1. pc'[m] = "reconcile" /\ step'[m] = n
        BY <2>2, <3>1 DEF Goto, TypeOK
      <4>2. ASSUME NEW q \in Remembered(m)' \cap Children
            PROVE  inspectedChild'[m][q] = child[q].replicas
        <5>1. PICK i \in n .. 5 : q = ReconcileOrder[i]
          BY <4>1 DEF Remembered, Done
        <5>2. i \in step[m] .. 5 /\ i /= step[m] /\ i \in 1..5
          BY <1>1, <2>4, <5>1
        <5>3. q /= Target(m) /\ q \in Resources
          BY <1>1, <5>1, <5>2, OrdersCover, OrdersNameResources DEF Target
        <5>4. q \in Remembered(m)
          BY <1>6, <5>1, <5>2 DEF Remembered, Done
        <5>5. inspectedChild[m][q] = child[q].replicas
          BY <1>1, <5>4 DEF Idles
        <5> QED BY <2>3, <5>3, <5>5 DEF TypeOK
      <4> QED BY <2>3, <4>1, <4>2 DEF Idles
    <3>2. CASE ~(n < Done)
      <4>1. pc'[m] = "status"
        BY <2>2, <3>2 DEF Goto, TypeOK
      <4> QED BY <2>3, <4>1 DEF Idles, Remembered
    <3> QED BY <3>1, <3>2
  <2>6. \A k \in Managers \ {m} : pc'[k] = pc[k] /\ step'[k] = step[k]
    BY <2>2 DEF Goto, TypeOK
  <2> QED BY <2>3, <2>5, <2>6 DEF TypeOK, CacheIsNewest
<1>7. CASE DeriveStatus(m)
  <2>1. /\ inspectedCluster[m] = cluster
        /\ CachedAvailable(m) = cluster.workers
        /\ cluster.status = cluster.workers
        /\ cluster.workers /= Absent
    BY <1>1, <1>7, RestFacts DEF DeriveStatus, DeriveStatusFrom, Idles
  <2>2. /\ ReturnFromPass(m)
        /\ DropInspected(m)
        /\ UNCHANGED <<cluster, child, cachedChild>>
    BY <1>7, <2>1 DEF DeriveStatus, DeriveStatusFrom, StatusDiffers, FinishPass
  <2>3. pc'[m] = "idle"
    BY <2>2 DEF ReturnFromPass, TypeOK
  <2>4. Idles(m)'
    BY <2>3 DEF Idles, Remembered
  <2> QED BY <2>2, <2>4 DEF ReturnFromPass, DropInspected, CacheIsNewest,
                            TypeOK
<1>8. ~StatusGone(m)
  BY <1>1, RestFacts DEF StatusGone, Idles
<1> QED BY <1>1, <1>2, <1>3, <1>4, <1>5, <1>6, <1>7, <1>8
        DEF ReconcilePass, InspectFails, ReconcileGone, ReconcileNoAction,
            ReconcilePanics, ReconcileRequest, ReconcileRejected,
            ReconcileFails, Requests, DeriveStatusFails, UpdateStatus,
            UpdateStatusRejected, UpdateStatusFails

\* A restarted manager has fresh caches and no pass.
LEMMA RestartKeepsRest ==
    ASSUME TypeOK, ServedInv, AtRest, NEW m \in Managers, Restart(m)
    PROVE  AtRest' /\ UNCHANGED <<cluster, child>>
<1>1. pc'[m] = "idle"
  BY DEF Restart, ReturnFromPass, TypeOK
<1>2. Idles(m)'
  BY <1>1 DEF Idles, Remembered
<1>3. UNCHANGED <<cluster, child>>
  BY DEF Restart
<1>4. \A k \in Managers :
         /\ CacheIsNewest(k) => CacheIsNewest(k)'
         /\ \A r \in Resources :
               cachedChild'[k][r] \in {cachedChild[k][r], View(child[r])}
  BY DEF Restart, CacheIsNewest, TypeOK
<1>5. \A k \in Managers \ {m} :
         /\ pc'[k] = pc[k]
         /\ step'[k] = step[k]
         /\ inspectedCluster'[k] = inspectedCluster[k]
         /\ inspectedChild'[k] = inspectedChild[k]
  BY DEF Restart, ReturnFromPass, TypeOK
<1> QED BY <1>2, <1>3, <1>4, <1>5, RestKept

\* At rest nothing outside the managers happens but a disturbance.
LEMMA WorldKeepsRest ==
    ASSUME TypeOK, ServedInv, AtRest, UNCHANGED disturbances
    PROVE  ~(UserCreate \/ KubernetesStep \/ DisturbanceStep)
<1>1. \A kind : ~Disturb(kind)
  BY DEF Disturb, TypeOK
<1>2. ~KubernetesStep
  BY RestFacts DEF KubernetesStep, GarbageCollect, DeploymentProgress
<1> QED BY <1>1, <1>2, RestFacts
        DEF UserCreate, DisturbanceStep, UserEdit, UserDelete, PodFails,
            ExternalDelete, ExternalScale

LEMMA StepKeepsRest ==
    ASSUME TypeOK, ServedInv, AtChildInv, AtRest, Next, Undisturbed
    PROVE  AtRest' /\ UNCHANGED <<cluster, child>>
<1>1. ASSUME NEW m \in Managers, Restart(m)
      PROVE  AtRest' /\ UNCHANGED <<cluster, child>>
  BY <1>1, RestartKeepsRest
<1>2. ASSUME NEW m \in Managers, ReconcilePass(m), UNCHANGED disturbances
      PROVE  AtRest' /\ UNCHANGED <<cluster, child>>
  <2>1. \A k \in Managers, r \in Resources :
           cachedChild'[k][r] \in {cachedChild[k][r], View(child[r])}
    BY <1>2, PassKeepsRest
  <2> QED BY <1>2, <2>1, PassKeepsRest, RestKept
<1>3. ASSUME NEW m \in Managers, DelayElapsed(m) \/ Resync(m)
      PROVE  AtRest' /\ UNCHANGED <<cluster, child>>
  <2>1. UNCHANGED <<cluster, child, newest, cachedChild, pc, step,
                    inspectedCluster, inspectedChild>>
    BY <1>3 DEF DelayElapsed, Resync, apiVars, cacheVars, passVars
  <2>2. Idles(m)'
    <3>1. Idles(m)
      BY RestFacts
    <3> QED BY <2>1, <3>1 DEF Idles, Remembered
  <2> QED BY <2>1, <2>2, RestKept DEF CacheIsNewest
<1>4. ASSUME NEW m \in Managers
      PROVE  /\ ~SyncCluster(m)
             /\ \A i \in ChildInformers : ~SyncChildren(m, i)
             /\ ~Panic(m)
  BY RestFacts DEF AtRest, InSync, SyncCluster, SyncChildren, Panic, Idles
<1>5. CASE \E m \in Managers : Crash(m)
  BY <1>1, <1>5 DEF Crash
<1>6. CASE UNCHANGED disturbances
  BY <1>1, <1>2, <1>3, <1>4, <1>6, WorldKeepsRest
     DEF Next, ManagerStep, Crash
<1> QED BY <1>5, <1>6 DEF Undisturbed

(***************************************************************************)
(* RestIsStable: RestStays, for any number of managers: no undisturbed     *)
(* step leads away from rest, or writes anything there.                    *)
(***************************************************************************)
THEOREM RestIsStable == Spec => RestStays
<1>1. TypeOK /\ ServedInv /\ AtChildInv /\ [Next]_vars
         => [AtRest /\ Undisturbed
                => AtRest' /\ UNCHANGED <<cluster, child>>]_vars
  BY StepKeepsRest
<1> QED BY <1>1, TypeCorrect, ServedInvariant, WalkInvariant, PTL
        DEF Spec, RestStays

(***************************************************************************)
(* RestForGood: from rest on, and as long as nothing disturbs it, the CR   *)
(* and its children are and remain what is wanted, without end.            *)
(***************************************************************************)
THEOREM RestForGood == Spec => [](AtRest /\ [][Undisturbed]_vars => []AtRest)
<1>1. TypeOK /\ ServedInv /\ AtChildInv /\ AtRest /\ [Next]_vars
         /\ [Undisturbed]_vars => AtRest'
  <2>1. ASSUME AtRest, UNCHANGED vars
        PROVE  AtRest'
    <3>1. UNCHANGED <<cluster, newest, child, cachedChild, pc, step,
                      inspectedCluster, inspectedChild>>
      BY <2>1 DEF vars, apiVars, cacheVars, passVars
    <3>2. \A m \in Managers : Idles(m)'
      BY <2>1, <3>1 DEF AtRest, Idles, Remembered
    <3> QED BY <2>1, <3>1, <3>2
            DEF AtRest, Buildable, Converged, ChildConverged, AsAsked, Owned,
                InSync, CacheIsNewest, Delivered, View
  <2> QED BY <2>1, StepKeepsRest
<1> QED BY <1>1, TypeCorrect, ServedInvariant, WalkInvariant, PTL DEF Spec
=============================================================================
