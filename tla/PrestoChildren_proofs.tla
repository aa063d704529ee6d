------------------------ MODULE PrestoChildren_proofs ------------------------
(***************************************************************************)
(* Theorems about what the operator does to the children of a CR, on top   *)
(* of the type theorem of PrestoOperator_proofs.                           *)
(***************************************************************************)
EXTENDS PrestoOperator_proofs

USE ResourcesAssumption, OperatorAssumption

-----------------------------------------------------------------------------
(***************************************************************************)
(* What the steps may do to the children                                   *)
(***************************************************************************)
\* A child that is there is not absent.
LEMMA ChildIsThere ==
    ASSUME NEW c \in Child
    PROVE  c /= Absent
<1>1. c \in Objects
  BY DEF Child, Objects
<1> QED BY <1>1 DEF ResourcesAssumption

\* An accepted request of a pass with a CR creates or replaces one child, as
\* that CR's own.
LEMMA RequestBuilds ==
    ASSUME TypeOK, NEW m \in Managers, Requests(m), WriteTarget(m)
    PROVE  /\ Target(m) \in Resources
           /\ inspectedCluster[m] \in Cluster
           /\ \A r \in Resources \ {Target(m)} : child'[r] = child[r]
           /\ child'[Target(m)] /= Absent
           /\ child'[Target(m)].owner = inspectedCluster[m].uid
           /\ child'[Target(m)].config
                 = DesiredConfig(inspectedCluster[m], Target(m))
           /\ child'[Target(m)].replicas
                 = DesiredReplicas(inspectedCluster[m], Target(m))
           /\ Valid(Target(m), child'[Target(m)])
<1> DEFINE r == Target(m)
           d == DesiredTarget(m)
           v == PlannedVerb(m)
<1>1. r \in Resources
  BY OrdersNameResources DEF Target, TypeOK
<1>2. inspectedCluster[m] \in Cluster
  BY DEF TypeOK, Requests, SkipReconcile
<1>3. /\ d = [owner     |-> inspectedCluster[m].uid,
              config    |-> DesiredConfig(inspectedCluster[m], r),
              replicas  |-> DesiredReplicas(inspectedCluster[m], r),
              available |-> 0]
      /\ d /= Absent
      /\ Valid(r, d) => d \in Child
  BY <1>1, <1>2, DesiredType DEF DesiredTarget
<1>4. v \in {"create", "update"}
  BY <1>3 DEF PlannedVerb, Verb, Requests
<1>5. d \in Child /\ Valid(r, d)
  BY <1>3, <1>4 DEF WriteTarget, Accepted
<1>6. /\ Written(r, v, d) \in Child
      /\ Written(r, v, d).owner = d.owner
      /\ Written(r, v, d).config = d.config
      /\ Written(r, v, d).replicas = d.replicas
  <2>1. CASE v = "create"
    BY <2>1, <1>5 DEF Written
  <2>2. CASE v = "update"
    <3>1. child[r] \in Child
      BY <2>2, <1>1 DEF WriteTarget, Accepted, TypeOK
    <3> QED BY <2>2, <3>1, <1>5 DEF Written, Child
  <2> QED BY <1>4, <2>1, <2>2
<1>7. child' = [child EXCEPT ![r] = Written(r, v, d)]
  BY DEF WriteTarget
<1>8. child'[r] = Written(r, v, d)
      /\ \A q \in Resources \ {r} : child'[q] = child[q]
  BY <1>1, <1>7 DEF TypeOK
<1>9. Valid(r, child'[r])
  BY <1>5, <1>6, <1>8 DEF Valid
<1> QED BY <1>1, <1>2, <1>3, <1>6, <1>8, <1>9, ChildIsThere DEF Target

\* What a manager may do to anything outside its own pass: a request for its
\* current child, or a status, never both; and its copies of the CR only ever
\* come from the API to the cache and from the cache to the pass.
LEMMA ManagerFrame ==
    ASSUME TypeOK, NEW m \in Managers, ManagerStep(m)
    PROVE  /\ UNCHANGED lastUid
           /\ \/ UNCHANGED child
              \/ /\ Requests(m)
                 /\ WriteTarget(m)
                 /\ UNCHANGED <<cluster, newest, cacheVars, inspectedCluster,
                                newAvailable>>
           /\ \/ UNCHANGED cluster
              \/ WriteStatus(m) /\ UNCHANGED <<child, cacheVars>>
           /\ \A k \in Managers :
                 /\ cachedCluster'[k] \in {cachedCluster[k], cluster}
                 /\ inspectedCluster'[k]
                       \in {inspectedCluster[k], cachedCluster[k], Absent}
<1> USE DEF apiVars, cacheVars, passVars
<1>1. CASE ReconcilePass(m)
  <2>1. UNCHANGED <<lastUid, cachedCluster>>
    BY <1>1 DEF ReconcilePass, Dequeue, InspectCluster, InspectChild,
       InspectFails, ReconcileGone, ReconcileNoAction, ReconcilePanics,
       ReconcileRequest, ReconcileRejected, ReconcileFails, StatusGone,
       DeriveStatus, DeriveStatusFails, DeriveStatusFrom, UpdateStatus,
       UpdateStatusRejected, UpdateStatusFails
  <2>2. /\ \/ UNCHANGED child
           \/ /\ Requests(m)
              /\ WriteTarget(m)
              /\ UNCHANGED <<cluster, newest, cacheVars, inspectedCluster,
                             newAvailable>>
        /\ \/ UNCHANGED cluster
           \/ WriteStatus(m) /\ UNCHANGED <<child, cacheVars>>
    BY <1>1 DEF ReconcilePass, Dequeue, InspectCluster, InspectChild,
       InspectFails, ReconcileGone, ReconcileNoAction, ReconcilePanics,
       ReconcileRequest, ReconcileRejected, ReconcileFails, StatusGone,
       DeriveStatus, DeriveStatusFails, DeriveStatusFrom, UpdateStatus,
       UpdateStatusRejected, UpdateStatusFails
  <2>3. \A k \in Managers :
           inspectedCluster'[k]
             \in {inspectedCluster[k], cachedCluster[k], Absent}
    BY <1>1 DEF ReconcilePass, Dequeue, InspectCluster, InspectChild,
       InspectFails, ReconcileGone, ReconcileNoAction, ReconcilePanics,
       ReconcileRequest, ReconcileRejected, ReconcileFails, StatusGone,
       DeriveStatus, DeriveStatusFails, DeriveStatusFrom, FinishPass,
       UpdateStatus, UpdateStatusRejected, UpdateStatusFails, ReturnFromPass,
       TypeOK
  <2> QED BY <2>1, <2>2, <2>3
<1>2. CASE Restart(m)
  BY <1>2 DEF Restart, ReturnFromPass, TypeOK
<1>3. CASE ~ReconcilePass(m) /\ ~Restart(m)
  BY <1>3 DEF ManagerStep, SyncCluster, SyncChildren, DelayElapsed, Resync,
              Crash, Panic, TypeOK
<1> QED BY <1>1, <1>2, <1>3

\* What the Deployment controller, a failing pod or somebody with kubectl
\* scale does to a Deployment leaves it there, its owner's.
LEMMA DeploymentsStay ==
    ASSUME TypeOK,
           \/ DeploymentProgress
           \/ PodFails
           \/ \E r \in Deployments : ExternalScale(r)
    PROVE  \A r \in Resources :
              /\ child[r] = Absent <=> child'[r] = Absent
              /\ child[r] /= Absent =>
                    /\ child'[r].owner = child[r].owner
                    /\ child'[r].config = child[r].config
                    /\ \/ child'[r].replicas = child[r].replicas
                       \/ \E q \in Deployments : ExternalScale(q)
<1> DEFINE w == "workerDeployment"
<1>1. w \in Resources /\ Deployments \subseteq Resources
  BY DEF Resources, Deployments
<1>2. ASSUME NEW q \in Resources, child[q] /= Absent,
             \A r \in Resources \ {q} : child'[r] = child[r],
             child'[q].owner = child[q].owner,
             child'[q].config = child[q].config,
             \/ child'[q].replicas = child[q].replicas
             \/ \E s \in Deployments : ExternalScale(s),
             child'[q] \in Child
      PROVE  \A r \in Resources :
                /\ child[r] = Absent <=> child'[r] = Absent
                /\ child[r] /= Absent =>
                      /\ child'[r].owner = child[r].owner
                      /\ child'[r].config = child[r].config
                      /\ \/ child'[r].replicas = child[r].replicas
                         \/ \E s \in Deployments : ExternalScale(s)
  BY <1>2, ChildIsThere
<1>3. CASE DeploymentProgress \/ PodFails
  <2>1. /\ child[w] \in Child
        /\ child[w] /= Absent
        /\ \A r \in Resources \ {w} : child'[r] = child[r]
    BY <1>1, <1>3 DEF DeploymentProgress, PodFails, TypeOK
  <2>2. PICK a \in Nat : child' = [child EXCEPT ![w].available = a]
    <3>1. CASE DeploymentProgress
      <4> DEFINE b == IF child[w].available < child[w].replicas
                      THEN child[w].available + 1
                      ELSE child[w].available - 1
      <4>1. b \in Nat
        BY <2>1, <3>1 DEF DeploymentProgress, Child
      <4>2. child' = [child EXCEPT ![w].available = b]
        BY <3>1 DEF DeploymentProgress
      <4> QED BY <4>1, <4>2
    <3>2. CASE PodFails
      <4>1. child[w].available - 1 \in Nat
        BY <2>1, <3>2 DEF PodFails, Child
      <4>2. child' = [child EXCEPT ![w].available = child[w].available - 1]
        BY <3>2 DEF PodFails
      <4> QED BY <4>1, <4>2
    <3> QED BY <1>3, <3>1, <3>2
  <2>3. child'[w] = [child[w] EXCEPT !.available = a]
    BY <1>1, <2>2 DEF TypeOK
  <2>4. /\ child'[w].owner = child[w].owner
        /\ child'[w].config = child[w].config
        /\ child'[w].replicas = child[w].replicas
        /\ child'[w] \in Child
    BY <2>1, <2>3 DEF Child
  <2> QED BY <1>1, <1>2, <2>1, <2>4
<1>4. ASSUME NEW q \in Deployments, ExternalScale(q)
      PROVE  \A r \in Resources :
                /\ child[r] = Absent <=> child'[r] = Absent
                /\ child[r] /= Absent =>
                      /\ child'[r].owner = child[r].owner
                      /\ child'[r].config = child[r].config
                      /\ \/ child'[r].replicas = child[r].replicas
                         \/ \E s \in Deployments : ExternalScale(s)
  <2>1. /\ q \in Resources
        /\ child[q] \in Child
        /\ child[q] /= Absent
    BY <1>1, <1>4 DEF ExternalScale, TypeOK
  <2>2. PICK n \in Nat : child' = [child EXCEPT ![q].replicas = n]
    BY <1>4 DEF ExternalScale
  <2>3. child'[q] = [child[q] EXCEPT !.replicas = n]
        /\ \A r \in Resources \ {q} : child'[r] = child[r]
    BY <2>1, <2>2 DEF TypeOK
  <2>4. /\ child'[q].owner = child[q].owner
        /\ child'[q].config = child[q].config
        /\ child'[q] \in Child
    BY <2>1, <2>2, <2>3 DEF Child
  <2> QED BY <1>2, <1>4, <2>1, <2>3, <2>4
<1> QED BY <1>3, <1>4
-----------------------------------------------------------------------------
(***************************************************************************)
(* LiveChildrenSafe: whatever managers see in their caches, they never     *)
(* take away a child of the CR that exists now; only somebody else's       *)
(* deletion does.                                                          *)
(***************************************************************************)
THEOREM LiveChildrenSafe == Spec => LiveChildNeverLost
<1> DEFINE Safe ==
             \A r \in Resources :
                /\ child[r] /= Absent
                /\ Owned(child[r])
                /\ child'[r] = Absent
                => ExternalDelete(r)
<1>1. TypeOK /\ [Next]_vars => [Safe]_vars
  <2> SUFFICES ASSUME TypeOK, Next PROVE Safe
    OBVIOUS
  <2>1. ASSUME NEW m \in Managers, ManagerStep(m)
        PROVE  Safe
    BY <2>1, ManagerFrame, RequestBuilds
  <2>2. CASE UserCreate \/ UserEdit \/ UserDelete
    BY <2>2 DEF UserCreate, UserEdit, UserDelete
  <2>3. ASSUME NEW q \in Resources, GarbageCollect(q)
        PROVE  Safe
    BY <2>3 DEF GarbageCollect, TypeOK
  <2>4. ASSUME NEW q \in Resources, ExternalDelete(q)
        PROVE  Safe
    BY <2>4 DEF ExternalDelete, TypeOK
  <2>5. CASE \/ DeploymentProgress
             \/ PodFails
             \/ \E q \in Deployments : ExternalScale(q)
    BY <2>5, DeploymentsStay
  <2> QED BY <2>1, <2>2, <2>3, <2>4, <2>5
          DEF Next, KubernetesStep, DisturbanceStep
<1> QED BY <1>1, TypeCorrect, PTL DEF Spec, LiveChildNeverLost

-----------------------------------------------------------------------------
(***************************************************************************)
(* The order in which children come to exist                               *)
(***************************************************************************)
\* The inductive invariant:
\* while nobody deletes anything there is one CR at most and every child
\* is its own, so children stay; whatever was once seen of them is there; and
\* a pass has built or found all it has gone past.
OneIncarnation ==
    /\ cluster = Absent => lastUid = 0
    /\ cluster /= Absent => cluster.uid = lastUid
    /\ \A r \in Resources : child[r] /= Absent => child[r].owner = lastUid
    /\ \A m \in Managers :
          /\ cachedCluster[m] /= Absent => cachedCluster[m].uid = lastUid
          /\ inspectedCluster[m] /= Absent => inspectedCluster[m].uid = lastUid

SeenExists ==
    \A m \in Managers, r \in Resources :
        cachedChild[m][r] /= Absent \/ inspectedChild[m][r] /= Absent
            => child[r] /= Absent

BuiltSoFar(m) ==
    pc[m] = "reconcile" /\ ~SkipReconcile(m) =>
        \A i \in 1 .. step[m]-1 :
            ReconcileOrder[i] \in Children => child[ReconcileOrder[i]] /= Absent

OrderInv ==
    NothingIsDeleted =>
        /\ OneIncarnation
        /\ SeenExists
        /\ \A m \in Managers : BuiltSoFar(m)
        /\ DependencyOrder

\* What must be there before a child comes earlier in reconcile()'s order.
LEMMA PrerequisitesComeFirst ==
    ASSUME NEW k \in 1..5, NEW p \in Prerequisites(ReconcileOrder[k])
    PROVE  \E i \in 1 .. k-1 : ReconcileOrder[i] = p
<1>1. CASE k \in {1, 2, 4}
  BY <1>1 DEF Prerequisites, ReconcileOrder
<1>2. CASE k = 3
  <2>1. p \in {ReconcileOrder[1], ReconcileOrder[2]}
    BY <1>2 DEF Prerequisites, ReconcileOrder, ConfigMaps
  <2> QED BY <1>2, <2>1
<1>3. CASE k = 5
  <2>1. p \in {ReconcileOrder[1], ReconcileOrder[2], ReconcileOrder[3],
               ReconcileOrder[4]}
    BY <1>3 DEF Prerequisites, ReconcileOrder, ConfigMaps
  <2> QED BY <1>3, <2>1
<1> QED BY <1>1, <1>2, <1>3

\* With one incarnation every child is the CR's, and nobody takes it away.
LEMMA ChildrenStay ==
    ASSUME TypeOK, OneIncarnation, NothingIsDeleted, [Next]_vars,
           NEW r \in Resources, child[r] /= Absent
    PROVE  child'[r] /= Absent
<1>1. Owned(child[r])
  <2>1. child[r].owner = lastUid /\ child[r].owner /= 0
    BY DEF OneIncarnation, TypeOK, Child
  <2> QED BY <2>1 DEF OneIncarnation, Owned
<1>2. ASSUME NEW m \in Managers, ManagerStep(m)
      PROVE  child'[r] /= Absent
  BY <1>2, ManagerFrame, RequestBuilds
<1>3. CASE UserCreate \/ UserEdit \/ UserDelete
  BY <1>3 DEF UserCreate, UserEdit, UserDelete
<1>4. ASSUME NEW q \in Resources, GarbageCollect(q) \/ ExternalDelete(q)
      PROVE  child'[r] /= Absent
  BY <1>1, <1>4 DEF GarbageCollect, ExternalDelete, Disturb, NothingIsDeleted,
                    TypeOK
<1>5. CASE \/ DeploymentProgress
           \/ PodFails
           \/ \E q \in Deployments : ExternalScale(q)
  BY <1>5, DeploymentsStay
<1>6. CASE UNCHANGED vars
  BY <1>6 DEF vars, apiVars
<1> QED BY <1>2, <1>3, <1>4, <1>5, <1>6
        DEF Next, KubernetesStep, DisturbanceStep

\* All the CRs a manager has ever seen, and all its children, carry one uid.
LEMMA OneIncarnationStays ==
    ASSUME TypeOK, OneIncarnation, NothingIsDeleted, [Next]_vars
    PROVE  OneIncarnation'
<1> USE DEF apiVars, cacheVars, queueVars, passVars
<1>1. ASSUME NEW m \in Managers, Requests(m), WriteTarget(m),
             UNCHANGED <<cluster, lastUid, cachedCluster, inspectedCluster>>
      PROVE  OneIncarnation'
  <2>1. /\ child'[Target(m)].owner = lastUid
        /\ \A r \in Resources \ {Target(m)} : child'[r] = child[r]
    BY <1>1, RequestBuilds DEF OneIncarnation, Requests, SkipReconcile
  <2> QED BY <1>1, <2>1 DEF OneIncarnation
<1>2. ASSUME NEW m \in Managers, UNCHANGED <<child, lastUid>>,
             cluster' = cluster \/ WriteStatus(m),
             \A k \in Managers :
                /\ cachedCluster'[k] \in {cachedCluster[k], cluster}
                /\ inspectedCluster'[k]
                      \in {inspectedCluster[k], cachedCluster[k], Absent}
      PROVE  OneIncarnation'
  <2>1. /\ cluster' = Absent => lastUid = 0
        /\ cluster' /= Absent => cluster'.uid = lastUid
    <3>1. CASE cluster' = cluster
      BY <1>2, <3>1 DEF OneIncarnation
    <3>2. CASE WriteStatus(m)
      <4>1. cluster \in Cluster /\ cluster' \in Cluster
        BY <3>2, WriteStatusType DEF WriteStatus, StatusConflict, TypeOK
      <4>2. cluster'.uid = cluster.uid
        BY <3>2, <4>1 DEF WriteStatus, Cluster
      <4> QED BY <1>2, <4>1, <4>2 DEF OneIncarnation, OperatorAssumption
    <3> QED BY <1>2, <3>1, <3>2
  <2> QED BY <1>2, <2>1 DEF OneIncarnation
<1>3. ASSUME NEW m \in Managers, ManagerStep(m)
      PROVE  OneIncarnation'
  <2>1. CASE UNCHANGED child
    BY <1>2, <1>3, <2>1, ManagerFrame
  <2>2. CASE ~UNCHANGED child
    BY <1>1, <1>3, <2>2, ManagerFrame
  <2> QED BY <2>1, <2>2
<1>4. CASE UserCreate
  <2>1. /\ \A r \in Resources : child[r] = Absent
        /\ \A m \in Managers : cachedCluster[m] = Absent
                              /\ inspectedCluster[m] = Absent
    <3>1. lastUid = 0
      BY <1>4 DEF UserCreate, OneIncarnation
    <3> QED BY <3>1 DEF OneIncarnation, TypeOK, Child, Cluster
  <2>2. cluster' /= Absent /\ cluster'.uid = lastUid'
    <3>1. cluster' \in Cluster /\ cluster'.uid = lastUid'
      BY <1>4 DEF UserCreate, Specs, Cluster, TypeOK
    <3> QED BY <3>1 DEF OperatorAssumption
  <2> QED BY <1>4, <2>1, <2>2 DEF UserCreate, OneIncarnation
<1>5. CASE UserEdit
  <2>1. cluster' \in Cluster /\ cluster'.uid = cluster.uid
    BY <1>5 DEF UserEdit, Specs, Cluster, TypeOK
  <2>2. cluster' /= Absent
    BY <2>1 DEF OperatorAssumption
  <2> QED BY <1>5, <2>1, <2>2 DEF UserEdit, OneIncarnation
<1>6. CASE \/ UserDelete
           \/ \E r \in Resources : ExternalDelete(r)
  BY <1>6 DEF UserDelete, ExternalDelete, Disturb, NothingIsDeleted
<1>7. ASSUME NEW r \in Resources, GarbageCollect(r)
      PROVE  OneIncarnation'
  BY <1>7 DEF GarbageCollect, OneIncarnation, TypeOK
<1>8. CASE \/ DeploymentProgress
           \/ PodFails
           \/ \E r \in Deployments : ExternalScale(r)
  <2>1. UNCHANGED <<cluster, lastUid, cachedCluster, inspectedCluster>>
    BY <1>8 DEF DeploymentProgress, PodFails, ExternalScale
  <2> QED BY <1>8, <2>1, DeploymentsStay DEF OneIncarnation
<1>9. CASE UNCHANGED vars
  BY <1>9 DEF vars, OneIncarnation
<1> QED BY <1>3, <1>4, <1>5, <1>6, <1>7, <1>8, <1>9
        DEF Next, KubernetesStep, DisturbanceStep

\* The cache of children moves on to what is in the API; what a pass keeps of
\* a child comes from the cache.
LEMMA SeenFrame ==
    ASSUME TypeOK, NEW k \in Managers, ManagerStep(k),
           NEW m \in Managers, NEW r \in Resources
    PROVE  /\ cachedChild'[m][r] \in {cachedChild[m][r], View(child[r])}
           /\ \/ inspectedChild'[m][r] \in {inspectedChild[m][r], Absent}
              \/ cachedChild[m][r] /= Absent
<1> USE DEF cacheVars, queueVars, passVars
<1>1. CASE InspectChild(k)
  BY <1>1 DEF InspectChild, TypeOK
<1>2. CASE AfterChild(k) /\ UNCHANGED cachedChild
  BY <1>2 DEF AfterChild, TypeOK
<1>3. CASE EndReconcile(k) /\ UNCHANGED cachedChild
  BY <1>3 DEF EndReconcile, NoChildren, TypeOK
<1>4. CASE ReturnFromPass(k) /\ UNCHANGED cachedChild
  BY <1>4 DEF ReturnFromPass, NoChildren, TypeOK
<1>5. CASE UNCHANGED <<cachedChild, inspectedChild>>
  BY <1>5
<1>6. CASE Restart(k)
  BY <1>6 DEF Restart, ReturnFromPass, NoChildren, TypeOK
<1>7. ASSUME NEW i \in ChildInformers, SyncChildren(k, i)
      PROVE  /\ cachedChild'[m][r] \in {cachedChild[m][r], View(child[r])}
             /\ inspectedChild'[m][r] = inspectedChild[m][r]
  BY <1>7 DEF SyncChildren, TypeOK
<1>8. CASE GotoPanic(k) /\ UNCHANGED cachedChild
  BY <1>8 DEF GotoPanic, NoChildren, TypeOK
<1> QED BY <1>1, <1>2, <1>3, <1>4, <1>5, <1>6, <1>7, <1>8
        DEF ManagerStep, ReconcilePass, Dequeue, InspectCluster,
            InspectFails, ReconcileGone, ReconcileNoAction,
            ReconcilePanics, ReconcileRequest, ReconcileRejected,
            ReconcileFails, StatusGone, DeriveStatus, DeriveStatusFails,
            DeriveStatusFrom, FinishPass, UpdateStatus,
            UpdateStatusRejected, UpdateStatusFails, SyncCluster,
            DelayElapsed, Resync, Crash, Panic

\* What was seen of a child, in a cache or by a pass, is there.
LEMMA SeenExistsStays ==
    ASSUME TypeOK, OneIncarnation, SeenExists, NothingIsDeleted, [Next]_vars
    PROVE  SeenExists'
<1> USE DEF cacheVars, queueVars, passVars
<1>1. \A r \in Resources : child[r] /= Absent => child'[r] /= Absent
  BY ChildrenStay
<1>2. SUFFICES ASSUME NEW m \in Managers, NEW r \in Resources
               PROVE  /\ cachedChild'[m][r] /= Absent => child'[r] /= Absent
                      /\ inspectedChild'[m][r] /= Absent => child'[r] /= Absent
  BY DEF SeenExists
<1>3. ASSUME NEW k \in Managers, ManagerStep(k)
      PROVE  /\ cachedChild'[m][r] \in {cachedChild[m][r], View(child[r])}
             /\ \/ inspectedChild'[m][r] \in {inspectedChild[m][r], Absent}
                \/ cachedChild[m][r] /= Absent
  BY <1>3, SeenFrame
<1>4. ASSUME UNCHANGED <<cachedChild, inspectedChild>>
      PROVE  /\ cachedChild'[m][r] /= Absent => child'[r] /= Absent
             /\ inspectedChild'[m][r] /= Absent => child'[r] /= Absent
  BY <1>1, <1>4 DEF SeenExists
<1>5. UserCreate \/ KubernetesStep \/ DisturbanceStep \/ UNCHANGED vars
      => UNCHANGED <<cachedChild, inspectedChild>>
  BY DEF UserCreate, UserEdit, UserDelete, KubernetesStep, DisturbanceStep,
         GarbageCollect, DeploymentProgress, PodFails, ExternalDelete,
         ExternalScale, vars
<1> QED BY <1>1, <1>3, <1>4, <1>5 DEF Next, SeenExists, View

\* Every child a pass has gone past is there, built or found.
LEMMA BuiltSoFarStays ==
    ASSUME TypeOK, OneIncarnation, SeenExists, NothingIsDeleted, [Next]_vars,
           NEW m \in Managers, BuiltSoFar(m)
    PROVE  BuiltSoFar(m)'
<1> USE DEF apiVars, cacheVars, queueVars, passVars
<1>1. \A r \in Resources : child[r] /= Absent => child'[r] /= Absent
  BY ChildrenStay
<1>2. CASE UNCHANGED <<pc[m], step[m], inspectedCluster[m]>>
  <2>1. step[m] \in 1..5
    BY DEF TypeOK
  <2>2. \A i \in 1 .. step[m]-1 : ReconcileOrder[i] \in Resources
    BY <2>1, OrdersNameResources
  <2> QED BY <1>1, <1>2, <2>2 DEF BuiltSoFar, SkipReconcile
<1>3. CASE pc'[m] /= "reconcile"
  BY <1>3 DEF BuiltSoFar
<1>4. ASSUME AfterChild(m), child'[Target(m)] /= Absent,
             pc[m] = "reconcile", UNCHANGED inspectedCluster
      PROVE  BuiltSoFar(m)'
  <2>1. step[m] \in 1..5
    BY DEF TypeOK
  <2>2. PICK n \in NextSteps(ReconcileOrder, step[m]) :
                IF n < Done THEN Goto(m, "reconcile", n)
                            ELSE Goto(m, "status", 1)
    BY <1>4 DEF AfterChild
  <2>3. CASE n < Done
    <3>1. n \in 1..5 /\ step'[m] = n
      BY <2>1, <2>2, <2>3, NextStepsType DEF Goto, TypeOK
    <3>2. ASSUME NEW i \in 1 .. n-1, ReconcileOrder[i] \in Children,
                 ~SkipReconcile(m)
          PROVE  child'[ReconcileOrder[i]] /= Absent
      <4>1. CASE i < step[m]
        <5>1. child[ReconcileOrder[i]] /= Absent
          BY <1>4, <2>1, <3>2, <4>1 DEF BuiltSoFar
        <5>2. ReconcileOrder[i] \in Resources
          BY <2>1, <4>1, OrdersNameResources
        <5> QED BY <1>1, <5>1, <5>2
      <4>2. CASE i = step[m]
        BY <1>4, <4>2 DEF Target
      <4>3. CASE i > step[m]
        BY <2>1, <3>1, <3>2, <4>3 DEF NextSteps
      <4> QED BY <2>1, <3>1, <4>1, <4>2, <4>3
    <3> QED BY <1>4, <3>1, <3>2 DEF BuiltSoFar, SkipReconcile
  <2>4. CASE ~(n < Done)
    BY <2>2, <2>4 DEF Goto, BuiltSoFar, TypeOK
  <2> QED BY <2>3, <2>4
<1>5. CASE ReconcileNoAction(m)
  <2>1. Target(m) \in Resources
    BY OrdersNameResources DEF Target, TypeOK
  <2>2. DesiredTarget(m) /= Absent
    BY <1>5, <2>1, DesiredType
       DEF ReconcileNoAction, SkipReconcile, DesiredTarget, TypeOK
  <2>3. inspectedChild[m][Target(m)] /= Absent
    BY <1>5, <2>2 DEF ReconcileNoAction, PlannedVerb, Verb
  <2>4. child'[Target(m)] /= Absent
    BY <1>1, <2>1, <2>3 DEF SeenExists
  <2> QED BY <1>4, <1>5, <2>4 DEF ReconcileNoAction
<1>6. CASE ReconcileRequest(m)
  BY <1>4, <1>6, RequestBuilds DEF ReconcileRequest, Requests
<1>7. CASE InspectChild(m)
  <2>1. PICK n \in NextSteps(InspectOrder, step[m]) :
               IF n < Done THEN Goto(m, "inspect", n)
               ELSE \E k \in NextSteps(ReconcileOrder, 0) :
                       Goto(m, "reconcile", k)
    BY <1>7 DEF InspectChild
  <2>2. CASE n < Done
    BY <2>1, <2>2 DEF Goto, BuiltSoFar, TypeOK
  <2>3. CASE ~(n < Done)
    <3>1. PICK k \in NextSteps(ReconcileOrder, 0) : Goto(m, "reconcile", k)
      BY <2>1, <2>3
    <3>2. step'[m] = k /\ \A i \in 1 .. k-1 : ReconcileOrder[i] \notin Children
      BY <3>1 DEF Goto, NextSteps, TypeOK
    <3> QED BY <3>2 DEF BuiltSoFar
  <2> QED BY <2>2, <2>3
<1>8. ASSUME NEW k \in Managers, ManagerStep(k), k /= m
      PROVE  UNCHANGED <<pc[m], step[m], inspectedCluster[m]>>
  BY <1>8 DEF ManagerStep, ReconcilePass, Dequeue, InspectCluster,
     InspectChild, InspectFails, ReconcileGone, ReconcileNoAction,
     ReconcilePanics, ReconcileRequest, ReconcileRejected, ReconcileFails,
     StatusGone, DeriveStatus, DeriveStatusFails, DeriveStatusFrom,
     FinishPass, UpdateStatus, UpdateStatusRejected, UpdateStatusFails,
     SyncCluster, SyncChildren, DelayElapsed, Resync, Crash, Panic, Restart,
     AfterChild, EndReconcile, GotoPanic, ReturnFromPass, Goto, TypeOK
<1>9. CASE ManagerStep(m)
  <2>1. \/ pc'[m] /= "reconcile"
        \/ InspectChild(m)
        \/ ReconcileNoAction(m)
        \/ ReconcileRequest(m)
        \/ UNCHANGED <<pc, step, inspectedCluster>>
    BY <1>9 DEF ManagerStep, ReconcilePass, Dequeue, InspectCluster,
       InspectFails, ReconcileGone, ReconcilePanics, ReconcileRejected,
       ReconcileFails, StatusGone, DeriveStatus, DeriveStatusFails,
       DeriveStatusFrom, FinishPass, UpdateStatus, UpdateStatusRejected,
       UpdateStatusFails, SyncCluster, SyncChildren, DelayElapsed, Resync,
       Crash, Panic, Restart, EndReconcile, GotoPanic, ReturnFromPass, Goto,
       TypeOK
  <2> QED BY <1>2, <1>3, <1>5, <1>6, <1>7, <2>1
<1>10. CASE UserCreate \/ KubernetesStep \/ DisturbanceStep \/ UNCHANGED vars
  BY <1>2, <1>10 DEF UserCreate, UserEdit, UserDelete, KubernetesStep,
     DisturbanceStep, GarbageCollect, DeploymentProgress, PodFails,
     ExternalDelete, ExternalScale, vars
<1> QED BY <1>2, <1>8, <1>9, <1>10 DEF Next

\* So nothing is created before what it needs.
LEMMA DependencyOrderStays ==
    ASSUME TypeOK, OrderInv, NothingIsDeleted, [Next]_vars
    PROVE  DependencyOrder'
<1>1. \A r \in Resources : child[r] /= Absent => child'[r] /= Absent
  BY ChildrenStay DEF OrderInv
<1>2. Children \subseteq Resources
  BY DEF ResourcesAssumption
<1>3. ASSUME NEW r \in Resources, child'[r] /= Absent,
             NEW p \in Prerequisites(r) \cap Children
      PROVE  child'[p] /= Absent
  <2>1. CASE child[r] /= Absent
    BY <1>1, <1>2, <1>3, <2>1 DEF OrderInv, DependencyOrder
  <2>2. ASSUME NEW m \in Managers, Requests(m), WriteTarget(m), r = Target(m)
        PROVE  child'[p] /= Absent
    <3>1. step[m] \in 1..5 /\ r = ReconcileOrder[step[m]]
      BY <2>2 DEF TypeOK, Target
    <3>2. PICK i \in 1 .. step[m]-1 : ReconcileOrder[i] = p
      BY <3>1, PrerequisitesComeFirst
    <3>3. child[p] /= Absent
      BY <2>2, <3>2 DEF OrderInv, BuiltSoFar, Requests
    <3> QED BY <1>1, <1>2, <3>3
  <2>3. \/ child'[r] = child[r]
        \/ child[r] = Absent <=> child'[r] = Absent
        \/ \E m \in Managers : Requests(m) /\ WriteTarget(m) /\ r = Target(m)
    <3>1. ASSUME NEW m \in Managers, ManagerStep(m)
          PROVE  child'[r] = child[r]
                 \/ (Requests(m) /\ WriteTarget(m) /\ r = Target(m))
      BY <3>1, ManagerFrame, RequestBuilds
    <3>2. CASE UserCreate \/ UserEdit \/ UserDelete \/ UNCHANGED vars
      BY <3>2 DEF UserCreate, UserEdit, UserDelete, vars, apiVars
    <3>3. ASSUME NEW q \in Resources, GarbageCollect(q) \/ ExternalDelete(q)
          PROVE  child'[r] = child[r]
      BY <1>3, <3>3 DEF GarbageCollect, ExternalDelete, TypeOK
    <3>4. CASE \/ DeploymentProgress
               \/ PodFails
               \/ \E q \in Deployments : ExternalScale(q)
      BY <3>4, DeploymentsStay
    <3> QED BY <3>1, <3>2, <3>3, <3>4
            DEF Next, KubernetesStep, DisturbanceStep
  <2> QED BY <1>3, <2>1, <2>2, <2>3
<1> QED BY <1>3 DEF DependencyOrder

\* OrderInv holds in every reachable state.
THEOREM OrderInvariant == Spec => []OrderInv
<1>1. Init => OrderInv
  <2> SUFFICES ASSUME Init PROVE OrderInv
    OBVIOUS
  <2>1. \A r \in Resources : child[r] = Absent
    BY DEF Init, NoChildren
  <2>2. OneIncarnation /\ SeenExists
    BY <2>1 DEF Init, NoChildren, OneIncarnation, SeenExists
  <2>3. \A m \in Managers : BuiltSoFar(m)
    BY DEF Init, BuiltSoFar
  <2> QED BY <2>1, <2>2, <2>3 DEF OrderInv, DependencyOrder
<1>2. TypeOK /\ OrderInv /\ [Next]_vars => OrderInv'
  <2> SUFFICES ASSUME TypeOK, OrderInv, [Next]_vars PROVE OrderInv'
    OBVIOUS
  <2>1. CASE NothingIsDeleted
    <3>1. OneIncarnation' /\ SeenExists'
      BY <2>1, OneIncarnationStays, SeenExistsStays DEF OrderInv
    <3>2. \A m \in Managers : BuiltSoFar(m)'
      BY <2>1, BuiltSoFarStays DEF OrderInv
    <3>3. DependencyOrder'
      BY <2>1, DependencyOrderStays
    <3> QED BY <3>1, <3>2, <3>3 DEF OrderInv
  <2>2. CASE ~NothingIsDeleted
    BY <2>2 DEF OrderInv, NothingIsDeleted
  <2> QED BY <2>1, <2>2
<1> QED BY <1>1, <1>2, TypeCorrect, PTL DEF Spec

(***************************************************************************)
(* BuiltInOrder: as long as nobody deletes anything, no child exists       *)
(* before the children it needs, whatever requests fail, however many      *)
(* managers there are, and wherever they crash.                            *)
(***************************************************************************)
THEOREM BuiltInOrder == Spec => []DependencyOrder
<1>1. OrderInv => DependencyOrder
  BY DEF OrderInv, DependencyOrder
<1> QED BY <1>1, OrderInvariant, PTL
=============================================================================
