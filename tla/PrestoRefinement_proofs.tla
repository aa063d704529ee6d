----------------------- MODULE PrestoRefinement_proofs -----------------------
(***************************************************************************)
(* PrestoOperator implements OperatorContract, for every instance.         *)
(***************************************************************************)
EXTENDS PrestoConverged_proofs, PrestoRefinement

USE ResourcesAssumption, OperatorAssumption

-----------------------------------------------------------------------------
\* Both modules take what a CR asks for from PrestoResources.
LEMMA SameVocabulary ==
    /\ Contract!Resources = Resources
    /\ Contract!Deployments = Deployments
    /\ \A cr, r : Contract!Desired(cr, r) = Desired(cr, r)
    /\ \A r, obj : Contract!Valid(r, obj) = Valid(r, obj)
<1>1. Contract!Resources = Resources /\ Contract!Deployments = Deployments
  BY DEF Contract!Resources, Resources, Contract!Deployments, Deployments
<1>2. \A cr, r : /\ Contract!DesiredReplicas(cr, r) = DesiredReplicas(cr, r)
                 /\ Contract!DesiredConfig(cr, r) = DesiredConfig(cr, r)
                 /\ Contract!OwnerReference(cr) = OwnerReference(cr)
  BY DEF Contract!DesiredReplicas, DesiredReplicas, Contract!DesiredConfig,
         DesiredConfig, Contract!OwnerReference, OwnerReference
<1>3. \A cr, r : Contract!Desired(cr, r) = Desired(cr, r)
  BY <1>2, Zenon DEF Contract!Desired, Desired
<1>4. \A r, obj : Contract!Valid(r, obj) = Valid(r, obj)
  BY <1>1, Zenon DEF Contract!Valid, Valid
<1> QED BY <1>1, <1>3, <1>4

\* A newest copy of the CR is first made by a cache, of the CR as it is.
LEMMA ReadFrame ==
    ASSUME TypeOK, NEW m \in Managers, ManagerStep(m), newest' /= {},
           newest = {}
    PROVE  cachedCluster'[m] = cluster
<1>1. ~ReconcilePass(m)
  BY DEF ReconcilePass, Dequeue, InspectCluster, InspectChild,
     InspectFails, ReconcileGone, ReconcileNoAction, ReconcilePanics,
     ReconcileRequest, ReconcileRejected, ReconcileFails, StatusGone,
     DeriveStatus, DeriveStatusFails, DeriveStatusFrom, UpdateStatus,
     UpdateStatusRejected, UpdateStatusFails, DropInspected, WriteStatus,
     NewVersion, CacheIsNewest, apiVars
<1> QED BY <1>1 DEF ManagerStep, SyncCluster, SyncChildren, DelayElapsed,
                    Resync, Crash, Panic, Restart, TypeOK, apiVars

\* Managers hold no version of the CR but those they held and the current one,
LEMMA ViewsFrame ==
    ASSUME TypeOK, NEW m \in Managers, ManagerStep(m)
    PROVE  /\ HeldViews' \subseteq HeldViews \cup Contract!Current
           /\ UNCHANGED cacheVars => HeldViews' \subseteq HeldViews
<1>1. \A k \in Managers :
         /\ cachedCluster'[k] \in {cachedCluster[k], cluster}
         /\ inspectedCluster'[k]
               \in {inspectedCluster[k], cachedCluster[k], Absent}
  BY ManagerFrame
<1> QED BY <1>1 DEF HeldViews, Contract!Current, cacheVars

\* and no count of workers but those they held and the current one.
LEMMA HeldCountsFrame ==
    ASSUME TypeOK, NEW m \in Managers, ManagerStep(m)
    PROVE  /\ HeldCounts' \subseteq HeldCounts \cup Contract!Counted
           /\ UNCHANGED cacheVars => HeldCounts' \subseteq HeldCounts
<1> DEFINE w == "workerDeployment"
<1>1. \A k \in Managers :
         newAvailable'[k] \in {newAvailable[k], 0, CachedAvailable(k)}
  BY CountsFrame
<1>2. ASSUME NEW k \in Managers
      PROVE  CachedAvailable(k)' \in {CachedAvailable(k)} \cup Contract!Counted
  <2>1. cachedChild'[k][w] \in {cachedChild[k][w], View(child[w])}
    BY SeenFrame DEF Resources
  <2> QED BY <2>1 DEF CachedAvailable, View, Contract!Counted
<1>3. UNCHANGED cacheVars =>
         \A k \in Managers : CachedAvailable(k)' = CachedAvailable(k)
  BY DEF cacheVars, CachedAvailable
<1> QED BY <1>1, <1>2, <1>3 DEF HeldCounts

\* An accepted request writes what the inspected version asks for.
LEMMA RequestKeepsContract ==
    ASSUME TypeOK, NEW m \in Managers, Requests(m), WriteTarget(m),
           UNCHANGED <<cluster, newest, lastUid, cacheVars, inspectedCluster,
                       newAvailable>>
    PROVE  Contract!Next
<1> DEFINE r == Target(m)
           v == inspectedCluster[m]
<1>1. r \in Resources /\ v \in HeldViews /\ v \in Cluster
  BY RequestBuilds DEF HeldViews, Requests, SkipReconcile
<1>2. UNCHANGED <<cluster, lastUid, HeldViews, HeldCounts, newest>>
  BY DEF cacheVars, HeldViews, HeldCounts, CachedAvailable
<1>3. Desired(v, r) /= Absent
  BY <1>1, DesiredType
<1>4. CASE PlannedVerb(m) = "create"
  <2>1. Contract!Creates(r)
    BY <1>1, <1>2, <1>4, SameVocabulary
       DEF Contract!Creates, WriteTarget, Accepted, Written, DesiredTarget
  <2> QED BY <1>1, <2>1, SameVocabulary DEF Contract!Next
<1>5. CASE PlannedVerb(m) = "update"
  <2>1. r \in Deployments
    BY <1>5 DEF PlannedVerb, Verb, NeedsUpdate
  <2>2. Contract!Updates(r)
    BY <1>1, <1>2, <1>5, SameVocabulary
       DEF Contract!Updates, WriteTarget, Accepted, Written, DesiredTarget
  <2> QED BY <2>1, <2>2, SameVocabulary DEF Contract!Next
<1>6. PlannedVerb(m) \in {"create", "update"}
  BY <1>3 DEF PlannedVerb, Verb, DesiredTarget, Requests
<1> QED BY <1>4, <1>5, <1>6

\* Every step of a manager is one of the contract.
LEMMA ManagerKeepsContract ==
    ASSUME TypeOK, NEW m \in Managers, ManagerStep(m)
    PROVE  Contract!Next
<1>1. UNCHANGED lastUid
  BY ManagerFrame
<1>2. CASE child' /= child
  <2>1. /\ Requests(m) /\ WriteTarget(m)
        /\ UNCHANGED <<cluster, newest, cacheVars, inspectedCluster,
                       newAvailable>>
    BY <1>2, ManagerFrame
  <2> QED BY <1>1, <2>1, RequestKeepsContract
<1>3. CASE cluster' /= cluster
  <2>1. WriteStatus(m) /\ UNCHANGED <<child, cacheVars>>
    BY <1>3, ManagerFrame
  <2>2. /\ cluster /= Absent /\ newest /= {} /\ newest' = {}
        /\ cluster' = [cluster EXCEPT !.status = newAvailable[m]]
    BY <2>1 DEF WriteStatus, StatusConflict, InspectedIsNewest, NewVersion
  <2>3. newAvailable[m] \in HeldCounts
    BY DEF HeldCounts
  <2>4. HeldViews' \subseteq HeldViews /\ HeldCounts' \subseteq HeldCounts
    BY <2>1, ViewsFrame, HeldCountsFrame
  <2>5. Contract!Reports
    BY <1>1, <2>1, <2>2, <2>3, <2>4 DEF Contract!Reports
  <2> QED BY <2>5 DEF Contract!Next
<1>4. CASE UNCHANGED <<cluster, child>>
  <2>1. newest' /= {} =>
           newest /= {} \/ Contract!Current \subseteq HeldViews'
    BY ReadFrame DEF Contract!Current, HeldViews
  <2>2. Contract!Recall
    BY <1>1, <1>4, <2>1, ViewsFrame, HeldCountsFrame DEF Contract!Recall
  <2> QED BY <2>2 DEF Contract!Next
<1> QED BY <1>2, <1>3, <1>4

\* So is every step of users and of Kubernetes.
LEMMA EnvironmentKeepsContract ==
    ASSUME TypeOK, UserCreate \/ KubernetesStep \/ DisturbanceStep
    PROVE  Contract!Next
<1> USE DEF cacheVars, passVars
<1>0. ASSUME UNCHANGED <<cacheVars, passVars>>
      PROVE  UNCHANGED <<HeldViews, HeldCounts>>
  BY <1>0 DEF HeldViews, HeldCounts, CachedAvailable
<1>1. CASE UserCreate
  BY <1>0, <1>1 DEF UserCreate, Contract!UserCreates, Contract!Next, NewVersion
<1>2. CASE UserEdit
  BY <1>0, <1>2 DEF UserEdit, Contract!UserEdits, Contract!Next, NewVersion
<1>3. CASE UserDelete
  BY <1>0, <1>3 DEF UserDelete, Contract!UserDeletes, Contract!Next, NewVersion
<1>4. ASSUME NEW r \in Resources, GarbageCollect(r) \/ ExternalDelete(r)
      PROVE  Contract!Next
  <2>1. Contract!ChildGoes(r)
    BY <1>0, <1>4 DEF GarbageCollect, ExternalDelete, Contract!ChildGoes
  <2> QED BY <2>1, SameVocabulary DEF Contract!Next
<1>5. ASSUME NEW r \in Deployments,
             UNCHANGED <<cluster, newest, lastUid, cacheVars, passVars>>,
             child[r] /= Absent,
             NEW d, child' = [child EXCEPT ![r] = d],
             \E n, a \in Nat :
                d = [child[r] EXCEPT !.replicas = n, !.available = a]
      PROVE  Contract!Next
  <2>1. r \in Resources /\ child[r] \in Child
    BY <1>5 DEF TypeOK, Resources, Deployments
  <2>2. child'[r] = d
    BY <1>5, <2>1 DEF TypeOK
  <2>3. child' = [child EXCEPT ![r].replicas  = d.replicas,
                               ![r].available = d.available]
    BY <1>5, <2>1 DEF Child, TypeOK
  <2>4. Contract!DeploymentChanges(r)
    BY <1>0, <1>5, <2>2, <2>3 DEF Contract!DeploymentChanges
  <2> QED BY <2>4, SameVocabulary DEF Contract!Next
<1>6. CASE DeploymentProgress
  <2> DEFINE w == "workerDeployment"
             a == IF child[w].available < child[w].replicas
                  THEN child[w].available + 1 ELSE child[w].available - 1
             d == [child[w] EXCEPT !.available = a]
  <2>1. w \in Deployments /\ child[w] \in Child
    BY <1>6 DEF DeploymentProgress, TypeOK, Resources, Deployments
  <2>0. /\ child[w].available \in Nat /\ child[w].replicas \in Nat
        /\ child[w].available /= child[w].replicas
    BY <1>6, <2>1 DEF DeploymentProgress, Child
  <2>2. a \in Nat /\ d = [child[w] EXCEPT !.replicas = child[w].replicas,
                                          !.available = a]
    <3>1. a \in Nat
      BY <2>0
    <3> QED BY <2>1, <3>1 DEF Child
  <2>3. child' = [child EXCEPT ![w] = d]
    BY <1>6, <2>1 DEF DeploymentProgress
  <2>4. child[w] /= Absent /\ child[w].replicas \in Nat
        /\ UNCHANGED <<cluster, newest, lastUid, cacheVars, passVars>>
    BY <1>6, <2>1 DEF DeploymentProgress, Child
  <2> QED BY <1>5, <2>1, <2>2, <2>3, <2>4
<1>7. CASE PodFails
  <2> DEFINE w == "workerDeployment"
             a == child[w].available - 1
             d == [child[w] EXCEPT !.available = a]
  <2>1. w \in Deployments /\ child[w] \in Child
    BY <1>7 DEF PodFails, TypeOK, Resources, Deployments
  <2>0. child[w].available \in Nat /\ child[w].available > 0
    BY <1>7, <2>1 DEF PodFails, Child
  <2>2. a \in Nat /\ d = [child[w] EXCEPT !.replicas = child[w].replicas,
                                          !.available = a]
    <3>1. a \in Nat
      BY <2>0
    <3> QED BY <2>1, <3>1 DEF Child
  <2>3. child' = [child EXCEPT ![w] = d]
    BY <1>7, <2>1 DEF PodFails
  <2>4. child[w] /= Absent /\ child[w].replicas \in Nat
        /\ UNCHANGED <<cluster, newest, lastUid, cacheVars, passVars>>
    BY <1>7, <2>1 DEF PodFails, Child
  <2> QED BY <1>5, <2>1, <2>2, <2>3, <2>4
<1>8. ASSUME NEW r \in Deployments, ExternalScale(r)
      PROVE  Contract!Next
  <2>1. child[r] \in Child
    BY <1>8 DEF ExternalScale, TypeOK, Resources, Deployments
  <2>2. PICK n \in Nat : child' = [child EXCEPT ![r].replicas = n]
    BY <1>8 DEF ExternalScale
  <2> DEFINE d == [child[r] EXCEPT !.replicas = n]
  <2>3. d = [child[r] EXCEPT !.replicas = n,
                             !.available = child[r].available]
        /\ child[r].available \in Nat
    BY <2>1 DEF Child
  <2>4. child' = [child EXCEPT ![r] = d]
    BY <2>2
  <2>5. child[r] /= Absent
        /\ UNCHANGED <<cluster, newest, lastUid, cacheVars, passVars>>
    BY <1>8 DEF ExternalScale
  <2> QED BY <1>5, <2>3, <2>4, <2>5
<1> QED BY <1>1, <1>2, <1>3, <1>4, <1>6, <1>7, <1>8
        DEF KubernetesStep, DisturbanceStep

(***************************************************************************)
(* ContractKept: every behaviour of the operator is, as far as the API     *)
(* shows it, one that the contract allows.                                 *)
(***************************************************************************)
THEOREM ContractKept == Spec => KeepsContract
<1>1. Init => Contract!Init
  <2> SUFFICES ASSUME Init
               PROVE  Contract!Init
    OBVIOUS
  <2>1. newest /= {}
    <3>1. PICK m \in Managers : TRUE
      BY DEF OperatorAssumption
    <3>2. <<"cache", m>> \in newest
      BY <3>1 DEF Init
    <3> QED BY <3>2
  <2>2. \A m \in Managers :
           /\ cachedCluster[m] = Absent /\ inspectedCluster[m] = Absent
           /\ CachedAvailable(m) = 0 /\ newAvailable[m] = 0
    BY DEF Init, CachedAvailable, NoChildren, Resources
  <2>3. HeldViews = {} /\ HeldCounts = {0}
    BY <2>2 DEF HeldViews, HeldCounts
  <2> QED BY <2>1, <2>3, SameVocabulary DEF Init, Contract!Init, NoChildren
<1>2. TypeOK /\ [Next]_vars => [Contract!Next]_(Contract!vars)
  <2>1. CASE UNCHANGED vars
    BY <2>1 DEF vars, apiVars, cacheVars, passVars, Contract!vars, HeldViews,
                HeldCounts, CachedAvailable
  <2> QED BY <2>1, ManagerKeepsContract, EnvironmentKeepsContract DEF Next
<1> QED BY <1>1, <1>2, TypeCorrect, PTL DEF Spec, KeepsContract, Contract!Spec
=============================================================================
