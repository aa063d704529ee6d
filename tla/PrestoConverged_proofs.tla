------------------------ MODULE PrestoConverged_proofs ------------------------
(***************************************************************************)
(* Theorems about whose the children are, what they hold, and what a quiet *)
(* operator has built, on top of those of PrestoChildren_proofs.           *)
(***************************************************************************)
EXTENDS PrestoChildren_proofs

USE ResourcesAssumption, OperatorAssumption

-----------------------------------------------------------------------------
(***************************************************************************)
(* Whose the children are                                                  *)
(***************************************************************************)
\* The inductive invariant:
\* uids are never used again, and under a single manager they only grow
\* from child to inspected to cached CR.
UidsGrow ==
    /\ cluster /= Absent => cluster.uid = lastUid
    /\ \A r \in Resources : child[r] /= Absent => child[r].owner <= lastUid
    /\ \A m \in Managers :
          /\ cachedCluster[m] /= Absent => cachedCluster[m].uid <= lastUid
          /\ inspectedCluster[m] /= Absent => inspectedCluster[m].uid <= lastUid

UidsAgree(m) ==
    /\ cachedCluster[m] /= Absent =>
          \A r \in Resources :
              child[r] /= Absent => child[r].owner <= cachedCluster[m].uid
    /\ inspectedCluster[m] /= Absent =>
          /\ \A r \in Resources :
                child[r] /= Absent => child[r].owner <= inspectedCluster[m].uid
          /\ cachedCluster[m] /= Absent =>
                inspectedCluster[m].uid <= cachedCluster[m].uid

UidInv ==
    /\ UidsGrow
    /\ (\A m, n \in Managers : m = n) => \A m \in Managers : UidsAgree(m)

\* A CR that is there is not absent, and a new one carries the next uid.
LEMMA ClusterIsThere ==
    ASSUME NEW c \in Cluster
    PROVE  c /= Absent
BY DEF OperatorAssumption

LEMMA UserCreates ==
    ASSUME TypeOK, UserCreate
    PROVE  /\ cluster' \in Cluster
           /\ cluster' /= Absent
           /\ cluster'.uid = lastUid'
           /\ lastUid' = lastUid + 1
<1>1. cluster' \in Cluster /\ cluster'.uid = lastUid'
  BY DEF UserCreate, Specs, Cluster, TypeOK
<1> QED BY <1>1, ClusterIsThere DEF UserCreate

\* Neither an edit nor a written status changes who the CR is.
LEMMA ClusterKeepsUid ==
    ASSUME TypeOK, UserEdit \/ \E m \in Managers : WriteStatus(m)
    PROVE  cluster \in Cluster /\ cluster' \in Cluster /\ cluster'.uid = cluster.uid
<1>1. CASE UserEdit
  BY <1>1 DEF UserEdit, Specs, Cluster, TypeOK
<1>2. ASSUME NEW m \in Managers, WriteStatus(m)
      PROVE  cluster \in Cluster /\ cluster' \in Cluster /\ cluster'.uid = cluster.uid
  <2>1. cluster \in Cluster /\ cluster' \in Cluster
    BY <1>2, WriteStatusType DEF WriteStatus, StatusConflict, TypeOK
  <2>2. cluster' = [cluster EXCEPT !.status = newAvailable[m]]
    BY <1>2 DEF WriteStatus
  <2> QED BY <2>1, <2>2 DEF Cluster
<1> QED BY <1>1, <1>2

\* What is neither a step of a manager nor a new CR leaves the uids alone.
LEMMA OthersKeepUids ==
    ASSUME TypeOK, KubernetesStep \/ DisturbanceStep \/ UNCHANGED vars
    PROVE  /\ UNCHANGED <<lastUid, cachedCluster, inspectedCluster>>
           /\ cluster' /= Absent =>
                 cluster /= Absent /\ cluster'.uid = cluster.uid
           /\ \A r \in Resources :
                 child'[r] /= Absent =>
                    child[r] /= Absent /\ child'[r].owner = child[r].owner
<1> USE DEF cacheVars, passVars, queueVars
<1>1. CASE UserEdit \/ UserDelete
  BY <1>1, ClusterKeepsUid, ClusterIsThere DEF UserEdit, UserDelete
<1>2. ASSUME NEW q \in Resources, GarbageCollect(q) \/ ExternalDelete(q)
      PROVE  /\ UNCHANGED <<cluster, lastUid, cachedCluster, inspectedCluster>>
             /\ \A r \in Resources : child'[r] \in {child[r], Absent}
  BY <1>2 DEF GarbageCollect, ExternalDelete, TypeOK
<1>3. CASE \/ DeploymentProgress
           \/ PodFails
           \/ \E r \in Deployments : ExternalScale(r)
  <2>1. UNCHANGED <<cluster, lastUid, cachedCluster, inspectedCluster>>
    BY <1>3 DEF DeploymentProgress, PodFails, ExternalScale
  <2> QED BY <1>3, <2>1, DeploymentsStay
<1>4. CASE UNCHANGED vars
  BY <1>4 DEF vars, apiVars
<1> QED BY <1>1, <1>2, <1>3, <1>4 DEF KubernetesStep, DisturbanceStep

\* Uids are never used again: everybody's copy of the CR is an older one or
\* the one in the API, for any number of managers.
LEMMA UidsGrowStay ==
    ASSUME TypeOK, UidsGrow, [Next]_vars
    PROVE  UidsGrow'
<1>0. /\ lastUid \in Nat
      /\ \A r \in Resources : child[r] /= Absent => child[r].owner \in Nat
      /\ \A m \in Managers :
            /\ cachedCluster[m] /= Absent => cachedCluster[m].uid \in Nat
            /\ inspectedCluster[m] /= Absent => inspectedCluster[m].uid \in Nat
  BY DEF TypeOK, Child, Cluster
<1>1. ASSUME NEW m \in Managers, ManagerStep(m)
      PROVE  UidsGrow'
  <2>1. cluster' /= Absent => cluster'.uid = lastUid
    BY <1>1, ManagerFrame, ClusterKeepsUid, ClusterIsThere DEF UidsGrow
  <2>2. \A r \in Resources :
           child'[r] /= Absent =>
               \/ child[r] /= Absent /\ child'[r].owner = child[r].owner
               \/ /\ inspectedCluster[m] /= Absent
                  /\ child'[r].owner = inspectedCluster[m].uid
    BY <1>1, ManagerFrame, RequestBuilds, ClusterIsThere
  <2>3. \A k \in Managers :
           /\ cachedCluster'[k] \in {cachedCluster[k], cluster}
           /\ inspectedCluster'[k]
                 \in {inspectedCluster[k], cachedCluster[k], Absent}
    BY <1>1, ManagerFrame
  <2>4. lastUid' = lastUid
    BY <1>1, ManagerFrame
  <2> QED BY <1>0, <2>1, <2>2, <2>3, <2>4 DEF UidsGrow
<1>2. CASE UserCreate
  BY <1>0, <1>2, UserCreates DEF UserCreate, cacheVars, passVars, UidsGrow
<1>3. CASE KubernetesStep \/ DisturbanceStep \/ UNCHANGED vars
  BY <1>3, OthersKeepUids DEF UidsGrow
<1> QED BY <1>1, <1>2, <1>3 DEF Next

\* The only manager never lags behind the owner of a child, nor does its pass.
LEMMA UidsAgreeStay ==
    ASSUME TypeOK, UidsGrow, [Next]_vars, NEW m \in Managers, UidsAgree(m),
           \A k \in Managers : k = m
    PROVE  UidsAgree(m)'
<1>0. /\ lastUid \in Nat
      /\ \A r \in Resources : child[r] /= Absent => child[r].owner \in Nat
      /\ cachedCluster[m] /= Absent => cachedCluster[m].uid \in Nat
      /\ inspectedCluster[m] /= Absent => inspectedCluster[m].uid \in Nat
  BY DEF TypeOK, Child, Cluster
<1>1. CASE ManagerStep(m)
  <2>1. /\ cachedCluster'[m] \in {cachedCluster[m], cluster}
        /\ inspectedCluster'[m]
              \in {inspectedCluster[m], cachedCluster[m], Absent}
    BY <1>1, ManagerFrame
  <2>2. CASE UNCHANGED child
    BY <1>0, <2>1, <2>2 DEF UidsAgree, UidsGrow
  <2>3. CASE ~UNCHANGED child
    <3>1. /\ Requests(m) /\ WriteTarget(m)
          /\ UNCHANGED <<lastUid, cachedCluster, inspectedCluster>>
      BY <1>1, <2>3, ManagerFrame DEF cacheVars
    <3>2. /\ inspectedCluster[m] /= Absent
          /\ child'[Target(m)].owner = inspectedCluster[m].uid
          /\ \A r \in Resources \ {Target(m)} : child'[r] = child[r]
      BY <3>1, RequestBuilds, ClusterIsThere
    <3> QED BY <1>0, <3>1, <3>2 DEF UidsAgree
  <2> QED BY <2>2, <2>3
<1>2. CASE UserCreate
  BY <1>0, <1>2 DEF UserCreate, cacheVars, passVars, UidsAgree
<1>3. CASE KubernetesStep \/ DisturbanceStep \/ UNCHANGED vars
  <2>1. /\ UNCHANGED <<lastUid, cachedCluster, inspectedCluster>>
        /\ \A r \in Resources :
              child'[r] /= Absent =>
                  child[r] /= Absent /\ child'[r].owner = child[r].owner
    BY <1>3, OthersKeepUids
  <2> QED BY <2>1 DEF UidsAgree
<1> QED BY <1>1, <1>2, <1>3 DEF Next

\* UidInv holds in every reachable state.
THEOREM UidsNeverReused == Spec => []UidInv
<1>1. Init => UidInv
  BY DEF Init, UidInv, UidsGrow, UidsAgree, NoChildren
<1>2. TypeOK /\ UidInv /\ [Next]_vars => UidInv'
  BY UidsGrowStay, UidsAgreeStay DEF UidInv
<1> QED BY <1>1, <1>2, TypeCorrect, PTL DEF Spec

(***************************************************************************)
(* ChildrenStayWithCR: under a single manager a child of the CR stays its  *)
(* own as long as nobody else deletes it: an unconditional Update of a     *)
(* pass that works on an older CR of the same name cannot reach it.        *)
(***************************************************************************)
THEOREM ChildrenStayWithCR == Spec => ChildStaysWithCR
<1> DEFINE One == \A m, n \in Managers : m = n
           Stays == One =>
             \A r \in Resources :
                /\ child[r] /= Absent
                /\ Owned(child[r])
                => \/ child'[r] /= Absent /\ child'[r].owner = child[r].owner
                   \/ ExternalDelete(r)
<1>1. TypeOK /\ UidInv /\ [Next]_vars => [Stays]_vars
  <2> SUFFICES ASSUME TypeOK, UidInv, Next, One,
                      NEW r \in Resources, child[r] /= Absent,
                      Owned(child[r]), ~ExternalDelete(r)
               PROVE  child'[r] /= Absent /\ child'[r].owner = child[r].owner
    OBVIOUS
  <2>1. ASSUME NEW m \in Managers, ManagerStep(m)
        PROVE  child'[r] /= Absent /\ child'[r].owner = child[r].owner
    <3>1. CASE UNCHANGED child
      BY <3>1
    <3>2. CASE ~UNCHANGED child /\ r /= Target(m)
      BY <2>1, <3>2, ManagerFrame, RequestBuilds
    <3>3. CASE ~UNCHANGED child /\ r = Target(m)
      <4>1. /\ child'[r] /= Absent
            /\ inspectedCluster[m] /= Absent
            /\ child'[r].owner = inspectedCluster[m].uid
        BY <2>1, <3>3, ManagerFrame, RequestBuilds, ClusterIsThere
      <4>2. /\ child[r].owner = lastUid
            /\ child[r].owner <= inspectedCluster[m].uid
            /\ inspectedCluster[m].uid <= lastUid
        BY <4>1 DEF UidInv, UidsGrow, UidsAgree, Owned
      <4>3. lastUid \in Nat /\ inspectedCluster[m].uid \in Nat
        BY <4>1 DEF TypeOK, Cluster
      <4> QED BY <4>1, <4>2, <4>3
    <3> QED BY <3>1, <3>2, <3>3
  <2>2. CASE UserCreate \/ UserEdit \/ UserDelete
    BY <2>2 DEF UserCreate, UserEdit, UserDelete
  <2>3. ASSUME NEW q \in Resources, GarbageCollect(q)
        PROVE  child'[r] = child[r]
    BY <2>3 DEF GarbageCollect, TypeOK
  <2>4. ASSUME NEW q \in Resources, ExternalDelete(q)
        PROVE  child'[r] = child[r]
    BY <2>4 DEF ExternalDelete, TypeOK
  <2>5. CASE \/ DeploymentProgress
             \/ PodFails
             \/ \E q \in Deployments : ExternalScale(q)
    BY <2>5, DeploymentsStay
  <2> QED BY <2>1, <2>2, <2>3, <2>4, <2>5
          DEF Next, KubernetesStep, DisturbanceStep
<1> QED BY <1>1, TypeCorrect, UidsNeverReused, PTL DEF Spec, ChildStaysWithCR

-----------------------------------------------------------------------------
(***************************************************************************)
(* What they hold                                                          *)
(***************************************************************************)
\* The inductive invariant:
\* as long as the CR has not been edited, every copy that carries its uid asks
\* for its configuration, be it in a cache or in a pass; so does every child.
CopiesAsAsked ==
    cluster /= Absent /\ ~cluster.edited =>
        \A m \in Managers : \A cr \in {cachedCluster[m], inspectedCluster[m]} :
            cr /= Absent /\ cr.uid = cluster.uid => cr.config = cluster.config

AskedInv == CopiesAsAsked /\ OwnedAsAsked

\* The configuration of a CR only changes when it is edited.
LEMMA WrittenStatusKeepsSpec ==
    ASSUME TypeOK, NEW m \in Managers, WriteStatus(m)
    PROVE  /\ cluster /= Absent
           /\ cluster' /= Absent
           /\ cluster'.uid = cluster.uid
           /\ cluster'.config = cluster.config
           /\ cluster'.edited = cluster.edited
<1>1. cluster \in Cluster /\ cluster' \in Cluster
  BY WriteStatusType DEF WriteStatus, StatusConflict, TypeOK
<1>2. cluster' = [cluster EXCEPT !.status = newAvailable[m]]
  BY DEF WriteStatus
<1> QED BY <1>1, <1>2, ClusterIsThere DEF Cluster

\* A step of a manager carries the configuration of a copy on to another copy
\* or into a child, along with the uid.
LEMMA ManagerKeepsAsked ==
    ASSUME TypeOK, AskedInv, NEW m \in Managers, ManagerStep(m)
    PROVE  AskedInv'
<1>1. /\ cluster' /= Absent <=> cluster /= Absent
      /\ cluster /= Absent => /\ cluster'.uid = cluster.uid
                              /\ cluster'.config = cluster.config
                              /\ cluster'.edited = cluster.edited
  <2>1. CASE cluster' = cluster
    BY <2>1
  <2>2. CASE WriteStatus(m)
    BY <2>2, WrittenStatusKeepsSpec
  <2> QED BY <2>1, <2>2, ManagerFrame
<1>2. CopiesAsAsked'
  <2>1. \A k \in Managers :
           /\ cachedCluster'[k] \in {cachedCluster[k], cluster}
           /\ inspectedCluster'[k]
                 \in {inspectedCluster[k], cachedCluster[k], Absent}
    BY ManagerFrame
  <2> QED BY <1>1, <2>1 DEF AskedInv, CopiesAsAsked
<1>3. OwnedAsAsked'
  <2> SUFFICES ASSUME NEW r \in Resources, child'[r] /= Absent,
                      cluster' /= Absent, child'[r].owner = cluster'.uid,
                      ~cluster'.edited
               PROVE  child'[r].config = DesiredConfig(cluster', r)
    BY DEF OwnedAsAsked, Owned, AsAsked
  <2>1. CASE child'[r] = child[r]
    BY <1>1, <2>1 DEF AskedInv, OwnedAsAsked, Owned, AsAsked, DesiredConfig
  <2>2. CASE child'[r] /= child[r]
    <3>1. /\ inspectedCluster[m] \in Cluster
          /\ child'[r].owner = inspectedCluster[m].uid
          /\ child'[r].config = DesiredConfig(inspectedCluster[m], r)
      BY <2>2, ManagerFrame, RequestBuilds
    <3>2. inspectedCluster[m].config = cluster.config
      BY <1>1, <3>1, ClusterIsThere DEF AskedInv, CopiesAsAsked
    <3> QED BY <1>1, <3>1, <3>2 DEF DesiredConfig
  <2> QED BY <2>1, <2>2
<1> QED BY <1>2, <1>3 DEF AskedInv

\* No copy and no child carries the uid of a CR that is just created.
LEMMA UserCreateKeepsAsked ==
    ASSUME TypeOK, UidsGrow, UserCreate
    PROVE  AskedInv'
<1>1. cluster'.uid = lastUid + 1 /\ lastUid \in Nat
  BY UserCreates DEF TypeOK
<1>2. \A m \in Managers :
         /\ cachedCluster'[m] /= Absent => cachedCluster'[m].uid <= lastUid
         /\ inspectedCluster'[m] /= Absent
               => inspectedCluster'[m].uid <= lastUid
  BY DEF UserCreate, cacheVars, passVars, UidsGrow
<1>3. \A r \in Resources : child'[r] /= Absent => child'[r].owner <= lastUid
  BY DEF UserCreate, UidsGrow
<1>4. lastUid + 1 > lastUid /\ ~(lastUid + 1 <= lastUid)
  BY <1>1
<1>5. CopiesAsAsked'
  BY <1>1, <1>2, <1>4 DEF CopiesAsAsked
<1>6. OwnedAsAsked'
  BY <1>1, <1>3, <1>4 DEF OwnedAsAsked, Owned
<1> QED BY <1>5, <1>6 DEF AskedInv

\* Everybody else leaves the configuration of CR, copies and children alone,
\* or edits the CR.
LEMMA OthersKeepAsked ==
    ASSUME TypeOK, AskedInv, KubernetesStep \/ DisturbanceStep \/ UNCHANGED vars
    PROVE  AskedInv'
<1> USE DEF cacheVars, passVars, queueVars
<1>1. CASE UserEdit
  <2>1. cluster'.edited
    BY <1>1 DEF UserEdit, TypeOK, Cluster
  <2> QED BY <2>1 DEF AskedInv, CopiesAsAsked, OwnedAsAsked, AsAsked
<1>2. CASE UserDelete
  BY <1>2 DEF UserDelete, AskedInv, CopiesAsAsked, OwnedAsAsked, Owned
<1>3. ASSUME UNCHANGED <<cluster, cachedCluster, inspectedCluster>>,
             \A r \in Resources :
                child'[r] /= Absent =>
                    /\ child[r] /= Absent
                    /\ child'[r].owner = child[r].owner
                    /\ child'[r].config = child[r].config
      PROVE  AskedInv'
  BY <1>3 DEF AskedInv, CopiesAsAsked, OwnedAsAsked, Owned, AsAsked,
              DesiredConfig
<1>4. ASSUME NEW q \in Resources, GarbageCollect(q) \/ ExternalDelete(q)
      PROVE  AskedInv'
  <2>1. \A r \in Resources : child'[r] \in {child[r], Absent}
    BY <1>4 DEF GarbageCollect, ExternalDelete, TypeOK
  <2>2. UNCHANGED <<cluster, cachedCluster, inspectedCluster>>
    BY <1>4 DEF GarbageCollect, ExternalDelete
  <2> QED BY <1>3, <2>1, <2>2
<1>5. CASE \/ DeploymentProgress
           \/ PodFails
           \/ \E r \in Deployments : ExternalScale(r)
  <2>1. UNCHANGED <<cluster, cachedCluster, inspectedCluster>>
    BY <1>5 DEF DeploymentProgress, PodFails, ExternalScale
  <2> QED BY <1>3, <1>5, <2>1, DeploymentsStay
<1>6. CASE UNCHANGED vars
  BY <1>3, <1>6 DEF vars, apiVars
<1> QED BY <1>1, <1>2, <1>4, <1>5, <1>6 DEF KubernetesStep, DisturbanceStep

\* AskedInv holds in every reachable state.
THEOREM AskedInvariant == Spec => []AskedInv
<1>1. Init => AskedInv
  BY DEF Init, AskedInv, CopiesAsAsked, OwnedAsAsked, Owned
<1>2. TypeOK /\ UidInv /\ AskedInv /\ [Next]_vars => AskedInv'
  BY ManagerKeepsAsked, UserCreateKeepsAsked, OthersKeepAsked
     DEF UidInv, Next
<1> QED BY <1>1, <1>2, TypeCorrect, UidsNeverReused, PTL DEF Spec

(***************************************************************************)
(* OwnedIsAsAsked: a child that names a CR as its owner holds what this CR *)
(* asked for and not what an older one of the same name did, as long as    *)
(* the CR is not edited, for any number of managers: although they build   *)
(* from copies that may be of a deleted CR and one Update may hand a child *)
(* from one CR to another, uid and configuration are never parted.         *)
(***************************************************************************)
THEOREM OwnedIsAsAsked == Spec => []OwnedAsAsked
BY AskedInvariant, PTL DEF AskedInv

-----------------------------------------------------------------------------
(***************************************************************************)
(* What a quiet operator has built                                         *)
(***************************************************************************)
\* The inductive invariant:
\* every copy of the CR asks for what it asks for, every child is just
\* that, and a count of workers that is not 0 was read from a Deployment, which
\* is built last.
SameSpec ==
    /\ \A m \in Managers : \A cr \in {cachedCluster[m], inspectedCluster[m]} :
          cr /= Absent => /\ cr.workers = cluster.workers
                          /\ cr.config = cluster.config
    /\ \A r \in Resources :
          child[r] /= Absent =>
              /\ child[r].replicas = DesiredReplicas(cluster, r)
              /\ child[r].config = DesiredConfig(cluster, r)
              /\ Valid(r, child[r])

CountedWorkers ==
    \/ child["workerDeployment"] /= Absent
    \/ /\ cluster /= Absent => cluster.status = 0
       /\ \A m \in Managers : newAvailable[m] = 0

SpecInv ==
    /\ SpecHolds => SameSpec
    /\ NothingIsDeleted => CountedWorkers

\* A step of a manager that touches a CR or a child keeps what it asks for, as
\* long as everybody works on the same spec.
LEMMA ManagerKeepsSpec ==
    ASSUME TypeOK, OneIncarnation, SameSpec, NEW m \in Managers, ManagerStep(m)
    PROVE  SameSpec'
<1>1. /\ cluster' = Absent <=> cluster = Absent
      /\ cluster /= Absent => /\ cluster'.workers = cluster.workers
                              /\ cluster'.config = cluster.config
  <2>1. CASE cluster' = cluster
    BY <2>1
  <2>2. CASE WriteStatus(m)
    <3>1. cluster \in Cluster /\ cluster' \in Cluster
      BY <2>2, WriteStatusType DEF WriteStatus, StatusConflict, TypeOK
    <3>2. /\ cluster'.workers = cluster.workers
          /\ cluster'.config = cluster.config
      BY <2>2, <3>1 DEF WriteStatus, Cluster
    <3> QED BY <3>1, <3>2, ClusterIsThere
  <2> QED BY <2>1, <2>2, ManagerFrame
<1>2. \A k \in Managers :
         /\ cachedCluster'[k] \in {cachedCluster[k], cluster}
         /\ inspectedCluster'[k]
               \in {inspectedCluster[k], cachedCluster[k], Absent}
  BY ManagerFrame
<1>3. \A k \in Managers :
         cachedCluster[k] /= Absent \/ inspectedCluster[k] /= Absent
             => cluster /= Absent
  BY DEF OneIncarnation, TypeOK, Cluster
<1>4. ASSUME NEW r \in Resources, child'[r] /= Absent
      PROVE  /\ child'[r].replicas = DesiredReplicas(cluster', r)
             /\ child'[r].config = DesiredConfig(cluster', r)
             /\ Valid(r, child'[r])
  <2>1. \/ /\ child[r] /= Absent
           /\ child'[r] = child[r]
        \/ /\ inspectedCluster[m] /= Absent
           /\ child'[r].replicas = DesiredReplicas(inspectedCluster[m], r)
           /\ child'[r].config = DesiredConfig(inspectedCluster[m], r)
           /\ Valid(r, child'[r])
    BY <1>4, ManagerFrame, RequestBuilds, ClusterIsThere
  <2>2. child[r] /= Absent => cluster /= Absent
    BY DEF OneIncarnation, TypeOK, Child
  <2> QED BY <1>1, <1>3, <2>1, <2>2 DEF SameSpec, DesiredReplicas,
                                        DesiredConfig
<1> QED BY <1>1, <1>2, <1>3, <1>4 DEF SameSpec

LEMMA SameSpecStay ==
    ASSUME TypeOK, OneIncarnation, SameSpec, SpecHolds, [Next]_vars
    PROVE  SameSpec'
<1> USE DEF cacheVars, passVars, queueVars
<1>1. ASSUME NEW m \in Managers, ManagerStep(m)
      PROVE  SameSpec'
  BY <1>1, ManagerKeepsSpec
<1>2. CASE UserCreate
  <2>1. /\ \A r \in Resources : child[r] = Absent
        /\ \A m \in Managers : cachedCluster[m] = Absent
                              /\ inspectedCluster[m] = Absent
    <3>1. lastUid = 0
      BY <1>2 DEF UserCreate, OneIncarnation
    <3> QED BY <3>1 DEF OneIncarnation, TypeOK, Child, Cluster
  <2> QED BY <1>2, <2>1 DEF UserCreate, SameSpec, Deployments, Resources
<1>3. CASE UserEdit \/ UserDelete \/ (\E r \in Resources : ExternalDelete(r))
           \/ (\E r \in Deployments : ExternalScale(r))
  BY <1>3 DEF UserEdit, UserDelete, ExternalDelete, ExternalScale, Disturb,
              SpecHolds
<1>4. ASSUME NEW q \in Resources, GarbageCollect(q)
      PROVE  SameSpec'
  <2>1. /\ UNCHANGED <<cluster, cachedCluster, inspectedCluster>>
        /\ \A r \in Resources : child'[r] \in {child[r], Absent}
    BY <1>4 DEF GarbageCollect, TypeOK
  <2> QED BY <2>1 DEF SameSpec, Deployments, Resources
<1>5. CASE DeploymentProgress \/ PodFails
  <2>1. UNCHANGED <<cluster, cachedCluster, inspectedCluster>>
    BY <1>5 DEF DeploymentProgress, PodFails
  <2>2. ~ \E q \in Deployments : ExternalScale(q)
    BY DEF ExternalScale, Disturb, SpecHolds
  <2>3. \A r \in Resources :
           child'[r] /= Absent => /\ child[r] /= Absent
                                  /\ child'[r].replicas = child[r].replicas
                                  /\ child'[r].config = child[r].config
    BY <1>5, <2>2, DeploymentsStay
  <2> QED BY <2>1, <2>3 DEF SameSpec, Valid
<1>6. CASE UNCHANGED vars
  BY <1>6 DEF vars, apiVars, SameSpec
<1> QED BY <1>1, <1>2, <1>3, <1>4, <1>5, <1>6
        DEF Next, KubernetesStep, DisturbanceStep

\* A pass holds no count of workers but one it has had, read, or made up as 0.
LEMMA CountsFrame ==
    ASSUME TypeOK, NEW m \in Managers, ManagerStep(m), NEW k \in Managers
    PROVE  newAvailable'[k] \in {newAvailable[k], 0, CachedAvailable(k)}
<1> USE DEF queueVars, cacheVars, passVars
<1>1. CASE DeriveStatus(m) \/ DeriveStatusFails(m)
  <2>1. PICK a \in {0, CachedAvailable(m)} : DeriveStatusFrom(m, a)
    BY <1>1 DEF DeriveStatus, DeriveStatusFails
  <2>2. newAvailable' \in {newAvailable, [newAvailable EXCEPT ![m] = a],
                           [newAvailable EXCEPT ![m] = 0]}
    BY <2>1 DEF DeriveStatusFrom, FinishPass, ReturnFromPass
  <2> QED BY <2>2 DEF TypeOK
<1>2. CASE ~(DeriveStatus(m) \/ DeriveStatusFails(m))
  <2>1. newAvailable' \in {newAvailable, [newAvailable EXCEPT ![m] = 0]}
    BY <1>2 DEF ManagerStep, ReconcilePass, Dequeue, InspectCluster,
       InspectChild, InspectFails, ReconcileGone, ReconcileNoAction,
       ReconcilePanics, ReconcileRequest, ReconcileRejected, ReconcileFails,
       StatusGone, FinishPass, UpdateStatus, UpdateStatusRejected,
       UpdateStatusFails, SyncCluster, SyncChildren, DelayElapsed, Resync,
       Crash, Panic, Restart, ReturnFromPass
  <2> QED BY <2>1 DEF TypeOK
<1> QED BY <1>1, <1>2

LEMMA CountedWorkersStay ==
    ASSUME TypeOK, OneIncarnation, SeenExists, CountedWorkers, NothingIsDeleted,
           [Next]_vars
    PROVE  CountedWorkers'
<1> DEFINE w == "workerDeployment"
<1>0. w \in Resources
  BY DEF Resources
<1>1. CASE child[w] /= Absent
  BY <1>0, <1>1, ChildrenStay DEF CountedWorkers
<1>2. CASE child[w] = Absent
  <2>1. /\ cluster /= Absent => cluster.status = 0
        /\ \A m \in Managers : newAvailable[m] = 0 /\ CachedAvailable(m) = 0
    BY <1>0, <1>2 DEF CountedWorkers, SeenExists, CachedAvailable
  <2>2. ASSUME NEW m \in Managers, ManagerStep(m)
        PROVE  CountedWorkers'
    <3>1. \A k \in Managers : newAvailable'[k] = 0
      BY <2>1, <2>2, CountsFrame
    <3>2. cluster' /= Absent => cluster'.status = 0
      <4>1. CASE cluster' = cluster
        BY <2>1, <4>1
      <4>2. CASE WriteStatus(m)
        <5>1. cluster \in Cluster
          BY <4>2 DEF WriteStatus, StatusConflict, TypeOK
        <5>2. cluster' = [cluster EXCEPT !.status = 0]
          BY <2>1, <4>2 DEF WriteStatus
        <5> QED BY <5>1, <5>2 DEF Cluster
      <4> QED BY <2>2, <4>1, <4>2, ManagerFrame
    <3> QED BY <3>1, <3>2 DEF CountedWorkers
  <2>3. CASE UserCreate
    BY <2>1, <2>3 DEF UserCreate, passVars, CountedWorkers
  <2>4. CASE UserEdit
    <3>1. cluster'.status = 0
      BY <2>1, <2>4 DEF UserEdit, TypeOK, Cluster
    <3> QED BY <2>1, <2>4, <3>1 DEF UserEdit, passVars, CountedWorkers
  <2>5. CASE UserDelete
    BY <2>1, <2>5 DEF UserDelete, passVars, CountedWorkers
  <2>6. CASE \/ KubernetesStep
             \/ PodFails
             \/ \E r \in Resources : ExternalDelete(r)
             \/ \E r \in Deployments : ExternalScale(r)
    <3>1. UNCHANGED <<cluster, newAvailable>>
      BY <2>6 DEF KubernetesStep, GarbageCollect, DeploymentProgress,
                  PodFails, ExternalDelete, ExternalScale, passVars
    <3> QED BY <2>1, <3>1 DEF CountedWorkers
  <2>7. CASE UNCHANGED vars
    BY <2>1, <2>7 DEF vars, apiVars, passVars, CountedWorkers
  <2> QED BY <2>2, <2>3, <2>4, <2>5, <2>6, <2>7 DEF Next, DisturbanceStep
<1> QED BY <1>1, <1>2

\* SpecInv holds in every reachable state.
THEOREM SpecInvariant == Spec => []SpecInv
<1>1. Init => SpecInv
  <2> SUFFICES ASSUME Init PROVE SameSpec /\ CountedWorkers
    BY DEF SpecInv
  <2>1. \A r \in Resources : child[r] = Absent
    BY DEF Init, NoChildren
  <2> QED BY <2>1 DEF Init, SameSpec, CountedWorkers, Deployments, Resources
<1>2. TypeOK /\ OrderInv /\ SpecInv /\ [Next]_vars => SpecInv'
  <2> SUFFICES ASSUME TypeOK, OrderInv, SpecInv, [Next]_vars, NothingIsDeleted
               PROVE  (SpecHolds => SameSpec') /\ CountedWorkers'
    BY DEF SpecInv, SpecHolds, NothingIsDeleted
  <2>1. OneIncarnation /\ SeenExists /\ CountedWorkers
    BY DEF OrderInv, SpecInv
  <2> QED BY <2>1, SameSpecStay, CountedWorkersStay DEF SpecInv
<1> QED BY <1>1, <1>2, TypeCorrect, OrderInvariant, PTL DEF Spec

\* What must be there before the workers is everything else.
LEMMA WorkersComeLast ==
    \A r \in Resources \ {"workerDeployment"} :
        r \in Prerequisites("workerDeployment")
BY DEF Resources, Prerequisites, ConfigMaps

(***************************************************************************)
(* ReportedIsAllBuilt: as long as nobody deletes anything, a CR that       *)
(* reports workers has all its children, as it asked for them if it has    *)
(* not been edited, for any number of managers and edits, although a       *)
(* status may be counted in an old copy of a Deployment.                   *)
(***************************************************************************)
THEOREM ReportedIsAllBuilt == Spec => []ReportedIsBuilt
<1>1. TypeOK /\ OrderInv /\ SpecInv /\ OwnedAsAsked => ReportedIsBuilt
  <2> SUFFICES ASSUME TypeOK, OrderInv, SpecInv, OwnedAsAsked,
                      NothingIsDeleted, cluster /= Absent,
                      cluster.status /= 0, NEW r \in Children
               PROVE  child[r] /= Absent /\ Owned(child[r]) /\ AsAsked(r)
    BY DEF ReportedIsBuilt
  <2> DEFINE w == "workerDeployment"
  <2>1. OneIncarnation /\ DependencyOrder /\ CountedWorkers
    BY DEF OrderInv, SpecInv
  <2>2. child[w] /= Absent
    BY <2>1 DEF CountedWorkers
  <2>3. child[r] /= Absent
    <3>1. CASE r /= w
      <4>1. r \in Prerequisites(w) \cap Children
        BY <3>1, WorkersComeLast DEF ResourcesAssumption
      <4> QED BY <2>1, <2>2, <4>1 DEF DependencyOrder, Resources
    <3> QED BY <2>2, <3>1
  <2>4. Owned(child[r])
    BY <2>1, <2>3 DEF OneIncarnation, Owned, ResourcesAssumption
  <2> QED BY <2>3, <2>4 DEF OwnedAsAsked, ResourcesAssumption
<1> QED BY <1>1, TypeCorrect, OrderInvariant, SpecInvariant, OwnedIsAsAsked,
           PTL

(***************************************************************************)
(* RefusedIsRetried: a CR that the API refuses in part, and that nobody    *)
(* changes, is never reported to have workers and never left alone.        *)
(***************************************************************************)
THEOREM RefusedIsRetried == Spec => []RefusedStaysPending
<1>1. TypeOK /\ ServedInv /\ SpecInv /\ ReportedIsBuilt
         => RefusedStaysPending
  <2> SUFFICES ASSUME TypeOK, ServedInv, SpecInv, ReportedIsBuilt, SpecHolds,
                      cluster /= Absent, ~Buildable
               PROVE  /\ cluster.status = 0
                      /\ cluster.workers /= 0 =>
                            \A m \in Managers :
                                ~(Settled(m) /\ CacheIsNewest(m))
    BY DEF RefusedStaysPending
  <2> DEFINE w == "workerDeployment"
  <2>1. SameSpec /\ CountedWorkers /\ NothingIsDeleted
    BY DEF SpecInv, SpecHolds, NothingIsDeleted
  <2>2. cluster.status = 0
    <3> SUFFICES ASSUME cluster.status /= 0 PROVE Buildable
      OBVIOUS
    <3>1. child[w] /= Absent
      BY <2>1 DEF CountedWorkers
    <3>2. cluster.workers \in Nat
      BY <2>1, <3>1 DEF SameSpec, Valid, DesiredReplicas, Resources
    <3>3. ASSUME NEW r \in Children
          PROVE  Valid(r, Desired(cluster, r))
      <4>1. r \in Resources /\ child[r] /= Absent
        BY <2>1, <3>3 DEF ReportedIsBuilt, ResourcesAssumption
      <4>2. /\ child[r].replicas = DesiredReplicas(cluster, r)
            /\ child[r].config = DesiredConfig(cluster, r)
            /\ Valid(r, child[r])
        BY <2>1, <4>1 DEF SameSpec
      <4>3. /\ Desired(cluster, r).replicas = DesiredReplicas(cluster, r)
            /\ Desired(cluster, r).config = DesiredConfig(cluster, r)
        BY DEF Desired
      <4> QED BY <4>2, <4>3 DEF Valid
    <3> QED BY <3>2, <3>3 DEF Buildable
  <2>3. ASSUME NEW m \in Managers, Settled(m), CacheIsNewest(m)
        PROVE  cluster.status = cluster.workers
    BY <2>3 DEF ServedInv, HoldsTruth, LeftServed
  <2> QED BY <2>2, <2>3
<1> QED BY <1>1, TypeCorrect, ServedInvariant, SpecInvariant,
           ReportedIsAllBuilt, PTL

(***************************************************************************)
(* ChildrenBuiltOnce: as long as nobody changes the CR or its children,    *)
(* what has been built is never built differently, by any of the managers. *)
(***************************************************************************)
THEOREM ChildrenBuiltOnce == Spec => BuiltOnce
<1> DEFINE Once ==
             SpecHolds =>
                \A r \in Resources :
                   child[r] /= Absent =>
                       /\ child'[r] /= Absent
                       /\ child'[r] = [child[r] EXCEPT !.available =
                                          child'[r].available]
<1>1. TypeOK /\ TypeOK' /\ OrderInv /\ SpecInv /\ [Next]_vars => [Once]_vars
  <2> SUFFICES ASSUME TypeOK, TypeOK', OrderInv, SpecInv, Next, SpecHolds,
                      NEW r \in Resources, child[r] /= Absent
               PROVE  /\ child'[r] /= Absent
                      /\ child'[r] = [child[r] EXCEPT !.available =
                                         child'[r].available]
    OBVIOUS
  <2>1. NothingIsDeleted
    BY DEF SpecHolds, NothingIsDeleted
  <2>2. OneIncarnation /\ SameSpec
    BY <2>1 DEF OrderInv, SpecInv
  <2>3. child'[r] /= Absent
    BY <2>1, <2>2, ChildrenStay
  <2>4. /\ child'[r].owner = child[r].owner
        /\ child'[r].config = child[r].config
        /\ child'[r].replicas = child[r].replicas
    <3>1. CASE child'[r] = child[r]
      BY <3>1
    <3>2. ASSUME NEW m \in Managers, ManagerStep(m), child'[r] /= child[r]
          PROVE  /\ child'[r].owner = child[r].owner
                 /\ child'[r].config = child[r].config
                 /\ child'[r].replicas = child[r].replicas
      <4>1. /\ inspectedCluster[m] \in Cluster
            /\ child'[r].owner = inspectedCluster[m].uid
            /\ child'[r].config = DesiredConfig(inspectedCluster[m], r)
            /\ child'[r].replicas = DesiredReplicas(inspectedCluster[m], r)
        BY <3>2, ManagerFrame, RequestBuilds
      <4>2. inspectedCluster[m] /= Absent
        BY <4>1, ClusterIsThere
      <4>3. /\ child[r].owner = inspectedCluster[m].uid
            /\ inspectedCluster[m].workers = cluster.workers
            /\ inspectedCluster[m].config = cluster.config
            /\ child[r].config = DesiredConfig(cluster, r)
            /\ child[r].replicas = DesiredReplicas(cluster, r)
        BY <2>2, <4>2 DEF OneIncarnation, SameSpec
      <4> QED BY <4>1, <4>3 DEF DesiredConfig, DesiredReplicas
    <3>3. CASE UserCreate \/ UserEdit \/ UserDelete
      BY <3>1, <3>3 DEF UserCreate, UserEdit, UserDelete
    <3>4. ASSUME NEW q \in Resources, GarbageCollect(q) \/ ExternalDelete(q)
          PROVE  child'[r] = child[r]
      BY <2>3, <3>4 DEF GarbageCollect, ExternalDelete, TypeOK
    <3>5. CASE DeploymentProgress \/ PodFails
               \/ \E q \in Deployments : ExternalScale(q)
      <4>1. ~ \E q \in Deployments : ExternalScale(q)
        BY DEF ExternalScale, Disturb, SpecHolds
      <4> QED BY <3>5, <4>1, DeploymentsStay
    <3> QED BY <3>1, <3>2, <3>3, <3>4, <3>5
            DEF Next, KubernetesStep, DisturbanceStep
  <2>5. child[r] \in Child /\ child'[r] \in Child
    BY <2>3 DEF TypeOK
  <2> QED BY <2>3, <2>4, <2>5 DEF Child
<1>2. TypeOK /\ [Next]_vars => TypeOK'
  BY NextKeepsTypes
<1> QED BY <1>1, <1>2, TypeCorrect, OrderInvariant, SpecInvariant, PTL
        DEF Spec, BuiltOnce

(***************************************************************************)
(* UndisturbedIsBuilt: as long as nobody changes the CR or its children,   *)
(* and every CR asks for workers, quiet managers have built all of it and  *)
(* the status says so, however many managers there are, whatever requests, *)
(* replies and reads are lost, and wherever they crash.                    *)
(***************************************************************************)
THEOREM UndisturbedIsBuilt == Spec => []UndisturbedConverges
<1>1. TypeOK /\ ServedInv /\ SpecInv /\ ReportedIsBuilt
         => UndisturbedConverges
  <2> SUFFICES ASSUME TypeOK, ServedInv, SpecInv, ReportedIsBuilt, SpecHolds,
                      0 \notin WorkerCounts,
                      \A m \in Managers : Quiet(m),
                      cluster /= Absent,
                      DeploymentSettled
               PROVE  Converged
    BY DEF UndisturbedConverges, ConvergedWhenQuiet
  <2> DEFINE w == "workerDeployment"
  <2>1. cluster.status = cluster.workers
    <3>1. PICK m \in Managers : TRUE
      BY DEF OperatorAssumption
    <3>2. /\ cachedCluster[m] = cluster
          /\ cachedCluster[m].status = cachedCluster[m].workers
      BY <3>1 DEF Quiet, InSync, ServedInv, HoldsTruth, LeftServed
    <3> QED BY <3>2
  <2>2. /\ cluster.status /= 0
        /\ cluster.workers /= 0
    BY <2>1 DEF TypeOK, Cluster
  <2>3. SameSpec /\ CountedWorkers /\ NothingIsDeleted
    BY DEF SpecInv, SpecHolds, NothingIsDeleted
  <2>4. child[w] /= Absent
    BY <2>2, <2>3 DEF CountedWorkers
  <2>5. \A r \in Children : child[r] /= Absent /\ Owned(child[r])
    BY <2>2, <2>3 DEF ReportedIsBuilt
  <2>6. \A r \in Children : ChildConverged(r)
    BY <2>3, <2>5 DEF ChildConverged, AsAsked, Owned, SameSpec,
                      ResourcesAssumption
  <2>7. child[w].available = cluster.workers
    <3>1. child[w].replicas = cluster.workers
      BY <2>3, <2>4 DEF SameSpec, DesiredReplicas, Resources
    <3> QED BY <2>4, <3>1 DEF DeploymentSettled
  <2> QED BY <2>1, <2>6, <2>7 DEF Converged
<1> QED BY <1>1, TypeCorrect, ServedInvariant, SpecInvariant,
           ReportedIsAllBuilt, PTL
=============================================================================
