--------------------------- MODULE PrestoOperator ---------------------------
(***************************************************************************)
(* The reconcile loop of the Presto operator for one PrestoCluster name,   *)
(* run by one or more manager processes against the Kubernetes API.        *)
(*                                                                         *)
(* A manager (main.go) keeps an informer cache per watched type and a work *)
(* queue.  Only PrestoCluster events fill the queue                        *)
(* (SetupWithManager has For and no Owns).  A pass (Reconcile) reads the   *)
(* CR and its five children from the caches one Get at a time              *)
(* (inspector.go), creates or updates the children one request at a time   *)
(* (reconciler.go), and then writes the number of available workers into   *)
(* the CR's status (status.go).  Each Get and each request is a step of    *)
(* its own here, so users, the garbage collector, the Deployment           *)
(* controller, watch events, other managers and crashes interleave.        *)
(*                                                                         *)
(* Kubernetes and controller-runtime are external: what they do is taken   *)
(* from the way the operator's code uses them.                             *)
(***************************************************************************)
EXTENDS PrestoResources, FiniteSets

CONSTANTS
    Managers,        \* operator processes that run at the same time
    WorkerCounts,    \* values of spec.workers a user may write; Absent if a
                     \* CR without a spec is among them
    MaxIncarnations, \* bound: how often the CR may be created
    MaxDisturbances, \* bound: how many disturbances may happen in all
    Disturbances     \* the kinds of disturbance that may happen

AllDisturbances ==
    {"edit", "clusterDelete",          \* the user edits or deletes the CR
     "childDelete", "childScale",      \* somebody deletes or scales a child
     "podFail",                        \* a worker pod stops being available
     "apiError", "lostReply",          \* a request, or its reply, is lost
     "readError",                      \* a cache read fails
     "crash",                          \* a manager is restarted
     "resync"}                         \* an informer's resync; unlike the
                                       \* others, any number of times

\* What a CR may say.  The CRD requires workers and image of a spec, but it
\* does not require a spec.
Specs == ((WorkerCounts \ {Absent}) \X Configs)
            \cup ((WorkerCounts \cap {Absent}) \X {NoConfig})

\* A CR in the API.  No code reads whether it has been edited since it was
\* created (a metadata.generation above 1); some properties do.
Cluster == [uid: Nat \ {0}, workers: WorkerCounts,
            config: Configs \cup {NoConfig}, edited: BOOLEAN, status: Nat]
Child   == [owner: Nat \ {0}, config: Configs \cup {NoConfig},
            replicas: Nat, available: Nat]
\* What the operator looks at in a cached child.
Seen    == [replicas: Nat, available: Nat]

OperatorAssumption ==
    /\ Managers /= {}
    /\ WorkerCounts \subseteq Int \cup {Absent}
    /\ MaxIncarnations \in Nat
    /\ MaxDisturbances \in Nat
    /\ Disturbances \subseteq AllDisturbances
    /\ Absent \notin Cluster
    /\ Absent \notin Seen

ASSUME OperatorAssumption

VARIABLES
    cluster,          \* the CR in the API, or Absent
    newest,           \* the copies of the CR that have the resourceVersion it
                      \* has in the API now
    child,            \* each child in the API, or Absent
    lastUid,          \* the newest uid given to a CR
    disturbances,     \* disturbances that may still happen
    cachedCluster,    \* per manager: the CR in its informer cache
    cachedChild,      \* per manager: the children in its informer caches
    queued,           \* per manager: the CR's key is in the work queue
    delayed,          \* per manager: the key waits for a delayed requeue
    pc,               \* per manager: where its pass is
    step,             \* per manager: index into the order it follows
    inspectedCluster, \* per manager: InspectedClusterState.cluster
    inspectedChild,   \* per manager: replicas of the inspected children
    newAvailable      \* per manager: newStatus.AvailableWorkers

apiVars   == <<cluster, newest, child, lastUid>>
cacheVars == <<cachedCluster, cachedChild>>
queueVars == <<queued, delayed>>
passVars  == <<pc, step, inspectedCluster, inspectedChild, newAvailable>>
vars      == <<apiVars, disturbances, cacheVars, queueVars, passVars>>

PassStages == {"idle", "inspectCluster", "inspect", "reconcile", "status",
               "updateStatus", "panic"}

Copies == {"cache", "pass"} \X Managers

TypeOK ==
    /\ cluster \in Cluster \cup {Absent}
    /\ newest \subseteq Copies
    /\ child \in [Resources -> Child \cup {Absent}]
    /\ lastUid \in Nat
    /\ disturbances \in Nat
    /\ cachedCluster \in [Managers -> Cluster \cup {Absent}]
    /\ cachedChild \in [Managers -> [Resources -> Seen \cup {Absent}]]
    /\ queued \in [Managers -> BOOLEAN]
    /\ delayed \in [Managers -> BOOLEAN]
    /\ pc \in [Managers -> PassStages]
    /\ step \in [Managers -> 1..5]
    /\ inspectedCluster \in [Managers -> Cluster \cup {Absent}]
    /\ inspectedChild \in [Managers -> [Resources -> Nat \cup {Absent}]]
    /\ newAvailable \in [Managers -> Nat]

-----------------------------------------------------------------------------
(***************************************************************************)
(* Views and helpers                                                       *)
(***************************************************************************)
NoChildren == [r \in Resources |-> Absent]

\* The budget of disturbances is what makes every behaviour calm down.
Disturb(kind) ==
    /\ kind \in Disturbances
    /\ disturbances > 0
    /\ disturbances' = disturbances - 1

CacheIsNewest(m)     == <<"cache", m>> \in newest
InspectedIsNewest(m) == <<"pass", m>> \in newest

\* Any write of the CR gives it a new resourceVersion.
NewVersion == newest' = {}

View(obj) ==
    IF obj = Absent THEN Absent
    ELSE [replicas |-> obj.replicas, available |-> obj.available]

Delivered(m, informer) ==
    \A r \in Watched(informer) : cachedChild[m][r] = View(child[r])

InSync(m) ==
    /\ CacheIsNewest(m)
    /\ \A i \in ChildInformers : Delivered(m, i)

\* Both the 5 second requeue and the retry after an error: the delaying queue
\* holds a key once, and hands it over at some later time.
RequeueLater(m) == delayed' = [delayed EXCEPT ![m] = TRUE]

\* Reconcile returns and its controller object, with the inspected state, goes.
DropInspected(m) == newest' = newest \ {<<"pass", m>>}

ReturnFromPass(m) ==
    /\ pc' = [pc EXCEPT ![m] = "idle"]
    /\ step' = [step EXCEPT ![m] = 1]
    /\ inspectedCluster' = [inspectedCluster EXCEPT ![m] = Absent]
    /\ inspectedChild' = [inspectedChild EXCEPT ![m] = NoChildren]
    /\ newAvailable' = [newAvailable EXCEPT ![m] = 0]

Goto(m, stage, n) ==
    /\ pc' = [pc EXCEPT ![m] = stage]
    /\ step' = [step EXCEPT ![m] = n]

-----------------------------------------------------------------------------
(***************************************************************************)
(* Step 1 of a pass: inspect (inspector.go)                                *)
(***************************************************************************)
\* A worker of the controller takes the key; events that arrive while the
\* pass runs put it back into the queue.
Dequeue(m) ==
    /\ pc[m] = "idle"
    /\ queued[m]
    /\ queued' = [queued EXCEPT ![m] = FALSE]
    /\ Goto(m, "inspectCluster", 1)
    /\ UNCHANGED <<apiVars, disturbances, cacheVars, delayed,
                   inspectedCluster, inspectedChild, newAvailable>>

InspectCluster(m) ==
    /\ pc[m] = "inspectCluster"
    /\ inspectedCluster' = [inspectedCluster EXCEPT ![m] = cachedCluster[m]]
    /\ newest' = IF CacheIsNewest(m) THEN newest \cup {<<"pass", m>>}
                                    ELSE newest
    /\ \E n \in NextSteps(InspectOrder, 0) : Goto(m, "inspect", n)
    /\ UNCHANGED <<cluster, child, lastUid, disturbances, cacheVars, queueVars,
                   inspectedChild, newAvailable>>

\* One cached Get.  NotFound leaves the field of the inspected state nil.
InspectChild(m) ==
    /\ pc[m] = "inspect"
    /\ LET r    == InspectOrder[step[m]]
           seen == cachedChild[m][r]
       IN  inspectedChild' = [inspectedChild EXCEPT ![m][r] =
                                IF seen = Absent THEN Absent
                                                 ELSE seen.replicas]
    /\ \E n \in NextSteps(InspectOrder, step[m]) :
          IF n < Done THEN Goto(m, "inspect", n)
          ELSE \E k \in NextSteps(ReconcileOrder, 0) : Goto(m, "reconcile", k)
    /\ UNCHANGED <<apiVars, disturbances, cacheVars, queueVars,
                   inspectedCluster, newAvailable>>

\* Any other error of a Get is returned and the pass is retried.
InspectFails(m) ==
    /\ pc[m] \in {"inspectCluster", "inspect"}
    /\ Disturb("readError")
    /\ RequeueLater(m)
    /\ ReturnFromPass(m)
    /\ DropInspected(m)
    /\ UNCHANGED <<cluster, child, lastUid, cacheVars, queued>>

-----------------------------------------------------------------------------
(***************************************************************************)
(* Steps 2 and 3 of a pass: desired state and reconcile (reconciler.go)    *)
(***************************************************************************)
Target(m)        == ReconcileOrder[step[m]]

\* Seeded fault: an Update names the first CR of this name as the owner.
DesiredTargetFirstOwner(m) ==
    LET obj == Desired(inspectedCluster[m], Target(m))
    IN  IF obj = Absent \/ inspectedChild[m][Target(m)] = Absent THEN obj
        ELSE [obj EXCEPT !.owner = 1]

\* Seeded fault: the owner is looked up when a child is written, the rest is
\* that of the CR inspected before.
DesiredTargetLateOwner(m) ==
    LET obj == Desired(inspectedCluster[m], Target(m))
    IN  IF obj = Absent \/ cachedCluster[m] = Absent THEN obj
        ELSE [obj EXCEPT !.owner = cachedCluster[m].uid]

DesiredTarget(m) == Desired(inspectedCluster[m], Target(m))

PlannedVerb(m)   == Verb(Target(m), DesiredTarget(m),
                         inspectedChild[m][Target(m)])

\* reconcile() returns before it compares anything when there is no CR.
SkipReconcile(m) == inspectedCluster[m] = Absent

\* Seeded fault: the walk over the children goes one too far.
AfterChildOneTooFar(m) ==
    /\ \E n \in NextSteps(ReconcileOrder, step[m]) : Goto(m, "reconcile", n)
    /\ inspectedChild' = [inspectedChild EXCEPT ![m][Target(m)] = Absent]

\* After the last child comes step 4; an error of any request ends step 3,
\* is logged, and step 4 follows all the same.  (What was inspected of a child
\* is used once: the model forgets it then.)
AfterChild(m) ==
    /\ \E n \in NextSteps(ReconcileOrder, step[m]) :
          IF n < Done THEN Goto(m, "reconcile", n) ELSE Goto(m, "status", 1)
    /\ inspectedChild' = [inspectedChild EXCEPT ![m][Target(m)] = Absent]

\* Seeded fault: an error of a request does not end step 3.
EndReconcileGoesOn(m) == AfterChild(m)

EndReconcile(m) ==
    /\ Goto(m, "status", 1)
    /\ inspectedChild' = [inspectedChild EXCEPT ![m] = NoChildren]

\* What the API answers: a name can be created once, an Update needs the
\* object, both a valid content; a Delete ignores NotFound.
Accepted(r, verb, desired) ==
    /\ verb = "create" => child[r] = Absent
    /\ verb = "update" => child[r] /= Absent
    /\ verb \in {"create", "update"} => Valid(r, desired)

\* The object after the request: an Update replaces owner references and
\* template but not the status.
Written(r, verb, desired) ==
    IF verb = "create" THEN desired
    ELSE IF verb = "update"
         THEN [desired EXCEPT !.available = child[r].available]
         ELSE Absent

ReconcileGone(m) ==
    /\ pc[m] = "reconcile"
    /\ SkipReconcile(m)
    /\ EndReconcile(m)
    /\ UNCHANGED <<apiVars, disturbances, cacheVars, queueVars,
                   inspectedCluster, newAvailable>>

ReconcileNoAction(m) ==
    /\ pc[m] = "reconcile"
    /\ ~SkipReconcile(m)
    /\ PlannedVerb(m) = "none"
    /\ AfterChild(m)
    /\ UNCHANGED <<apiVars, disturbances, cacheVars, queueVars,
                   inspectedCluster, newAvailable>>

\* The replicas of a Deployment are compared through their pointers; a CR
\* without a spec has none for the workers.
ComparesNil(m) ==
    /\ Target(m) = "workerDeployment"
    /\ inspectedChild[m][Target(m)] /= Absent
    /\ inspectedCluster[m] /= Absent
    /\ inspectedCluster[m].workers = Absent

\* A nil pointer is followed: nothing recovers from it.
GotoPanic(m) ==
    /\ Goto(m, "panic", 1)
    /\ inspectedChild' = [inspectedChild EXCEPT ![m] = NoChildren]

ReconcilePanics(m) ==
    /\ pc[m] = "reconcile"
    /\ ~SkipReconcile(m)
    /\ ComparesNil(m)
    /\ GotoPanic(m)
    /\ UNCHANGED <<apiVars, disturbances, cacheVars, queueVars,
                   inspectedCluster, newAvailable>>

\* A pass is about to send a request for its current child.
Requests(m) ==
    /\ pc[m] = "reconcile"
    /\ ~SkipReconcile(m)
    /\ ~ComparesNil(m)
    /\ PlannedVerb(m) /= "none"

WriteTarget(m) ==
    /\ Accepted(Target(m), PlannedVerb(m), DesiredTarget(m))
    /\ child' = [child EXCEPT ![Target(m)] =
                   Written(Target(m), PlannedVerb(m), DesiredTarget(m))]

ReconcileRequest(m) ==
    /\ Requests(m)
    /\ WriteTarget(m)
    /\ AfterChild(m)
    /\ UNCHANGED <<cluster, newest, lastUid, disturbances, cacheVars, queueVars,
                   inspectedCluster, newAvailable>>

\* AlreadyExists, NotFound or Invalid.
ReconcileRejected(m) ==
    /\ Requests(m)
    /\ ~Accepted(Target(m), PlannedVerb(m), DesiredTarget(m))
    /\ EndReconcile(m)
    /\ UNCHANGED <<apiVars, disturbances, cacheVars, queueVars,
                   inspectedCluster, newAvailable>>

\* The request does not reach the API, or takes effect and the reply is lost.
ReconcileFails(m) ==
    /\ Requests(m)
    /\ \/ /\ Disturb("apiError")
          /\ UNCHANGED child
       \/ /\ Disturb("lostReply")
          /\ WriteTarget(m)
    /\ EndReconcile(m)
    /\ UNCHANGED <<cluster, newest, lastUid, cacheVars, queueVars,
                   inspectedCluster, newAvailable>>

-----------------------------------------------------------------------------
(***************************************************************************)
(* Step 4 of a pass: the status (status.go)                                *)
(***************************************************************************)
\* The worker Deployment is read once more; any error counts as 0 available.
CachedAvailable(m) ==
    LET seen == cachedChild[m]["workerDeployment"]
    IN  IF seen = Absent THEN 0 ELSE seen.available

\* Seeded fault: only missing workers are waited for.
WantsRequeueIfBelow(m, available) == available < inspectedCluster[m].workers

\* Seeded fault: only a changed status is looked at again.
WantsRequeueIfChanged(m, available) == available /= inspectedCluster[m].status

\* The requeue at the end of a pass whose worker count is not the wanted one.
WantsRequeue(m, available) == available /= inspectedCluster[m].workers

\* The comparison follows spec.workers, a nil pointer if there is no spec.
FinishPass(m, available) ==
    IF inspectedCluster[m].workers = Absent
    THEN /\ GotoPanic(m)
         /\ UNCHANGED <<delayed, inspectedCluster, newAvailable>>
    ELSE /\ ReturnFromPass(m)
         /\ IF WantsRequeue(m, available) THEN RequeueLater(m)
                                          ELSE UNCHANGED delayed

StatusGone(m) ==
    /\ pc[m] = "status"
    /\ inspectedCluster[m] = Absent
    /\ ReturnFromPass(m)
    /\ DropInspected(m)
    /\ UNCHANGED <<cluster, child, lastUid, disturbances, cacheVars, queueVars>>

\* Seeded fault: each pass writes the status.
StatusDiffersAlways(m, available) == TRUE

\* The status is only written when it changes: each write is an event that
\* starts another pass.
StatusDiffers(m, available) == available /= inspectedCluster[m].status

DeriveStatusFrom(m, available) ==
    /\ pc[m] = "status"
    /\ inspectedCluster[m] /= Absent
    /\ IF StatusDiffers(m, available)
       THEN /\ newAvailable' = [newAvailable EXCEPT ![m] = available]
            /\ Goto(m, "updateStatus", 1)
            /\ UNCHANGED <<newest, delayed, inspectedCluster, inspectedChild>>
       ELSE /\ FinishPass(m, available)
            /\ DropInspected(m)
    /\ UNCHANGED <<cluster, child, lastUid, cacheVars, queued>>

DeriveStatus(m) ==
    /\ DeriveStatusFrom(m, CachedAvailable(m))
    /\ UNCHANGED disturbances

DeriveStatusFails(m) ==
    /\ Disturb("readError")
    /\ DeriveStatusFrom(m, 0)

\* Seeded fault: the status is written without a resourceVersion.
StatusConflictUnseen(m) == cluster = Absent

\* The Update carries the resourceVersion of the inspected CR, so it only
\* succeeds if nobody has written the CR since.
StatusConflict(m) == cluster = Absent \/ ~InspectedIsNewest(m)

WriteStatus(m) ==
    /\ ~StatusConflict(m)
    /\ cluster' = [cluster EXCEPT !.status = newAvailable[m]]
    /\ NewVersion

UpdateStatus(m) ==
    /\ pc[m] = "updateStatus"
    /\ WriteStatus(m)
    /\ FinishPass(m, newAvailable[m])
    /\ UNCHANGED <<child, lastUid, disturbances, cacheVars, queued>>

\* Conflict or NotFound: the pass returns the error.
UpdateStatusRejected(m) ==
    /\ pc[m] = "updateStatus"
    /\ StatusConflict(m)
    /\ RequeueLater(m)
    /\ ReturnFromPass(m)
    /\ DropInspected(m)
    /\ UNCHANGED <<cluster, child, lastUid, disturbances, cacheVars, queued>>

UpdateStatusFails(m) ==
    /\ pc[m] = "updateStatus"
    /\ \/ /\ Disturb("apiError")
          /\ DropInspected(m)
          /\ UNCHANGED cluster
       \/ /\ Disturb("lostReply")
          /\ WriteStatus(m)
    /\ RequeueLater(m)
    /\ ReturnFromPass(m)
    /\ UNCHANGED <<child, lastUid, cacheVars, queued>>

ReconcilePass(m) ==
    \/ Dequeue(m)
    \/ InspectCluster(m)
    \/ InspectChild(m)
    \/ InspectFails(m)
    \/ ReconcileGone(m)
    \/ ReconcileNoAction(m)
    \/ ReconcilePanics(m)
    \/ ReconcileRequest(m)
    \/ ReconcileRejected(m)
    \/ ReconcileFails(m)
    \/ StatusGone(m)
    \/ DeriveStatus(m)
    \/ DeriveStatusFails(m)
    \/ UpdateStatus(m)
    \/ UpdateStatusRejected(m)
    \/ UpdateStatusFails(m)

-----------------------------------------------------------------------------
(***************************************************************************)
(* The manager around the passes (main.go; controller-runtime)             *)
(***************************************************************************)
\* A watch event of the CR: the cache moves on and the key is queued.
SyncCluster(m) ==
    /\ ~CacheIsNewest(m)
    /\ cachedCluster' = [cachedCluster EXCEPT ![m] = cluster]
    /\ newest' = newest \cup {<<"cache", m>>}
    /\ queued' = [queued EXCEPT ![m] = TRUE]
    /\ UNCHANGED <<cluster, child, lastUid, disturbances, cachedChild, delayed, passVars>>

\* Watch events of one type of children: the cache moves on, nothing is queued.
SyncChildren(m, informer) ==
    /\ ~Delivered(m, informer)
    /\ cachedChild' = [cachedChild EXCEPT ![m] =
                         [r \in Resources |->
                            IF r \in Watched(informer) THEN View(child[r])
                                                       ELSE @[r]]]
    /\ UNCHANGED <<apiVars, disturbances, cachedCluster, queued, delayed,
                   passVars>>

\* A delayed key becomes due.
DelayElapsed(m) ==
    /\ delayed[m]
    /\ delayed' = [delayed EXCEPT ![m] = FALSE]
    /\ queued' = [queued EXCEPT ![m] = TRUE]
    /\ UNCHANGED <<apiVars, disturbances, cacheVars, passVars>>

\* Every few hours the informer hands its cached CRs out again.
Resync(m) ==
    /\ "resync" \in Disturbances
    /\ cachedCluster[m] /= Absent
    /\ ~queued[m]
    /\ queued' = [queued EXCEPT ![m] = TRUE]
    /\ UNCHANGED <<apiVars, disturbances, cacheVars, delayed, passVars>>

\* The process is started again: queue and pass are lost, the caches are
\* filled before the controller starts, and every CR listed is queued.
Restart(m) ==
    /\ cachedCluster' = [cachedCluster EXCEPT ![m] = cluster]
    /\ cachedChild' = [cachedChild EXCEPT ![m] =
                         [r \in Resources |-> View(child[r])]]
    /\ queued' = [queued EXCEPT ![m] = (cluster /= Absent)]
    /\ delayed' = [delayed EXCEPT ![m] = FALSE]
    /\ ReturnFromPass(m)
    /\ newest' = (newest \ {<<"pass", m>>}) \cup {<<"cache", m>>}
    /\ UNCHANGED <<cluster, child, lastUid>>

Crash(m) ==
    /\ Disturb("crash")
    /\ Restart(m)

\* controller-runtime hands a panic of Reconcile on, so the process ends.
Panic(m) ==
    /\ pc[m] = "panic"
    /\ Restart(m)
    /\ UNCHANGED disturbances

ManagerStep(m) ==
    \/ ReconcilePass(m)
    \/ SyncCluster(m)
    \/ \E informer \in ChildInformers : SyncChildren(m, informer)
    \/ DelayElapsed(m)
    \/ Resync(m)
    \/ Crash(m)
    \/ Panic(m)

-----------------------------------------------------------------------------
(***************************************************************************)
(* Users and Kubernetes                                                    *)
(***************************************************************************)
UserCreate ==
    /\ cluster = Absent
    /\ lastUid < MaxIncarnations
    /\ lastUid' = lastUid + 1
    /\ \E spec \in Specs :
          cluster' = [uid |-> lastUid + 1, workers |-> spec[1],
                      config |-> spec[2], edited |-> FALSE, status |-> 0]
    /\ NewVersion
    /\ UNCHANGED <<child, disturbances, cacheVars, queueVars, passVars>>

UserEdit ==
    /\ cluster /= Absent
    /\ Disturb("edit")
    /\ \E spec \in Specs \ {<<cluster.workers, cluster.config>>} :
          cluster' = [cluster EXCEPT !.workers = spec[1], !.config = spec[2],
                                     !.edited = TRUE]
    /\ NewVersion
    /\ UNCHANGED <<child, lastUid, cacheVars, queueVars, passVars>>

UserDelete ==
    /\ cluster /= Absent
    /\ Disturb("clusterDelete")
    /\ cluster' = Absent
    /\ NewVersion
    /\ UNCHANGED <<child, lastUid, cacheVars, queueVars, passVars>>

Owned(obj) == cluster /= Absent /\ obj.owner = cluster.uid

\* Kubernetes removes an object whose owner no longer exists.
GarbageCollect(r) ==
    /\ child[r] /= Absent
    /\ ~Owned(child[r])
    /\ child' = [child EXCEPT ![r] = Absent]
    /\ UNCHANGED <<cluster, newest, lastUid, disturbances, cacheVars, queueVars,
                   passVars>>

\* The Deployment controller starts or stops one worker pod.  (Nobody reads
\* how many coordinator pods are available.)
DeploymentProgress ==
    LET d == child["workerDeployment"]
    IN  /\ d /= Absent
        /\ d.available /= d.replicas
        /\ child' = [child EXCEPT !["workerDeployment"].available =
                       IF d.available < d.replicas THEN @ + 1 ELSE @ - 1]
        /\ UNCHANGED <<cluster, newest, lastUid, disturbances, cacheVars, queueVars,
                       passVars>>

PodFails ==
    LET d == child["workerDeployment"]
    IN  /\ d /= Absent
        /\ d.available > 0
        /\ Disturb("podFail")
        /\ child' = [child EXCEPT !["workerDeployment"].available = @ - 1]
        /\ UNCHANGED <<cluster, newest, lastUid, cacheVars, queueVars, passVars>>

ExternalDelete(r) ==
    /\ child[r] /= Absent
    /\ Disturb("childDelete")
    /\ child' = [child EXCEPT ![r] = Absent]
    /\ UNCHANGED <<cluster, newest, lastUid, cacheVars, queueVars, passVars>>

ExternalScale(r) ==
    /\ child[r] /= Absent
    /\ Disturb("childScale")
    /\ \E n \in (WorkerCounts \cap Nat) \ {child[r].replicas} :
          child' = [child EXCEPT ![r].replicas = n]
    /\ UNCHANGED <<cluster, newest, lastUid, cacheVars, queueVars, passVars>>

KubernetesStep ==
    \/ \E r \in Resources : GarbageCollect(r)
    \/ DeploymentProgress

DisturbanceStep ==
    \/ UserEdit
    \/ UserDelete
    \/ PodFails
    \/ \E r \in Resources : ExternalDelete(r)
    \/ \E r \in Deployments : ExternalScale(r)

-----------------------------------------------------------------------------
Init ==
    /\ cluster = Absent
    /\ newest = {"cache"} \X Managers
    /\ child = NoChildren
    /\ lastUid = 0
    /\ disturbances = MaxDisturbances
    /\ cachedCluster = [m \in Managers |-> Absent]
    /\ cachedChild = [m \in Managers |-> NoChildren]
    /\ queued = [m \in Managers |-> FALSE]
    /\ delayed = [m \in Managers |-> FALSE]
    /\ pc = [m \in Managers |-> "idle"]
    /\ step = [m \in Managers |-> 1]
    /\ inspectedCluster = [m \in Managers |-> Absent]
    /\ inspectedChild = [m \in Managers |-> NoChildren]
    /\ newAvailable = [m \in Managers |-> 0]

Next ==
    \/ \E m \in Managers : ManagerStep(m)
    \/ UserCreate
    \/ KubernetesStep
    \/ DisturbanceStep

\* A started pass goes on, watch events arrive, delays elapse and Kubernetes
\* does its work.
Fairness ==
    /\ \A m \in Managers :
          /\ WF_vars(ReconcilePass(m))
          /\ WF_vars(SyncCluster(m))
          /\ \A i \in ChildInformers : WF_vars(SyncChildren(m, i))
          /\ WF_vars(DelayElapsed(m))
          /\ WF_vars(Panic(m))
    /\ \A r \in Resources : WF_vars(GarbageCollect(r))
    /\ WF_vars(DeploymentProgress)

Spec == Init /\ [][Next]_vars /\ Fairness

\* With the informers' resync as well, hours later.
ResyncSpec == Spec /\ \A m \in Managers : WF_vars(Resync(m))

-----------------------------------------------------------------------------
(***************************************************************************)
(* Safety                                                                  *)
(***************************************************************************)
\* Nothing but a watch event or a resync will start another pass of m.
Settled(m) == pc[m] = "idle" /\ ~queued[m] /\ ~delayed[m]

(***************************************************************************)
(* NeverForgotten: a manager that has seen the newest CR and has nothing   *)
(* left to do has left it with as many available workers in its status as  *)
(* the spec asks for.  Until then an event, a rate-limited retry or the    *)
(* 5 second requeue of updatePrestoClusterStatus must be pending, whatever *)
(* goes wrong: lost requests, stale caches, restarts, other managers,      *)
(* events in the middle of a pass, a worker count no API accepts.          *)
(***************************************************************************)
NeverForgotten ==
    \A m \in Managers :
        /\ Settled(m)
        /\ CacheIsNewest(m)
        /\ cluster /= Absent
        => cluster.status = cluster.workers

(***************************************************************************)
(* DependencyOrder: as long as nobody deletes anything, no Deployment      *)
(* exists before the ConfigMaps its pods mount, and the workers' not       *)
(* before the coordinator they register with, although passes of several   *)
(* managers interleave, work on stale caches, and break off at any         *)
(* request.                                                                *)
(***************************************************************************)
NothingIsDeleted ==
    Disturbances \cap {"clusterDelete", "childDelete"} = {}

Prerequisites(r) ==
    CASE r = "coordinatorDeployment" -> ConfigMaps
      [] r = "workerDeployment" ->
            ConfigMaps \cup {"coordinatorDeployment", "coordinatorService"}
      [] OTHER -> {}

DependencyOrder ==
    NothingIsDeleted =>
        \A r \in Resources :
            child[r] /= Absent =>
                \A p \in Prerequisites(r) \cap Children : child[p] /= Absent

(***************************************************************************)
(* LiveChildNeverLost: a child whose owner is the CR that exists now goes  *)
(* away only if somebody else deletes it.  The operator deletes by name    *)
(* what it finds in its caches (delete* in reconciler.go), so a pass that  *)
(* still sees the children of a deleted CR must not touch those of the CR  *)
(* created since.                                                          *)
(***************************************************************************)
LiveChildNeverLost ==
    [][\A r \in Resources :
          /\ child[r] /= Absent
          /\ Owned(child[r])
          /\ child'[r] = Absent
          => ExternalDelete(r)]_vars

(***************************************************************************)
(* ChildStaysWithCR: under a single manager such a child also stays with   *)
(* the CR as long as it is there.  Update replaces the owner reference     *)
(* with that of the CR the pass inspected and carries no resourceVersion,  *)
(* so a pass that still works on a CR deleted since could hand the child   *)
(* to it, and the garbage collector would take the child of a live CR      *)
(* away.  Only one manager is kept from this by its one cache, which never *)
(* goes back and is read anew by every pass.                               *)
(***************************************************************************)
ChildStaysWithCR ==
    [][(\A m, n \in Managers : m = n) =>
       \A r \in Resources :
          /\ child[r] /= Absent
          /\ Owned(child[r])
          => \/ child'[r] /= Absent /\ child'[r].owner = child[r].owner
             \/ ExternalDelete(r)]_vars

(***************************************************************************)
(* OwnedAsAsked: a child that belongs to the CR that exists has the        *)
(* configuration of this CR, unless the CR has been edited since its       *)
(* creation.  Names and owners are all that ties children to a CR, each    *)
(* child is built or replaced in a request of its own, by a pass that may  *)
(* still work on a CR of the same name deleted since, and a child of that  *)
(* one may still be there; none of this may leave a child that claims to   *)
(* be of one CR and holds what another one asked for.                      *)
(***************************************************************************)
AsAsked(r) == cluster.edited \/ child[r].config = DesiredConfig(cluster, r)

OwnedAsAsked ==
    \A r \in Resources :
        child[r] /= Absent /\ Owned(child[r]) => AsAsked(r)

-----------------------------------------------------------------------------
(***************************************************************************)
(* Convergence                                                             *)
(***************************************************************************)
\* An edited configuration is left out: the code does not carry it out
\* (ConfigMounted).
ChildConverged(r) ==
    /\ child[r] /= Absent
    /\ child[r].owner = cluster.uid
    /\ r \in Deployments => child[r].replicas = DesiredReplicas(cluster, r)
    /\ AsAsked(r)

\* The CR asks for something that the API lets the operator build.
Buildable ==
    /\ cluster.workers \in Nat
    /\ \A r \in Children : Valid(r, Desired(cluster, r))

Converged ==
    IF cluster = Absent
    THEN child = NoChildren
    ELSE Buildable =>
         /\ \A r \in Children : ChildConverged(r)
         /\ child["workerDeployment"].available = cluster.workers
         /\ cluster.status = cluster.workers

\* m has nothing left to do and has seen everything.
Quiet(m) == Settled(m) /\ InSync(m)

DeploymentSettled ==
    LET d == child["workerDeployment"]
    IN  d /= Absent => d.available = d.replicas

\* When every manager is quiet and the worker Deployment is done, the
\* children are what the CR asks for and the status says so, without waiting
\* for the resync hours later.
ConvergedWhenQuiet ==
    /\ \A m \in Managers : Quiet(m)
    /\ cluster /= Absent
    /\ DeploymentSettled
    => Converged

(***************************************************************************)
(* SpecHolds: nobody changes the CR or its children under the operator.    *)
(***************************************************************************)
SpecHolds ==
    Disturbances \cap {"edit", "clusterDelete", "childDelete", "childScale"}
        = {}

(***************************************************************************)
(* UndisturbedConverges: if nobody changes the CR once it is created, and  *)
(* it asks for workers at all, then quiet managers have built all of it,   *)
(* although reconcile() errors are only logged, any request or reply may   *)
(* be lost, caches lag, pods fail, managers crash and others get in the    *)
(* way: a missing child leaves the available workers short of the spec,    *)
(* and that alone keeps passes coming.                                     *)
(***************************************************************************)
UndisturbedConverges ==
    SpecHolds /\ 0 \notin WorkerCounts => ConvergedWhenQuiet

(***************************************************************************)
(* ReportedIsBuilt: as long as nobody deletes anything, a CR whose status  *)
(* reports any workers has all its children, each its own and, unless the  *)
(* CR has been edited, with its configuration.  Edits may follow one       *)
(* another during the passes of several managers, Deployments be scaled by *)
(* others, and each request fail: workers are only counted in a Deployment *)
(* that some pass has built last.                                          *)
(***************************************************************************)
ReportedIsBuilt ==
    /\ NothingIsDeleted
    /\ cluster /= Absent
    /\ cluster.status /= 0
    => \A r \in Children :
          child[r] /= Absent /\ Owned(child[r]) /\ AsAsked(r)

(***************************************************************************)
(* RefusedStaysPending: if nobody changes the CR, and it asks for          *)
(* something that the API refuses, then no pass ever reports workers for   *)
(* it, although a refusal is logged like any other error and the pass goes *)
(* on to its status, and no manager that knows the CR ever leaves it.      *)
(***************************************************************************)
RefusedStaysPending ==
    SpecHolds /\ cluster /= Absent /\ ~Buildable =>
        /\ cluster.status = 0
        /\ cluster.workers /= 0 =>
              \A m \in Managers : ~(Settled(m) /\ CacheIsNewest(m))

(***************************************************************************)
(* BuiltOnce: if nobody changes the CR or its children, whatever has been  *)
(* built stays as it is, and only its pods come and go.  No manager sends  *)
(* a second version of a Deployment, which would restart its pods, however *)
(* old the replicas it compares and however often it is restarted.         *)
(***************************************************************************)
BuiltOnce ==
    [][SpecHolds =>
       \A r \in Resources :
          child[r] /= Absent =>
              /\ child'[r] /= Absent
              /\ child'[r] = [child[r] EXCEPT !.available =
                                 child'[r].available]]_vars

\* What a pass has seen of the children and may still act on.
Remembered(m) ==
    CASE pc[m] = "inspect"   -> {InspectOrder[i] : i \in 1 .. step[m]-1}
      [] pc[m] = "reconcile" -> {ReconcileOrder[i] : i \in step[m] .. Done-1}
      [] OTHER               -> {}

\* A pass that has found everything as it is, and so has nothing to do.
Idles(m) ==
    /\ pc[m] \in {"idle", "inspectCluster", "inspect", "reconcile", "status"}
    /\ pc[m] \in {"inspect", "reconcile", "status"} =>
          inspectedCluster[m] = cluster
    /\ \A r \in Remembered(m) \cap Children :
          inspectedChild[m][r] = child[r].replicas

\* All is as the CR wants it, and everybody has seen that.
AtRest ==
    /\ cluster /= Absent
    /\ Buildable
    /\ Converged
    /\ "workerDeployment" \in Children
    /\ \A r \in Resources : child[r] /= Absent => Owned(child[r])
    /\ \A m \in Managers : InSync(m) /\ Idles(m)

\* Nothing happens to the CR and its children from outside.  A restart is
\* nothing of that kind.
Undisturbed ==
    disturbances' = disturbances \/ \E m \in Managers : Crash(m)

(***************************************************************************)
(* RestStays: once all is as the CR wants it and everybody has seen that,  *)
(* it remains so until it is disturbed from outside: whatever passes still *)
(* run, are due, or are started by a resync or by a restart, of whichever  *)
(* manager, they write nothing.                                            *)
(***************************************************************************)
RestStays ==
    [][AtRest /\ Undisturbed => AtRest' /\ UNCHANGED <<cluster, child>>]_vars

(***************************************************************************)
(* EventuallyConverged: once users and faults have stopped, the children   *)
(* come to be and to stay what the CR asks for, and disappear if there is  *)
(* none, and everybody comes to see it.  Of a CR that has been edited this *)
(* is said of everything but its configuration (see ConfigMounted).        *)
(***************************************************************************)
EventuallyConverged ==
    <>[](/\ Converged
         /\ cluster /= Absent /\ Buildable => AtRest)

(***************************************************************************)
(* EventuallyNoWrites: once users and faults have stopped, the objects in  *)
(* the API stop changing: the status write, itself an event of the CR,     *)
(* does not keep the loop busy, nothing the operator builds is taken away  *)
(* again, and passes started by a resync find nothing to do.               *)
(***************************************************************************)
EventuallyNoWrites == <>[][UNCHANGED <<cluster, child>>]_vars

-----------------------------------------------------------------------------
(***************************************************************************)
(* What the repository says of the program.  These four do not hold: each  *)
(* is refuted by a run of its own, and none of them asks more than that a  *)
(* quiet operator has done what the text says.                             *)
(***************************************************************************)
QuietWithCluster == cluster /= Absent /\ \A m \in Managers : Quiet(m)

(***************************************************************************)
(* ChildrenBuilt: "Create Presto Coordinator, Worker, Service and          *)
(* Configmap automatically according to the user's CR" (Readme.md).  An    *)
(* error of a create is only logged, and a CR that asks for no workers     *)
(* starts no other pass.                                                   *)
(***************************************************************************)
ChildrenBuilt ==
    QuietWithCluster => \A r \in Children : child[r] /= Absent

(***************************************************************************)
(* ReplicasReconciled: "if there is a difference, takes actions to drive   *)
(* the inspected state towards the desired state" (reconciler.go).  When   *)
(* workers are edited and edited back, a pass that compares the spec with  *)
(* a cached Deployment from before the operator's own update finds no      *)
(* difference, and nothing starts another one.                             *)
(***************************************************************************)
ReplicasReconciled ==
    QuietWithCluster /\ child["workerDeployment"] /= Absent
        => child["workerDeployment"].replicas = cluster.workers

(***************************************************************************)
(* StatusReflectsWorld: "we update the status block of the PrestoCluster   *)
(* resource to reflect the current state of the world" (controller.go).    *)
(* Deployments are not watched, so a change of theirs alone is not seen.   *)
(***************************************************************************)
StatusReflectsWorld ==
    QuietWithCluster /\ child["workerDeployment"] /= Absent
        => cluster.status = child["workerDeployment"].available

(***************************************************************************)
(* ConfigMounted: "All the configs under the spec ... will be mounted"     *)
(* (Readme.md).  An existing ConfigMap is never compared with the spec.    *)
(***************************************************************************)
ConfigMounted ==
    QuietWithCluster =>
        \A r \in Children \cap ConfigMaps :
            child[r] /= Absent => child[r].config = cluster.config
=============================================================================
