# TLA+ model of the Presto operator

The operator turns a `PrestoCluster` custom resource (CR) into five child
objects and keeps the number of available workers in the CR's status. This
directory holds a TLA+ model of it, the TLC configurations that check the model
on small instances, and theorems about the model, checked by TLAPS, that hold
for every instance.

| File | What it is |
| --- | --- |
| `PrestoResources.tla` | the five children, the object a CR asks for, what the reconciler decides about each; no state |
| `PrestoOperator.tla` | the state machine: managers, caches, work queue, passes, users, Kubernetes; its properties |
| `PrestoConfig.tla` | what a CR's configuration becomes: ConfigMap keys and values, volume mounts; no state |
| `PrestoMounts.tla` | composes the two: the API refuses what the contents make invalid; which files containers see |
| `OperatorContract.tla` | the abstract specification: what the operator may do to the API |
| `PrestoRefinement.tla` | the refinement mapping from `PrestoOperator` to it |
| `PreStopHook.tla` | one worker pod being stopped: script, Presto server, coordinator, kubelet |
| `PrestoOperator_proofs.tla` | type correctness; no CR is left behind |
| `PrestoChildren_proofs.tla` | children are not lost and are built in order |
| `PrestoConverged_proofs.tla` | children stay with their CR and hold what it asked for; what is reported is built; an undisturbed CR gets built, once |
| `PrestoRest_proofs.tla` | rest, once reached, is left only by a disturbance |
| `PrestoRefinement_proofs.tla` | `PrestoOperator` implements `OperatorContract` |
| `PrestoMounts_proofs.tla` | containers see the files the CR wants |
| `PreStopHook_proofs.tla` | the pre-stop hook |
| `MCPrestoOperator.tla`, `MCPrestoMounts.tla` | model values and small sets for TLC |
| `*.cfg` | one run each |
| `PROJECT.json` | components, runs, map from definitions to source lines, hazards, findings, theorems |

Check a run with `tlc -config faults.cfg MCPrestoOperator.tla` (`mounts.cfg`
and `catalog.cfg` go with `MCPrestoMounts.tla`, `prestop.cfg` and
`prestop_https.cfg` with `PreStopHook.tla`, all others with
`MCPrestoOperator.tla`), and a proof with
`tlapm PrestoOperator_proofs.tla`.

## 1. Inventory

| Part | State it keeps | Operations | Interacts with |
| --- | --- | --- | --- |
| Manager process (`main.go`) | caches, work queue, leader election (off by default), `maxConcurrentReconciles` | start, stop | starts the controller |
| Controller loop (`controllers/controller.go`) | one `PrestoClusterController` per pass | `Reconcile`, `reconcile`, `SetupWithManager` | taken from the work queue; calls the four parts below in turn |
| Inspector (`inspector.go`) | `InspectedClusterState` | `inspect`: six cached Gets | reads the informer caches |
| Desired state builder (`desired.go`, `utils.go`) | none | `getDesiredClusterState` and one builder per child | pure function of the inspected CR |
| Reconciler (`reconciler.go`) | none | `reconcile`: create, update or delete of each child in order | writes to the API |
| Status updater (`status.go`) | none | `updatePrestoClusterStatus` | one more cached Get, one conditional status update, asks for a requeue |
| Pre-stop script (`preStopScript.go`) | none | runs in a worker pod when it is to stop | Presto's own HTTP API |
| API types (`api/v1alpha1`) | the CR | generated deep copies | everything |
| Manifests, CRD, RBAC, Helm chart, scripts, `coresite.go` | none | none | deployment only |
| Kubernetes and controller-runtime v0.5.0 (external) | the API objects, watch streams, queue | optimistic concurrency, garbage collection, Deployment controller, informers, delaying queue | everything |

What is hard about it, although the code is small and has no goroutine of its
own:

- A CR may say what cannot be built: no `spec` at all, a negative number of
  workers, keys that no ConfigMap may have, files on one path. The operator
  checks nothing of it; the API refuses a part, or the process dies.
- Every read is a read of an informer cache. It may lag behind the API, behind
  other managers, and behind the operator's own last write. The six reads of a
  pass are six moments.
- Only CR events start passes (`For` and no `Owns`). What happens to a child
  starts nothing. Passes are brought about by a CR event, a retry after a
  returned error, the 5 second requeue in `status.go:108`, a restart, or the
  informers' resync some ten hours later.
- An error of step 3 is logged and then overwritten (`controller.go:138-159`).
  Whether the work is ever finished depends on step 4.
- Several managers may run at once (leader election is off unless asked for,
  and a rolling update overlaps). Names are the only lock.
- The CR may be edited, deleted or created again under the same name at any
  moment of a pass, and its old children are collected later.

What makes each part correct:

- Controller loop: a CR whose status is not what its spec asks for always has
  something pending (`NeverForgotten`), one that cannot be built too
  (`RefusedStaysPending`); an undisturbed CR gets built
  (`UndisturbedConverges`), and in the long run any CR does
  (`EventuallyConverged`), except that an edited configuration is not carried
  out (section 4); the loop comes to rest (`EventuallyNoWrites`), and nothing
  but a disturbance ends that rest (`RestStays`).
- Inspector and reconciler: no decision on stale data destroys what is needed
  (`LiveChildNeverLost`, `ChildStaysWithCR`); a child that names a CR as its
  owner holds what this CR asks for and not what an older one of the same name
  did (`OwnedAsAsked`); children come in the order they
  depend on each other (`DependencyOrder`); each is built from one version of
  the CR, and what should be left alone is (`KeepsContract`, `BuiltOnce`).
- Status updater: a status is a count that was once true, written only to a
  version of the CR that was read (`KeepsContract`), and one that reports
  workers tells that
  everything is built (`ReportedIsBuilt`).
- Desired state builder: the containers of every Deployment see every file of
  the CR with its content (`FilesAsWanted`), with the exceptions that
  `CatalogMounted` is about.
- Pre-stop script: it waits only for a server that shuts down
  (`BlocksOnShutdownOnly`), and a worker's tasks are killed only for the reasons
  that a user can know of (`TasksKilledOnlyLate`).

## 2. The model and the code

`PrestoOperator.tla` follows one PrestoCluster name. Distinct names share
nothing but the work queue, and the queue hands out one key to one worker at a
time, so `maxConcurrentReconciles` does not matter for one name.

State:

- `cluster`, `child`, `lastUid` are the objects in the API. A child is its
  owner's uid, the abstract configuration it was built from, its replicas and
  its available replicas.
- `cluster.edited` says whether the CR has been edited since it was created, a
  `metadata.generation` above 1. No code reads it. Since an existing ConfigMap is
  never updated (`config_drift`), what the properties say about the configuration
  of children is said of CRs that have not been edited (`AsAsked`).
- `newest` stands for resourceVersions: the set of copies of the CR (a
  manager's cache, a pass's inspected CR) that carry the version the API has
  now. Every write of the CR empties it; a watch event adds the cache; reading
  the CR passes membership from the cache to the pass. Only equality with the
  current version is ever asked for, so this is all of a version that matters,
  and the state space stays finite.
- `cachedCluster`, `cachedChild`, `queued`, `delayed` are a manager's caches and
  work queue; `pc`, `step`, `inspectedCluster`, `inspectedChild`,
  `newAvailable` are the locals of a pass.

A pass is a sequence of actions, one per cached Get and one per request:

| Actions | Code |
| --- | --- |
| `Dequeue` | `Reconcile` is called with the key |
| `InspectCluster`, `InspectChild`, `InspectFails` | the Gets of `inspect`, NotFound and other errors |
| `ReconcileGone` | `reconcile()` returns early without a CR |
| `ReconcileNoAction`, `ReconcileRequest` | one `reconcile...` call with the verb that `Verb` computes |
| `ReconcilePanics` | the comparison at `reconciler.go:106` follows `spec.workers`, which is nil without a spec |
| `ReconcileRejected`, `ReconcileFails` | the API refuses; the request or its reply is lost. Both end step 3 and go on to step 4 |
| `StatusGone` | the return of `controller.go:155-158` |
| `DeriveStatus`, `DeriveStatusFails` | the Get of `deriveClusterStatus`, whose error counts as 0 |
| `UpdateStatus`, `UpdateStatusRejected`, `UpdateStatusFails` | the conditional status update and its errors |
| `FinishPass` in the last five | `status.go:108`: the requeue, or a nil pointer again |

Around it: `SyncCluster` (a CR watch event: the cache moves and the key is
queued), `SyncChildren` (child watch events: the cache moves and nothing is
queued), `DelayElapsed`, `Resync`, `Crash`, `Panic`; and outside the operator
`UserCreate`, `UserEdit`, `UserDelete`, `GarbageCollect`,
`DeploymentProgress`, `PodFails`, `ExternalDelete`, `ExternalScale`.

A CR without a `spec` (the CRD requires `workers` and `image` inside `spec`, not
`spec` itself) has `workers = Absent` and the configuration `NoConfig`. Its
ConfigMaps and Service can be built, its Deployments have no image and are
refused. When a pass follows the nil count its stage becomes "panic": nothing in
the operator recovers, and controller-runtime v0.5.0 logs a panic and panics
again, so `Panic` restarts the process, over and over.

`Refused` is the constant set of pairs of a resource and a configuration that the
API never accepts, and `Valid` what the API asks of an object: not refused, an
image for a Deployment, a natural number of replicas. In most runs nothing is
refused and a configuration is a model value. `PrestoMounts` gives both a
content:

- `PrestoConfig` translates `desired.go`: `EtcKey`, `PrestoData`, `CatalogData`
  are the ConfigMaps' entries, `Mounts` the volume mounts of a Deployment. Names
  and paths that the code concatenates are pairs (`<<"worker", k>>` is
  `"worker." + k`, `<<"etc", k>>` is `"/usr/lib/presto/etc/" + k`). This is exact:
  the prefixes are constants of which none begins another's result, and a valid
  key has no slash.
- `PrestoMounts` instantiates the operator with it. `RefusedContent` derives
  from the contents what the API refuses: an invalid key in a ConfigMap, two
  mounts on one path. `Visible` is what a container sees at a path: the value
  that the ConfigMap which is *there* holds under the mount's `subPath`.

`OperatorContract` has no managers, caches, queues or passes. Its variables are
the objects in the API and three sets the operator may still act on: `views`
(versions of the CR), `counts` (numbers of available workers), and whether
somebody has `read` the CR since its last write. `PrestoRefinement` maps them to
what some cache or pass still holds (`HeldViews`, `HeldCounts`) and to
`newest /= {}`. The contract permits that a child goes at any time, because
others may delete it; that the operator itself does not take children of a live
CR is `LiveChildNeverLost`.

`PreStopHook` is a model of its own, since a pod shares nothing with the operator
but the Deployment it was made from. The script's steps are the two PUT requests
(`PutHttp`, `PutHttps`), the test of the answer (`Check`) and the loop
(`EndLoop`); it finds an http port, an https port, both or none. A PUT may be
answered, refused, or take effect while its answer is lost. `missed` records that
a curl of the loop failed although the server was there. The server takes tasks
until the coordinator has noticed that it shuts down, then finishes them; the
kubelet stops the container when the hook has ended or the grace period is over,
which is Kubernetes' default, as the pod template at `desired.go:313` sets none.

Abstractions, and why they are harmless or what they hide:

- A cache jumps to the current object; versions in between are not delivered.
  The code keeps no history, and being late is what `SyncCluster` and
  `SyncChildren` may be for as long as they like. One informer is one step, so
  objects of one type move together, and different types independently.
- The caches keep of a child its replicas and available replicas, which is all
  the code ever compares. An inspected child is forgotten once its request is
  past, since nothing reads it again.
- ConfigMaps, catalog, image and resources are one value `config`; the content of
  the maps is `PrestoMounts`' subject. Labels, ports and resources are constants
  that no other code reads.
- How many coordinator pods are available is not modelled, because no code
  reads it.
- The garbage collector is accurate: it removes an object whose owner's uid
  does not exist. The finalizers of foreground deletion and the deletion
  timestamp are not modelled; a deleted object is gone.
- A crash loses queue and pass and fills the caches from the API, as a manager
  starts its controllers only after the caches have synced.
- A request takes effect while its pass waits for the answer, or never. One that
  takes effect only after the process that sent it has died, or after the client
  has given it up, is not modelled: an old process' late Update of a Deployment
  would look like one of a second manager, so for `ChildStaysWithCR` "a single
  manager" means one whose requests do not outlive it.
- The recorded Kubernetes event is left out; nothing reads it.

The operators named `...Never`, `...GoesOn`, `...IfBelow` and the like, each
introduced by "Seeded fault", are not part of the model. Each is a plausible bug
of the definition that follows it, used to make sure that the property it is
paired with in `PROJECT.json` (under `mutants`) would notice.

## 3. Properties and runs

| Run | Instance | Checks |
| --- | --- | --- |
| `faults` | 1 manager, 5 children, workers in {none, -1, 1, 2}, 2 disturbances out of edit, scaling by others, lost request, lost reply, failed read, pod failure, restart; resync | `TypeOK`, `DependencyOrder`, `ReportedIsBuilt` |
| `edits` | 1 manager, 2 children, workers in {none, 0, 1}, 2 configurations, 2 incarnations, 2 disturbances of any kind | `NeverForgotten`, `OwnedAsAsked`, `ChildStaysWithCR`, `KeepsContract` |
| `overlap` | 2 managers, 3 children, 1 fault | `DependencyOrder`, `UndisturbedConverges`, `BuiltOnce` |
| `converge` | 1 manager, 3 children, workers in {none, 0, 1}, 2 incarnations, 1 disturbance of any kind, resync | `EventuallyConverged`, `EventuallyNoWrites`, `RestStays` |
| `mounts` | 1 manager, 5 children, 7 configurations, workers in {1, 2}, 2 faults, resync | `FilesAsWanted`, `NeverForgotten`, `UndisturbedConverges`, `RefusedStaysPending` |
| `prestop` | 1 worker pod, any ports, 2 tasks, 3 steps of grace | `BlocksOnShutdownOnly`, `TasksKilledOnlyLate` |
| `swallowed_error` | 1 manager, 5 children, a lost request | refutes `ChildrenBuilt` |
| `lost_scale` | 1 manager, the worker Deployment, two edits | refutes `ReplicasReconciled` |
| `catalog` | 1 manager, 5 children, 2 configurations | refutes `CatalogMounted` |
| `stale_status` | 1 manager, 5 children, one `kubectl scale` | refutes `StatusReflectsWorld` |
| `config_drift` | 1 manager, 5 children, one edit, two configurations | refutes `ConfigMounted` |
| `prestop_https` | as `prestop` | refutes `BlocksUntilDown` |

("none" is a CR without a spec.)

What the passing runs show:

- `NeverForgotten` rests on a subtle chain: a pass that returns without an error
  and without a requeue must have worked on the CR that is now in the cache, or
  an event must have queued the key again meanwhile. It holds even for a count
  no API accepts (-1) and for a CR of which the API refuses a part: then the 5
  second requeue never ends. With a CR that has no spec there is never a settled
  manager: it dies in every pass.
- `ChildStaysWithCR` is about the unconditional `Update` at `reconciler.go:145`,
  which replaces the owner reference and carries no resourceVersion. A pass
  that works on a deleted CR could thereby hand a child of the CR created since
  to it, and the garbage collector would take it. A single manager is kept from
  that by its one cache: when it has seen the new CR, no pass works on the old
  one, and before that nobody has built anything for the new CR. The property
  is stated for one manager because it is false for two (section 4).
- `OwnedAsAsked` follows a child through re-creation of the CR: owner and
  configuration are copied from the CR a pass inspected, which may be one that
  was deleted since, children of the old CR are still there under the same names,
  and an Update replaces both in a child that is not its own. In no reachable
  state do they come from two CRs. Of an edited CR this is false, since only a
  Deployment whose replicas differ is written anew.
- `KeepsContract` says that all of this, seen from outside, is
  `OperatorContract`: an object is built from one version of the CR, maybe an old
  one, and never from a mixture; existing ConfigMaps and Services are left alone;
  of the CR only the status is written, to a count once read or 0, and only in a
  version somebody has read.
- `ReportedIsBuilt` is what a user may conclude from a status: as long as nothing
  is deleted, workers in the status mean that all five children are there and
  are this CR's. Nothing else is asked for: the CR may be edited in the middle of
  passes, others may scale its Deployments, requests may fail and the count may
  come from an old copy. It holds because reconcile() builds the worker
  Deployment last and ends at the first error; a count that is not 0 was read
  from that Deployment.
- `RefusedStaysPending` is the same for a CR of which the API refuses a part: its
  status stays 0 and it is never given up. The user sees no error in the
  CR, but never a wrong success either.
- `BuiltOnce` says that stale caches, repeated requests and a second manager do
  not make a child be built twice: whatever `Update` is sent to an undisturbed
  cluster changes nothing, so the pods of a Deployment are not restarted.
- `UndisturbedConverges` is why swallowing the error of step 3 usually does no
  harm: reconcile() creates the worker Deployment last, so a pass that broke off
  leaves too few available workers, and the requeue follows. It needs the order
  of `reconcile()`, a requeue that compares with the spec and not with the old
  status, and a CR that asks for at least one worker. `SpecHolds` excludes
  edits and deletions and `0 \notin WorkerCounts` the empty cluster; the
  findings show that neither can be dropped.
- `DependencyOrder` shows that the ConfigMaps a Deployment mounts, and the
  coordinator that workers register with, are there first, also if passes of
  two managers interleave and break off.
- `FilesAsWanted` relates objects that are built by different requests of
  different passes. Its seven configurations are: coordinator and workers with a
  file of the same name (told apart by the prefix of the key); catalog and
  coresite with a key in common, with different contents and with the same; a
  worker file `pre-stop.sh`, whose path collides with the script's, so that the
  API refuses the worker Deployment; an invalid key in each ConfigMap, after
  which nothing further is built; a coordinator file `catalog`, where the
  directory of the catalog files must be. Two cases are excepted, since the code
  does not do what is wanted there: a catalog key that coresite overwrites, and
  containers that cannot start (`CatalogMounted`, section 4).
- `BlocksOnShutdownOnly` holds although answers may be lost at either port.
  `TasksKilledOnlyLate` names every way a worker with an http port loses tasks:
  it needs more time than the grace period, no request to shut down was
  answered with 200, or one curl of the loop failed for another reason.
- `EventuallyConverged` holds thanks to the resync alone in the worst case:
  nothing watches children. Besides the children it asks for what comes after
  them: every cache has the current objects and every pass that still runs has
  found nothing to do (`AtRest`). Configurations are
  compared unless the CR was edited.
- `RestStays` is the other half: from `AtRest` no pass, resync, restart or step
  of Kubernetes writes anything or leaves it; only an edit, a deletion, a
  scaling, a pod failure, or a failed read in step 4 does. The last one does
  because it counts as 0 available workers, which the pass then writes into the
  status.
- `EventuallyNoWrites` shows that the status write, which is itself an event of
  the watched type, does not start a loop, and that the operator and the garbage
  collector do not undo each other's work for ever.

### Bounds

- `MaxDisturbances` bounds how many things go wrong, not when: each may happen at
  every step of every pass. Two suffice for the pairs that matter: a failure
  while recovering from a failure, and an edit during the reaction to another.
  `Resync` has no bound.
- `MaxIncarnations = 2` is the smallest with an old and a new CR of one name.
- `Children` limits a run to some of the five children. `faults` and `mounts` have
  all of them; `overlap` and `converge` keep the first and the last child of
  `reconcile()`'s order and the one in the middle, which still has all three
  outcomes of a walk (break off before, between, after) and ConfigMaps as well as
  Deployments. `edits` keeps one child that is never updated and one that is:
  what it checks is about each child on its own or about the status. `lost_scale`
  keeps the worker Deployment, so that only the comparison of its replicas can
  lose the edit.
  The theorems of section 5 hold for any choice.
- `MaxTasks = 2` lets one task end while another runs or arrives; `Grace = 3` lets
  the time run out before, during and after each phase of the hook, since any
  number of other steps may happen between two steps of time.
- Managers are a symmetry set in `overlap`, which has two of them, and
  configurations in `edits`, which has two of these. `converge` uses none, since
  symmetry is unsound for liveness.
- `CHECK_DEADLOCK FALSE` where the system really may be at rest: with no CR, once
  all has converged, and in `prestop` once the pod is stopped. `mounts` leaves
  the deadlock check on: with the resync a manager never runs out of steps.

### Fairness

`Fairness` is weak fairness of what the environment of the code guarantees: a
pass goes on (a goroutine of a live process), watch events arrive, a delayed key
becomes due, a process that died is started again (it runs in a Deployment), the
garbage collector and the Deployment controller do their work.
Weak is enough, as none of these is disabled for ever by others once
disturbances are used up, and each stays enabled until taken. Nothing is assumed
of users, of faults, or of the resync, with one exception: `ResyncSpec`, used by
`converge`, also assumes that the informer's resync period elapses again and
again, because without it the long-run claims are false (next section).

## 4. Findings

Each is a run whose property states what a text of the repository says; the
counterexample is the run's output.

- `swallowed_error`: one lost create while the CR asks for no workers. Step 3
  breaks off, the error is logged only; the status (0) equals the spec (0), so
  no requeue. The coordinator is missing until something unrelated happens.
  In the same way an edit of `spec.workers` is lost when the cache lacks a
  ConfigMap or Service that was just built: its create is answered with
  AlreadyExists, step 3 ends before the worker Deployment is compared, and the
  available workers may already be as many as the new spec wants.
- `lost_scale`: the user edits `spec.workers` from 1 to 2 and back to 1. The
  first edit is written to the Deployment; the pass for the second one still
  finds the Deployment with one replica in its cache (`reconciler.go:105`), sees
  no difference and writes nothing; the cached available count agrees as well, so
  no requeue. When the Deployment's event arrives, it starts nothing, and two
  replicas stay. The instance has only the worker Deployment, so nothing else can
  lose the edit.
- `stale_status`: once the status equals the spec, a change of the available
  workers is not reported until the CR changes or the resync comes.
- `config_drift`: an existing ConfigMap is never compared, so an edited
  configuration never reaches it. (A Deployment gets the new template only if
  its replicas change as well.) A CR that gets its spec by an edit keeps the
  empty ConfigMaps that were built without one. This is why `Converged` and `AtRest`
  leave out the configuration of an edited CR.
- `catalog`: a key that `catalogConfig` and `coresite` have in common is one key
  of their common ConfigMap (`desired.go:400`), so both files get the coresite
  content, although `Readme.md:72` says that all of `catalogConfig` is mounted.
  `CatalogMounted` fails in another way, too, on the contents of `mounts`: an
  etcConfig file named `catalog` is mounted where the directory of the catalog
  files must be, and the containers cannot start (`desired.go:95`). The same
  line of the Readme names the directory `/usr/lib/presto/catalog/etc/catalog`;
  the code mounts the catalog files in `/usr/lib/presto/etc/catalog`
  (`desired.go:95` and `258`) and nothing anywhere below
  `/usr/lib/presto/catalog`. The model follows the code (`Wanted` in
  `PrestoConfig`), so the directory is not what refutes the property.
- `prestop_https`: a worker with an https port only. The shutdown request is
  accepted there, but the loop (`preStopScript.go:25`) asks the http port, gets
  no answer and ends, and the hook succeeds while the server still drains.

Further behaviours have no run of their own, because no text of the repository
promises otherwise, but the properties above are worded around them. When a CR is created again while
children of the old one still exist, the pass finds them by name and does not
create its own; the garbage collector takes them away afterwards. If the old
workers were as many as wanted, the status agrees and nothing is built until the
resync. It is a case that `EventuallyConverged` passes only because
`ResyncSpec` has the resync.

With two managers `ChildStaysWithCR` without its first line is false: one manager
inspects the CR and is slow; the CR is deleted and created again; the other
manager builds the new CR's worker Deployment; the first one updates it by name,
with the owner reference of the old CR, and the garbage collector deletes it.
The remedy would be to send the inspected resourceVersion with the Update.

## 5. Theorems

Those about the operator are about `Spec` for arbitrary `Managers`,
`WorkerCounts`, `Configs`, `Children`, `Refused`, `Disturbances` and bounds. They
assume no more than `ResourcesAssumption` and `OperatorAssumption`: `Absent`
differs from every value it is compared with, there is at least one manager and
one child, worker counts are integers or `Absent`. `FilesAreAsWanted` adds
`ConfigAssumption` and `MountsAssumption` (all five children; the configurations
are contents; what is refused is what `RefusedContent` says), the hook's theorems
rest on `HookAssumption` (two natural numbers). TLC evaluates each of them in the
runs of its module.

- `TypeCorrect`: `[]TypeOK`, by one lemma per group of actions. The parts that
  are not bookkeeping are that an accepted request stores a natural number of
  replicas (`WriteTargetType`) and that `NextSteps` stays within an order.
- `NothingForgotten`: `[]NeverForgotten`. The invariant is not inductive alone,
  because it does not say why a pass that ends may leave nothing pending.
  `ServedInv` does: a newest cache holds the CR (`HoldsTruth`); a pass past its
  first Get, whose key no event has queued since, works on the CR of the cache
  (`PassSeesCache`); and a settled manager with a newest cache has left the
  *cached* CR served (`LeftServed`). `ServedInvariant` proves it inductive. The
  case that matters is a pass that ends without a write and without a requeue
  (`DeriveKeepsServed`).
- `LiveChildrenSafe`: `LiveChildNeverLost` for any number of managers (no run
  checks it, since under one manager `ChildStaysWithCR` says more), from
  `RequestBuilds`: a pass with a CR only creates and updates.
- `ChildrenStayWithCR`: `ChildStaysWithCR`. The inductive invariant `UidInv`
  (`UidsNeverReused`) says that uids are given once, and that under a single
  manager they only grow from child to inspected to cached CR. So an Update
  never carries an older owner than the child has.
- `OwnedIsAsAsked`: `[]OwnedAsAsked` for any number of managers. Its inductive
  invariant `AskedInv` (`AskedInvariant`) says the same of every copy of the CR,
  in a cache or in a pass: what carries the uid of a CR that has not been edited
  carries its configuration. A request copies both from the same inspected CR,
  a new CR has a uid that no copy and no child has (`UidInv`), and nobody but an
  edit changes the configuration of a CR.
- `BuiltInOrder`: `[]DependencyOrder`. The inductive invariant `OrderInv`
  (`OrderInvariant`) adds that while nothing is deleted there is one incarnation
  and all children are its own, so that the garbage collector has nothing to take
  (`OneIncarnation`); that what a cache or a pass has seen is there
  (`SeenExists`); and that a pass has built or found everything it went past
  (`BuiltSoFar`).
- `SpecInvariant`: the inductive `SpecInv`. Its parts have a hypothesis each: as
  long as nobody changes the CR or its children, every copy of the CR and every
  child agrees with it (`SameSpec`); as long as nothing is deleted, a count of
  workers that is not 0, in a pass or in the status, was read from a Deployment
  that exists (`CountedWorkers`). The four theorems below follow from it and the
  invariants above, without another induction.
- `ReportedIsAllBuilt`: `[]ReportedIsBuilt`. By `CountedWorkers` the worker
  Deployment exists, by `DependencyOrder` so does everything else, by
  `OneIncarnation` it is this CR's, and by `OwnedAsAsked` it is as this CR asked.
- `RefusedIsRetried`: `[]RefusedStaysPending` for every set `Refused`. Were the
  status not 0, all children would exist, and be what the CR asks for, so the
  API would have accepted all of it.
- `ChildrenBuiltOnce`: `BuiltOnce`. What a pass sends (`RequestBuilds`) is, by
  `SameSpec`, what is there.
- `UndisturbedIsBuilt`: `[]UndisturbedConverges` for any number of managers. When
  all managers are quiet, `NeverForgotten` makes the status the wanted number,
  which is not 0, so by `ReportedIsBuilt` all children exist, and by `SameSpec`
  they are built from this CR.
- `RestIsStable`: `RestStays`, from `TypeOK`, `ServedInv` and one more inductive
  invariant, `AtChildInv` (`WalkInvariant`): a walk over the children stands at
  one of this instance's. A step of a pass plans nothing because what it
  remembers is what is there (`NothingPlanned`), and a restart remembers nothing.
  `RestForGood` concludes that a behaviour without disturbances from a state of
  rest on is at rest for ever. So of self-stabilization one half, coming to
  rest, is TLC's (`EventuallyConverged` on the instance of `converge`), and the
  other, staying there, is proved for every instance.
- `ContractKept`: `Spec => KeepsContract`, by showing that every step of the
  operator maps to a step of the contract or a stutter. A write maps to
  `Creates`, `Updates` or `Reports`, a read or the end of a pass to `Recall`. It
  needs `TypeOK` and that a newest copy holds the CR.
- `CollidesOnlyOnScript`: of all contents, exactly a worker file called
  `pre-stop.sh` gives two mounts of a Deployment one path. So the run `mounts`
  leaves out no other way in which the mounts of a CR are refused.
- `FilesAreAsWanted`: `[]FilesAsWanted`. By `SpecInv` each ConfigMap and Deployment
  comes from the CR's contents, by `OrderInv` the ConfigMaps a Deployment mounts
  exist, by `Valid` the Deployment's paths do not collide; the rest is
  `PrestoConfig`'s: each key of `PrestoData` and `CatalogData` holds the value
  wanted, unless overwritten.
- `HookBlocksOnShutdown` and `HookKillsLate`: the two properties of the hook, for
  every number of tasks and every grace period, from the inductive `HookInv`
  (`HookInvariant`).

The inductive invariants are defined in the proof modules, before their proofs.
TLC was run on each of them first, on the instances of the runs above.

Only model-checked: the two liveness properties, since TLAPS does not handle
fairness and `ENABLED`; and the refuted statements.

## 6. Not modelled

- Leader election itself: with it there is at most one manager, which is
  `OneManager`; the change of leaders is a crash of one.
- Several CRs and `maxConcurrentReconciles`: client-go's queue hands a key to one
  worker at a time, and children of CRs with different names or namespaces have
  different names (each name is the CR's with a suffix that is fixed for the
  child, and of two suffixes of one type neither ends the other), so passes of
  different CRs share nothing.
- Why a container does not start, other than a file mounted where a directory
  must be; image, resources, labels and ports.
- Presto's own configuration and queries: of a worker only its tasks and the
  state of its server are kept.
- `createIngress`, `deleteIngress`, `requeueResult`, the property helpers of
  `utils.go` and `coresite.go`: called by nothing.
- Flags, metrics and signal handling of `main.go`.
- Generated code, manifests, the certificate script: configuration and
  deployment.

## 7. Plan

The plan was: the operator and its safety, then its configuration, the pre-stop
hook, an abstract specification, and the proofs of all safety properties. It is
done: each invariant and action property that a run checks is also a theorem.
What could be added:

1. `mounts` with two managers. `FilesAreAsWanted` covers it; as a run it takes
   too long with seven configurations.
2. If the operator comes to watch its children (`Owns`) or to send a
   resourceVersion with its updates, `SyncChildren` and `Accepted` are where to
   say so. `lost_scale` and `stale_status` should then pass, and
   `ChildStaysWithCR` should hold for two managers.
3. Should `createIngress` come to be called, an Ingress is a sixth member of
   `Resources`, and `Done` becomes 7.
