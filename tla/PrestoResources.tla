--------------------------- MODULE PrestoResources ---------------------------
(***************************************************************************)
(* The Kubernetes objects that one PrestoCluster stands for, and the       *)
(* decision the reconciler takes about each of them.                       *)
(*                                                                         *)
(* controllers/desired.go converts a PrestoCluster custom resource (CR)    *)
(* into five child objects; controllers/inspector.go reads the same five;  *)
(* controllers/reconciler.go compares the two, object by object.  This     *)
(* module has no state: PrestoOperator.tla runs these operators.           *)
(***************************************************************************)
EXTENDS Integers, Sequences

CONSTANTS
    Configs,    \* abstract contents of the CR's config maps, catalog and image
    Absent,     \* nil, NotFound: the object is not there
    NoConfig,   \* content of an object that does not depend on the CR's spec,
                \* and of a CR without a spec
    Refused,    \* pairs of a resource and a content that the API refuses
                \* however often it is asked: an invalid key or name, one
                \* mountPath twice
    Children    \* bound: the children the operator handles in this instance;
                \* all five unless several managers make too many states

Resources == {"prestoConfigMap", "catalogConfigMap", "coordinatorDeployment",
              "coordinatorService", "workerDeployment"}

ConfigMaps == {"prestoConfigMap", "catalogConfigMap"}

Deployments == {"coordinatorDeployment", "workerDeployment"}

\* An object as the operator sends it: only the API checks that its replicas
\* are there and not negative.
Objects == [owner: Nat, config: Configs \cup {NoConfig},
            replicas: Int \cup {Absent}, available: Nat]

\* Absent is not a content, a replica count or an object.
ResourcesAssumption ==
    /\ NoConfig \notin Configs
    /\ Absent \notin Configs \cup {NoConfig}
    /\ Absent \notin Int
    /\ Absent \notin Objects
    /\ Refused \subseteq Resources \X (Configs \cup {NoConfig})
    /\ Children \subseteq Resources
    /\ Children /= {}

ASSUME ResourcesAssumption

\* Seeded fault: the workers are started first.
ReconcileOrderWorkersFirst ==
    <<"workerDeployment", "prestoConfigMap", "catalogConfigMap",
      "coordinatorDeployment", "coordinatorService">>

\* The order in which ClusterReconciler.reconcile takes action.
ReconcileOrder == <<"prestoConfigMap", "catalogConfigMap",
                    "coordinatorDeployment", "coordinatorService",
                    "workerDeployment">>

\* The order in which ClusterStateInspector.inspect reads the children.
InspectOrder == <<"catalogConfigMap", "prestoConfigMap",
                  "coordinatorDeployment", "coordinatorService",
                  "workerDeployment">>

\* Where a walk along an order goes from position k: past the children that
\* this instance leaves out; Done after the last one.
Done == 6

NextSteps(order, k) ==
    {n \in k+1 .. Done : /\ n < Done => order[n] \in Children
                        /\ \A i \in k+1 .. n-1 : order[i] \notin Children}

(***************************************************************************)
(* One informer, so one ordered watch stream, per Kubernetes type.         *)
(***************************************************************************)
ChildInformers == {"configMaps", "deployments", "services"}

Watched(informer) ==
    CASE informer = "configMaps"  -> ConfigMaps
      [] informer = "deployments" -> Deployments
      [] informer = "services"    -> {"coordinatorService"}

(***************************************************************************)
(* The child object that a CR asks for.  The coordinator Deployment always *)
(* has one replica, the worker Deployment what the CR says; a ConfigMap    *)
(* and a Service have no replicas (0).  Everything but the Service depends *)
(* on the CR's configuration: the ConfigMaps hold it, the Deployments      *)
(* mount its keys.                                                         *)
(***************************************************************************)
DesiredReplicas(cr, r) ==
    CASE r = "coordinatorDeployment" -> 1
      [] r = "workerDeployment"      -> cr.workers
      [] OTHER                       -> 0

DesiredConfig(cr, r) ==
    IF r = "coordinatorService" THEN NoConfig ELSE cr.config

\* Seeded fault: the owner reference does not name the CR.
OwnerReferenceUnknown(cr) == 0

\* toOwnerReference: the CR, by its uid.
OwnerReference(cr) == cr.uid

Desired(cr, r) ==
    IF cr = Absent
    THEN Absent
    ELSE [owner     |-> OwnerReference(cr),
          config    |-> DesiredConfig(cr, r),
          replicas  |-> DesiredReplicas(cr, r),
          available |-> 0]

\* What the API accepts of an object's content: a Deployment needs an image,
\* so a CR with a spec, and replicas may not be negative.
Valid(r, obj) ==
    /\ <<r, obj.config>> \notin Refused
    /\ r \in Deployments => obj.config /= NoConfig
    /\ obj.replicas \in Nat

(***************************************************************************)
(* What the reconciler does about r, given the desired object and the      *)
(* replicas of the inspected one (Absent if it was not found).  An         *)
(* existing ConfigMap or Service is never updated, an existing Deployment  *)
(* only when its replicas differ.                                          *)
(***************************************************************************)
\* Seeded fault: an existing Deployment is never updated either.
NeedsUpdateNever(r, desired, inspected) == FALSE

NeedsUpdate(r, desired, inspected) ==
    r \in Deployments /\ desired.replicas /= inspected

Verb(r, desired, inspected) ==
    IF inspected = Absent
    THEN IF desired = Absent THEN "none" ELSE "create"
    ELSE IF desired = Absent THEN "delete"
    ELSE IF NeedsUpdate(r, desired, inspected) THEN "update" ELSE "none"
=============================================================================
