-------------------------- MODULE OperatorContract --------------------------
(***************************************************************************)
(* What anybody who shares the API with the operator may rely on, for one  *)
(* PrestoCluster name: the abstract specification that PrestoOperator      *)
(* implements.  There are no managers, caches, queues or passes here.  Of  *)
(* all that, only what some process of the operator may still act on is    *)
(* left: versions of the CR, counts of workers, and whether anybody has    *)
(* read the CR since it was last written.                                  *)
(*                                                                         *)
(* Children may go at any time: others delete them.  The operator writes   *)
(* an existing one only if it is a Deployment, builds each child of one    *)
(* version of the CR and never of a mixture, and changes nothing of a CR   *)
(* but its status, to a count that was once true or 0, and only in a       *)
(* version that it has read.                                               *)
(***************************************************************************)
EXTENDS PrestoResources

CONSTANTS
    Specs,          \* what a CR may say: its workers and its configuration
    MaxIncarnations \* bound: how often the CR may be created

VARIABLES
    cluster,        \* the CR in the API, or Absent
    child,          \* each child in the API, or Absent
    lastUid,        \* the newest uid given to a CR
    views,          \* the versions of the CR the operator may still act on
    counts,         \* the counts of available workers it may still report
    read            \* somebody has read the CR since it was last written

vars == <<cluster, child, lastUid, views, counts, read>>

\* What there is to read.
Current == {cluster} \ {Absent}

\* How many workers are available; nobody reports more than that or nothing.
Counted ==
    LET d == child["workerDeployment"]
    IN  {0} \cup (IF d = Absent THEN {} ELSE {d.available})

-----------------------------------------------------------------------------
(***************************************************************************)
(* Users and Kubernetes                                                    *)
(***************************************************************************)
UserCreates ==
    /\ cluster = Absent
    /\ lastUid < MaxIncarnations
    /\ lastUid' = lastUid + 1
    /\ \E spec \in Specs :
          cluster' = [uid |-> lastUid + 1, workers |-> spec[1],
                      config |-> spec[2], edited |-> FALSE, status |-> 0]
    /\ read' = FALSE
    /\ UNCHANGED <<child, views, counts>>

UserEdits ==
    /\ cluster /= Absent
    /\ \E spec \in Specs :
          cluster' = [cluster EXCEPT !.workers = spec[1], !.config = spec[2],
                                     !.edited = TRUE]
    /\ read' = FALSE
    /\ UNCHANGED <<child, lastUid, views, counts>>

UserDeletes ==
    /\ cluster /= Absent
    /\ cluster' = Absent
    /\ read' = FALSE
    /\ UNCHANGED <<child, lastUid, views, counts>>

\* The garbage collector, or somebody else, deletes a child.
ChildGoes(r) ==
    /\ child[r] /= Absent
    /\ child' = [child EXCEPT ![r] = Absent]
    /\ UNCHANGED <<cluster, lastUid, views, counts, read>>

\* Pods come and go, or somebody else scales a Deployment.
DeploymentChanges(r) ==
    /\ child[r] /= Absent
    /\ child' = [child EXCEPT ![r].replicas  = child'[r].replicas,
                              ![r].available = child'[r].available]
    /\ UNCHANGED <<cluster, lastUid, views, counts, read>>

-----------------------------------------------------------------------------
(***************************************************************************)
(* The operator                                                            *)
(***************************************************************************)
\* It reads, and it forgets.
Recall ==
    /\ views' \subseteq views \cup Current
    /\ counts' \subseteq counts \cup Counted
    /\ read' => read \/ Current \subseteq views'
    /\ UNCHANGED <<cluster, child, lastUid>>

Creates(r) ==
    /\ child[r] = Absent
    /\ \E v \in views :
          /\ Valid(r, Desired(v, r))
          /\ child' = [child EXCEPT ![r] = Desired(v, r)]
    /\ UNCHANGED <<cluster, lastUid, views, counts, read>>

\* The whole object is replaced, but its status.
Updates(r) ==
    /\ child[r] /= Absent
    /\ \E v \in views :
          /\ Valid(r, Desired(v, r))
          /\ child' = [child EXCEPT ![r] = [Desired(v, r) EXCEPT
                                              !.available = child[r].available]]
    /\ UNCHANGED <<cluster, lastUid, views, counts, read>>

Reports ==
    /\ cluster /= Absent
    /\ read
    /\ \E n \in counts : cluster' = [cluster EXCEPT !.status = n]
    /\ read' = FALSE
    /\ views' \subseteq views
    /\ counts' \subseteq counts
    /\ UNCHANGED <<child, lastUid>>

-----------------------------------------------------------------------------
Init ==
    /\ cluster = Absent
    /\ child = [r \in Resources |-> Absent]
    /\ lastUid = 0
    /\ views = {}
    /\ counts = {0}
    /\ read = TRUE

Next ==
    \/ UserCreates
    \/ UserEdits
    \/ UserDeletes
    \/ \E r \in Resources : ChildGoes(r) \/ Creates(r)
    \/ \E r \in Deployments : DeploymentChanges(r) \/ Updates(r)
    \/ Recall
    \/ Reports

Spec == Init /\ [][Next]_vars
=============================================================================
