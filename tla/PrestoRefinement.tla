-------------------------- MODULE PrestoRefinement --------------------------
(***************************************************************************)
(* PrestoOperator implements OperatorContract.  The mapping keeps the      *)
(* objects of the API as they are and hides managers, caches, queues and   *)
(* passes: what the operator may still act on is what some cache or some   *)
(* pass still holds.                                                       *)
(***************************************************************************)
EXTENDS PrestoOperator

HeldViews ==
    ({cachedCluster[m] : m \in Managers}
        \cup {inspectedCluster[m] : m \in Managers}) \ {Absent}

HeldCounts ==
    {0} \cup {CachedAvailable(m) : m \in Managers}
        \cup {newAvailable[m] : m \in Managers}

Contract == INSTANCE OperatorContract
              WITH views  <- HeldViews,
                   counts <- HeldCounts,
                   read   <- newest /= {}

(***************************************************************************)
(* KeepsContract: whatever stale caches, lost requests, restarts, further  *)
(* managers and changes by users there are, the operator does to the API   *)
(* only what the contract allows: it never mixes two versions of a CR in   *)
(* one object, never touches an existing ConfigMap or Service, and never   *)
(* writes into a version of a CR that nobody has read.                     *)
(***************************************************************************)
KeepsContract == Contract!Spec
=============================================================================
