-------------------------- MODULE MCPrestoOperator --------------------------
(***************************************************************************)
(* Model values and small sets for TLC's runs of PrestoOperator.           *)
(***************************************************************************)
EXTENDS PrestoRefinement, TLC

CONSTANTS m1, m2, c1, c2

OneManager  == {m1}
TwoManagers == {m1, m2}

\* Managers are interchangeable: sound for the runs that check safety only.
ManagerSymmetry == Permutations(Managers)

OneConfig  == {c1}
TwoConfigs == {c1, c2}

\* So are configurations: nothing compares two of them by anything but =.
ConfigSymmetry == Permutations(Configs)

AllChildren   == Resources
\* One child per informer that matters, with the first and the last in the
\* order of reconcile().
FewChildren   == {"prestoConfigMap", "coordinatorDeployment",
                  "workerDeployment"}
\* A child that is never updated and one that is.
TwoChildren   == {"prestoConfigMap", "workerDeployment"}
WorkersOnly   == {"workerDeployment"}

OneWorker     == {1}
OneOrTwo      == {1, 2}
ZeroOrOne     == {0, 1}

NoneZeroOrOne == {Absent, 0, 1}
\* The CRD accepts a negative count, the API of Deployments does not.
AnyToTwo      == {Absent, -1, 1, 2}

NothingRefused == {}
=============================================================================
