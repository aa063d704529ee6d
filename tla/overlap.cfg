SPECIFICATION Spec
CONSTANTS
    m1 = m1
    m2 = m2
    c1 = c1
    c2 = c2
    Absent = Absent
    NoConfig = NoConfig
    Refused <- NothingRefused
    Managers <- TwoManagers
    WorkerCounts <- OneWorker
    Children <- FewChildren
    Configs <- OneConfig
    MaxIncarnations = 1
    MaxDisturbances = 1
    Disturbances = {"apiError", "lostReply", "crash"}
INVARIANTS
    DependencyOrder
    UndisturbedConverges
PROPERTIES
    BuiltOnce
SYMMETRY ManagerSymmetry
CHECK_DEADLOCK FALSE
