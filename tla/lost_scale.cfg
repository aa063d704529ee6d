SPECIFICATION Spec
CONSTANTS
    m1 = m1
    m2 = m2
    c1 = c1
    c2 = c2
    Absent = Absent
    NoConfig = NoConfig
    Refused <- NothingRefused
    Managers <- OneManager
    WorkerCounts <- OneOrTwo
    Children <- WorkersOnly
    Configs <- OneConfig
    MaxIncarnations = 1
    MaxDisturbances = 2
    Disturbances = {"edit"}
INVARIANTS
    ReplicasReconciled
CHECK_DEADLOCK FALSE
