SPECIFICATION Spec
CONSTANTS
    m1 = m1
    m2 = m2
    c1 = c1
    c2 = c2
    Absent = Absent
    NoConfig = NoConfig
    Refused <- NothingRefused
    Managers <- OneManager
    WorkerCounts <- AnyToTwo
    Children <- AllChildren
    Configs <- OneConfig
    MaxIncarnations = 1
    MaxDisturbances = 2
    Disturbances = {"edit", "childScale", "podFail", "apiError", "lostReply",
                    "readError", "crash", "resync"}
INVARIANTS
    TypeOK
    DependencyOrder
    ReportedIsBuilt
CHECK_DEADLOCK FALSE
