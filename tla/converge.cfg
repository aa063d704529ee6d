SPECIFICATION ResyncSpec
CONSTANTS
    m1 = m1
    m2 = m2
    c1 = c1
    c2 = c2
    Absent = Absent
    NoConfig = NoConfig
    Refused <- NothingRefused
    Managers <- OneManager
    WorkerCounts <- NoneZeroOrOne
    Children <- FewChildren
    Configs <- OneConfig
    MaxIncarnations = 2
    MaxDisturbances = 1
    Disturbances = {"edit", "clusterDelete", "childDelete", "childScale", "podFail",
                    "apiError", "lostReply", "readError", "crash", "resync"}
PROPERTIES
    EventuallyConverged
    EventuallyNoWrites
    RestStays
CHECK_DEADLOCK FALSE
