SPECIFICATION Spec
CONSTANTS
    m1 = m1
    m2 = m2
    c1 = c1
    c2 = c2
    Absent = Absent
    NoConfig = NoConfig
    Refused <- NothingRefused
    Managers <- OneManager
    WorkerCounts <- NoneZeroOrOne
    Children <- TwoChildren
    Configs <- TwoConfigs
    MaxIncarnations = 2
    MaxDisturbances = 2
    Disturbances = {"edit", "clusterDelete", "childDelete", "childScale", "podFail",
                    "apiError", "lostReply", "readError", "crash"}
INVARIANTS
    NeverForgotten
    OwnedAsAsked
PROPERTIES
    ChildStaysWithCR
    KeepsContract
SYMMETRY ConfigSymmetry
CHECK_DEADLOCK FALSE
