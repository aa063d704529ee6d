SPECIFICATION Spec
CONSTANTS
    m1 = m1
    m2 = m2
    v1 = v1
    v2 = v2
    Keys <- SomeKeys
    InvalidKeys <- BadKeys
    Values <- SomeValues
    Configs <- SomeContents
    Absent = Absent
    NoConfig = NoConfig
    Refused <- RefusedAsAssumed
    Children <- AllChildren
    Managers <- OneManager
    WorkerCounts <- OneOrTwo
    MaxIncarnations = 1
    MaxDisturbances = 2
    Disturbances = {"crash", "apiError", "lostReply", "readError", "podFail", "resync"}
INVARIANTS
    FilesAsWanted
    NeverForgotten
    UndisturbedConverges
    RefusedStaysPending
