SPECIFICATION Spec
CONSTANTS
    m1 = m1
    m2 = m2
    c1 = c1
    c2 = c2
    Absent = Absent
    NoConfig = NoConfig
    Refused <- NothingRefused
    Managers <- OneManager
    WorkerCounts <- ZeroOrOne
    Children <- AllChildren
    Configs <- OneConfig
    MaxIncarnations = 1
    MaxDisturbances = 1
    Disturbances = {"childScale"}
INVARIANTS
    StatusReflectsWorld
CHECK_DEADLOCK FALSE
