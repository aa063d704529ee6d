SPECIFICATION Spec
CONSTANTS
    m1 = m1
    m2 = m2
    v1 = v1
    v2 = v2
    Keys <- SomeKeys
    InvalidKeys <- BadKeys
    Values <- SomeValues
    Configs <- CatalogContents
    Absent = Absent
    NoConfig = NoConfig
    Refused <- RefusedAsAssumed
    Children <- AllChildren
    Managers <- OneManager
    WorkerCounts <- OneOrTwo
    MaxIncarnations = 1
    MaxDisturbances = 0
    Disturbances = {}
INVARIANTS
    CatalogMounted
CHECK_DEADLOCK FALSE
