SPECIFICATION Spec
CONSTANTS
    MaxTasks = 2
    Grace = 3
INVARIANTS
    BlocksOnShutdownOnly
    TasksKilledOnlyLate
CHECK_DEADLOCK FALSE
