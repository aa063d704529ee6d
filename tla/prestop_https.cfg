SPECIFICATION Spec
CONSTANTS
    MaxTasks = 2
    Grace = 3
INVARIANTS
    BlocksUntilDown
CHECK_DEADLOCK FALSE
