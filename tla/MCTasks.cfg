SPECIFICATION TasksSpec
CONSTANTS
    Jobs = {j1}
    MaxCount = 2
    MaxWire = 3
    MaxCalls = 2
    MayFail = TRUE
INVARIANTS TasksFollow
CHECK_DEADLOCK FALSE
