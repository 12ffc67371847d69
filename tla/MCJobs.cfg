SPECIFICATION FairSpec
CONSTANTS
    Jobs = {j1, j2}
    Workers = {w1, w2}
    Chunk = 2
    MaxTotal = 1
    Faults = TRUE
INVARIANTS Placement ProgressKept
PROPERTIES EventOrder JobsEnd BoardKept
CHECK_DEADLOCK FALSE
