SPECIFICATION FairSpec
CONSTANTS
    u1 = u1
    u2 = u2
    Settings <- MCMixed
    Users = {u1, u2}
    Jobs = {j1, j2}
    BatchSize = 2
    Faults = TRUE
INVARIANTS Fulfilled ToldIsStored
PROPERTIES FullStaysFull Answered
CHECK_DEADLOCK FALSE
