SPECIFICATION FairSpec
CONSTANTS
    a = a
    b = b
    c = c
    d = d
    Sites = {"twitter", "instagram"}
    Users = {a, b, c, d}
    Follows <- MCFollows
    Suspended = {d}
    MaxResults = 3
    ChunkSize = 3
    Jobs = {j1, j2}
    Faults = TRUE
INVARIANTS EdgesTrue FetchedIsStored NewAccountsStored
PROPERTY RelationsEnd
CHECK_DEADLOCK FALSE
