SPECIFICATION Spec
CONSTANTS
    a = a
    b = b
    c = c
    d = d
    Sites = {"instagram"}
    Users = {a, b, c, d}
    Follows <- MCStar
    Suspended = {}
    MaxResults = 2
    ChunkSize = 2
    Jobs = {j1}
    Faults = FALSE
INVARIANT FriendsAreFetched
CHECK_DEADLOCK FALSE
