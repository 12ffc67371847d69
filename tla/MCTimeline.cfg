SPECIFICATION FairSpec
CONSTANTS
    Sites = {"twitter", "instagram"}
    PageSize = 2
    MaxResults = 3
    Jobs = {j1, j2}
    Faults = TRUE
    LastPost = 5
INVARIANTS TypeOK StoredOnce NoHoles CaughtUp
PROPERTY TimelineEnds
CHECK_DEADLOCK FALSE
