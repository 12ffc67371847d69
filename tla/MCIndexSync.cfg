SPECIFICATION FairSpec
CONSTANTS
    Profiles = {p1}
    Posts = {q1}
    Author <- MCAuthor
    ScrapeWorkers = {s1, s2}
    IndexWorkers = {w1}
    Requests = {r1}
    MultiPage = TRUE
    Faults = TRUE
    MaxVersion = 3
    MaxQueue = 1
INVARIANTS CleanupOnlyGone ProfileSync PostSync
PROPERTIES MirrorSafety EventuallySearchable DeletedPostsDisappear
CHECK_DEADLOCK FALSE
