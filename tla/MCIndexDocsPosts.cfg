SPECIFICATION Spec
CONSTANTS
    Profiles = {p1, p2}
    Posts = {q1, q2}
    Author <- MCAuthor
    ScrapeWorkers = {s1}
    IndexWorkers = {w1}
    Requests = {r1}
    MultiPage = TRUE
    Faults = FALSE
    MaxVersion = 2
    MaxQueue = 1
INVARIANT PostsKeptInSync
CHECK_DEADLOCK FALSE
