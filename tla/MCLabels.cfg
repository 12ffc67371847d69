SPECIFICATION FairSpec
CONSTANTS
    Names = {"x", "y"}
    Written = {"x", "y", "X", "-"}
    Stored <- MCStored
    Sorted <- MCSorted
    Refused = "none"
    Lists <- MCLists
    MaxRequests = 2
    MaxLabels = 5
    MaxHeard = 1
INVARIANTS TypeOK AllOrNothing ShownIsStored PageFollowsEvents
PROPERTY RequestsEnd
CHECK_DEADLOCK FALSE
