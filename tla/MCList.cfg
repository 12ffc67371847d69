SPECIFICATION Spec
CONSTANTS
    a1 = a1
    a2 = a2
    all = all
    some = some
    Accounts = {a1, a2}
    Urls = {all, some}
    Listed <- MCListed
    Labelled = {some}
    Writers = {w1, w2}
    MaxAsked = 2
    Faults = TRUE
INVARIANTS TypeOK ListFollows NoneWaitsInVain
SYMMETRY MCSymmetry
CHECK_DEADLOCK FALSE
