SPECIFICATION Spec
CONSTANTS
    p1 = p1
    p2 = p2
    a = a
    b = b
    Profiles = {p1, p2}
    Urls = {a, b}
    Jobs = {j1, j2, j3}
    Files = {"image a", "image b", "thumb a", "thumb b"}
    FilesOf <- MCFilesOf
    PathOf <- MCPathOf
    Dirs = {"1", "12", "13"}
    NoAvatar = none
    Parts = 2
    Servers = 2
    Faults = TRUE
INVARIANTS StoredIsWhole OncePerAddress CurrentIsLatest ClashIsShared
SYMMETRY MCSymmetry
CHECK_DEADLOCK FALSE
