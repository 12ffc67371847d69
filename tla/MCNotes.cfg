SPECIFICATION NotesFairSpec
CONSTANTS
    NoteIds = {n1, n2}
    Writers = {w1, w2}
    Faults = TRUE
INVARIANTS NotesTypes NotesFollow
PROPERTY DeletedDisappear
CHECK_DEADLOCK FALSE
