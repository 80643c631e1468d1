SPECIFICATION FileSpec
CONSTANTS
    Files = {f1, f2}
    Texts = {empty, t1}
    Empty = empty
    Opaque = Opaque
    Absent = Absent
    Batch = Batch
    MaxEntries = 3
SYMMETRY FileSymmetry
CONSTRAINT UncleanIsShort
INVARIANTS
    FileTypeOK
    HistoryIsComplete
PROPERTIES
    NothingForgotten
