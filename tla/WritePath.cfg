CONSTANTS
    short = short
    long = long
    mp3 = mp3
    Absent = Absent
    Unseen = Unseen
    Keys = {k1}
    Bodies = {short, long, mp3}
    Opaque = {mp3}
    Chunks <- MCChunks
    BatchSize = 1
    Writers = {w1, w2}
    Capacity = 2
    Watched = TRUE
    MaxFaults = 1
    MaxChanges = 1
    MaxEdits = 1
SPECIFICATION MCSpec
SYMMETRY WriterSymmetry
INVARIANTS
    DifferencesAccounted
    PendingBalanced
    IndexedIsSearchable
CHECK_DEADLOCK FALSE
