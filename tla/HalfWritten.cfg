CONSTANTS
    short = short
    long = long
    mp3 = mp3
    Absent = Absent
    Unseen = Unseen
    Keys = {k1}
    Bodies = {long}
    Opaque = {}
    Chunks <- MCChunks
    BatchSize = 1
    Writers = {}
    Capacity = 2
    Watched = TRUE
    MaxFaults = 1
    MaxChanges = 0
    MaxEdits = 3
SPECIFICATION MCSpec
INVARIANTS
    SkipsOnlyWhole
CHECK_DEADLOCK FALSE
