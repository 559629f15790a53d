\* The scheduler: two keys, two handlers, two waiting producers, room for two events.
SPECIFICATION MCSpec
CONSTANTS
    Keys = {k1, k2}
    Producers = {p1, p2}
    Capacity = 2
    Concurrency = 2
    MaxSends = 2
    short = short
    Absent = Absent
    Unseen = Unseen
    w1 = w1
INVARIANT CleanExitHandledAll
PROPERTIES ImplementsKeyedWork EverythingIsIndexed
CHECK_DEADLOCK FALSE
