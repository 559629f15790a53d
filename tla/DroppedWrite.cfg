SPECIFICATION MCSafety
CONSTANTS
    Subjects = {"objects"}
    k1 = k1
    k2 = k2
    b1 = b1
    b2 = b2
    md = md
    txt = txt
    None = None
    Keys = {k1, k2}
    Requests = {r1, r2}
    Bodies = {b1, b2}
    Types = {md, txt}
    Asked <- ConditionalPuts
    Present <- MCPresent
    Stripe <- MCStripe
    Guess <- MCGuess
    StageRetries = 1
    MaxRequests = 2
    MaxFaults = 1
    Procs = {p1, p2}
    MaxStarts = 3
    Paths = {1, 2, 3}
    Parent <- MCParent
    Contents = {c1}
    Dir = Dir
    Gone = Gone
    Capacity = 1
    SignalCap = 1
    QueueCap = 1
    Bursts = FALSE
    MaxEdits = 2
    MaxLost = 1
INVARIANT ConditionalWritesAreAtomic
CHECK_DEADLOCK FALSE
