SPECIFICATION MCSpec
CONSTANTS
    Kbs = {a, b}  Subs = {c}  Capacity = 2  ChannelDepth = 1  MaxEvents = 4  MaxFrames = 1  MaxRestarts = 1
    None = None  Requests = {r1, r2}  KeyIds = {k1, k2}
    Conns = {c1}  Log <- MCLog  Queries <- MCQueries  Callers <- MCCallers
    Subjects = {"feed", "connections", "dates", "nats", "setup", "identity"}
INVARIANTS HoldsEverything NoGap StreamsAreAccounted JetStreamIsExact TokensAreJudged
SYMMETRY MCSymmetry
CHECK_DEADLOCK FALSE
