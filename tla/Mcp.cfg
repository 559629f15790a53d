SPECIFICATION MCSpec
CONSTANTS
    Keys = {k1}
    Creds = {c1, c2}
    None = None
    Watches = {w1, w2, w3}
    MaxCalls = 3
    MaxChanges = 1
    MaxFaults = 2
    NoSuchSession = NoSuchSession
    r1 = r1
    r2 = r2
    Subjects = {"subscriptions", "sessions", "move"}
SYMMETRY CredSymmetry
INVARIANTS SubscribedIsHeld SubscribersAreTold 
PROPERTIES UnsubscribeWins
CHECK_DEADLOCK FALSE
