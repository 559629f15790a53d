SPECIFICATION MCSpec
CONSTANTS
    KbList <- MCKbList  Configs <- MCConfigs  Conns = {c1}  MaxQueue = 1  MaxFaults = 1
    None = None  r1 = r1  r2 = r2  Requests = {r1, r2}  MaxInFlight = 1  Calls <- MCCalls
    Subjects = {"life", "bounds"}
INVARIANTS LifeIsOrderly RequestsGiveBack
PROPERTIES EverythingEnds
CHECK_DEADLOCK FALSE
