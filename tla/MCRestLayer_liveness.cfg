SPECIFICATION FairSpec
CONSTANTS
    p1 = p1
    p2 = p2
    pg = pg
    hp = hp
    vs = vs
    Vs = vs
    Subs <- MCSubs
    Kind <- MCKind
    Refs <- MCRefs
    Graphs <- AllGraphs
    Changes <- Forward
    Rejected <- NoObjs
    FaultKinds = {"5xx", "401", "connection", "lostreply"}
    RetryCount = 2
    MaxEdits = 2
    MaxFaults = 2
    MaxCrashes = 0
    MaxOutOfBand = 0
PROPERTY EventuallyServed
CHECK_DEADLOCK FALSE
