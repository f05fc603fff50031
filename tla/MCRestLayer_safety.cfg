SPECIFICATION FairSpec
CONSTANTS
    p1 = p1
    p2 = p2
    pg = pg
    hp = hp
    vs = vs
    Vs = vs
    Subs <- MCSubs
    Kind <- MCKind
    Refs <- MCRefs
    Graphs <- AllGraphs
    Changes <- AnyChange
    Rejected <- NoObjs
    FaultKinds = {"5xx", "lostreply", "timeout"}
    RetryCount = 2
    MaxEdits = 3
    MaxFaults = 1
    MaxCrashes = 1
    MaxOutOfBand = 1
INVARIANT RestSound
INVARIANT NeverRefusedForReference
CHECK_DEADLOCK FALSE
