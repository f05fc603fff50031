SPECIFICATION MCFairSpec
CONSTANTS
    v1 = v1
    v2 = v2
    vrf = vrf
    None = None
    Vs = {v1, v2}
    Vrf = vrf
    HasChild <- OneChild
    Shard <- TwoWorkers
    Events <- AllEvents
    SyncThread = TRUE
    CanBeInvalid = TRUE
    MaxToggles = 2
    MaxFails = 1
    Parts = {"race", "single", "avi"}
    Mishaps = {"listing", "early", "tenants", "5xx", "lost", "crash", "change", "outOfBand", "restart"}
    MaxMishaps = 1
INVARIANT TypeOK
INVARIANT NoOrphans
INVARIANT BroughtBack
INVARIANT SingleSound
INVARIANT ObjHeld
PROPERTY SingleAllDeleted
PROPERTY ObjNeverTornDown
CHECK_DEADLOCK FALSE
