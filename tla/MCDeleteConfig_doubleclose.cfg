SPECIFICATION MCSpec
CONSTANTS
    v1 = v1
    v2 = v2
    vrf = vrf
    None = None
    Vs = {v1, v2}
    Vrf = vrf
    HasChild = {}
    Shard <- TwoWorkers
    Events = {}
    SyncThread = TRUE
    CanBeInvalid = FALSE
    MaxToggles = 1
    MaxFails = 0
    Parts = {"race"}
    Mishaps = {"listing", "early", "tenants", "5xx", "lost", "crash", "change", "outOfBand", "restart"}
    MaxMishaps = 1
INVARIANT NoPanic
CHECK_DEADLOCK FALSE
