SPECIFICATION MCSpec
CONSTANTS
    Pods = {a, b}
    None = None
    Wanted <- MCLifetime
    Prompt = TRUE
    MaxFailures = 2
INVARIANT LeaseSound
PROPERTY WritesUnderLease
PROPERTY EventuallyServing
CHECK_DEADLOCK FALSE
