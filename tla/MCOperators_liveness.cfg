SPECIFICATION FairSpec
CONSTANTS
    Tenants = {t1}
    None = None
    MaxDisturbances = 2
    Parts = {"crd", "vks"}
    CrdKinds = {"pkiprofile"}
    CrdDisturbances = {"error", "lost", "use", "crash"}
    MaxCreates = 1
    MaxGen = 2
    MaxUuid = 4
    Uids = {1}
    Passwords = {1, 2, 3, 4, 5, 6}
    Cleanups = {c1}
    VksDisturbances = {"label", "aviError", "objectsError", "rbacError", "lookupError", "expired"}
    Specs <- AkoSpecs
    KindSets <- AkoKindSets
    AkoDisturbances = {}
PROPERTY CrdEventuallyDeleted
PROPERTY VksEventuallyClean
CHECK_DEADLOCK FALSE
