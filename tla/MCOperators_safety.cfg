SPECIFICATION Spec
CONSTANTS
    Tenants = {t1, t2}
    None = None
    MaxDisturbances = 2
    Parts = {"crd", "vks", "ako"}
    CrdKinds = {"healthmonitor", "applicationprofile", "pkiprofile"}
    CrdDisturbances = {"error", "lost", "refused", "move", "secret", "use", "outOfBand", "crash"}
    MaxCreates = 1
    MaxGen = 2
    MaxUuid = 4
    Uids = {1, 2}
    Passwords = {1, 2, 3, 4, 5, 6}
    Cleanups = {c1, c2}
    VksDisturbances = {"again", "label", "tenant", "deleted", "stripped", "edited", "cni", "aviError", "kubeError", "objectsError", "rbacError", "rolesError", "lookupError", "expired", "crash"}
    Specs <- AkoSpecs
    KindSets <- AkoKindSets
    AkoDisturbances = {"error", "spec", "swap", "delete", "edit", "remove", "secret", "crash", "sameOrder"}
SYMMETRY Symmetry
INVARIANT Types
INVARIANT CrdSound
INVARIANT VksSound
INVARIANT AkoSound
CHECK_DEADLOCK FALSE
