SPECIFICATION MCFairSpec
CONSTANTS
    k1 = k1
    k2 = k2
    k3 = k3
    Keys = {k1, k2, k3}
    NumWorkers = 2
    Hash <- MCHash
    Slow = FALSE
INVARIANT WorkQueueInv
INVARIANT IdsSuffice
INVARIANT BatchNeverBlocks
PROPERTY ImplementsKeyedQueue
PROPERTY EventuallySynced
PROPERTY QueuedIsDrained
PROPERTY FastWorkersExit
CHECK_DEADLOCK FALSE
