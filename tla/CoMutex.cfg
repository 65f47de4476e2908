CONSTANTS
    Fibers = {1, 2, 3, 4}
    InitialIds = {0, 9}
    MaxNesting = 1
SPECIFICATION FairSpec
INVARIANTS TypeOK MutualExclusion OwnerIdAccurate WaiterKnownOnce
PROPERTIES QueuedWhileHeldIsWoken ImplementsCoLock
CHECK_DEADLOCK FALSE
