CONSTANTS
    s1 = s1
    s2 = s2
    Fds <- MCFds
    Threads = {p1}
    Scopes <- MCScopes
    Pipe = Pipe
    Wild = Wild
SPECIFICATION FairSpec
INVARIANTS PendingExact WaiterKnownOnce
PROPERTIES ReadyIsWoken TimedWaitEnds
CHECK_DEADLOCK FALSE
