CONSTANTS
    Producers = {p1, p2}
    Consumers = {k1, k2}
    Closer = cl
    Timed = {k1}
    Capacity = 1
    MaxPushes = 1
    MaxSubmits = 2
    None = None
SPECIFICATION FairSpec
PROPERTIES ImplementsBoundedQueue NoStranded CloseReleasesAll
CHECK_DEADLOCK FALSE
