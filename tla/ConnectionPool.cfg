CONSTANTS
    s1 = s1
    s2 = s2
    a1 = a1
    a2 = a2
    Services = {s1, s2}
    Addrs = {a1, a2}
    Offers <- MCOffers
    Called = {s1}
    MaxStarts = 1
    Mortal = {a1}
    Workers = 1
    Callers = {c1}
    MaxCalls = 2
    None = None
SPECIFICATION FairSpec
INVARIANTS TypeOK ListedWhileUp
PROPERTIES DownIsForgotten CallReturns
CHECK_DEADLOCK FALSE
