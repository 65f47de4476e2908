CONSTANTS
    Callers = {c1}
    MaxCalls = 2
    Timed = {1}
    MaxPublish = 1
    None = None
SPECIFICATION FairSpec
INVARIANTS TypeOK TableExact
PROPERTIES CallEnds CloseEnds SilenceDetected
CHECK_DEADLOCK FALSE
