CONSTANTS
    Callers = {c1, c2}
    MaxCalls = 1
    Timed = {}
    MaxPublish = 0
    None = None
SPECIFICATION Spec
INVARIANT OwnAnswer
CHECK_DEADLOCK FALSE
