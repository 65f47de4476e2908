CONSTANTS
    Timers = {1, 2}
    Recurring = {2}
    Threads = {p1, p2}
    Periods = {1, 2}
    ResetPeriods = {1}
    FromNow = {TRUE}
    Cap = 2
    MaxTime = 2
    MaxNotifies = 1
SPECIFICATION FairSpec
INVARIANTS TypeOK ArmedIffListed FiresOnceOrCancelled NotTooOften NobodyOversleeps
PROPERTY DueTimerFires
CHECK_DEADLOCK FALSE
