CONSTANTS
    Workers = {w1, w2}
    Callbacks = {c1, c2}
    MaxFibers = 2
    MaxYields = 1
    WaitKinds = {"queue", "event", "timer"}
    None = None
SPECIFICATION FairSpec
INVARIANTS NoTaskLost CallbackOnce SingleWorkerSafe
PROPERTIES CallbackRuns WokenFiberRuns DtorReturnsOrStrands
CHECK_DEADLOCK FALSE
