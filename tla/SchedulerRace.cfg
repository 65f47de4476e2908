CONSTANTS
    Workers = {w1, w2}
    Callbacks = {c1}
    MaxFibers = 1
    MaxYields = 1
    WaitKinds = {"queue"}
    None = None
SPECIFICATION Spec
INVARIANT OneThreadPerStack
CHECK_DEADLOCK FALSE
