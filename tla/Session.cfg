CONSTANTS
    f1 = f1
    f2 = f2
    f3 = f3
    Senders = {f1, f2, f3}
    Outbox <- MCOutbox
    ByteBits = 3
    Width = 6
    Room = 6
    MaxTimeouts = 1
    None = None
SPECIFICATION FairSpec
INVARIANT FramesIntact
PROPERTIES AllArrive EofEnds
CHECK_DEADLOCK FALSE
