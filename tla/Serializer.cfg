CONSTANTS
    Base = 2
    ByteBits = 3
    MaxNodes = 6
    Width = 5
    Items <- MCItems
    MaxItems = 3
    RawWrites <- MCRawWrites
    MaxRaw = 7
SPECIFICATION SerializerSpec
INVARIANTS CurrInStep RoundTrip
PROPERTY ImplementsByteString
CHECK_DEADLOCK FALSE
