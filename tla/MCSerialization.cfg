SPECIFICATION Spec
CONSTANTS
    Base = 4
    WordBytes = 2
    Modulus = 16
    Word <- MCWord
    InitialCapacity = 2
    InitialFdCapacity = 1
    Type <- MCType
    Handle = {"h1", "h2"}
    Value <- MCValue
    MaxItems = 2
    MaxReads = 3
    MaxPayload = 12
INVARIANTS
    WritesInBounds
    OffsetsInBounds
    RoundTrip
    ReadersAgree
CHECK_DEADLOCK FALSE
