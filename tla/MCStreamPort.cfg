SPECIFICATION Spec
CONSTANTS
    Message <- MCMessage
    Garbage <- MCGarbage
    ChunkCells = 2
    SocketChunks = 2
    MaxHandles = 1
    MaxSends = 3
    MaxReceives = 4
INVARIANTS
    ReadAsSent
PROPERTIES
    ImplementsPort
    SentIsRead
CHECK_DEADLOCK FALSE
