SPECIFICATION Spec
CONSTANTS
    a = a
    b = b
    c = c
    d = d
    Client = {a, b, c}
    Capacity = 1
    MaxEvents = 2
    FdsRunOut = FALSE
    PortOf <- MCPortOf
    CallEdge <- AnyEdge
    RequestOp = {get}
    OnewayOp = {put}
    UnknownOp = {}
    UnreadableOp = {}
    Refusable = {}
    MaxCalls <- OneFromB
    MaxBinds <- NotFromC
    MaxProxies <- TwoFromC
    StaticObject <- FixedAt1
    WrongId = {}
    LoopFirst = FALSE
    MayExit = FALSE
INVARIANTS
    TypeOK
    HandledInOrder
    NoOrphanedWait
    RepliesAreAwaited
    ChannelNeverDies
    RouterKeepsRunning
PROPERTIES
    ImplementsRemoteCalls
CHECK_DEADLOCK FALSE
