SPECIFICATION Spec
CONSTANTS
    a = a
    b = b
    c = c
    d = d
    Client = {a, b, c}
    Capacity = 1
    MaxEvents = 2
    FdsRunOut = TRUE
    PortOf <- MCPortOf
    CallEdge <- LineEdge
    RequestOp = {get, big}
    OnewayOp = {put}
    UnknownOp = {odd}
    UnreadableOp = {get}
    Refusable <- SomeRefused
    MaxCalls <- OneEach
    MaxBinds <- NotFromA
    MaxProxies <- OneEach
    StaticObject <- FixedAt1
    WrongId = {9}
    LoopFirst = FALSE
    MayExit = TRUE
INVARIANTS
    NoOrphanedWait
    RepliesAreAwaited
PROPERTIES
    ImplementsRemoteCalls
CHECK_DEADLOCK FALSE
