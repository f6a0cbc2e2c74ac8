SPECIFICATION FairSpec
CONSTANTS
    a = a
    b = b
    c = c
    d = d
    Client = {a, b, c}
    Capacity = 1
    MaxEvents = 2
    FdsRunOut = FALSE
    PortOf <- MCPortOf
    CallEdge <- ChainEdge
    RequestOp = {get}
    OnewayOp = {put}
    UnknownOp = {}
    UnreadableOp = {}
    Refusable = {}
    MaxCalls <- OneEach
    MaxBinds <- OneEach
    MaxProxies <- OneEach
    StaticObject <- None
    WrongId = {}
    LoopFirst = FALSE
    MayExit = FALSE
PROPERTIES
    DeferredAreHandled
CHECK_DEADLOCK FALSE
