SPECIFICATION FairSpec
CONSTANTS
    a = a
    b = b
    c = c
    d = d
    Client = {a, b, c, d}
    Capacity = 1
    MaxEvents = 2
    FdsRunOut = FALSE
    PortOf <- MCPortOf
    CallEdge <- StarEdge
    RequestOp = {get}
    OnewayOp = {put}
    UnknownOp = {}
    UnreadableOp = {}
    Refusable = {}
    MaxCalls <- TwoFromC
    MaxBinds <- OnlyFromD
    MaxProxies <- OneEach
    StaticObject <- None
    WrongId = {}
    LoopFirst = TRUE
    MayExit = FALSE
PROPERTIES
    RequestsComplete
CHECK_DEADLOCK FALSE
