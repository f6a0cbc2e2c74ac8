SPECIFICATION FairSpec
CONSTANTS
    Client = {a, b}
    Capacity = 1
    MaxEvents = 2
    FdsRunOut = TRUE
    Destination = {0, 1, 2}
    MaxSends = 2
INVARIANTS
    TypeOK
    ReplyReachesSender
    DeliveredToAddressee
    ReceiveNeverBlocks
    PairOrder
    NothingLost
PROPERTIES
    MessagesArrive
CHECK_DEADLOCK FALSE
