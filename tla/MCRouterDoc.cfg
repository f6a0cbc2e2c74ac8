SPECIFICATION Spec
CONSTANTS
    Client = {a, b}
    Capacity = 1
    MaxEvents = 2
    FdsRunOut = FALSE
    Destination = {0, 1, 2}
    MaxSends = 1
PROPERTIES
    UnknownDestinationDropped
CHECK_DEADLOCK FALSE
