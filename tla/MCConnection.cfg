SPECIFICATION FairSpec
CONSTANTS
    s1 = s1
    s2 = s2
    s3 = s3
    Socket <- ThreeSockets
    NoSocket = NoSocket
    Reconnect = TRUE
    MaxReconnects = 2
    MaxPending = 2
    Refusals = TRUE
INVARIANTS
    StateIsTrue
PROPERTIES
    CloseMeansClosed
    ViewImplemented
    CloseResolves
    ReconnectingEnds
CHECK_DEADLOCK FALSE
