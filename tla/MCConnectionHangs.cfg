SPECIFICATION FairSpec
CONSTANTS
    s1 = s1
    s2 = s2
    s3 = s3
    Socket <- ThreeSockets
    NoSocket = NoSocket
    Reconnect = TRUE
    MaxReconnects = 1
    MaxPending = 1
    Refusals = FALSE
PROPERTIES
    EveryCloseResolves
CHECK_DEADLOCK FALSE
