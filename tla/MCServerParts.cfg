SPECIFICATION SpecParts
CONSTANTS
    s1 = s1
    s2 = s2
    s3 = s3
    s4 = s4
    cp1 = cp1
    cp2 = cp2
    cp3 = cp3
    NoSocket = NoSocket
    Socket = {s1, s2, s3, s4}
    Identity = {cp1, cp2, cp3}
    IdOf <- MCIdOf
    MaxConnections = 2
    Routes <- AllOrNone
    OwnServer = TRUE
    MaxMessages = 4
    MaxSockets = 3
    MsgId = {m1, m2}
    MaxArrivals = 3
    MaxBadMessages = 2
INVARIANTS
    CollectionsExact
    GuardsHold
    WrittenInOrder
    OneFate
    InboundExact
PROPERTIES
    NodeViewImplemented
    CloseEnds
    MessagesEnd
CHECK_DEADLOCK FALSE
