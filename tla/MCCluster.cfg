SPECIFICATION FairSpec
CONSTANTS
    a = a
    b = b
    cp = cp
    c1 = c1
    NoNode = NoNode
    Node = {a, b}
    Identity = {cp}
    Call = {c1}
    MaxCommands = 2
    MaxConnects = 3
    MaxBlackouts = 1
INVARIANTS
    RequestsExact
PROPERTIES
    SettledIsFinal
    ClusterSettles
CHECK_DEADLOCK FALSE
