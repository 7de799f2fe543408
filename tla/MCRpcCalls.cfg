SPECIFICATION FairSpec
CONSTANTS
    c1 = c1
    c2 = c2
    Call <- TwoCalls
    Keyed <- JustOne
    MaxRetries = 1
    Limits = {0, 1}
    OfflineQueue = TRUE
    OfflineMax = 1
    Reconnects = TRUE
INVARIANTS
    CallsExact
PROPERTIES
    EveryCallSettles
CHECK_DEADLOCK FALSE
