SPECIFICATION Spec
CONSTANTS
    c1 = c1
    c2 = c2
    Call <- JustOne
    Keyed <- JustOne
    MaxRetries = 1
    Limits = {1}
    OfflineQueue = FALSE
    OfflineMax = 1
    Reconnects = TRUE
INVARIANTS
    LossIsTold
CHECK_DEADLOCK FALSE
