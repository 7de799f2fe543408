SPECIFICATION SpecParts
CONSTANTS
    Interval = 4
    PongTimeouts = {0, 2, 5}
    MaxConnections = 2
    StationCall = {c1, c2, c3}
    MaxCircuits = 2
    FailureThreshold = 2
    MaxConcurrent = 2
    MaxFailures = 3
    Transaction = {t1, t2}
    MaxUuids = 2
    MaxNumbers = 2
    MaxCalls = 2
    Limit = 2
    Window = 3
    MethodLimit = 1
    Cooldown = 1
    MaxTime = 6
    Router = {r1, r2}
    Param <- MCParam
    Pattern <- MCPattern
    RegExp = {e1}
    Language <- MCLanguage
    Path <- MCPath
    MaxPatterns = 2
    Run = {run1, run2}
    MaxTransactions = 2
    MaxSockets = 2
    MaxTimers = 1
    Station = {s1, s2}
    GuardLimit = 2
    MaxUpgrades = 4
    MaxRequests = 1
    Visitor = {v1, v2, v3}
    MaxSessions = 2
    Ttl = 1
    MaxClients = 4
    MaxWrites = 1
INVARIANTS
    PeersWatched
    BreakerSound
    NumbersMatch
    LimitsHold
    RoutesMatch
    TransactionsKept
    RecordsTrue
    SessionsKept
SYMMETRY PartSymmetry
CHECK_DEADLOCK FALSE
