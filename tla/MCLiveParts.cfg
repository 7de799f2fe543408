SPECIFICATION SpecParts
CONSTANTS
    Message = {"t1", "t2", "t3", "t4"}
    PoolSize = 2
    MaxQueueSize = 3
    MaxCrashes = 2
    NoIndex = 99
    Copy = {p1, p2, p3}
    MaxDedupFailures = 2
    MaxDrops = 2
    Command = {m1, m2}
    MaxConnections = 2
    MaxMisread = 1
    MaxReplayFailures = 1
    BrowserCall = {c1, c2, c3}
    Concurrency = 1
    MaxReconnects = 2
    MaxSockets = 3
    MaxCloses = 2
    MaxMiddlewares = 2
    MaxTasks = 6
    MaxRunning = 2
    MaxWaiting = 2
    MaxPool = 2
    MaxLength = 1
    MaxMessages = 2
    MaxSubscribes = 2
    MaxErrors = 2
INVARIANTS
    ExecutedOnce
    CommandsKept
    ClientSound
    UpgradeJustified
    WorkKept
    StreamExact
PROPERTIES
    PartsSettle
CHECK_DEADLOCK FALSE
