SPECIFICATION Spec
CONSTANTS
    Command = {m1, m2}
    MaxConnections = 2
    MaxMisread = 0
    MaxFailures = 0
INVARIANTS
    QueuedIsKept
CHECK_DEADLOCK FALSE
