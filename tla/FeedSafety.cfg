SPECIFICATION Spec

CONSTANTS
    u1 = u1
    u2 = u2
    s1 = s1
    NoOwner = NoOwner
    Users = {u1}
    MaxRuns = 2
    Owner <- OneUserRuns
    Final = 2
    Streams = {s1}
    Caller <- OneStream
    PerUser = 1
    Total = 1
    PendingLimit = 1
    TerminalRuns = 1
    BatchLimit = 2
    MaxBreaks = 1
    MaxReadFailures = 1
    MaxRevocations = 0
INVARIANTS FeedComplete
PROPERTIES NeverBackwards
CHECK_DEADLOCK FALSE
