SPECIFICATION FairSpec

CONSTANTS
    u1 = u1
    u2 = u2
    s1 = s1
    NoOwner = NoOwner
    Users = {u1, u2}
    MaxRuns = 3
    Owner <- MixedRuns
    Final = 1
    Streams = {s1}
    Caller <- OneStream
    PerUser = 1
    Total = 1
    PendingLimit = 1
    TerminalRuns = 1
    BatchLimit = 2
    MaxBreaks = 1
    MaxReadFailures = 1
    MaxRevocations = 1
INVARIANTS OwnRunsInFull
PROPERTIES StreamsCatchUp RevokedStreamsEnd
CHECK_DEADLOCK FALSE
