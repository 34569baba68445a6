SPECIFICATION FairSpec
CONSTANTS
    NULL = NULL
    r1 = r1
    k1 = k1
    Runs = {r1}
    Partitions = {k1}
    PartitionOf <- OneRun
    Publishers = {p1, p2}
    Workers = {w1, w2}
    BatchSize = 2
    MaxPublisherFaults = 1
    MaxWorkerFaults = 2
    MaxRebalances = 1
    MaxForeign = 1
INVARIANTS TypeOK CopiesNeedFailures CommittedIsSettled OnlyForeignRejected
PROPERTIES ImplementsFlow EveryEventArrives
CHECK_DEADLOCK FALSE
