SPECIFICATION FairSpec

CONSTANTS
    NULL = NULL
    Workers = {w1, w2}
    MaxRuns = 2
    Capacity = 1
    Files = {"a"}
    RequiredFiles = {"a"}
    MaxCrashes = 0
    MaxDisconnects = 1
    MaxOutages = 1
    MaxDeletes = 0
    MaxStrangers = 0
INVARIANTS ClusterAgrees
PROPERTIES EveryRunFinishes
