SPECIFICATION Spec
SYMMETRY Interchangeable
CONSTANTS
    NULL = NULL
    Workers = {w1, w2}
    MaxRuns = 2
    Capacity = 1
    Files = {"a", "b"}
    RequiredFiles = {"a"}
    MaxCrashes = 1
    MaxDisconnects = 0
    MaxOutages = 1
    MaxDeletes = 1
    MaxStrangers = 1
INVARIANTS SuccessHasEvidence ClusterAgrees
PROPERTIES FollowsLifecycle RecordedJobNeverRecreated
