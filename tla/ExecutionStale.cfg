SPECIFICATION Spec

CONSTANTS
    NULL = NULL
    Workers = {w1, w2}
    MaxRuns = 1
    Capacity = 1
    Files = {"a", "b"}
    RequiredFiles = {"a"}
    MaxCrashes = 0
    MaxDisconnects = 1
    MaxOutages = 0
    MaxDeletes = 1
    MaxStrangers = 0
PROPERTIES RecordedJobNeverRecreated
