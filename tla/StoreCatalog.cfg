SPECIFICATION Spec
SYMMETRY Interchangeable
CONSTANTS
    NULL = NULL
    m1 = m1
    m2 = m2
    Users = {}
    Releases = {l1}
    Modes = {m1, m2}
    Computations = {"c1", "c2"}
    Requirements = {"q1", "q2"}
    Proposals <- CatalogProposals
    MaxRuns = 2
    PerUser = 2
    GlobalTotal = 2
    Capacity = 1
    Clients = {}
    Operators = {o1, o2}
    Acceptors = {a1}
    Executors = {e1, e2}
INVARIANTS TypeOK AcceptedRunsMatchCatalog CapacityBound OutboxMatchesStatus
    NoWaitCycle
PROPERTIES InvocationFrozen ImplementsLifecycle
