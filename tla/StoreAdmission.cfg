SPECIFICATION Spec
CONSTRAINT AdmissionBounds
SYMMETRY Interchangeable
CONSTANTS
    NULL = NULL
    m1 = m1
    m2 = m2
    Users = {u1, u2, u3}
    Releases = {l1}
    Modes = {m1}
    Computations = {"c1"}
    Requirements = {"q1"}
    Proposals <- OneProposal
    MaxRuns = 3
    PerUser = 1
    GlobalTotal = 2
    Capacity = 1
    Clients = {c1, c2}
    Operators = {o1}
    Acceptors = {a1}
    Executors = {e1}
INVARIANTS AdmissionBound
