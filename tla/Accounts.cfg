SPECIFICATION FairSpec

CONSTANTS
    NULL = NULL
    Requests = {q1, q2, q3}
    Operators = {a1}
    Identities = {i1}
    Fields = {"email", "display_name"}
    Values = {"x"}
    MaxAborts = 1
INVARIANTS AccountsConsistent
PROPERTIES GrantsOnlyActive ProfileNeverErased EveryRequestEnds
CHECK_DEADLOCK FALSE
