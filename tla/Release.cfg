SPECIFICATION Spec
CONSTANTS
    NULL = NULL
    s1 = s1
    s2 = s2
    Slots = {s1, s2}
    Operators = {o1}
    MaxVersion = 2
    Commits = {c1, c2}
    MaxAttempts = 2
    MaxMoves = 1
    MaxBoots = 1
SYMMETRY SlotSymmetry
INVARIANTS LiveIsTrue VerdictTrue
PROPERTIES OnlyForward
CHECK_DEADLOCK FALSE
