SPECIFICATION FairSpec
CONSTANTS
    Modes = {"worker", "worker_once", "worker_execute", "publisher", "publisher_once", "cli", "api"}
INVARIANTS ResourcesInOrder ExitStatusTrue DrainBounded
PROPERTIES ProcessEnds
CHECK_DEADLOCK FALSE
