CONSTANTS
    Usages = {"pool", "queue", "events"}
    Consumer = {k1, k2}
    MaxPush = 4
SPECIFICATION Spec
INVARIANTS
    TakenOnce
    FreeNodesUnlinked
    NothingForgotten
CHECK_DEADLOCK FALSE
