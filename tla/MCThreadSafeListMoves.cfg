CONSTANTS
    Usages = {"queue"}
    Consumer = {k1}
    MaxPush = 3
SPECIFICATION Spec
INVARIANT MovesAll
CHECK_DEADLOCK FALSE
