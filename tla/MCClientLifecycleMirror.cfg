CONSTANTS
    Client = {c1}
    Core = {k1}
SPECIFICATION Spec
PROPERTY MirrorBlocked
CHECK_DEADLOCK FALSE
