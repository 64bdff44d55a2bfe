CONSTANTS
    Slot = {a, b, c}
    Holder = {g, h}
    Key = {private, forward}
    Mapped = {forward}
    MaxData = 2
    None = None
SPECIFICATION InterfacesSpec
INVARIANTS
    Counted
    Lifetimes
CHECK_DEADLOCK FALSE
