\* Two ports, one with autoaccept, shared up to three times; two incoming
\* connections and one outgoing; one that is gone when it is accepted.
CONSTANTS
    Port = {p1, p2}
    AutoAccept = {p2}
    Incoming = {c1, c2}
    Outgoing = {o1}
    MaxShares = 3
    MaxFailures = 1
SPECIFICATION Spec
INVARIANTS
    NoDangling
    EachOnce
PROPERTIES
    StaysOpen
    PassedOver
    Heard
CHECK_DEADLOCK FALSE
