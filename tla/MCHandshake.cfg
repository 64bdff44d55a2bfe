CONSTANTS
    Conn = {c1, c2}
    Translated = {c1}
    Port = {p1, p2}
    AutoAccept = {p2}
SPECIFICATION FairSpec
INVARIANTS
    NothingLeaked
    Mutual
PROPERTIES
    ContractSpec
    Settles
    AcceptedJoins
CHECK_DEADLOCK FALSE
