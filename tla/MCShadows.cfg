CONSTANTS
    Port <- MCPort
    Shadow = {s1, s2}
    Reserve = {r1, r2}
    Users <- MCUsers
    Nothing = Nothing
SPECIFICATION FairSpec
INVARIANTS
    PortsAccounted
    HostHasPeer
    HostReserveLands
    OneHolder
PROPERTY Settles
CHECK_DEADLOCK FALSE
