CONSTANTS
    Types <- MCTypes
    Line <- MCLine
    IntMax = 7
    MaxSends = 3
SPECIFICATION FairSpec
INVARIANTS
    CleanPool
    SoleHolder
    Recycled
PROPERTIES
    SpaceSpec
    ArrivalOrder
    ContractSpec
    Completes
    FaultsShared
CHECK_DEADLOCK FALSE
