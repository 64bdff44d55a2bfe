CONSTANTS
    Base = 8
    Width = 2
    Units <- MCUnits
    TypeOf <- MCTypeOf
    PartialSends = TRUE
    Value <- MCValue
    MaxSends = 2
SPECIFICATION FairSpec
INVARIANTS
    AlignedUnlessShort
    WholeOrRefused
PROPERTY Delivered
CHECK_DEADLOCK FALSE
