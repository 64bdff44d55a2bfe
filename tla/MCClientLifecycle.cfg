CONSTANTS
    Client = {c1, c2}
    Core = {k1, k2}
SPECIFICATION FairSpec
INVARIANTS
    SoleRunner
    GoneIsGone
    AnnouncedOnce
PROPERTY Removed
CHECK_DEADLOCK FALSE
