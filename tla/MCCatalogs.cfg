CONSTANTS
    Client = {c1, c2}
    MaxSyncs = 2
    Content = {empty, files, others}
    Empty = empty
    MaxChanges = 2
    Nothing = Nothing
SPECIFICATION FairSpec
INVARIANTS
    TypeOK
    FlagsAgree
    VerifiedCopy
PROPERTY Ends
CHECK_DEADLOCK FALSE
