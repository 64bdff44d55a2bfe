\* Two threads of each peer; ints of three bits and a sign, so that the
\* indexes of both peers leave their halves and wrap within the bound.
CONSTANTS
    Thread = {t1, t2}
    IntMax = 7
    MaxSends = 6
SPECIFICATION IndexSpec
INVARIANT Distinct
CHECK_DEADLOCK FALSE
