SPECIFICATION Spec
CONSTANTS
    Workers = {w1, w2}
    Limit = 3
    Pages = {1, 3}
    MaxPage = 3
    LastDay = 3
    Overnight = TRUE
SYMMETRY WorkerSymmetry
\* On the last day the budget runs out.
CHECK_DEADLOCK FALSE
INVARIANTS
    TypeOK
    CeilingHolds
    OverspendBounded
