SPECIFICATION Spec
CONSTANTS
    Workers = {w1, w2, w3}
    Limit = 5
    Pages = {1, 2, 3, 6}
    MaxPage = 6
    LastDay = 2
    Overnight = FALSE
SYMMETRY WorkerSymmetry
\* On the last day the budget runs out.
CHECK_DEADLOCK FALSE
INVARIANTS
    AccountsBalance
    SpendWithinLimit
PROPERTIES
    ImplementsMeter
