SPECIFICATION Spec
CONSTANTS
    p1 = p1
    p2 = p2
    Procs = {p1}
    Limit = 3
    Wanted = {0, 1, 2, 9}
    MinPage = 1
    MaxPage = 2
    Retries = 1
    KeepDays = 2
    MaxDay = 2
    MaxLost = 1
    MaxForgotten = 3
INVARIANTS
    FileTypeOK
    BookWithinLimit
    SpendBounded
PROPERTY NothingGivenBack
CHECK_DEADLOCK FALSE
