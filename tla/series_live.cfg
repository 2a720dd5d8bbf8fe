SPECIFICATION FairSpec
CONSTANTS
    p1 = p1
    p2 = p2
    Posts = {p1, p2}
    Text <- MCText
    Suspect = {}
    Polls = {w1}
    Replay = FALSE
    Age <- MCAge
    Start = 0
    Lookback = 4
    MaxResults = 2
    MaxTime = 6
    None = None
    Jobs = {j1, j2}
    Mortal = {j2}
    Refreshing = {j2}
    Weightless = {p1}
    BarLen = 2
    MaxAge = 4
    BatchLimit = 1
\* Time ends, and with nothing new to fetch the jobs may rest for good.
CHECK_DEADLOCK FALSE
INVARIANTS
    SeriesTypeOK
    NothingFromTheFuture
    NothingDangles
    EachPostOnce
PROPERTIES
    FirstVerdictStands
    AcceptedIsCounted
