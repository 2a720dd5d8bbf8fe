SPECIFICATION ScoresSpec
CONSTANTS
    j1 = j1
    w1 = w1
    Top = 12
    Books <- MCBooks
    Venues = {"kalshi"}
    Outcomes <- MCOutcomes
    Pollers = {j1}
    Targets = {5}
    HourLen = 2
    Lookback = 2
    Start = 1
    MaxTime = 2
    None = None
    Jobs = {j1}
    Refreshing = {}
    Logit <- MCLogit
    RespNum = 1
    RespDen = 3
    BMin = 1
    BMax = 10
    Fallback = 3
    Slicing = {}
    Watchers = {}
    CloseAt = 2
    MinAligned = 2
    MinGranger = 3
    MaxLag = 1
    LagShare = 2
INVARIANTS
    NoLookahead
