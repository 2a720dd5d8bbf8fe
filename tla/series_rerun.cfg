SPECIFICATION Spec
CONSTANTS
    p1 = p1
    p2 = p2
    Posts = {p1, p2}
    Text <- MCText
    Suspect = {}
    Polls = {}
    Replay = FALSE
    Age <- MCAge
    Start = 0
    Lookback = 4
    MaxResults = 2
    MaxTime = 8
    None = None
    Jobs = {j1}
    Mortal = {}
    Refreshing = {}
    Weightless = {}
    BarLen = 2
    MaxAge = 4
    BatchLimit = 2
\* Time ends, and with nothing new to fetch the job may rest for good.
CHECK_DEADLOCK FALSE
PROPERTIES
    BarsKeepTheirPosts
