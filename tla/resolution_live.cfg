SPECIFICATION FairSpec
CONSTANTS
    Markets = {m1, m2}
    Traders = {t1}
    Settlers = {w1}
    Crashing = {t1, w1}
    PHats = {0, 2}
    Marks = {1}
    Scale = 2
    MinEdge = 1
    MaxShares = 1
    Trades = 2
    Untraded = {m2}
    MaxTrades <- MCMaxTrades
    MaxSettles = 2
    None = None
    Versions = {v1, v2}
    Unscored = vx
    Scorable <- MCScorable
    Syncers = {}
    MaxRewrites = 0
\* Once every market is settled the watcher's queue stays empty.
CHECK_DEADLOCK FALSE
INVARIANTS
    LedgerTypeOK
    PaidOutOnce
    FinalOnce
    ScoredUnlessAbandoned
PROPERTIES
    RealizedIsFinal
    ResolvedIsScored
    ResolvedIsClosedOut
    ImplementsLedger
