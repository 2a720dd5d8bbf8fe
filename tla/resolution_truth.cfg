SPECIFICATION Spec
CONSTANTS
    Markets = {m1}
    Traders = {t1, t2}
    Settlers = {w1, w2}
    Crashing = {t1, t2, w1, w2}
    PHats = {0, 2}
    Marks = {1}
    Scale = 2
    MinEdge = 1
    MaxShares = 1
    Trades = 1
    Untraded = {}
    MaxTrades <- MCMaxTrades
    MaxSettles = 2
    None = None
    Versions = {v1, vx}
    Unscored = vx
    Scorable <- MCScorable
    Syncers = {y1}
    MaxRewrites = 2
SYMMETRY ResolutionSymmetry
\* Once every market is settled the watcher's queue stays empty.
CHECK_DEADLOCK FALSE
INVARIANTS
    TypeOK
    RecordsTellTheTruth
    PositionsDeriveFromFills
    SettledHasFill
