SPECIFICATION Spec
CONSTANTS
    Markets = {m1}
    Traders = {}
    Settlers = {w1}
    Crashing = {w1}
    PHats = {0, 2}
    Marks = {1}
    Scale = 2
    MinEdge = 1
    MaxShares = 1
    Trades = 0
    Untraded = {}
    MaxTrades <- MCMaxTrades
    MaxSettles = 1
    None = None
    Versions = {v1}
    Unscored = vx
    Scorable <- MCScorable
    Syncers = {}
    MaxRewrites = 0
\* Once every market is settled the watcher's queue stays empty.
CHECK_DEADLOCK FALSE
INVARIANTS
    SettledIsScored
