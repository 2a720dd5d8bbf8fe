SPECIFICATION LogSpec
CONSTANTS
    Markets = {m1, m2}
    Traders = {t1}
    Settlers = {s1}
    Crashing = {}
    PHats = {0, 2}
    Marks = {1}
    Scale = 2
    MinEdge = 1
    MaxShares = 1
    Trades = 2
    MaxTrades <- MCMaxTrades
    MaxSettles = 1
    None = None
SYMMETRY LedgerSymmetry
\* The desk stops after Trades trades.
CHECK_DEADLOCK FALSE
INVARIANTS
    FillsDeterminePosition
