------------------------------ MODULE MCLedger ------------------------------
(***************************************************************************)
(* Small instances of FillLog: half-dollar prices, a one-share limit.      *)
(***************************************************************************)
EXTENDS FillLog, TLC

CONSTANT Trades     \* rebalance fills of a market

MCMaxTrades == [m \in Markets |-> Trades]

\* Markets, traders and settlers are interchangeable, each kind on its own.
LedgerSymmetry ==
    Permutations(Markets) \union Permutations(Traders)
                          \union Permutations(Settlers)
=============================================================================
