---------------------------- MODULE MCResolution ----------------------------
(***************************************************************************)
(* Small instances of Resolution.  Every market has history for every      *)
(* model version but one, which never has any; some markets are traded and *)
(* the others only resolve.                                                *)
(***************************************************************************)
EXTENDS Resolution, TLC

CONSTANTS
    Unscored,   \* a version without aligned history
    Trades,     \* rebalance fills of a traded market
    Untraded    \* the markets without a position

MCScorable == [m \in Markets |-> Versions \ {Unscored}]

MCMaxTrades == [m \in Markets |-> IF m \in Untraded THEN 0 ELSE Trades]

\* The markets are interchangeable too where they are all traded.
ResolutionSymmetry ==
    Permutations(Traders) \union Permutations(Settlers)
        \union Permutations(Versions \ {Unscored})
        \union (IF Untraded = {} THEN Permutations(Markets) ELSE {})
=============================================================================
