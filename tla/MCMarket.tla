-------------------------------- MODULE MCMarket ------------------------------
(* Instances of a market and what is compared for it, for TLC.              *)
EXTENDS MarketScores

CONSTANTS j1, w1

Level(p, s) == [price |-> p, size |-> s]

\* A wide book, and one without bids.
Wide == [bids |-> {Level(2, 4), Level(0, 9)}, asks |-> {Level(6, 8)}, last |-> 2]
OneSided == [bids |-> {}, asks |-> {Level(10, 5), Level(12, 1)}, last |-> 8]

MCBooks == {Wide, OneSided}

MCOutcomes == <<"no", "yes">>

\* Log-odds of 0, 1/12, ..., 1, in tenths.
MCLogit == [p \in 0..12 |->
    IF p = 0 THEN -138 ELSE IF p = 12 THEN 138
    ELSE <<-24, -16, -11, -7, -3, 0, 3, 7, 11, 16, 24>>[p]]
=============================================================================
