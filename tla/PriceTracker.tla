----------------------------- MODULE PriceTracker -----------------------------
(***************************************************************************)
(* What the synthetic market amounts to: each run opens at some price and  *)
(* goes through its series in the order of time, closing at each bar the   *)
(* same part of the gap to the signal.  Prices are log-odds.  Liquidity    *)
(* plays no role.                                                          *)
(***************************************************************************)
EXTENDS Integers

CONSTANTS
    Runs,
    Steps,              \* the bars that a series may have
    Anchors,            \* log-odds at which a run may open
    Aims,               \* log-odds that a signal may ask for
    RespNum, RespDen    \* the responsiveness, as a fraction

VARIABLES
    ahead,      \* [Runs -> series]: the bars still ahead, with their aims
    price       \* [Runs -> Int]

\* The part of a gap that one trade closes.
Part(gap) == (gap * RespNum) \div RespDen

Nothing == [t \in {} |-> 0]

Init == ahead = [r \in Runs |-> Nothing] /\ price = [r \in Runs |-> 0]

\* A run may open on any series, at any anchor.
Open(r) ==
    /\ ahead[r] = Nothing /\ ahead'[r] # Nothing
    /\ ahead' = [ahead EXCEPT ![r] = ahead'[r]]
    /\ DOMAIN ahead'[r] \subseteq Steps
    /\ \A t \in DOMAIN ahead'[r] : ahead'[r][t] \in Aims
    /\ price' = [price EXCEPT ![r] = price'[r]]
    /\ price'[r] \in Anchors

Trade(r) ==
    \E t \in DOMAIN ahead[r] :
        /\ \A u \in DOMAIN ahead[r] : t <= u
        /\ ahead' = [ahead EXCEPT ![r] = [u \in DOMAIN ahead[r] \ {t} |-> ahead[r][u]]]
        /\ price' = [price EXCEPT ![r] = @ + Part(ahead[r][t] - @)]

Close(r) ==
    /\ ahead' = [ahead EXCEPT ![r] = Nothing]
    /\ price' = [price EXCEPT ![r] = 0]

Next == \E r \in Runs : Open(r) \/ Trade(r) \/ Close(r)

Spec == Init /\ [][Next]_<<ahead, price>>
=============================================================================
