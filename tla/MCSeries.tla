------------------------------- MODULE MCSeries -------------------------------
(* Instances of the series for TLC.                                        *)
EXTENDS SignalSeries

CONSTANTS p1, p2

\* Two posts that are near-duplicates of each other.
MCText == [p \in Posts |-> 1]

\* In the fixture p2 is the newest post, and p1 one unit older.
MCAge == [p \in Posts |-> IF p = p2 THEN 0 ELSE 1]
=============================================================================
