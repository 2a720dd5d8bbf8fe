------------------------------ MODULE FillLog ------------------------------
(***************************************************************************)
(* The rows of `ledger_fills` themselves, beside the ledger that writes    *)
(* them.  PaperLedger keeps what the log adds up to; this module keeps     *)
(* each row as it is inserted, in the order of fill_id, to ask what a      *)
(* replay of the whole history could recover.                              *)
(***************************************************************************)
EXTENDS PaperLedger, Sequences

VARIABLE fills  \* [Markets -> Seq(row)] the rows of a market, oldest first

logVars == <<outcome, ledgerVars, fills>>

\* A row: action (its side follows), quantity and cash flow.  The price is the
\* cash flow over the quantity; `ts`, `signal` and `note` name no shares.
FillRow(fill) ==
    [action |-> fill.action, quantity |-> fill.quantity, cash |-> fill.cash]

LogInit == LedgerInit /\ fills = [m \in Markets |-> <<>>]

\* record_fill, recordFill: the row is appended, and none is ever changed.
InsertFill(a) ==
    /\ RecordFill(a)
    /\ fills' = [fills EXCEPT ![task[a].market] = Append(@, FillRow(task[a]))]

LogNext ==
    \/ \E a \in Actors :
          \/ InsertFill(a)
          \/ ApplyToPosition(a) /\ UNCHANGED fills
          \/ Crash(a) /\ UNCHANGED fills
    \/ \E t \in Traders, m \in Markets, pHat \in PHats, mark \in Marks :
          Rebalance(t, m, pHat, mark) /\ UNCHANGED fills
    \/ \E s \in Settlers, m \in Markets :
          outcome[m] # None /\ Settle(s, m, outcome[m]) /\ UNCHANGED fills
    \/ \E m \in Markets, o \in Outcomes : Publish(m, o) /\ UNCHANGED fills

LogSpec == LogInit /\ [][LogNext]_logVars

-----------------------------------------------------------------------------
(* What a replay could recover.                                            *)

\* Nobody is at work on the market, and no writer died before its update.
AtRest(m) ==
    /\ \A a \in Actors : task[a].market # m
    /\ dropped[m] = [qty |-> 0, cash |-> 0, paid |-> 0, settles |-> 0]

\* "Positions are derivable from fills, so the fill log is the source of truth"
\* (003_ledger_and_scores.sql): two markets at rest with the same result and the
\* same rows, in the same order, hold the same shares.
FillsDeterminePosition ==
    \A m, n \in Markets :
        AtRest(m) /\ AtRest(n) /\ outcome[m] = outcome[n] /\ fills[m] = fills[n]
            => position[m].qty = position[n].qty
=============================================================================
