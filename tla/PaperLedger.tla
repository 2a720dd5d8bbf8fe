---------------------------- MODULE PaperLedger ----------------------------
(***************************************************************************)
(* The paper-trading ledger: the append-only fill log `ledger_fills`, the  *)
(* materialized row of `positions`, and the two programs that write both.  *)
(* The API (PaperTradingService.rebalance) trades a market toward its      *)
(* target; the resolution watcher (steps._settle_position) closes the      *)
(* position out at the outcome.  Each reads the position, then inserts a   *)
(* fill, then adds the fill's deltas to the position, in three separately  *)
(* committed statements, with nothing that excludes the other writers.     *)
(*                                                                         *)
(* Units, so that every product stays exact: a price or probability is a   *)
(* number of 1/Scale, a quantity a number of 1/Scale shares, and an amount *)
(* of cash a number of 1/Scale^2 dollars.  No writer ever makes qty_no     *)
(* nonzero, so one signed quantity stands for (qty_yes, qty_no).  The log  *)
(* has no sign: a row has an action and a quantity above zero, and its     *)
(* side follows from the action (yes to buy, no to sell, yes to settle).   *)
(***************************************************************************)
EXTENDS Integers, FiniteSets, FiniteSetsExt

CONSTANTS
    Markets,        \* markets with a paper position under one strategy
    Traders,        \* API threads that may run rebalance
    Settlers,       \* resolution watchers that may run _settle_position
    Crashing,       \* the actors that may die between two statements
    PHats, Marks,   \* signal probabilities and mid prices seen by rebalance
    Scale,          \* prices are 0..Scale, a share pays Scale when it wins
    MinEdge,        \* MIN_EDGE, in price units
    MaxShares,      \* augury.paper.max-position-shares, in whole shares
    MaxTrades,      \* bound: [Markets -> Nat] rebalance fills of a market
                    \* before another starts
    MaxSettles,     \* bound: settlement fills per market before another starts
    None            \* an absent market or outcome

Actors == Traders \union Settlers

ASSUME LedgerAssumption ==
    /\ Scale \in Nat \ {0} /\ MinEdge \in Nat \ {0} /\ MaxShares \in Nat
    /\ PHats \subseteq 0..Scale /\ Marks \subseteq 0..Scale
    /\ MaxTrades \in [Markets -> Nat] /\ MaxSettles \in Nat
    /\ Traders \intersect Settlers = {} /\ Crashing \subseteq Actors
    /\ IsFiniteSet(Traders) /\ IsFiniteSet(Settlers)
    /\ None \notin Markets /\ None \notin {0, 1}

VARIABLES
    outcome,    \* [Markets -> {0, 1, None}] the result the venue published
    replay,     \* [Markets -> record]       what the fill log adds up to, one
                \* total for each action
    position,   \* [Markets -> record]       the row of `positions`
    task,       \* [Actors -> record]        the writer's local variables
    dropped     \* history: [Markets -> record] the fills whose writer died
                \* before it updated the position

ledgerVars == <<replay, position, task, dropped>>

Outcomes == {0, 1}

\* A fill in the making: the values the writer computed from what it read, the
\* quantity it logs and the signed one (d_qty_yes) it adds to the position.
Fill(step, m, action, quantity, qty, cash) ==
    [step |-> step, market |-> m, action |-> action, quantity |-> quantity,
     qty |-> qty, cash |-> cash]

Idle == Fill("idle", None, "none", 0, 0, 0)

LedgerInit ==
    /\ outcome = [m \in Markets |-> None]
    /\ replay = [m \in Markets |-> [bought |-> 0, sold |-> 0, closed |-> 0,
                                    cash |-> 0, paid |-> 0,
                                    settles |-> 0, trades |-> 0]]
    /\ position = [m \in Markets |-> [qty |-> 0, cash |-> 0, realized |-> 0,
                                      settled |-> FALSE]]
    /\ task = [a \in Actors |-> Idle]
    /\ dropped = [m \in Markets |-> [qty |-> 0, cash |-> 0, paid |-> 0,
                                     settles |-> 0]]

-----------------------------------------------------------------------------
(* What the writers compute.                                               *)

AbsInt(n) == IF n < 0 THEN -n ELSE n

TargetPosition(pHat, mark) ==
    LET edge == pHat - mark
        cap == MaxShares * Scale
    IN IF AbsInt(edge) < MinEdge
       THEN 0
       ELSE Max({-cap, Min({cap, edge * MaxShares})})

\* A negative delta is logged as a sale of its absolute value.
RebalanceFill(m, delta, mark) ==
    Fill("fill", m, IF delta > 0 THEN "buy" ELSE "sell", AbsInt(delta), delta,
         -(delta * mark))

\* Mutant: the position is updated without the fill being logged.
SettleFillUnlogged(m, held, o) ==
    Fill("apply", m, "settle", AbsInt(held), -held, held * o * Scale)

\* The row says how many shares are closed, not whether they were held long or
\* short; only the update of the position and the cash know the sign.
SettleFill(m, held, o) ==
    Fill("fill", m, "settle", AbsInt(held), -held, held * o * Scale)

-----------------------------------------------------------------------------
(* The statements.                                                         *)

\* rebalance up to its first write: an absent row counts as a flat position.
Rebalance(t, m, pHat, mark) ==
    LET delta == TargetPosition(pHat, mark) - position[m].qty
    IN /\ task[t] = Idle
       /\ replay[m].trades < MaxTrades[m]
       /\ delta # 0
       /\ task' = [task EXCEPT ![t] = RebalanceFill(m, delta, mark)]
       /\ UNCHANGED <<outcome, replay, position, dropped>>

\* Mutant: a flat position is closed out too.
HasOpenPositionFlat(m) == ~position[m].settled
\* Mutant: only long positions are closed out.
HasOpenPositionLong(m) == ~position[m].settled /\ position[m].qty > 0

\* _settle_position up to its first write: nothing to do for a position that
\* is flat, absent or already settled.
HasOpenPosition(m) == ~position[m].settled /\ position[m].qty # 0

Settle(s, m, o) ==
    /\ task[s] = Idle
    /\ replay[m].settles < MaxSettles
    /\ HasOpenPosition(m)
    /\ task' = [task EXCEPT ![s] = SettleFill(m, position[m].qty, o)]
    /\ UNCHANGED <<outcome, replay, position, dropped>>

Settles(fill) == fill.action = "settle"

\* What a settlement pays; a rebalance realizes nothing.
PaidBy(fill) == IF Settles(fill) THEN fill.cash ELSE 0

\* The quantity that a row adds to the total of one action.
LoggedAs(action, fill) == IF fill.action = action THEN fill.quantity ELSE 0

\* What the log of a market adds up to with one more row.
Logged(log, fill) ==
    [bought  |-> log.bought + LoggedAs("buy", fill),
     sold    |-> log.sold + LoggedAs("sell", fill),
     closed  |-> log.closed + LoggedAs("settle", fill),
     cash    |-> log.cash + fill.cash,
     paid    |-> log.paid + PaidBy(fill),
     settles |-> IF Settles(fill) THEN log.settles + 1 ELSE log.settles,
     trades  |-> IF Settles(fill) THEN log.trades ELSE log.trades + 1]

\* Mutant: an insert that was committed may be tried again, under a new fill_id.
RecordFillRetried(a) ==
    LET fill == task[a]
    IN /\ fill.step = "fill"
       /\ replay' = [replay EXCEPT ![fill.market] = Logged(@, fill)]
       /\ \E retried \in BOOLEAN :
             task' = [task EXCEPT ![a].step = IF retried THEN "fill" ELSE "apply"]
       /\ UNCHANGED <<outcome, position, dropped>>

\* INSERT INTO ledger_fills, committed on its own.
RecordFill(a) ==
    LET fill == task[a]
    IN /\ fill.step = "fill"
       /\ replay' = [replay EXCEPT ![fill.market] = Logged(@, fill)]
       /\ task' = [task EXCEPT ![a].step = "apply"]
       /\ UNCHANGED <<outcome, position, dropped>>

\* Mutant: the upsert overwrites the quantity instead of adding to it.
ApplyToPositionOverwrite(a) ==
    LET fill == task[a]
    IN /\ fill.step = "apply"
       /\ position' = [position EXCEPT ![fill.market] =
             [qty      |-> fill.qty,
              cash     |-> @.cash + fill.cash,
              realized |-> @.realized + PaidBy(fill),
              settled  |-> @.settled \/ Settles(fill)]]
       /\ task' = [task EXCEPT ![a] = Idle]
       /\ UNCHANGED <<outcome, replay, dropped>>

\* Mutant: `settled` is what the last writer says, not what any said.
ApplyToPositionUnsettles(a) ==
    LET fill == task[a]
    IN /\ fill.step = "apply"
       /\ position' = [position EXCEPT ![fill.market] =
             [qty      |-> @.qty + fill.qty,
              cash     |-> @.cash + fill.cash,
              realized |-> @.realized + PaidBy(fill),
              settled  |-> Settles(fill)]]
       /\ task' = [task EXCEPT ![a] = Idle]
       /\ UNCHANGED <<outcome, replay, dropped>>

\* INSERT INTO positions ... ON CONFLICT DO UPDATE: the deltas are added to
\* the row as it is now, and `settled` is never cleared.
ApplyToPosition(a) ==
    LET fill == task[a]
    IN /\ fill.step = "apply"
       /\ position' = [position EXCEPT ![fill.market] =
             [qty      |-> @.qty + fill.qty,
              cash     |-> @.cash + fill.cash,
              realized |-> @.realized + PaidBy(fill),
              settled  |-> @.settled \/ Settles(fill)]]
       /\ task' = [task EXCEPT ![a] = Idle]
       /\ UNCHANGED <<outcome, replay, dropped>>

\* The record of drops once writer `a` is gone: a fill it logged and did not
\* apply is one more.
DroppedWith(a) ==
    LET fill == task[a]
    IN IF fill.step # "apply"
       THEN dropped
       ELSE [dropped EXCEPT ![fill.market] =
               [qty     |-> @.qty + fill.qty,
                cash    |-> @.cash + fill.cash,
                paid    |-> @.paid + PaidBy(fill),
                settles |-> IF Settles(fill) THEN @.settles + 1 ELSE @.settles]]

\* The process dies, or the statement raises: what was committed stays.
Crash(a) ==
    /\ a \in Crashing
    /\ task[a] # Idle
    /\ task' = [task EXCEPT ![a] = Idle]
    /\ dropped' = DroppedWith(a)
    /\ UNCHANGED <<outcome, replay, position>>

\* The venue publishes a result, once and for all.
Publish(m, o) ==
    /\ outcome[m] = None
    /\ outcome' = [outcome EXCEPT ![m] = o]
    /\ UNCHANGED ledgerVars

Trade(t) ==
    \/ \E m \in Markets, pHat \in PHats, mark \in Marks :
          Rebalance(t, m, pHat, mark)
    \/ RecordFill(t)
    \/ ApplyToPosition(t)

SettleStep(s) ==
    \/ \E m \in Markets : outcome[m] # None /\ Settle(s, m, outcome[m])
    \/ RecordFill(s)
    \/ ApplyToPosition(s)

LedgerNext ==
    \/ \E m \in Markets, o \in Outcomes : Publish(m, o)
    \/ \E t \in Traders : Trade(t)
    \/ \E s \in Settlers : SettleStep(s)
    \/ \E a \in Actors : Crash(a)

LedgerSpec == LedgerInit /\ [][LedgerNext]_<<outcome, ledgerVars>>

-----------------------------------------------------------------------------
(* Properties.                                                             *)

TaskType ==
    [step : {"fill", "apply"}, market : Markets, action : {"buy", "sell", "settle"},
     quantity : Nat \ {0}, qty : Int, cash : Int] \union {Idle}

\* The types of the tables and of the writers' local variables.  A fill never
\* has quantity zero: ledger_fills has CHECK (quantity > 0), and an insert that
\* breaks it raises halfway through the rebalance or the settlement.
LedgerTypeOK ==
    /\ outcome \in [Markets -> Outcomes \union {None}]
    /\ replay \in [Markets -> [bought : Nat, sold : Nat, closed : Nat, cash : Int,
                               paid : Int, settles : Nat, trades : Nat]]
    /\ position \in [Markets -> [qty : Int, cash : Int, realized : Int,
                                 settled : BOOLEAN]]
    /\ task \in [Actors -> TaskType]
    /\ dropped \in [Markets -> [qty : Int, cash : Int, paid : Int, settles : Nat]]

Unapplied(m) == {a \in Actors : task[a].step = "apply" /\ task[a].market = m}

SumOver(m, field(_)) ==
    SumFunctionOnSet([a \in Actors |-> field(task[a])], Unapplied(m))

\* The shares the position row has, or will have, or would have had but for the
\* writers that died.
Held(m) == position[m].qty + dropped[m].qty + SumOver(m, LAMBDA fill : fill.qty)

\* What the settlements took from the position, as the buys and the sells tell.
ClosedOut(m) == Held(m) - (replay[m].bought - replay[m].sold)

\* The position row is what the fill log adds up to, but for the fills whose
\* writer has not applied them yet or died before it could, whatever other
\* writers did between a writer's read and its update: its cash and realized P&L
\* to the cent; its shares to the share until a settlement is logged, and after
\* one too if the outcome is YES, when the payouts tell them.  After a settlement
\* at NO the log only says how many shares were closed, not on which side.
PositionsDeriveFromFills ==
    \A m \in Markets :
        /\ replay[m].cash = position[m].cash + dropped[m].cash
              + SumOver(m, LAMBDA fill : fill.cash)
        /\ replay[m].paid = position[m].realized + dropped[m].paid
              + SumOver(m, PaidBy)
        /\ ClosedOut(m) \in -replay[m].closed .. replay[m].closed
        /\ outcome[m] = None => replay[m].closed = 0
        /\ outcome[m] # 0 => ClosedOut(m) * Scale = -replay[m].paid

\* A position is paid out once, and only when the venue has published: no
\* settlement fill precedes the result, and none repeats another one unless that
\* one's writer died before it could mark the row (_settle_position).
PaidOutOnce ==
    \A m \in Markets :
        /\ replay[m].settles <= 1 + dropped[m].settles
        /\ replay[m].settles > 0 => outcome[m] # None
        /\ replay[m].settles = 0 => replay[m].paid = 0

\* A row is marked settled only after its settlement is in the log, so that a
\* watcher that dies in between leaves a payout on record, never a closed
\* position that nothing explains.
SettledHasFill ==
    \A m \in Markets : position[m].settled => replay[m].settles > 0

\* Realized P&L is final: no step changes it once the row is settled, and the
\* row never becomes unsettled again (ON CONFLICT: settled OR EXCLUDED.settled).
RealizedIsFinal ==
    [][\A m \in Markets : position[m].settled =>
          /\ position'[m].settled
          /\ position'[m].realized = position[m].realized]_<<outcome, ledgerVars>>
=============================================================================
