------------------------------ MODULE SimMarket ------------------------------
(***************************************************************************)
(* The synthetic LMSR market of one tracked market: the asset `sim_prices` *)
(* and the last part of `augury refresh` run simulate_lmsr over the signal *)
(* series and the order books, and upsert its path under the run id live.  *)
(*                                                                         *)
(* A price p is handled by its log-odds Logit[p].  In LMSR they are        *)
(* (q_yes - q_no) / b, so buying n shares of YES adds n / b.  No step of   *)
(* the program leaves shares on the NO side: q stands for q_yes.           *)
(***************************************************************************)
EXTENDS MarketSeries

CONSTANTS
    Jobs,               \* processes that simulate
    Refreshing,         \* those of them that are an `augury refresh`
    Logit,              \* [0..Top -> Int], with 0 and 1 clamped
    RespNum, RespDen,   \* the responsiveness, as a fraction
    BMin, BMax,         \* the range of b
    Fallback            \* b for a book that cannot be used

ASSUME SimMarketAssumption ==
    /\ Refreshing \subseteq Jobs \intersect Pollers
    /\ Logit \in [0..Top -> Int]
    /\ \A p, r \in 0..Top : p < r => Logit[p] < Logit[r]
    /\ RespNum \in Nat \ {0} /\ RespDen \in Nat \ {0} /\ RespNum <= RespDen
    /\ BMin \in Nat \ {0} /\ BMax \in Nat /\ BMin <= BMax
    /\ Fallback \in Nat \ {0}

VARIABLES
    sim,    \* whether the table `sim_prices` has a path
    run     \* [Jobs -> record]: a simulation's locals

simVars == <<sim, run>>
vars == <<marketVars, simVars>>

\* What was loaded (ticks), the bars still ahead with their targets (ahead),
\* the market (q, b), the path so far (path); and, as history, the book that b
\* is from and the one that the opening price is from.
Run(step, ticks, ahead, q, b, from, anchor, path) ==
    [step |-> step, ticks |-> ticks, ahead |-> ahead, q |-> q, b |-> b,
     from |-> from, anchor |-> anchor, path |-> path]

Empty == [t \in {} |-> 0]

Waiting(step, ticks, ahead) == Run(step, ticks, ahead, 0, 1, None, None, Empty)

NoRun == Waiting("idle", NoTicks, Empty)

Init ==
    /\ MarketInit
    /\ sim = FALSE
    /\ run = [j \in Jobs |-> NoRun]

-----------------------------------------------------------------------------
(* Books and liquidity.                                                    *)

BookTimes(ticks) == {k.at : k \in {l \in DOMAIN ticks : l.source = "book"}}

BookOf(ticks, t) == ticks[[at |-> t, source |-> "book"]]

FirstOf(S) == CHOOSE t \in S : \A u \in S : t <= u
LastOf(S) == CHOOSE t \in S : \A u \in S : u <= t

\* _book_at: the last book at or before t.
BookAt(ticks, t) ==
    LET past == {u \in BookTimes(ticks) : u <= t}
    IN  IF past = {} THEN None ELSE LastOf(past)

\* The mean of the sizes that are quoted and not zero.
Depth(row) ==
    LET sizes == {row.depthBid, row.depthAsk} \ {None, 0}
    IN  IF Cardinality(sizes) = 2 THEN (row.depthBid + row.depthAsk) \div 2
        ELSE CHOOSE s \in sizes : TRUE

\* Mutant: whatever the fit gives.
CalibrateBUnclamped(row) ==
    IF row.bid = None \/ row.ask = None THEN Fallback
    ELSE Depth(row) \div (Logit[row.ask] - Logit[row.bid])

\* calibrate_b_from_depth.
CalibrateB(row) ==
    IF \/ row.bid = None \/ row.ask = None
       \/ row.bid >= row.ask
       \/ {row.depthBid, row.depthAsk} \subseteq {None, 0}
    THEN Fallback
    ELSE LET fit == Depth(row) \div (Logit[row.ask] - Logit[row.bid])
         IN  IF fit < BMin THEN BMin ELSE IF fit > BMax THEN BMax ELSE fit

Calibrated(ticks, t) == IF t = None THEN Fallback ELSE CalibrateB(BookOf(ticks, t))

-----------------------------------------------------------------------------
(* The simulation.                                                         *)

\* The part of a gap that one trade closes.
Part(gap) == (gap * RespNum) \div RespDen

\* Mutant: the liquidity changes and the shares do not.
RecalibrateSharesKept(q, b, newB) == q

\* LMSRMarket.recalibrate: the shares are rescaled with b.
Recalibrate(q, b, newB) == (q * newB) \div b

\* Mutant: the simulation opens with the latest book.
OpeningBookLatest(ticks, t) ==
    IF BookTimes(ticks) = {} THEN None ELSE LastOf(BookTimes(ticks))

\* The last book before the first bar, or else the earliest.
OpeningBook(ticks, t) ==
    IF BookTimes(ticks) = {} THEN None
    ELSE IF BookAt(ticks, t) # None THEN BookAt(ticks, t)
    ELSE FirstOf(BookTimes(ticks))

\* The latest book with its middle, if it has one; or else even odds.
AnchorBook(ticks) ==
    IF BookTimes(ticks) = {} THEN None
    ELSE IF TickMid(BookOf(ticks, LastOf(BookTimes(ticks)))) = None THEN None
    ELSE LastOf(BookTimes(ticks))

AnchorPrice(ticks) ==
    IF AnchorBook(ticks) = None THEN Top \div 2
    ELSE TickMid(BookOf(ticks, AnchorBook(ticks)))

\* simulate_lmsr up to its loop.
Opened(ticks, series) ==
    LET from == OpeningBook(ticks, FirstOf(DOMAIN series))
        b == Calibrated(ticks, from)
    IN  Run("loop", ticks, series, b * Logit[AnchorPrice(ticks)], b,
            from, AnchorBook(ticks), Empty)

\* One turn of the loop, at bar t: recalibrate, then trade a part of the way.
Stepped(r, t) ==
    LET book == BookAt(r.ticks, t)
        b == IF book = None THEN r.b ELSE Calibrated(r.ticks, book)
        from == IF book = None THEN r.from ELSE book
        held == IF b = r.b THEN r.q ELSE Recalibrate(r.q, r.b, b)
        shares == b * Part(Logit[r.ahead[t]] - (held \div b))
        q == held + shares
        tick == [price |-> q \div b, b |-> b, from |-> from]
        rest == DOMAIN r.ahead \ {t}
    IN  Run(IF rest = {} THEN "save" ELSE "loop", r.ticks,
            [u \in rest |-> r.ahead[u]], q, b, from, r.anchor,
            [u \in DOMAIN r.path \union {t} |-> IF u = t THEN tick ELSE r.path[u]])

-----------------------------------------------------------------------------
(* Actions.                                                                *)

\* The asset: the signal series ...
LoadSignals(j) ==
    /\ run[j] = NoRun
    /\ j \in Pollers => poll[j] = NoPoll
    /\ LET bars == {t \in Bars : signals[t] # None}
       IN  /\ bars # {}
           /\ run' = [run EXCEPT ![j] =
                 Waiting("prices", NoTicks, [t \in bars |-> signals[t]])]
    /\ UNCHANGED <<marketVars, sim>>

\* ... then the prices.
LoadPrices(j) ==
    /\ run[j].step = "prices"
    /\ run' = [run EXCEPT ![j] = Opened(prices, run[j].ahead)]
    /\ UNCHANGED <<marketVars, sim>>

\* augury refresh: store the prices it polled and keep them ...
RefreshStore(j) ==
    /\ j \in Refreshing
    /\ run[j] = NoRun
    /\ poll[j].step = "store"
    /\ prices' = Upserted(prices, poll[j].ticks)
    /\ poll' = [poll EXCEPT ![j] = NoPoll]
    /\ run' = [run EXCEPT ![j] = Waiting("refresh", poll[j].ticks, Empty)]
    /\ UNCHANGED <<venue, now, shown, signals, sim>>

\* ... then store the bars computed from the posts it fetched, and go on with
\* those bars and the prices in hand.
RefreshSignals(j) ==
    /\ run[j].step = "refresh"
    /\ \E bars \in (SUBSET {t \in Bars : t <= now}) \ {{}} :
          \E series \in [bars -> Targets] :
             /\ signals' = [t \in Bars |-> IF t \in bars THEN series[t] ELSE signals[t]]
             /\ run' = [run EXCEPT ![j] = Opened(run[j].ticks, series)]
    /\ UNCHANGED <<venue, now, shown, prices, poll, sim>>

SimStep(j) ==
    /\ run[j].step = "loop"
    /\ run' = [run EXCEPT ![j] = Stepped(run[j], FirstOf(DOMAIN run[j].ahead))]
    /\ UNCHANGED <<marketVars, sim>>

\* insert_sim_ticks: one transaction, DO UPDATE.
SimSave(j) ==
    /\ run[j].step = "save"
    /\ sim' = TRUE
    /\ run' = [run EXCEPT ![j] = NoRun]
    /\ UNCHANGED marketVars

SimDies(j) ==
    /\ run[j] # NoRun
    /\ run' = [run EXCEPT ![j] = NoRun]
    /\ UNCHANGED <<marketVars, sim>>

SimNext ==
    \E j \in Jobs :
        \/ LoadSignals(j) \/ LoadPrices(j)
        \/ RefreshStore(j) \/ RefreshSignals(j)
        \/ SimStep(j) \/ SimSave(j) \/ SimDies(j)

\* A process does one thing at a time.
MarketStep ==
    /\ MarketNext
    /\ \A j \in Jobs \intersect Pollers : run[j] # NoRun => poll'[j] = poll[j]
    /\ UNCHANGED simVars

Next == MarketStep \/ SimNext

Spec == Init /\ [][Next]_vars

-----------------------------------------------------------------------------
(* Properties.                                                             *)

\* The types, and that a market has shares for whole log-odds: the price is
\* always what q and b say, and b is in range.
SimTypeOK ==
    /\ MarketTypeOK
    /\ \A j \in Jobs :
          /\ run[j].step \in {"idle", "prices", "refresh", "loop", "save"}
          /\ DOMAIN run[j].ahead \subseteq Bars /\ DOMAIN run[j].path \subseteq Bars
          /\ run[j].step = "loop" => DOMAIN run[j].ahead # {}
          /\ run[j].b \in Nat \ {0} /\ run[j].q % run[j].b = 0
          /\ \A t \in DOMAIN run[j].path :
                run[j].path[t].b \in (BMin..BMax) \union {Fallback}
    /\ sim \in BOOLEAN

\* Each bar has the liquidity of the last book at or before it among the books
\* that its run had; where there is none, that of the earliest book
\* (steps.simulate_lmsr: "a step at time t sees only books at or before t").
LiquidityIsCurrent ==
    \A j \in Jobs : \A t \in DOMAIN run[j].path :
        LET times == BookTimes(run[j].ticks)
            from == run[j].path[t].from
        IN  IF \E u \in times : u <= t
            THEN from \in times /\ from <= t /\ \A u \in times : u <= t => u <= from
            ELSE times # {} => from \in times /\ \A u \in times : from <= u

\* No bar's price starts from a book that is later than the bar
\* (steps.simulate_lmsr: "No lookahead").  A run without a price has no such
\* book, and the liquidity before the first book is documented as that of it.
NoLookahead ==
    \A j \in Jobs : \A t \in DOMAIN run[j].path :
        run[j].anchor # None => run[j].anchor <= t

\* Whatever books arrive and however b is calibrated, the price of every run is
\* the signal smoothed by the responsiveness, from the price it opened at:
\* recalibration never moves it (lmsr.py: "a liquidity update is not new
\* information about the outcome, and letting it jump the price would inject
\* signal that no one traded on").
Trading(j) == run[j].step \in {"loop", "save"}

Tracker == INSTANCE PriceTracker WITH
    Runs <- Jobs,
    Steps <- Bars,
    Anchors <- {Logit[p] : p \in 0..Top},
    Aims <- {Logit[p] : p \in 0..Top},
    ahead <- [j \in Jobs |->
        [t \in (IF Trading(j) THEN DOMAIN run[j].ahead ELSE {}) |-> Logit[run[j].ahead[t]]]],
    price <- [j \in Jobs |-> IF Trading(j) THEN run[j].q \div run[j].b ELSE 0]

ImplementsTracker == Tracker!Spec
=============================================================================
