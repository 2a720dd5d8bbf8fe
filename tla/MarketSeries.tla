----------------------------- MODULE MarketSeries -----------------------------
(***************************************************************************)
(* The two series of one market that later stages read: its prices, which  *)
(* the asset `market_prices` and the commands poll from the venue, and its *)
(* signal.  A poll asks for the history and for the order book, either of  *)
(* which may fail, and upserts what it got in one transaction.             *)
(*                                                                         *)
(* The order book of the YES token is a set of bids and a set of asks.     *)
(* Kalshi publishes bids for YES and bids for NO; Polymarket publishes a   *)
(* book per token.  Prices are multiples of two parts of Top, so that the  *)
(* middle of two of them is a number of parts.                             *)
(***************************************************************************)
EXTENDS Integers, FiniteSets

CONSTANTS
    Top,            \* the price of certainty; prices are 0..Top
    Books,          \* what the venue may show: [bids, asks, last]
    Venues,         \* the venues that the market may be on
    Outcomes,       \* Polymarket: the outcomes in the order of the tokens
    Pollers,        \* processes that poll prices
    Targets,        \* values that p_hat may have
    HourLen,        \* instants per hour, the bar of every series
    Lookback,       \* how far back the history goes
    Start,          \* the time at which the model begins
    MaxTime,        \* bound: the last instant
    None

Levels == [price : {p \in 0..Top : p % 2 = 0}, size : Nat]

ASSUME MarketSeriesAssumption ==
    /\ Top \in Nat /\ Top % 4 = 0
    /\ \A b \in Books :
          /\ b.bids \subseteq Levels /\ b.asks \subseteq Levels
          /\ b.last \in {p \in 0..Top : p % 2 = 0} \union {None}
          /\ \A k, l \in b.bids : k.price = l.price => k = l
          /\ \A k, l \in b.asks : k.price = l.price => k = l
    /\ Venues \subseteq {"kalshi", "polymarket"} /\ Venues # {}
    /\ Outcomes \in {<<"yes", "no">>, <<"no", "yes">>}
    /\ Targets \subseteq 0..Top
    /\ HourLen \in Nat \ {0} /\ Lookback \in Nat
    /\ Start \in Nat /\ MaxTime \in Nat /\ Start <= MaxTime
    /\ None \notin Int

VARIABLES
    venue,      \* the market's venue
    now,
    shown,      \* [0..MaxTime -> Books or None]: what the venue showed when
    prices,     \* [at, source] |-> row: the table `market_prices`
    signals,    \* [Bars -> p_hat or None]: the table `signals`
    poll        \* [Pollers -> record]: a poll's locals

marketVars == <<venue, now, shown, prices, signals, poll>>

Bars == {t \in 0..MaxTime : t % HourLen = 0}

Keys == [at : 0..MaxTime, source : {"candle", "book"}]

Row(price, bid, ask, depthBid, depthAsk) ==
    [price |-> price, bid |-> bid, ask |-> ask,
     depthBid |-> depthBid, depthAsk |-> depthAsk]

NoTicks == [k \in {} |-> Row(None, None, None, None, None)]

Polling(step, ticks) == [step |-> step, ticks |-> ticks]
NoPoll == Polling("idle", NoTicks)

MarketInit ==
    /\ venue \in Venues
    /\ now = Start
    \* The past shows one book.
    /\ \E b \in Books : shown = [t \in 0..MaxTime |-> IF t <= Start THEN b ELSE None]
    /\ prices = NoTicks
    /\ signals = [t \in Bars |-> None]
    /\ poll = [w \in Pollers |-> NoPoll]

-----------------------------------------------------------------------------
(* What the venues send.                                                   *)

\* A level of one token is a level of the other side of the other token.
Mirror(levels) == {[price |-> Top - l.price, size |-> l.size] : l \in levels}

MirrorPrice(p) == IF p = None THEN None ELSE Top - p

\* Kalshi's order book: the bids for YES and the bids for NO.
KalshiWire(b) == [yes |-> b.bids, no |-> Mirror(b.asks)]

\* Polymarket's book of the i-th token.
TokenWire(b, i) ==
    IF Outcomes[i] = "yes" THEN b
    ELSE [bids |-> Mirror(b.asks), asks |-> Mirror(b.bids),
          last |-> MirrorPrice(b.last)]

-----------------------------------------------------------------------------
(* How the clients read it.                                                *)

NoLevel == [price |-> None, size |-> None]

Highest(levels) ==
    IF levels = {} THEN NoLevel
    ELSE CHOOSE l \in levels : \A k \in levels : k.price <= l.price

Lowest(levels) ==
    IF levels = {} THEN NoLevel
    ELSE CHOOSE l \in levels : \A k \in levels : l.price <= k.price

Mid(bid, ask) == IF bid = None \/ ask = None THEN None ELSE (bid + ask) \div 2

\* PriceTick.mid: the middle of the quote, or the price where there is none.
TickMid(row) ==
    IF row.bid # None /\ row.ask # None THEN (row.bid + row.ask) \div 2
    ELSE row.price

\* Mutant: the best bid for NO is taken for the ask of YES.
KalshiBookUninverted(wire) ==
    LET yes == Highest(wire.yes)
        no == Highest(wire.no)
    IN  Row(Mid(yes.price, no.price), yes.price, no.price, yes.size, no.size)

\* KalshiClient.get_orderbook.
KalshiBook(wire) ==
    LET yes == Highest(wire.yes)
        no == Highest(wire.no)
        ask == IF no.price = None THEN None ELSE Top - no.price
    IN  Row(Mid(yes.price, ask), yes.price, ask, yes.size, no.size)

\* PolymarketClient.get_orderbook.
PolymarketBook(wire) ==
    LET bid == Highest(wire.bids)
        ask == Lowest(wire.asks)
        mid == Mid(bid.price, ask.price)
    IN  Row(IF mid = None THEN wire.last ELSE mid,
            bid.price, ask.price, bid.size, ask.size)

\* yes_token_id: by name.
YesToken == CHOOSE i \in 1..2 : Outcomes[i] = "yes"

BookRow(b) ==
    IF venue = "kalshi" THEN KalshiBook(KalshiWire(b)) ELSE PolymarketBook(TokenWire(b, YesToken))

\* get_candlesticks: the quote and the last trade at the end of the period.
KalshiCandle(b) ==
    Row(b.last, Highest(b.bids).price, Lowest(b.asks).price, None, None)

\* get_price_history: a price only.
PolymarketCandle(wire) == Row(wire.last, None, None, None, None)

\* One row per hour that has ended; Polymarket's points without a price are
\* skipped.
Candles ==
    LET ends == {t \in Bars : t <= now /\ now - Lookback <= t}
        priced == {t \in ends : venue = "kalshi" \/ TokenWire(shown[t], YesToken).last # None}
    IN  [k \in [at : priced, source : {"candle"}] |->
            IF venue = "kalshi" THEN KalshiCandle(shown[k.at])
            ELSE PolymarketCandle(TokenWire(shown[k.at], YesToken))]

\* The book as it is now, under the time at which it was read.
BookTick == [k \in {[at |-> now, source |-> "book"]} |-> BookRow(shown[now])]

\* The union of two tables, where the rows of the second win.
Upserted(table, ticks) ==
    [k \in DOMAIN table \union DOMAIN ticks |->
        IF k \in DOMAIN ticks THEN ticks[k] ELSE table[k]]

-----------------------------------------------------------------------------
(* Actions.                                                                *)

\* Time passes and the venue shows something else, or the same.
Tick ==
    /\ now < MaxTime
    /\ now' = now + 1
    /\ \E b \in Books : shown' = [shown EXCEPT ![now + 1] = b]
    /\ UNCHANGED <<venue, prices, signals, poll>>

\* A job computes or recomputes the signal of a bar.
SignalWritten(t) ==
    /\ t <= now
    /\ \E p \in Targets : signals' = [signals EXCEPT ![t] = p]
    /\ UNCHANGED <<venue, now, shown, prices, poll>>

\* poll_prices: the history, unless the request fails.
PollHistory(w) ==
    /\ poll[w] = NoPoll
    /\ \E ticks \in {Candles, NoTicks} :
          poll' = [poll EXCEPT ![w] = Polling("book", ticks)]
    /\ UNCHANGED <<venue, now, shown, prices, signals>>

\* ... and the book, unless that request fails.
PollBook(w) ==
    /\ poll[w].step = "book"
    /\ \E ticks \in {BookTick, NoTicks} :
          poll' = [poll EXCEPT ![w] = Polling("store", Upserted(@.ticks, ticks))]
    /\ UNCHANGED <<venue, now, shown, prices, signals>>

\* insert_price_ticks: one transaction, DO UPDATE.
PollStore(w) ==
    /\ poll[w].step = "store"
    /\ prices' = Upserted(prices, poll[w].ticks)
    /\ poll' = [poll EXCEPT ![w] = NoPoll]
    /\ UNCHANGED <<venue, now, shown, signals>>

PollDies(w) ==
    /\ poll[w] # NoPoll
    /\ poll' = [poll EXCEPT ![w] = NoPoll]
    /\ UNCHANGED <<venue, now, shown, prices, signals>>

MarketNext ==
    \/ Tick
    \/ \E t \in Bars : SignalWritten(t)
    \/ \E w \in Pollers : PollHistory(w) \/ PollBook(w) \/ PollStore(w) \/ PollDies(w)

-----------------------------------------------------------------------------
(* Properties.                                                             *)

MarketTypeOK ==
    /\ venue \in Venues
    /\ now \in Start..MaxTime
    /\ \A t \in 0..MaxTime : shown[t] \in IF t <= now THEN Books ELSE {None}
    /\ DOMAIN prices \subseteq Keys
    /\ signals \in [Bars -> Targets \union {None}]
    /\ \A w \in Pollers :
          /\ poll[w].step \in {"idle", "book", "store"}
          /\ DOMAIN poll[w].ticks \subseteq Keys

\* Every row is what the venue showed at the row's time, in terms of YES: the
\* quote's sides are the best of the book then, whichever venue, token and
\* source they came by, whenever they were stored and however often.
PricesTellTheVenue ==
    \A k \in DOMAIN prices :
        LET b == shown[k.at]
            row == prices[k]
        IN  /\ k.at <= now
            /\ row.bid # None =>
                  /\ \E l \in b.bids : l.price = row.bid /\ row.depthBid \in {None, l.size}
                  /\ \A l \in b.bids : l.price <= row.bid
            /\ row.ask # None =>
                  /\ \E l \in b.asks : l.price = row.ask /\ row.depthAsk \in {None, l.size}
                  /\ \A l \in b.asks : row.ask <= l.price
            /\ k.source = "candle" => row.price = b.last
            /\ k.source = "book" => (row.bid = None <=> b.bids = {})
=============================================================================
