---------------------------- MODULE MarketProofs ----------------------------
(***************************************************************************)
(* Theorems about the series of a market, its simulation and its scores:   *)
(* for any books, venue, series and calibration, and whatever jobs race or *)
(* die, the stored prices are the venue's, each bar of a simulation has    *)
(* the liquidity of its time, and the simulation is the tracker that       *)
(* PriceTracker describes, whose price never passes the signal; a lag      *)
(* never points backwards, a score takes no bar that a slice would not, a  *)
(* price is of its hour, and a signal's skill is earned.                   *)
(***************************************************************************)
EXTENDS MarketScores, SetLemmas

-----------------------------------------------------------------------------
(* First and last times.                                                   *)

LEMMA FirstIsFirst ==
    ASSUME NEW S \in SUBSET Nat, S # {}
    PROVE  FirstOf(S) \in S /\ \A u \in S : FirstOf(S) <= u
BY LeastExists DEF FirstOf

LEMMA LastIsLast ==
    ASSUME NEW n \in Nat, NEW S \in SUBSET (0..n), S # {}
    PROVE  LastOf(S) \in S /\ \A u \in S : u <= LastOf(S)
BY GreatestExists DEF LastOf

-----------------------------------------------------------------------------
(* What is read from the venue.                                            *)

MaybePrice == (0..Top) \union {None}
MaybeSize == Nat \union {None}

IsRow(row) ==
    /\ row.price \in MaybePrice /\ row.bid \in MaybePrice /\ row.ask \in MaybePrice
    /\ row.depthBid \in MaybeSize /\ row.depthAsk \in MaybeSize

\* A row is what a book shows.
Tells(row, b, source) ==
    /\ row.bid # None =>
          /\ \E l \in b.bids : l.price = row.bid /\ row.depthBid \in {None, l.size}
          /\ \A l \in b.bids : l.price <= row.bid
    /\ row.ask # None =>
          /\ \E l \in b.asks : l.price = row.ask /\ row.depthAsk \in {None, l.size}
          /\ \A l \in b.asks : row.ask <= l.price
    /\ source = "candle" => row.price = b.last
    /\ source = "book" => (row.bid = None <=> b.bids = {})
    /\ row.price \in {None, b.last} \/ row.price = Mid(row.bid, row.ask)

LEMMA RowHasFields ==
    ASSUME NEW price, NEW bid, NEW ask, NEW depthBid, NEW depthAsk
    PROVE  LET row == Row(price, bid, ask, depthBid, depthAsk)
           IN  /\ row.price = price /\ row.bid = bid /\ row.ask = ask
               /\ row.depthBid = depthBid /\ row.depthAsk = depthAsk
BY DEF Row

LEMMA NoneIsNoNumber == None \notin Int /\ Top \in Nat /\ Top % 4 = 0
BY MarketSeriesAssumption

\* The best levels of a side.
LEMMA HighestIsBest ==
    ASSUME NEW levels \in SUBSET Levels
    PROVE  /\ levels = {} => Highest(levels).price = None /\ Highest(levels).size = None
           /\ levels # {} => /\ Highest(levels) \in levels
                             /\ \A k \in levels : k.price <= Highest(levels).price
<1>1. CASE levels = {}
  BY <1>1 DEF Highest, NoLevel
<1>2. CASE levels # {}
  <2> DEFINE S == {l.price : l \in levels}
  <2>1. S \in SUBSET (0..Top) /\ S # {}
    BY <1>2 DEF Levels
  <2>2. PICK m \in S : \A k \in S : k <= m
    BY <2>1, GreatestExists, NoneIsNoNumber
  <2>3. PICK l \in levels : l.price = m
    BY <2>2
  <2>4. \A k \in levels : k.price <= l.price
    BY <2>2, <2>3
  <2> QED
    BY <1>2, <2>4 DEF Highest
<1> QED
  BY <1>1, <1>2

LEMMA LowestIsBest ==
    ASSUME NEW levels \in SUBSET Levels
    PROVE  /\ levels = {} => Lowest(levels).price = None /\ Lowest(levels).size = None
           /\ levels # {} => /\ Lowest(levels) \in levels
                             /\ \A k \in levels : Lowest(levels).price <= k.price
<1>1. CASE levels = {}
  BY <1>1 DEF Lowest, NoLevel
<1>2. CASE levels # {}
  <2> DEFINE S == {l.price : l \in levels}
  <2>1. S \in SUBSET Nat /\ S # {}
    BY <1>2 DEF Levels
  <2>2. PICK m \in S : \A k \in S : m <= k
    BY <2>1, LeastExists
  <2>3. PICK l \in levels : l.price = m
    BY <2>2
  <2>4. \A k \in levels : l.price <= k.price
    BY <2>2, <2>3
  <2> QED
    BY <1>2, <2>4 DEF Lowest
<1> QED
  BY <1>1, <1>2

LEMMA BooksAreBooks ==
    ASSUME NEW b \in Books
    PROVE  /\ b.bids \in SUBSET Levels /\ b.asks \in SUBSET Levels
           /\ b.last \in MaybePrice
BY MarketSeriesAssumption DEF MaybePrice

\* A price or the middle of two is one that a row may have.
LEMMA MidIsPrice ==
    ASSUME NEW bid \in MaybePrice, NEW ask \in MaybePrice
    PROVE  /\ Mid(bid, ask) \in MaybePrice
           /\ Mid(bid, ask) # None <=> bid # None /\ ask # None
BY NoneIsNoNumber DEF MaybePrice, Mid

LEMMA LevelIsPriced ==
    ASSUME NEW l \in Levels
    PROVE  l.price \in 0..Top /\ l.size \in Nat /\ l.price # None /\ l.size # None
BY NoneIsNoNumber DEF Levels

\* A side of the book seen as the other side of the other token.
LEMMA MirrorMirrors ==
    ASSUME NEW levels \in SUBSET Levels
    PROVE  /\ Mirror(levels) = {} <=> levels = {}
           /\ \A m \in Mirror(levels) :
                 \E l \in levels : m.price = Top - l.price /\ m.size = l.size
           /\ \A l \in levels : \E m \in Mirror(levels) : m.price = Top - l.price
<1>1. ASSUME NEW l \in levels
      PROVE  \E m \in Mirror(levels) : m.price = Top - l.price
  <2> DEFINE m == [price |-> Top - l.price, size |-> l.size]
  <2>1. m \in Mirror(levels) /\ m.price = Top - l.price
    BY DEF Mirror
  <2> QED
    BY <2>1
<1>2. ASSUME NEW m \in Mirror(levels)
      PROVE  \E l \in levels : m.price = Top - l.price /\ m.size = l.size
  BY DEF Mirror
<1>3. Mirror(levels) = {} <=> levels = {}
  BY <1>1, <1>2
<1> QED
  BY <1>1, <1>2, <1>3

\* Prices of a market are even; so their mirror is a level again.
LEMMA MirrorHasLevels ==
    ASSUME NEW levels \in SUBSET Levels
    PROVE  Mirror(levels) \in SUBSET Levels
<1>1. ASSUME NEW l \in levels
      PROVE  /\ Top - l.price \in 0..Top /\ (Top - l.price) % 2 = 0 /\ l.size \in Nat
  <2>1. l.price \in 0..Top /\ l.price % 2 = 0 /\ l.size \in Nat
    BY DEF Levels
  <2> QED
    BY <2>1, NoneIsNoNumber
<1> QED
  BY <1>1 DEF Mirror, Levels

LEMMA KalshiBookTells ==
    ASSUME NEW b \in Books
    PROVE  LET row == KalshiBook(KalshiWire(b))
           IN  IsRow(row) /\ Tells(row, b, "book")
<1> DEFINE yes == Highest(b.bids)
           no == Highest(Mirror(b.asks))
           ask == IF no.price = None THEN None ELSE Top - no.price
           row == KalshiBook(KalshiWire(b))
<1>1. /\ row.price = Mid(yes.price, ask) /\ row.bid = yes.price /\ row.ask = ask
      /\ row.depthBid = yes.size /\ row.depthAsk = no.size
  BY RowHasFields DEF KalshiBook, KalshiWire
<1>2. b.bids \in SUBSET Levels /\ b.asks \in SUBSET Levels /\ Mirror(b.asks) \in SUBSET Levels
  BY BooksAreBooks, MirrorHasLevels
<1>3. /\ b.bids = {} => yes.price = None /\ yes.size = None
      /\ b.bids # {} => yes \in b.bids /\ \A k \in b.bids : k.price <= yes.price
  BY <1>2, HighestIsBest
<1>4. /\ b.asks = {} => no.price = None /\ no.size = None
      /\ b.asks # {} => /\ no \in Mirror(b.asks)
                        /\ \A k \in Mirror(b.asks) : k.price <= no.price
  BY <1>2, HighestIsBest, MirrorMirrors
<1> HIDE DEF row, yes, no
<1>5. yes.price \in MaybePrice /\ yes.size \in MaybeSize /\ (yes.price = None <=> b.bids = {})
  BY <1>2, <1>3, LevelIsPriced DEF MaybePrice, MaybeSize
<1>6. CASE b.asks = {}
  <2>1. ask = None /\ no.size = None
    BY <1>4, <1>6
  <2>2. IsRow(row)
    BY <1>1, <1>5, <2>1, MidIsPrice DEF IsRow, MaybePrice, MaybeSize
  <2>3. Tells(row, b, "book")
    BY <1>1, <1>3, <1>5, <2>1 DEF Tells
  <2> QED
    BY <2>2, <2>3 DEF row
<1>7. CASE b.asks # {}
  <2>1. no.price \in 0..Top /\ no.price # None /\ no.size \in Nat
    BY <1>2, <1>4, <1>7, LevelIsPriced
  <2>2. PICK l \in b.asks : no.price = Top - l.price /\ no.size = l.size
    BY <1>2, <1>4, <1>7, MirrorMirrors
  <2>3. ask = l.price /\ ask \in 0..Top /\ ask # None
    BY <1>2, <2>1, <2>2, LevelIsPriced, NoneIsNoNumber
  <2>4. ASSUME NEW k \in b.asks
        PROVE  ask <= k.price
    <3>1. PICK m \in Mirror(b.asks) : m.price = Top - k.price
      BY <1>2, MirrorMirrors
    <3>2. Top - k.price <= Top - l.price
      BY <1>4, <1>7, <2>2, <3>1
    <3> QED
      BY <1>2, <2>3, <3>2, LevelIsPriced, NoneIsNoNumber
  <2>5. IsRow(row)
    BY <1>1, <1>5, <2>1, <2>3, MidIsPrice DEF IsRow, MaybePrice, MaybeSize
  <2> HIDE DEF ask
  <2>6. Tells(row, b, "book")
    <3>1. row.ask = l.price /\ row.depthAsk = l.size
      BY <1>1, <2>2, <2>3
    <3>2. row.bid # None =>
            /\ \E k \in b.bids : k.price = row.bid /\ row.depthBid \in {None, k.size}
            /\ \A k \in b.bids : k.price <= row.bid
      BY <1>1, <1>3, <1>5
    <3> QED
      BY <1>1, <1>5, <2>3, <2>4, <3>1, <3>2 DEF Tells
  <2> QED
    BY <2>5, <2>6 DEF row
<1> QED
  BY <1>6, <1>7

LEMMA PolymarketBookTells ==
    ASSUME NEW b \in Books
    PROVE  IsRow(PolymarketBook(b)) /\ Tells(PolymarketBook(b), b, "book")
<1> DEFINE bid == Highest(b.bids)
           ask == Lowest(b.asks)
           mid == Mid(bid.price, ask.price)
           row == PolymarketBook(b)
<1>1. /\ row.price = IF mid = None THEN b.last ELSE mid
      /\ row.bid = bid.price /\ row.ask = ask.price
      /\ row.depthBid = bid.size /\ row.depthAsk = ask.size
  BY RowHasFields DEF PolymarketBook
<1>2. b.bids \in SUBSET Levels /\ b.asks \in SUBSET Levels /\ b.last \in MaybePrice
  BY BooksAreBooks
<1>3. /\ b.bids = {} => bid.price = None /\ bid.size = None
      /\ b.bids # {} => bid \in b.bids /\ \A k \in b.bids : k.price <= bid.price
  BY <1>2, HighestIsBest
<1>4. /\ b.asks = {} => ask.price = None /\ ask.size = None
      /\ b.asks # {} => ask \in b.asks /\ \A k \in b.asks : ask.price <= k.price
  BY <1>2, LowestIsBest
<1> HIDE DEF row, bid, ask
<1>5. bid.price \in MaybePrice /\ bid.size \in MaybeSize /\ (bid.price = None <=> b.bids = {})
  BY <1>2, <1>3, LevelIsPriced DEF MaybePrice, MaybeSize
<1>6. ask.price \in MaybePrice /\ ask.size \in MaybeSize /\ (ask.price = None <=> b.asks = {})
  BY <1>2, <1>4, LevelIsPriced DEF MaybePrice, MaybeSize
<1>7. IsRow(row)
  BY <1>1, <1>2, <1>5, <1>6, MidIsPrice DEF IsRow
<1>8. Tells(row, b, "book")
  BY <1>1, <1>3, <1>4, <1>5, <1>6 DEF Tells
<1> QED
  BY <1>7, <1>8 DEF row

LEMMA KalshiCandleTells ==
    ASSUME NEW b \in Books
    PROVE  IsRow(KalshiCandle(b)) /\ Tells(KalshiCandle(b), b, "candle")
<1> DEFINE bid == Highest(b.bids)
           ask == Lowest(b.asks)
           row == KalshiCandle(b)
<1>1. /\ row.price = b.last /\ row.bid = bid.price /\ row.ask = ask.price
      /\ row.depthBid = None /\ row.depthAsk = None
  BY RowHasFields DEF KalshiCandle
<1>2. b.bids \in SUBSET Levels /\ b.asks \in SUBSET Levels /\ b.last \in MaybePrice
  BY BooksAreBooks
<1>3. /\ b.bids = {} => bid.price = None
      /\ b.bids # {} => bid \in b.bids /\ \A k \in b.bids : k.price <= bid.price
  BY <1>2, HighestIsBest
<1>4. /\ b.asks = {} => ask.price = None
      /\ b.asks # {} => ask \in b.asks /\ \A k \in b.asks : ask.price <= k.price
  BY <1>2, LowestIsBest
<1> HIDE DEF row, bid, ask
<1>5. bid.price \in MaybePrice /\ ask.price \in MaybePrice
  BY <1>2, <1>3, <1>4, LevelIsPriced DEF MaybePrice
<1>6. IsRow(row)
  BY <1>1, <1>2, <1>5 DEF IsRow, MaybeSize
<1>7. Tells(row, b, "candle")
  BY <1>1, <1>3, <1>4 DEF Tells
<1> QED
  BY <1>6, <1>7 DEF row

LEMMA PolymarketCandleTells ==
    ASSUME NEW b \in Books
    PROVE  IsRow(PolymarketCandle(b)) /\ Tells(PolymarketCandle(b), b, "candle")
BY BooksAreBooks, RowHasFields
DEF PolymarketCandle, IsRow, Tells, MaybePrice, MaybeSize

\* The book of the YES token is the book.
LEMMA YesTokenIsYes == \A b : TokenWire(b, YesToken) = b
<1>1. \E i \in 1..2 : Outcomes[i] = "yes"
  BY MarketSeriesAssumption
<1>2. Outcomes[YesToken] = "yes"
  BY <1>1 DEF YesToken
<1> QED
  BY <1>2 DEF TokenWire

-----------------------------------------------------------------------------
(* Tables of rows.                                                         *)

\* Each row is a key's, of the past, and what the venue showed then.
IsTable(table, book, today) ==
    /\ DOMAIN table \subseteq Keys
    /\ \A k \in DOMAIN table :
          k.at <= today /\ IsRow(table[k]) /\ Tells(table[k], book[k.at], k.source)

LEMMA NoTicksIsTable ==
    ASSUME NEW book, NEW today
    PROVE  IsTable(NoTicks, book, today)
BY DEF IsTable, NoTicks

LEMMA UpsertedIsTable ==
    ASSUME NEW book, NEW today, NEW table, NEW ticks,
           IsTable(table, book, today), IsTable(ticks, book, today)
    PROVE  IsTable(Upserted(table, ticks), book, today)
BY DEF IsTable, Upserted

\* What is known of the venue.
IsVenue ==
    /\ venue \in Venues
    /\ now \in 0..MaxTime
    /\ shown \in [0..MaxTime -> Books \union {None}]
    /\ \A t \in 0..now : shown[t] \in Books

LEMMA BookTickIsTable ==
    ASSUME IsVenue
    PROVE  IsTable(BookTick, shown, now)
<1> DEFINE key == [at |-> now, source |-> "book"]
<1>1. key \in Keys /\ key.at = now /\ key.source = "book"
  BY DEF Keys, IsVenue
<1>2. DOMAIN BookTick = {key} /\ BookTick[key] = BookRow(shown[now])
  BY DEF BookTick
<1>3. shown[now] \in Books /\ venue \in {"kalshi", "polymarket"}
  BY MarketSeriesAssumption DEF IsVenue
<1>4. IsRow(BookRow(shown[now])) /\ Tells(BookRow(shown[now]), shown[now], "book")
  BY <1>3, KalshiBookTells, PolymarketBookTells, YesTokenIsYes DEF BookRow
<1>5. now <= now
  BY MarketSeriesAssumption DEF IsVenue
<1> QED
  BY <1>1, <1>2, <1>4, <1>5 DEF IsTable

LEMMA CandlesAreTable ==
    ASSUME IsVenue
    PROVE  IsTable(Candles, shown, now)
<1>1. ASSUME NEW k \in DOMAIN Candles
      PROVE  /\ k \in Keys /\ k.source = "candle" /\ k.at \in 0..now
             /\ Candles[k] = IF venue = "kalshi" THEN KalshiCandle(shown[k.at])
                             ELSE PolymarketCandle(TokenWire(shown[k.at], YesToken))
  <2>1. k \in [at : {t \in Bars : t <= now}, source : {"candle"}]
    BY <1>1 DEF Candles
  <2>2. k \in Keys /\ k.source = "candle" /\ k.at \in 0..now
    BY <2>1, MarketSeriesAssumption DEF Keys, Bars, IsVenue
  <2> QED
    BY <1>1, <2>2 DEF Candles
<1>2. ASSUME NEW k \in DOMAIN Candles
      PROVE  /\ k.at <= now /\ IsRow(Candles[k])
             /\ Tells(Candles[k], shown[k.at], k.source)
  <2>1. shown[k.at] \in Books /\ k.at <= now
    BY <1>1, MarketSeriesAssumption DEF IsVenue
  <2> QED
    BY <1>1, <2>1, KalshiCandleTells, PolymarketCandleTells, YesTokenIsYes
<1> QED
  BY <1>1, <1>2 DEF IsTable

-----------------------------------------------------------------------------
(* The stored prices.                                                      *)

MarketInv ==
    /\ IsVenue
    /\ IsTable(prices, shown, now)
    /\ DOMAIN poll = Pollers /\ \A w \in Pollers : IsTable(poll[w].ticks, shown, now)
    /\ DOMAIN run = Jobs /\ \A j \in Jobs : IsTable(run[j].ticks, shown, now)

LEMMA RunHasFields ==
    ASSUME NEW step, NEW ticks, NEW ahead, NEW q, NEW b, NEW from, NEW anchor, NEW path
    PROVE  LET r == Run(step, ticks, ahead, q, b, from, anchor, path)
           IN  /\ r.step = step /\ r.ticks = ticks /\ r.ahead = ahead /\ r.q = q
               /\ r.b = b /\ r.from = from /\ r.anchor = anchor /\ r.path = path
BY DEF Run

LEMMA PollingHasFields ==
    ASSUME NEW step, NEW ticks
    PROVE  Polling(step, ticks).step = step /\ Polling(step, ticks).ticks = ticks
BY DEF Polling

\* The simulation takes the rows that it was given along.
LEMMA TicksAreKept ==
    /\ NoRun.ticks = NoTicks /\ NoPoll.ticks = NoTicks
    /\ \A ticks, series : Opened(ticks, series).ticks = ticks
    /\ \A r, t : Stepped(r, t).ticks = r.ticks
    /\ \A step, ticks, ahead : Waiting(step, ticks, ahead).ticks = ticks
<1>1. \A step, ticks, ahead : Waiting(step, ticks, ahead).ticks = ticks
  BY RunHasFields DEF Waiting
<1>2. \A ticks, series : Opened(ticks, series).ticks = ticks
  BY RunHasFields DEF Opened
<1>3. \A r, t : Stepped(r, t).ticks = r.ticks
  BY RunHasFields DEF Stepped
<1> QED
  BY <1>1, <1>2, <1>3, PollingHasFields DEF NoRun, NoPoll

LEMMA MarketInvInit == ScoresInit => MarketInv
<1> SUFFICES ASSUME ScoresInit PROVE MarketInv
  OBVIOUS
<1>1. PICK b \in Books : shown = [t \in 0..MaxTime |-> IF t <= Start THEN b ELSE None]
  BY DEF ScoresInit, Init, MarketInit
<1>2. Start \in Nat /\ MaxTime \in Nat /\ Start <= MaxTime /\ now = Start /\ venue \in Venues
  BY MarketSeriesAssumption DEF ScoresInit, Init, MarketInit
<1>3. IsVenue
  BY <1>1, <1>2 DEF IsVenue
<1>4. \A w \in Pollers : poll[w] = NoPoll
  BY DEF ScoresInit, Init, MarketInit
<1>5. \A j \in Jobs : run[j] = NoRun
  BY DEF ScoresInit, Init
<1> QED
  BY <1>3, <1>4, <1>5, NoTicksIsTable, TicksAreKept
  DEF MarketInv, ScoresInit, Init, MarketInit

\* What a table says of the past stays true.
LEMMA TickKeepsTables ==
    ASSUME IsVenue, Tick, NEW table, IsTable(table, shown, now)
    PROVE  IsTable(table, shown', now')
<1>1. PICK b \in Books : shown' = [shown EXCEPT ![now + 1] = b]
  BY DEF Tick
<1>2. now' = now + 1 /\ now \in Nat
  BY MarketSeriesAssumption DEF Tick, IsVenue
<1>3. ASSUME NEW k \in DOMAIN table
      PROVE  k.at <= now' /\ shown'[k.at] = shown[k.at]
  <2>1. k.at \in 0..MaxTime /\ k.at <= now
    BY DEF IsTable, Keys
  <2> QED
    BY <1>1, <1>2, <2>1, MarketSeriesAssumption DEF IsVenue
<1> QED
  BY <1>3 DEF IsTable

LEMMA TickKeepsVenue ==
    ASSUME IsVenue, Tick
    PROVE  IsVenue'
<1>1. PICK b \in Books : shown' = [shown EXCEPT ![now + 1] = b]
  BY DEF Tick
<1>2. now' = now + 1 /\ now < MaxTime /\ now \in Nat /\ MaxTime \in Nat /\ venue' = venue
  BY MarketSeriesAssumption DEF Tick, IsVenue
<1>3. now + 1 \in 0..MaxTime
  BY <1>2
<1>4. shown' \in [0..MaxTime -> Books \union {None}]
  BY <1>1, <1>3 DEF IsVenue
<1>5. ASSUME NEW t \in 0..now'
      PROVE  shown'[t] \in Books
  <2>1. CASE t = now + 1
    BY <1>1, <1>3, <2>1 DEF IsVenue
  <2>2. CASE t # now + 1
    <3>1. t \in 0..now /\ t \in 0..MaxTime
      BY <1>2, <2>2
    <3> QED
      BY <1>1, <2>2, <3>1 DEF IsVenue
  <2> QED
    BY <2>1, <2>2
<1> QED
  BY <1>2, <1>3, <1>4, <1>5 DEF IsVenue

\* A step at which time stands still has to leave tables only.
LEMMA TablesSuffice ==
    ASSUME MarketInv, UNCHANGED <<venue, now, shown>>,
           IsTable(prices', shown, now),
           \/ poll' = poll
           \/ \E w \in Pollers : \E p :
                 IsTable(p.ticks, shown, now) /\ poll' = [poll EXCEPT ![w] = p],
           \/ run' = run
           \/ \E j \in Jobs : \E r :
                 IsTable(r.ticks, shown, now) /\ run' = [run EXCEPT ![j] = r]
    PROVE  MarketInv'
<1>1. DOMAIN poll' = Pollers /\ \A w \in Pollers : IsTable(poll'[w].ticks, shown, now)
  BY DEF MarketInv
<1>2. DOMAIN run' = Jobs /\ \A j \in Jobs : IsTable(run'[j].ticks, shown, now)
  BY DEF MarketInv
<1> QED
  BY <1>1, <1>2 DEF MarketInv, IsVenue

\* The steps there are.
LEMMA StepsAreThese ==
    ASSUME [ScoresNext]_allVars
    PROVE  \/ Tick /\ UNCHANGED simVars
           \/ \E t \in Bars : SignalWritten(t) /\ UNCHANGED simVars
           \/ \E w \in Pollers :
                 (PollHistory(w) \/ PollBook(w) \/ PollStore(w) \/ PollDies(w))
                 /\ UNCHANGED simVars
           \/ \E j \in Jobs :
                 \/ LoadSignals(j) \/ LoadPrices(j)
                 \/ RefreshStore(j) \/ RefreshSignals(j)
                 \/ SimStep(j) \/ SimSave(j) \/ SimDies(j)
           \/ \E j \in Jobs : Slice(j) \/ SlicePrints(j) \/ SliceStores(j) \/ SliceSignals(j)
           \/ UNCHANGED vars
<1>1. CASE Elsewhere
  BY <1>1 DEF Elsewhere, Next, MarketStep, MarketNext, SimNext
<1>2. CASE Resolves
  BY <1>2 DEF Resolves
<1>3. ASSUME NEW w \in Watchers,
             FreezeReads(w) \/ FreezeScores(w) \/ FreezeRecords(w) \/ WatcherDies(w)
      PROVE  UNCHANGED vars
  BY <1>3 DEF FreezeReads, FreezeScores, FreezeRecords, WatcherDies
<1>4. CASE UNCHANGED allVars
  BY <1>4 DEF allVars
<1> QED
  BY <1>1, <1>2, <1>3, <1>4 DEF ScoresNext, allVars

LEMMA PollsKeepTables ==
    ASSUME MarketInv, NEW w \in Pollers, UNCHANGED simVars,
           PollHistory(w) \/ PollBook(w) \/ PollStore(w) \/ PollDies(w)
    PROVE  MarketInv'
<1>1. /\ IsTable(prices, shown, now) /\ IsTable(poll[w].ticks, shown, now)
      /\ DOMAIN poll = Pollers /\ run' = run
      /\ IsTable(NoTicks, shown, now) /\ NoPoll.ticks = NoTicks
      /\ IsTable(Candles, shown, now) /\ IsTable(BookTick, shown, now)
  BY NoTicksIsTable, TicksAreKept, CandlesAreTable, BookTickIsTable DEF MarketInv, simVars
<1>2. CASE PollHistory(w)
  <2>1. PICK ticks \in {Candles, NoTicks} : poll' = [poll EXCEPT ![w] = Polling("book", ticks)]
    BY <1>2 DEF PollHistory
  <2>2. IsTable(Polling("book", ticks).ticks, shown, now)
    BY <1>1, <2>1, PollingHasFields
  <2> QED
    BY <1>1, <1>2, <2>1, <2>2, TablesSuffice DEF PollHistory
<1>3. CASE PollBook(w)
  <2>1. PICK ticks \in {BookTick, NoTicks} :
          poll' = [poll EXCEPT ![w] = Polling("store", Upserted(poll[w].ticks, ticks))]
    BY <1>1, <1>3 DEF PollBook
  <2>2. IsTable(Polling("store", Upserted(poll[w].ticks, ticks)).ticks, shown, now)
    BY <1>1, <2>1, PollingHasFields, UpsertedIsTable
  <2> QED
    BY <1>1, <1>3, <2>1, <2>2, TablesSuffice DEF PollBook
<1>4. CASE PollStore(w)
  <2>1. IsTable(prices', shown, now)
    BY <1>1, <1>4, UpsertedIsTable DEF PollStore
  <2> QED
    BY <1>1, <1>4, <2>1, TablesSuffice DEF PollStore
<1>5. CASE PollDies(w)
  BY <1>1, <1>5, TablesSuffice DEF PollDies
<1> QED
  BY <1>2, <1>3, <1>4, <1>5

LEMMA SimulationsKeepTables ==
    ASSUME MarketInv, NEW j \in Jobs,
           \/ LoadSignals(j) \/ LoadPrices(j)
           \/ RefreshStore(j) \/ RefreshSignals(j)
           \/ SimStep(j) \/ SimSave(j) \/ SimDies(j)
    PROVE  MarketInv'
<1>1. /\ IsTable(prices, shown, now) /\ IsTable(run[j].ticks, shown, now)
      /\ DOMAIN run = Jobs /\ DOMAIN poll = Pollers
      /\ IsTable(NoTicks, shown, now)
      /\ NoPoll.ticks = NoTicks /\ NoRun.ticks = NoTicks
  BY NoTicksIsTable, TicksAreKept DEF MarketInv
<1>2. CASE LoadSignals(j)
  <2>1. PICK series : run' = [run EXCEPT ![j] = Waiting("prices", NoTicks, series)]
    BY <1>2 DEF LoadSignals
  <2>2. IsTable(Waiting("prices", NoTicks, series).ticks, shown, now)
    BY <1>1, TicksAreKept
  <2>3. UNCHANGED <<venue, now, shown, prices, poll>>
    BY <1>2 DEF LoadSignals, marketVars
  <2> QED
    BY <1>1, <2>1, <2>2, <2>3, TablesSuffice
<1>3. CASE LoadPrices(j)
  <2>1. run' = [run EXCEPT ![j] = Opened(prices, run[j].ahead)]
    BY <1>3 DEF LoadPrices
  <2>2. IsTable(Opened(prices, run[j].ahead).ticks, shown, now)
    BY <1>1, TicksAreKept
  <2>3. UNCHANGED <<venue, now, shown, prices, poll>>
    BY <1>3 DEF LoadPrices, marketVars
  <2> QED
    BY <1>1, <2>1, <2>2, <2>3, TablesSuffice
<1>4. CASE RefreshStore(j)
  <2>1. j \in Pollers
    BY <1>4, SimMarketAssumption DEF RefreshStore
  <2>2. IsTable(poll[j].ticks, shown, now)
    BY <2>1 DEF MarketInv
  <2>3. IsTable(prices', shown, now)
    BY <1>1, <1>4, <2>2, UpsertedIsTable DEF RefreshStore
  <2>4. /\ run' = [run EXCEPT ![j] = Waiting("refresh", poll[j].ticks, Empty)]
        /\ poll' = [poll EXCEPT ![j] = NoPoll]
        /\ UNCHANGED <<venue, now, shown>>
    BY <1>4 DEF RefreshStore
  <2>5. IsTable(Waiting("refresh", poll[j].ticks, Empty).ticks, shown, now)
    BY <2>2, TicksAreKept
  <2> QED
    BY <1>1, <2>1, <2>3, <2>4, <2>5, TablesSuffice
<1>5. CASE RefreshSignals(j)
  <2>1. \E series : run' = [run EXCEPT ![j] = Opened(run[j].ticks, series)]
    BY <1>5 DEF RefreshSignals
  <2> QED
    BY <1>1, <1>5, <2>1, TicksAreKept, TablesSuffice DEF RefreshSignals
<1>6. CASE SimStep(j)
  <2>1. run' = [run EXCEPT ![j] = Stepped(run[j], FirstOf(DOMAIN run[j].ahead))]
    BY <1>6 DEF SimStep
  <2> QED
    BY <1>1, <1>6, <2>1, TicksAreKept, TablesSuffice DEF SimStep, marketVars
<1>7. CASE SimSave(j)
  BY <1>1, <1>7, TablesSuffice DEF SimSave, marketVars
<1>8. CASE SimDies(j)
  BY <1>1, <1>8, TablesSuffice DEF SimDies, marketVars
<1> QED
  BY <1>2, <1>3, <1>4, <1>5, <1>6, <1>7, <1>8

LEMMA SlicesKeepTables ==
    ASSUME MarketInv, NEW j \in Jobs,
           Slice(j) \/ SlicePrints(j) \/ SliceStores(j) \/ SliceSignals(j)
    PROVE  MarketInv'
<1>1. /\ IsTable(prices, shown, now) /\ IsTable(run[j].ticks, shown, now)
      /\ DOMAIN run = Jobs /\ DOMAIN poll = Pollers
      /\ IsTable(NoTicks, shown, now)
      /\ NoPoll.ticks = NoTicks /\ NoRun.ticks = NoTicks
  BY NoTicksIsTable, TicksAreKept DEF MarketInv
<1>2. CASE Slice(j)
  <2>1. j \in Pollers
    BY <1>2, MarketScoresAssumption DEF Slice
  <2>2. IsTable(poll[j].ticks, shown, now)
    BY <2>1 DEF MarketInv
  <2>3. \E series : run' = [run EXCEPT ![j] = Opened(poll[j].ticks, series)]
    BY <1>2 DEF Slice
  <2>4. /\ poll' = [poll EXCEPT ![j] = NoPoll]
        /\ UNCHANGED <<venue, now, shown, prices>>
    BY <1>2 DEF Slice
  <2> QED
    BY <1>1, <2>1, <2>2, <2>3, <2>4, TicksAreKept, TablesSuffice
<1>3. CASE SlicePrints(j)
  BY <1>1, <1>3, TablesSuffice DEF SlicePrints, marketVars
<1>4. CASE SliceStores(j)
  <2>1. IsTable(prices', shown, now)
    BY <1>1, <1>4, UpsertedIsTable DEF SliceStores
  <2> QED
    BY <1>4, <2>1, TablesSuffice DEF SliceStores, simVars
<1>5. CASE SliceSignals(j)
  BY <1>1, <1>5, TablesSuffice DEF SliceSignals, simVars
<1> QED
  BY <1>2, <1>3, <1>4, <1>5

LEMMA MarketInvNext ==
    ASSUME MarketInv, [ScoresNext]_allVars
    PROVE  MarketInv'
<1>1. CASE Tick /\ UNCHANGED simVars
  <2>1. IsVenue'
    BY <1>1, TickKeepsVenue DEF MarketInv
  <2>2. /\ prices' = prices /\ poll' = poll /\ run' = run
    BY <1>1 DEF Tick, simVars
  <2>3. /\ IsTable(prices, shown', now')
        /\ \A w \in Pollers : IsTable(poll[w].ticks, shown', now')
        /\ \A j \in Jobs : IsTable(run[j].ticks, shown', now')
    BY <1>1, TickKeepsTables DEF MarketInv
  <2> QED
    BY <2>1, <2>2, <2>3 DEF MarketInv
<1>2. ASSUME NEW t \in Bars, SignalWritten(t), UNCHANGED simVars
      PROVE  MarketInv'
  BY <1>2, TablesSuffice DEF SignalWritten, simVars, MarketInv
<1>3. CASE UNCHANGED vars
  BY <1>3, TablesSuffice DEF vars, marketVars, simVars, MarketInv
<1> QED
  BY <1>1, <1>2, <1>3, StepsAreThese, PollsKeepTables, SimulationsKeepTables, SlicesKeepTables

LEMMA MarketInvAlways == ScoresSpec => []MarketInv
<1>1. ScoresInit => MarketInv
  BY MarketInvInit
<1>2. MarketInv /\ [ScoresNext]_allVars => MarketInv'
  BY MarketInvNext
<1> QED
  BY <1>1, <1>2, PTL DEF ScoresSpec

\* Every stored row is what the venue showed, in terms of YES.
THEOREM StoredPricesAreTheVenues == ScoresSpec => []PricesTellTheVenue
<1>1. MarketInv => PricesTellTheVenue
  BY DEF MarketInv, IsTable, Tells, PricesTellTheVenue
<1> QED
  BY <1>1, MarketInvAlways, PTL

-----------------------------------------------------------------------------
(* Books and liquidity.                                                    *)

\* A table of some market at some time.
IsBooked(ticks) ==
    /\ DOMAIN ticks \subseteq Keys
    /\ \A k \in DOMAIN ticks : IsRow(ticks[k])

LEMMA TablesAreBooked ==
    ASSUME NEW table, NEW book, NEW today, IsTable(table, book, today)
    PROVE  IsBooked(table)
BY DEF IsTable, IsBooked

LEMMA BookTimesAreTimes ==
    ASSUME NEW ticks, IsBooked(ticks)
    PROVE  /\ MaxTime \in Nat
           /\ BookTimes(ticks) \in SUBSET (0..MaxTime) /\ BookTimes(ticks) \in SUBSET Nat
           /\ None \notin BookTimes(ticks)
           /\ \A t \in BookTimes(ticks) : IsRow(BookOf(ticks, t))
<1>1. ASSUME NEW t \in BookTimes(ticks)
      PROVE  t \in 0..MaxTime /\ IsRow(BookOf(ticks, t))
  <2>1. PICK k \in DOMAIN ticks : k.source = "book" /\ k.at = t
    BY DEF BookTimes
  <2>2. k \in Keys
    BY <2>1 DEF IsBooked
  <2>3. k = [at |-> t, source |-> "book"] /\ t \in 0..MaxTime
    BY <2>1, <2>2 DEF Keys
  <2> QED
    BY <2>1, <2>3 DEF BookOf, IsBooked
<1>2. MaxTime \in Nat
  BY MarketSeriesAssumption
<1> QED
  BY <1>1, <1>2, NoneIsNoNumber

LEMMA BookAtIsLast ==
    ASSUME NEW ticks, IsBooked(ticks), NEW t
    PROVE  /\ BookAt(ticks, t) = None <=> \A u \in BookTimes(ticks) : ~(u <= t)
           /\ BookAt(ticks, t) # None =>
                 /\ BookAt(ticks, t) \in BookTimes(ticks) /\ BookAt(ticks, t) <= t
                 /\ \A u \in BookTimes(ticks) : u <= t => u <= BookAt(ticks, t)
<1> DEFINE past == {u \in BookTimes(ticks) : u <= t}
<1>1. CASE past = {}
  BY <1>1 DEF BookAt
<1>2. CASE past # {}
  <2>1. past \in SUBSET (0..MaxTime) /\ MaxTime \in Nat
    BY BookTimesAreTimes
  <2>2. LastOf(past) \in past /\ \A u \in past : u <= LastOf(past)
    BY <1>2, <2>1, LastIsLast
  <2>3. BookAt(ticks, t) = LastOf(past)
    BY <1>2 DEF BookAt
  <2> QED
    BY <1>2, <2>2, <2>3, BookTimesAreTimes
<1> QED
  BY <1>1, <1>2

LEMMA OpeningBookIsEarly ==
    ASSUME NEW ticks, IsBooked(ticks), NEW t
    PROVE  /\ BookTimes(ticks) = {} <=> OpeningBook(ticks, t) = None
           /\ BookTimes(ticks) # {} =>
                 /\ OpeningBook(ticks, t) \in BookTimes(ticks)
                 /\ \/ OpeningBook(ticks, t) <= t
                    \/ \A u \in BookTimes(ticks) : OpeningBook(ticks, t) <= u
<1>1. CASE BookTimes(ticks) = {}
  BY <1>1 DEF OpeningBook
<1>2. CASE BookTimes(ticks) # {} /\ BookAt(ticks, t) # None
  BY <1>2, BookAtIsLast DEF OpeningBook
<1>3. CASE BookTimes(ticks) # {} /\ BookAt(ticks, t) = None
  <2>1. OpeningBook(ticks, t) = FirstOf(BookTimes(ticks))
    BY <1>3 DEF OpeningBook
  <2>2. /\ FirstOf(BookTimes(ticks)) \in BookTimes(ticks)
        /\ \A u \in BookTimes(ticks) : FirstOf(BookTimes(ticks)) <= u
    BY <1>3, BookTimesAreTimes, FirstIsFirst
  <2> QED
    BY <1>3, <2>1, <2>2, BookTimesAreTimes
<1> QED
  BY <1>1, <1>2, <1>3

\* The liquidities that a book may give.
Liquidities == (BMin..BMax) \union {Fallback}

LEMMA LiquidityIsPositive == Liquidities \subseteq Nat \ {0}
BY SimMarketAssumption DEF Liquidities

LEMMA DepthIsNat ==
    ASSUME NEW row, IsRow(row), ~({row.depthBid, row.depthAsk} \subseteq {None, 0})
    PROVE  Depth(row) \in Nat
<1> DEFINE sizes == {row.depthBid, row.depthAsk} \ {None, 0}
<1>1. sizes # {} /\ sizes \subseteq Nat
  BY DEF IsRow, MaybeSize
<1>2. CASE row.depthBid \in sizes /\ row.depthAsk \in sizes
  <2>1. (row.depthBid + row.depthAsk) \div 2 \in Nat
    BY <1>1, <1>2
  <2>2. (CHOOSE s \in sizes : TRUE) \in Nat
    BY <1>1
  <2> QED
    BY <2>1, <2>2 DEF Depth
<1>3. CASE ~(row.depthBid \in sizes /\ row.depthAsk \in sizes)
  <2>1. PICK s : sizes = {s}
    BY <1>1, <1>3
  <2>2. Cardinality(sizes) = 1
    BY <2>1, FS_Singleton
  <2>3. (CHOOSE s2 \in sizes : TRUE) \in Nat
    BY <1>1
  <2> QED
    BY <2>2, <2>3 DEF Depth
<1> QED
  BY <1>2, <1>3

LEMMA CalibratedInRange ==
    ASSUME NEW ticks, IsBooked(ticks), NEW t \in BookTimes(ticks) \union {None}
    PROVE  Calibrated(ticks, t) \in Liquidities
<1>1. CASE t = None
  BY <1>1 DEF Calibrated, Liquidities
<1>2. CASE t # None
  <2> DEFINE row == BookOf(ticks, t)
             fit == Depth(row) \div (Logit[row.ask] - Logit[row.bid])
  <2>1. IsRow(row)
    BY <1>2, BookTimesAreTimes
  <2>2. Calibrated(ticks, t) = CalibrateB(row)
    BY <1>2 DEF Calibrated
  <2>3. CASE \/ row.bid = None \/ row.ask = None \/ row.bid >= row.ask
             \/ {row.depthBid, row.depthAsk} \subseteq {None, 0}
    BY <2>2, <2>3 DEF CalibrateB, Liquidities
  <2>4. CASE ~(\/ row.bid = None \/ row.ask = None \/ row.bid >= row.ask
               \/ {row.depthBid, row.depthAsk} \subseteq {None, 0})
    <3>1. row.bid \in 0..Top /\ row.ask \in 0..Top /\ row.bid < row.ask
      BY <2>1, <2>4, NoneIsNoNumber DEF IsRow, MaybePrice
    <3>2. Logit[row.ask] - Logit[row.bid] \in Nat \ {0}
      BY <3>1, SimMarketAssumption
    <3>3. Depth(row) \in Nat
      BY <2>1, <2>4, DepthIsNat
    <3>4. fit \in Int
      BY <3>2, <3>3
    <3>5. CalibrateB(row) = IF fit < BMin THEN BMin ELSE IF fit > BMax THEN BMax ELSE fit
      BY <2>4 DEF CalibrateB
    <3> HIDE DEF fit
    <3>6. CalibrateB(row) \in BMin..BMax
      BY <3>4, <3>5, SimMarketAssumption
    <3> QED
      BY <2>2, <3>6 DEF Liquidities
  <2> QED
    BY <2>3, <2>4
<1> QED
  BY <1>1, <1>2

LEMMA AnchorIsPrice ==
    ASSUME NEW ticks, IsBooked(ticks)
    PROVE  AnchorPrice(ticks) \in 0..Top
<1>1. CASE AnchorBook(ticks) = None
  BY <1>1, NoneIsNoNumber DEF AnchorPrice
<1>2. CASE AnchorBook(ticks) # None
  <2>1. /\ BookTimes(ticks) # {} /\ AnchorBook(ticks) = LastOf(BookTimes(ticks))
        /\ TickMid(BookOf(ticks, AnchorBook(ticks))) # None
    BY <1>2 DEF AnchorBook
  <2>2. AnchorBook(ticks) \in BookTimes(ticks)
    BY <2>1, BookTimesAreTimes, LastIsLast
  <2>3. IsRow(BookOf(ticks, AnchorBook(ticks)))
    BY <2>2, BookTimesAreTimes
  <2>4. TickMid(BookOf(ticks, AnchorBook(ticks))) \in MaybePrice
    BY <2>3, NoneIsNoNumber DEF TickMid, IsRow, MaybePrice
  <2> QED
    BY <1>2, <2>1, <2>4 DEF AnchorPrice, MaybePrice
<1> QED
  BY <1>1, <1>2

-----------------------------------------------------------------------------
(* One simulation.                                                         *)

IsSeries(series) ==
    DOMAIN series \subseteq Bars /\ \A t \in DOMAIN series : series[t] \in Targets

\* A bar of the path has the liquidity of its time.
IsCurrent(ticks, t, tick) ==
    LET times == BookTimes(ticks)
    IN  /\ tick.b \in Liquidities
        /\ IF \E u \in times : u <= t
           THEN /\ tick.from \in times /\ tick.from <= t
                /\ \A u \in times : u <= t => u <= tick.from
           ELSE times # {} => tick.from \in times /\ \A u \in times : tick.from <= u

\* The book in use is the first of all, or not later than any bar ahead.
FromIsEarly(r) ==
    BookTimes(r.ticks) # {} =>
        /\ r.from \in BookTimes(r.ticks)
        /\ \/ \A u \in BookTimes(r.ticks) : r.from <= u
           \/ \A t \in DOMAIN r.ahead : r.from <= t

Running == {"loop", "save"}

IsSound(r) ==
    /\ r.step \in {"idle", "prices", "refresh", "loop", "save"}
    /\ IsSeries(r.ahead)
    /\ r.step \in {"prices", "loop"} => DOMAIN r.ahead # {}
    /\ r.step = "save" => r.ahead = Empty
    /\ r.b \in Nat \ {0}
    /\ \E x \in Int : r.q = r.b * x
    /\ DOMAIN r.path \subseteq Bars
    /\ \A t \in DOMAIN r.path : IsCurrent(r.ticks, t, r.path[t])
    /\ r.step \in Running => r.b \in Liquidities /\ FromIsEarly(r)

LEMMA BarsAreTimes ==
    /\ Bars \subseteq 0..MaxTime /\ Bars \in SUBSET Nat
    /\ MaxTime \in Nat /\ Targets \subseteq 0..Top
BY MarketSeriesAssumption DEF Bars

LEMMA OddsOfShares ==
    ASSUME NEW b \in Nat \ {0}, NEW x \in Int
    PROVE  (b * x) \div b = x
OBVIOUS

LEMMA EmptyIsSeries == IsSeries(Empty) /\ DOMAIN Empty = {}
BY DEF IsSeries, Empty

LEMMA WaitingIsSound ==
    ASSUME NEW step \in {"idle", "prices", "refresh"}, NEW ticks, NEW series,
           IsSeries(series), step = "prices" => DOMAIN series # {}
    PROVE  /\ IsSound(Waiting(step, ticks, series))
           /\ Waiting(step, ticks, series).step = step
           /\ Waiting(step, ticks, series).ahead = series
<1> DEFINE r == Waiting(step, ticks, series)
<1>1. /\ r.step = step /\ r.ticks = ticks /\ r.ahead = series /\ r.q = 0 /\ r.b = 1
      /\ r.path = Empty
  BY RunHasFields DEF Waiting
<1>2. 0 \in Int /\ 0 = 1 * 0 /\ 1 \in Nat \ {0}
  OBVIOUS
<1> HIDE DEF r
<1>3. IsSound(r)
  BY <1>1, <1>2, EmptyIsSeries DEF IsSound, Running
<1> QED
  BY <1>1, <1>3 DEF r

LEMMA NoRunIsSound == IsSound(NoRun) /\ NoRun.step = "idle" /\ NoRun.ahead = Empty
BY WaitingIsSound, EmptyIsSeries DEF NoRun

\* A simulation opens at the price of its anchor.
LEMMA OpenedIsSound ==
    ASSUME NEW ticks, IsBooked(ticks), NEW series, IsSeries(series), DOMAIN series # {}
    PROVE  LET r == Opened(ticks, series)
           IN  /\ IsSound(r) /\ r.step = "loop" /\ r.ahead = series
               /\ AnchorPrice(ticks) \in 0..Top
               /\ r.q = r.b * Logit[AnchorPrice(ticks)]
<1> DEFINE first == FirstOf(DOMAIN series)
           from == OpeningBook(ticks, first)
           r == Opened(ticks, series)
<1>1. /\ r.step = "loop" /\ r.ticks = ticks /\ r.ahead = series
      /\ r.b = Calibrated(ticks, from) /\ r.q = r.b * Logit[AnchorPrice(ticks)]
      /\ r.from = from /\ r.path = Empty
  BY RunHasFields DEF Opened
<1>2. first \in DOMAIN series /\ \A t \in DOMAIN series : first <= t
  BY BarsAreTimes, FirstIsFirst DEF IsSeries
<1>3. from \in BookTimes(ticks) \union {None}
  BY OpeningBookIsEarly
<1>4. r.b \in Liquidities /\ r.b \in Nat \ {0}
  BY <1>1, <1>3, CalibratedInRange, LiquidityIsPositive
<1>5. AnchorPrice(ticks) \in 0..Top /\ Logit[AnchorPrice(ticks)] \in Int
  BY AnchorIsPrice, SimMarketAssumption
<1>6. FromIsEarly(r)
  <2>1. CASE BookTimes(ticks) = {}
    BY <1>1, <2>1 DEF FromIsEarly
  <2>2. CASE BookTimes(ticks) # {} /\ \A u \in BookTimes(ticks) : from <= u
    BY <1>1, <2>2, OpeningBookIsEarly DEF FromIsEarly
  <2>3. CASE BookTimes(ticks) # {} /\ from <= first
    <3>1. from \in BookTimes(ticks) /\ from \in Nat
      BY <2>3, OpeningBookIsEarly, BookTimesAreTimes
    <3>2. DOMAIN series \subseteq Nat
      BY BarsAreTimes DEF IsSeries
    <3> HIDE DEF from, first
    <3>3. \A t \in DOMAIN series : from <= t
      BY <1>2, <2>3, <3>1, <3>2
    <3> QED
      BY <1>1, <3>1, <3>3 DEF FromIsEarly
  <2> QED
    BY <2>1, <2>2, <2>3, OpeningBookIsEarly
<1> HIDE DEF r, from, first
<1>7. IsSound(r)
  BY <1>1, <1>4, <1>5, <1>6, EmptyIsSeries DEF IsSound
<1> QED
  BY <1>1, <1>5, <1>7 DEF r

LEMMA PartIsInt ==
    ASSUME NEW gap \in Int
    PROVE  Part(gap) \in Int
BY SimMarketAssumption DEF Part

\* From r to s the odds go from x a part of the way to the signal at bar t.
TradesAt(r, s, t, x) == s.q = s.b * (x + Part(Logit[r.ahead[t]] - x))

\* At each bar the odds close a part of the gap to the signal, and the bar gets
\* the liquidity of its time.
LEMMA SteppedIsSound ==
    ASSUME NEW r, IsBooked(r.ticks), IsSound(r), r.step = "loop",
           NEW x \in Int, r.q = r.b * x,
           NEW t, t = FirstOf(DOMAIN r.ahead)
    PROVE  /\ IsSound(Stepped(r, t)) /\ Stepped(r, t).step \in Running
           /\ t \in DOMAIN r.ahead /\ \A u \in DOMAIN r.ahead : t <= u
           /\ Stepped(r, t).ahead = [u \in DOMAIN r.ahead \ {t} |-> r.ahead[u]]
           /\ Logit[r.ahead[t]] \in Int
           /\ TradesAt(r, Stepped(r, t), t, x)
<1> DEFINE book == BookAt(r.ticks, t)
           b == IF book = None THEN r.b ELSE Calibrated(r.ticks, book)
           from == IF book = None THEN r.from ELSE book
           held == IF b = r.b THEN r.q ELSE Recalibrate(r.q, r.b, b)
           shares == b * Part(Logit[r.ahead[t]] - (held \div b))
           q == held + shares
           tick == [price |-> q \div b, b |-> b, from |-> from]
           rest == DOMAIN r.ahead \ {t}
           s == Stepped(r, t)
<1>1. /\ s.step = IF rest = {} THEN "save" ELSE "loop"
      /\ s.ticks = r.ticks /\ s.ahead = [u \in rest |-> r.ahead[u]]
      /\ s.q = q /\ s.b = b /\ s.from = from
      /\ s.path = [u \in DOMAIN r.path \union {t} |-> IF u = t THEN tick ELSE r.path[u]]
  <2>1. s = Run(IF rest = {} THEN "save" ELSE "loop", r.ticks,
                [u \in rest |-> r.ahead[u]], q, b, from, r.anchor,
                [u \in DOMAIN r.path \union {t} |-> IF u = t THEN tick ELSE r.path[u]])
    BY DEF Stepped
  <2> HIDE DEF s, q, b, tick, from, rest
  <2> QED
    BY <2>1, RunHasFields
<1>2. tick.b = b /\ tick.from = from
  OBVIOUS
<1>3. DOMAIN r.ahead # {} /\ DOMAIN r.ahead \subseteq Nat /\ DOMAIN r.ahead \subseteq Bars
  BY BarsAreTimes DEF IsSound, IsSeries
<1>4. t \in DOMAIN r.ahead /\ \A u \in DOMAIN r.ahead : t <= u
  BY <1>3, FirstIsFirst
<1>5. r.ahead[t] \in 0..Top /\ Logit[r.ahead[t]] \in Int
  BY <1>4, BarsAreTimes, SimMarketAssumption DEF IsSound, IsSeries
<1>6. r.b \in Nat \ {0} /\ r.b \in Liquidities /\ FromIsEarly(r)
  BY DEF IsSound, Running
<1>7. b \in Liquidities /\ b \in Nat \ {0}
  BY <1>6, BookAtIsLast, CalibratedInRange, LiquidityIsPositive
<1>8. held = b * x
  <2>1. CASE b = r.b
    BY <2>1
  <2>2. CASE b # r.b
    <3>1. held = (r.q * b) \div r.b
      BY <2>2 DEF Recalibrate
    <3>2. r.q * b = r.b * (b * x) /\ b * x \in Int
      <4> HIDE DEF b
      <4> QED
        BY <1>6, <1>7
    <3>3. (r.b * (b * x)) \div r.b = b * x
      BY <1>6, <3>2, OddsOfShares
    <3> QED
      BY <3>1, <3>2, <3>3
  <2> QED
    BY <2>1, <2>2
<1>9. held \div b = x
  BY <1>7, <1>8, OddsOfShares
<1> DEFINE part == Part(Logit[r.ahead[t]] - x)
<1>10. part \in Int
  BY <1>5, PartIsInt
<1>11. q = b * x + b * part
  BY <1>8, <1>9
<1>12. q = b * (x + part) /\ x + part \in Int
  <2> HIDE DEF q, b, part
  <2> QED
    BY <1>7, <1>10, <1>11
<1>13. IsCurrent(r.ticks, t, tick)
  <2>1. CASE book # None
    BY <1>2, <1>7, <2>1, BookAtIsLast DEF IsCurrent
  <2>2. CASE book = None
    <3>1. \A u \in BookTimes(r.ticks) : ~(u <= t)
      BY <2>2, BookAtIsLast
    <3>2. BookTimes(r.ticks) # {} =>
            r.from \in BookTimes(r.ticks) /\ \A u \in BookTimes(r.ticks) : r.from <= u
      BY <1>4, <1>6, <3>1 DEF FromIsEarly
    <3> HIDE DEF b, tick
    <3> QED
      BY <1>2, <1>7, <2>2, <3>1, <3>2 DEF IsCurrent
  <2> QED
    BY <2>1, <2>2
<1>14. FromIsEarly(s)
  <2>1. CASE book = None
    BY <1>1, <1>6, <2>1 DEF FromIsEarly
  <2>2. CASE book # None
    <3>1. book \in BookTimes(r.ticks) /\ book <= t /\ book \in Nat /\ t \in Nat
      BY <1>3, <1>4, <2>2, BookAtIsLast, BookTimesAreTimes
    <3>2. \A u \in rest : book <= u
      <4> HIDE DEF book
      <4> QED
        BY <1>3, <1>4, <3>1
    <3> QED
      BY <1>1, <2>2, <3>1, <3>2 DEF FromIsEarly
  <2> QED
    BY <2>1, <2>2
<1> HIDE DEF s, q, b, tick, from
<1>15. IsSeries(s.ahead)
  BY <1>1 DEF IsSeries, IsSound
<1>16. DOMAIN s.path \subseteq Bars /\ \A u \in DOMAIN s.path : IsCurrent(s.ticks, u, s.path[u])
  BY <1>1, <1>3, <1>4, <1>13 DEF IsSound
<1>17. s.step = "loop" => DOMAIN s.ahead # {}
  BY <1>1
<1>18. s.step = "save" => s.ahead = Empty
  <2>1. CASE rest # {}
    BY <1>1, <2>1
  <2>2. CASE rest = {}
    <3>1. [u \in rest |-> r.ahead[u]] = [u \in {} |-> 0]
      BY <2>2
    <3> QED
      BY <1>1, <3>1 DEF Empty
  <2> QED
    BY <2>1, <2>2
<1>19. IsSound(s)
  BY <1>1, <1>7, <1>12, <1>14, <1>15, <1>16, <1>17, <1>18 DEF IsSound
<1>20. TradesAt(r, s, t, x)
  BY <1>1, <1>12 DEF TradesAt
<1> QED
  BY <1>1, <1>4, <1>5, <1>19, <1>20 DEF s, Running

-----------------------------------------------------------------------------
(* All simulations.                                                        *)

SimInv ==
    /\ signals \in [Bars -> Targets \union {None}]
    /\ \A j \in Jobs : IsSound(run[j])

\* A simulation opens, goes one bar on, or is not one.
Opens(r, s) ==
    /\ r.step \notin Running /\ s.step = "loop"
    /\ \E p \in 0..Top : s.q = s.b * Logit[p]

StepsOn(r, s) ==
    /\ r.step = "loop" /\ s.step \in Running
    /\ \E t \in DOMAIN r.ahead :
          /\ \A u \in DOMAIN r.ahead : t <= u
          /\ s.ahead = [u \in DOMAIN r.ahead \ {t} |-> r.ahead[u]]
          /\ \A x \in Int : r.q = r.b * x => TradesAt(r, s, t, x)

MovesTo(r, s) == IsSound(s) /\ (Opens(r, s) \/ StepsOn(r, s) \/ s.step \notin Running)

JobsMove == run' = run \/ \E j \in Jobs : \E s : MovesTo(run[j], s) /\ run' = [run EXCEPT ![j] = s]

\* The bars that have a signal.
LEMMA SignalsAreSeries ==
    ASSUME SimInv
    PROVE  IsSeries([t \in {u \in Bars : signals[u] # None} |-> signals[t]])
BY DEF SimInv, IsSeries

\* The bars that a command computes.
LEMMA ChosenSeries ==
    ASSUME NEW bars, bars \subseteq Bars, bars # {}, NEW series \in [bars -> Targets]
    PROVE  IsSeries(series) /\ DOMAIN series # {}
<1>1. DOMAIN series = bars /\ \A t \in bars : series[t] \in Targets
  OBVIOUS
<1> QED
  BY <1>1 DEF IsSeries

LEMMA OpenedMoves ==
    ASSUME NEW r, r.step \notin Running,
           NEW ticks, IsBooked(ticks), NEW series, IsSeries(series), DOMAIN series # {}
    PROVE  MovesTo(r, Opened(ticks, series))
<1> DEFINE s == Opened(ticks, series)
<1>1. /\ IsSound(s) /\ s.step = "loop"
      /\ AnchorPrice(ticks) \in 0..Top /\ s.q = s.b * Logit[AnchorPrice(ticks)]
  BY OpenedIsSound
<1> HIDE DEF s
<1>2. MovesTo(r, s)
  BY <1>1 DEF MovesTo, Opens
<1> QED
  BY <1>2 DEF s

LEMMA SteppedMoves ==
    ASSUME NEW r, IsBooked(r.ticks), IsSound(r), r.step = "loop"
    PROVE  MovesTo(r, Stepped(r, FirstOf(DOMAIN r.ahead)))
<1> DEFINE t == FirstOf(DOMAIN r.ahead)
           s == Stepped(r, t)
<1>1. PICK x0 \in Int : r.q = r.b * x0
  BY DEF IsSound
<1>2. /\ IsSound(s) /\ s.step \in Running
      /\ t \in DOMAIN r.ahead /\ \A u \in DOMAIN r.ahead : t <= u
      /\ s.ahead = [u \in DOMAIN r.ahead \ {t} |-> r.ahead[u]]
      /\ TradesAt(r, s, t, x0)
  BY <1>1, SteppedIsSound
<1> HIDE DEF s, t
<1>3. ASSUME NEW x \in Int, r.q = r.b * x
      PROVE  TradesAt(r, s, t, x)
  <2>1. x = (r.b * x) \div r.b /\ x0 = (r.b * x0) \div r.b
    BY OddsOfShares DEF IsSound
  <2> QED
    BY <1>1, <1>2, <1>3, <2>1
<1>4. StepsOn(r, s)
  BY <1>2, <1>3 DEF StepsOn
<1>5. MovesTo(r, s)
  BY <1>2, <1>4 DEF MovesTo
<1> QED
  BY <1>5 DEF s, t

LEMMA JobsOnlyMove ==
    ASSUME MarketInv, SimInv, [ScoresNext]_allVars
    PROVE  JobsMove
<1>1. ASSUME NEW j \in Jobs,
             \/ LoadSignals(j) \/ LoadPrices(j)
             \/ RefreshStore(j) \/ RefreshSignals(j)
             \/ SimStep(j) \/ SimSave(j) \/ SimDies(j)
      PROVE  JobsMove
  <2>1. IsSound(run[j]) /\ IsBooked(run[j].ticks) /\ IsBooked(prices)
    BY TablesAreBooked DEF SimInv, MarketInv
  <2>2. MovesTo(run[j], NoRun)
    BY NoRunIsSound DEF MovesTo, Running
  <2>3. CASE LoadSignals(j)
    <3> DEFINE bars == {t \in Bars : signals[t] # None}
               s == Waiting("prices", NoTicks, [t \in bars |-> signals[t]])
    <3>1. bars # {} /\ run' = [run EXCEPT ![j] = s]
      BY <2>3 DEF LoadSignals
    <3>2. IsSound(s) /\ s.step = "prices"
      BY <3>1, SignalsAreSeries, WaitingIsSound
    <3> HIDE DEF s
    <3> QED
      BY <3>1, <3>2 DEF JobsMove, MovesTo, Running
  <2>4. CASE LoadPrices(j)
    <3>1. run' = [run EXCEPT ![j] = Opened(prices, run[j].ahead)] /\ run[j].step = "prices"
      BY <2>4 DEF LoadPrices
    <3>2. MovesTo(run[j], Opened(prices, run[j].ahead))
      BY <2>1, <3>1, OpenedMoves DEF IsSound, Running
    <3> QED
      BY <3>1, <3>2 DEF JobsMove
  <2>5. CASE RefreshStore(j)
    <3> DEFINE s == Waiting("refresh", poll[j].ticks, Empty)
    <3>1. run' = [run EXCEPT ![j] = s]
      BY <2>5 DEF RefreshStore
    <3>2. IsSound(s) /\ s.step = "refresh"
      BY EmptyIsSeries, WaitingIsSound
    <3> HIDE DEF s
    <3> QED
      BY <3>1, <3>2 DEF JobsMove, MovesTo, Running
  <2>6. CASE RefreshSignals(j)
    <3>1. run[j].step = "refresh"
      BY <2>6 DEF RefreshSignals
    <3>2. PICK bars \in (SUBSET {t \in Bars : t <= now}) \ {{}} :
            \E series \in [bars -> Targets] :
               run' = [run EXCEPT ![j] = Opened(run[j].ticks, series)]
      BY <2>6 DEF RefreshSignals
    <3>3. PICK series \in [bars -> Targets] :
            run' = [run EXCEPT ![j] = Opened(run[j].ticks, series)]
      BY <3>2
    <3>4. IsSeries(series) /\ DOMAIN series # {}
      <4>1. bars \in SUBSET {t \in Bars : t <= now} /\ bars \notin {{}}
        OBVIOUS
      <4>2. bars \subseteq Bars /\ bars # {}
        BY <4>1
      <4> QED
        BY <3>3, <4>2, ChosenSeries
    <3>5. MovesTo(run[j], Opened(run[j].ticks, series))
      BY <2>1, <3>1, <3>4, OpenedMoves DEF Running
    <3> QED
      BY <3>3, <3>5 DEF JobsMove
  <2>7. CASE SimStep(j)
    <3>1. /\ run[j].step = "loop"
          /\ run' = [run EXCEPT ![j] = Stepped(run[j], FirstOf(DOMAIN run[j].ahead))]
      BY <2>7 DEF SimStep
    <3>2. MovesTo(run[j], Stepped(run[j], FirstOf(DOMAIN run[j].ahead)))
      BY <2>1, <3>1, SteppedMoves
    <3> QED
      BY <3>1, <3>2 DEF JobsMove
  <2>8. CASE SimSave(j) \/ SimDies(j)
    BY <2>2, <2>8 DEF JobsMove, SimSave, SimDies
  <2> QED
    BY <1>1, <2>3, <2>4, <2>5, <2>6, <2>7, <2>8
<1>2. ASSUME NEW j \in Jobs, Slice(j) \/ SlicePrints(j) \/ SliceStores(j) \/ SliceSignals(j)
      PROVE  JobsMove
  <2>1. CASE Slice(j)
    <3>1. PICK bars \in (SUBSET {t \in Bars : t <= now}) \ {{}} :
            \E series \in [bars -> Targets] :
               run' = [run EXCEPT ![j] = Opened(poll[j].ticks, series)]
      BY <2>1 DEF Slice
    <3>2. PICK series \in [bars -> Targets] :
            run' = [run EXCEPT ![j] = Opened(poll[j].ticks, series)]
      BY <3>1
    <3>3. IsSeries(series) /\ DOMAIN series # {}
      <4>1. bars \in SUBSET {t \in Bars : t <= now} /\ bars \notin {{}}
        OBVIOUS
      <4>2. bars \subseteq Bars /\ bars # {}
        BY <4>1
      <4> QED
        BY <3>2, <4>2, ChosenSeries
    <3>4. j \in Pollers /\ run[j] = NoRun
      BY <2>1, MarketScoresAssumption DEF Slice
    <3>5. IsBooked(poll[j].ticks) /\ run[j].step \notin Running
      BY <3>4, TablesAreBooked, NoRunIsSound DEF MarketInv, Running
    <3>6. MovesTo(run[j], Opened(poll[j].ticks, series))
      BY <3>3, <3>5, OpenedMoves
    <3> QED
      BY <3>2, <3>6 DEF JobsMove
  <2>2. CASE SlicePrints(j)
    <3>1. MovesTo(run[j], NoRun)
      BY NoRunIsSound DEF MovesTo, Running
    <3> QED
      BY <2>2, <3>1 DEF JobsMove, SlicePrints
  <2>3. CASE SliceStores(j) \/ SliceSignals(j)
    BY <2>3 DEF JobsMove, SliceStores, SliceSignals, simVars
  <2> QED
    BY <1>2, <2>1, <2>2, <2>3
<1>3. CASE UNCHANGED simVars \/ UNCHANGED vars
  BY <1>3 DEF JobsMove, vars, simVars
<1> QED
  BY <1>1, <1>2, <1>3, StepsAreThese

\* What a slice has found, it found of its own series.
IsReport(r) ==
    /\ r \in [series : {r.series}, stored : {r.stored}, pairs : {r.pairs}, lags : {r.lags}]
    /\ IsSeries(r.series)
    /\ DOMAIN r.pairs \subseteq DOMAIN r.series
    /\ r.lags = Lags(r.pairs)

ReportsInv ==
    /\ DOMAIN report = Jobs
    /\ \A j \in Jobs : report[j] = None \/ IsReport(report[j])

LEMMA ReportIsReport ==
    ASSUME NEW series, IsSeries(series), NEW ticks
    PROVE  IsReport(Report(series, SlicePairs(series, ticks)))
<1> DEFINE pairs == SlicePairs(series, ticks)
           r == Report(series, pairs)
<1>1. DOMAIN pairs \subseteq DOMAIN series
  BY DEF SlicePairs
<1>2. r = [series |-> series, stored |-> FALSE, pairs |-> pairs, lags |-> Lags(pairs)]
  BY DEF Report
<1> HIDE DEF pairs, r
<1>3. r.series = series /\ r.stored = FALSE /\ r.pairs = pairs /\ r.lags = Lags(pairs)
  BY <1>2
<1>4. IsReport(r)
  BY <1>1, <1>2, <1>3 DEF IsReport
<1> QED
  BY <1>4 DEF r, pairs

LEMMA StoringKeepsReport ==
    ASSUME NEW r, IsReport(r)
    PROVE  IsReport([r EXCEPT !.stored = TRUE])
<1> DEFINE s == [r EXCEPT !.stored = TRUE]
<1>1. s \in [series : {r.series}, stored : {TRUE}, pairs : {r.pairs}, lags : {r.lags}]
  BY DEF IsReport
<1> HIDE DEF s
<1>2. s.series = r.series /\ s.stored = TRUE /\ s.pairs = r.pairs /\ s.lags = r.lags
  BY <1>1
<1>3. IsReport(s)
  BY <1>1, <1>2 DEF IsReport
<1> QED
  BY <1>3 DEF s

LEMMA ReportsInvNext ==
    ASSUME ReportsInv, [ScoresNext]_allVars
    PROVE  ReportsInv'
<1>1. CASE Elsewhere
  BY <1>1 DEF Elsewhere, ReportsInv
<1>2. ASSUME NEW j \in Jobs, Slice(j)
      PROVE  ReportsInv'
  <2>1. PICK bars \in (SUBSET {t \in Bars : t <= now}) \ {{}} :
          \E series \in [bars -> Targets] :
             report' = [report EXCEPT ![j] = Report(series, SlicePairs(series, poll[j].ticks))]
    BY <1>2 DEF Slice
  <2>2. PICK series \in [bars -> Targets] :
          report' = [report EXCEPT ![j] = Report(series, SlicePairs(series, poll[j].ticks))]
    BY <2>1
  <2>3. bars \in SUBSET {t \in Bars : t <= now} /\ bars \notin {{}}
    OBVIOUS
  <2>4. IsSeries(series)
    BY <2>2, <2>3, ChosenSeries
  <2>5. IsReport(Report(series, SlicePairs(series, poll[j].ticks)))
    BY <2>4, ReportIsReport
  <2> QED
    BY <2>2, <2>5 DEF ReportsInv
<1>3. ASSUME NEW j \in Jobs, SlicePrints(j) \/ SliceSignals(j)
      PROVE  ReportsInv'
  BY <1>3 DEF SlicePrints, SliceSignals, ReportsInv
<1>4. ASSUME NEW j \in Jobs, SliceStores(j)
      PROVE  ReportsInv'
  <2>1. report[j] # None /\ report' = [report EXCEPT ![j] = [report[j] EXCEPT !.stored = TRUE]]
    BY <1>4 DEF SliceStores
  <2>2. IsReport([report[j] EXCEPT !.stored = TRUE])
    BY <2>1, StoringKeepsReport DEF ReportsInv
  <2> QED
    BY <2>1, <2>2 DEF ReportsInv
<1>5. ASSUME \/ Resolves \/ UNCHANGED allVars
             \/ \E w \in Watchers :
                   FreezeReads(w) \/ FreezeScores(w) \/ FreezeRecords(w) \/ WatcherDies(w)
      PROVE  ReportsInv'
  <2>1. report' = report
    BY <1>5
    DEF Resolves, FreezeReads, FreezeScores, FreezeRecords, WatcherDies, allVars, scoreVars
  <2> QED
    BY <2>1 DEF ReportsInv
<1> QED
  BY <1>1, <1>2, <1>3, <1>4, <1>5 DEF ScoresNext

LEMMA SignalsStaySeries ==
    ASSUME SimInv, ReportsInv, [ScoresNext]_allVars
    PROVE  signals' \in [Bars -> Targets \union {None}]
<1> USE DEF SimInv
<1>1. ASSUME NEW t \in Bars, SignalWritten(t)
      PROVE  signals' \in [Bars -> Targets \union {None}]
  BY <1>1 DEF SignalWritten
<1>2. ASSUME NEW j \in Jobs, RefreshSignals(j)
      PROVE  signals' \in [Bars -> Targets \union {None}]
  <2>1. PICK bars \in (SUBSET {t \in Bars : t <= now}) \ {{}} :
          \E series \in [bars -> Targets] :
             signals' = [t \in Bars |-> IF t \in bars THEN series[t] ELSE signals[t]]
    BY <1>2 DEF RefreshSignals
  <2>2. PICK series \in [bars -> Targets] :
          signals' = [t \in Bars |-> IF t \in bars THEN series[t] ELSE signals[t]]
    BY <2>1
  <2> QED
    BY <2>2
<1>3. ASSUME NEW j \in Jobs, SliceSignals(j)
      PROVE  signals' \in [Bars -> Targets \union {None}]
  <2>1. IsSeries(report[j].series)
    BY <1>3 DEF SliceSignals, ReportsInv, IsReport
  <2> QED
    BY <1>3, <2>1 DEF SliceSignals, IsSeries
<1>4. ASSUME \/ Tick \/ \E w \in Pollers :
                            PollHistory(w) \/ PollBook(w) \/ PollStore(w) \/ PollDies(w)
             \/ \E j \in Jobs :
                   \/ LoadSignals(j) \/ LoadPrices(j) \/ RefreshStore(j)
                   \/ SimStep(j) \/ SimSave(j) \/ SimDies(j)
                   \/ Slice(j) \/ SlicePrints(j) \/ SliceStores(j)
             \/ UNCHANGED vars
      PROVE  signals' \in [Bars -> Targets \union {None}]
  <2>1. signals' = signals
    BY <1>4
    DEF Tick, PollHistory, PollBook, PollStore, PollDies, LoadSignals, LoadPrices,
        RefreshStore, SimStep, SimSave, SimDies, Slice, SlicePrints, SliceStores,
        vars, marketVars
  <2> QED
    BY <2>1
<1> QED
  BY <1>1, <1>2, <1>3, <1>4, StepsAreThese

LEMMA SimInvNext ==
    ASSUME MarketInv, SimInv, ReportsInv, [ScoresNext]_allVars
    PROVE  SimInv'
<1>1. JobsMove
  BY JobsOnlyMove
<1>2. \A j \in Jobs : IsSound(run'[j])
  BY <1>1 DEF JobsMove, MovesTo, SimInv, MarketInv
<1> QED
  BY <1>2, SignalsStaySeries DEF SimInv

\* The market, its simulations and its reports, together.
AllInv == MarketInv /\ SimInv /\ ReportsInv

LEMMA AllInvAlways == ScoresSpec => []AllInv
<1>1. ScoresInit => SimInv /\ ReportsInv
  BY NoRunIsSound DEF ScoresInit, Init, MarketInit, SimInv, ReportsInv
<1>2. AllInv /\ [ScoresNext]_allVars => AllInv'
  BY MarketInvNext, SimInvNext, ReportsInvNext DEF AllInv
<1> QED
  BY <1>1, <1>2, MarketInvInit, PTL DEF ScoresSpec, AllInv

\* Whatever books a job loaded, and whenever, each bar it simulates has the
\* liquidity of the last of them at or before the bar.
THEOREM BarsHaveTheirLiquidity == ScoresSpec => []LiquidityIsCurrent
<1>1. AllInv => LiquidityIsCurrent
  BY DEF AllInv, SimInv, IsSound, IsCurrent, LiquidityIsCurrent
<1> QED
  BY <1>1, AllInvAlways, PTL

-----------------------------------------------------------------------------
(* The simulation is the tracker: liquidity plays no role.                 *)

AheadOf(r) == [t \in (IF r.step \in Running THEN DOMAIN r.ahead ELSE {}) |-> Logit[r.ahead[t]]]

PriceOf(r) == IF r.step \in Running THEN r.q \div r.b ELSE 0

Odds == {Logit[p] : p \in 0..Top}

LEMMA StoppedHasNothing ==
    ASSUME NEW r, r.step \notin Running
    PROVE  AheadOf(r) = Tracker!Nothing /\ PriceOf(r) = 0
BY DEF AheadOf, PriceOf, Tracker!Nothing

LEMMA OpeningHasSeries ==
    ASSUME NEW r, NEW s, IsSound(s), Opens(r, s)
    PROVE  /\ AheadOf(r) = Tracker!Nothing /\ AheadOf(s) # Tracker!Nothing
           /\ DOMAIN AheadOf(s) \subseteq Bars
           /\ \A t \in DOMAIN AheadOf(s) : AheadOf(s)[t] \in Odds
           /\ PriceOf(s) \in Odds
<1>1. r.step \notin Running /\ s.step = "loop" /\ s.step \in Running
  BY DEF Opens, Running
<1>2. /\ DOMAIN s.ahead # {} /\ DOMAIN s.ahead \subseteq Bars
      /\ \A t \in DOMAIN s.ahead : s.ahead[t] \in 0..Top
  BY <1>1, BarsAreTimes DEF IsSound, IsSeries
<1>3. /\ DOMAIN AheadOf(s) = DOMAIN s.ahead
      /\ \A t \in DOMAIN s.ahead : AheadOf(s)[t] = Logit[s.ahead[t]]
  BY <1>1 DEF AheadOf
<1>4. PICK p \in 0..Top : s.q = s.b * Logit[p]
  BY DEF Opens
<1>5. Logit[p] \in Int /\ s.b \in Nat \ {0}
  BY SimMarketAssumption DEF IsSound
<1>6. PriceOf(s) = Logit[p]
  BY <1>1, <1>4, <1>5, OddsOfShares DEF PriceOf
<1>7. DOMAIN Tracker!Nothing = {}
  BY DEF Tracker!Nothing
<1> QED
  BY <1>1, <1>2, <1>3, <1>6, <1>7, StoppedHasNothing DEF Odds

\* One trade of the tracker, at bar t.
Tracks(r, s, t) ==
    /\ t \in DOMAIN AheadOf(r)
    /\ \A u \in DOMAIN AheadOf(r) : t <= u
    /\ AheadOf(s) = [u \in DOMAIN AheadOf(r) \ {t} |-> AheadOf(r)[u]]
    /\ PriceOf(s) = PriceOf(r) + Part(AheadOf(r)[t] - PriceOf(r))

LEMMA SteppingTrades ==
    ASSUME NEW r, NEW s, IsSound(r), IsSound(s), StepsOn(r, s)
    PROVE  \E t : Tracks(r, s, t)
<1>1. r.step \in Running /\ s.step \in Running
  BY DEF StepsOn, Running
<1>2. PICK t \in DOMAIN r.ahead :
        /\ \A u \in DOMAIN r.ahead : t <= u
        /\ s.ahead = [u \in DOMAIN r.ahead \ {t} |-> r.ahead[u]]
        /\ \A x \in Int : r.q = r.b * x => TradesAt(r, s, t, x)
  BY DEF StepsOn
<1>3. /\ DOMAIN AheadOf(r) = DOMAIN r.ahead
      /\ \A u \in DOMAIN r.ahead : AheadOf(r)[u] = Logit[r.ahead[u]]
  BY <1>1 DEF AheadOf
<1>4. AheadOf(s) = [u \in DOMAIN AheadOf(r) \ {t} |-> AheadOf(r)[u]]
  BY <1>1, <1>2, <1>3 DEF AheadOf
<1>5. PICK x \in Int : r.q = r.b * x
  BY DEF IsSound
<1>6. PriceOf(r) = x
  BY <1>1, <1>5, OddsOfShares DEF PriceOf, IsSound
<1> DEFINE part == Part(Logit[r.ahead[t]] - x)
<1>7. part \in Int
  <2>1. Logit[r.ahead[t]] \in Int
    BY BarsAreTimes, SimMarketAssumption DEF IsSound, IsSeries
  <2> QED
    BY <2>1, PartIsInt
<1>8. s.q = s.b * (x + part)
  BY <1>2, <1>5 DEF TradesAt
<1> HIDE DEF part
<1>9. PriceOf(s) = x + part
  BY <1>1, <1>7, <1>8, OddsOfShares DEF PriceOf, IsSound
<1> QED
  BY <1>2, <1>3, <1>4, <1>6, <1>9 DEF part, Tracks

\* The tracker's variables.
TrackedAhead == [j \in Jobs |->
    [t \in (IF Trading(j) THEN DOMAIN run[j].ahead ELSE {}) |-> Logit[run[j].ahead[t]]]]
TrackedPrice == [j \in Jobs |-> IF Trading(j) THEN run[j].q \div run[j].b ELSE 0]

LEMMA TrackedAre ==
    /\ TrackedAhead = [j \in Jobs |-> AheadOf(run[j])]
    /\ TrackedPrice = [j \in Jobs |-> PriceOf(run[j])]
BY DEF TrackedAhead, TrackedPrice, Trading, Running, AheadOf, PriceOf

LEMMA TrackedAreNext ==
    /\ TrackedAhead' = [j \in Jobs |-> AheadOf(run'[j])]
    /\ TrackedPrice' = [j \in Jobs |-> PriceOf(run'[j])]
BY DEF TrackedAhead, TrackedPrice, Trading, Running, AheadOf, PriceOf

LEMMA TrackerInit ==
    ASSUME ScoresInit
    PROVE  Tracker!Init
<1>1. \A j \in Jobs : run[j].step \notin Running
  BY NoRunIsSound DEF ScoresInit, Init, Running
<1>2. /\ TrackedAhead = [j \in Jobs |-> Tracker!Nothing]
      /\ TrackedPrice = [j \in Jobs |-> 0]
  BY <1>1, TrackedAre, StoppedHasNothing
<1> QED
  BY <1>2 DEF Tracker!Init, TrackedAhead, TrackedPrice

LEMMA TrackerNext ==
    ASSUME AllInv, [ScoresNext]_allVars
    PROVE  (TrackedAhead' = TrackedAhead /\ TrackedPrice' = TrackedPrice) \/ Tracker!Next
<1>1. JobsMove /\ DOMAIN run = Jobs /\ \A j \in Jobs : IsSound(run[j])
  BY JobsOnlyMove DEF AllInv, MarketInv, SimInv
<1>2. CASE run' = run
  BY <1>2, TrackedAre, TrackedAreNext
<1>3. CASE run' # run
  <2>1. PICK j, s :
          j \in Jobs /\ MovesTo(run[j], s) /\ run' = [run EXCEPT ![j] = s]
    BY <1>1, <1>3 DEF JobsMove
  <2> DEFINE r == run[j]
  <2>2. /\ j \in Jobs /\ IsSound(r) /\ IsSound(s)
        /\ run'[j] = s /\ \A i \in Jobs \ {j} : run'[i] = run[i]
    BY <1>1, <2>1 DEF MovesTo
  <2>3. /\ TrackedAhead' = [TrackedAhead EXCEPT ![j] = AheadOf(s)]
        /\ TrackedPrice' = [TrackedPrice EXCEPT ![j] = PriceOf(s)]
        /\ TrackedAhead[j] = AheadOf(r) /\ TrackedPrice[j] = PriceOf(r)
        /\ TrackedAhead'[j] = AheadOf(s) /\ TrackedPrice'[j] = PriceOf(s)
    BY <2>2, TrackedAre, TrackedAreNext
  <2>4. CASE Opens(r, s)
    <3>1. /\ TrackedAhead[j] = Tracker!Nothing /\ TrackedAhead'[j] # Tracker!Nothing
          /\ TrackedAhead' = [TrackedAhead EXCEPT ![j] = TrackedAhead'[j]]
          /\ DOMAIN TrackedAhead'[j] \subseteq Bars
          /\ \A t \in DOMAIN TrackedAhead'[j] : TrackedAhead'[j][t] \in Odds
          /\ TrackedPrice' = [TrackedPrice EXCEPT ![j] = TrackedPrice'[j]]
          /\ TrackedPrice'[j] \in Odds
      BY <2>2, <2>3, <2>4, OpeningHasSeries
    <3>2. Tracker!Open(j)
      BY <3>1 DEF Tracker!Open, TrackedAhead, TrackedPrice, Odds
    <3> QED
      BY <2>2, <3>2 DEF Tracker!Next
  <2>5. CASE StepsOn(r, s)
    <3>0. PICK t : Tracks(r, s, t)
      BY <2>2, <2>5, SteppingTrades
    <3>1. /\ t \in DOMAIN TrackedAhead[j] /\ \A u \in DOMAIN TrackedAhead[j] : t <= u
          /\ TrackedAhead' = [TrackedAhead EXCEPT ![j] =
                [u \in DOMAIN TrackedAhead[j] \ {t} |-> TrackedAhead[j][u]]]
          /\ TrackedPrice' = [TrackedPrice EXCEPT ![j] =
                TrackedPrice[j] + Part(TrackedAhead[j][t] - TrackedPrice[j])]
      BY <2>3, <3>0 DEF Tracks
    <3>2. Tracker!Trade(j)
      BY <3>1 DEF Tracker!Trade, Tracker!Part, Part, TrackedAhead, TrackedPrice
    <3> QED
      BY <2>2, <3>2 DEF Tracker!Next
  <2>6. CASE s.step \notin Running
    <3>1. /\ TrackedAhead' = [TrackedAhead EXCEPT ![j] = Tracker!Nothing]
          /\ TrackedPrice' = [TrackedPrice EXCEPT ![j] = 0]
      BY <2>3, <2>6, StoppedHasNothing
    <3>2. Tracker!Close(j)
      BY <3>1 DEF Tracker!Close, TrackedAhead, TrackedPrice
    <3> QED
      BY <2>2, <3>2 DEF Tracker!Next
  <2> QED
    BY <2>1, <2>4, <2>5, <2>6 DEF MovesTo
<1> QED
  BY <1>2, <1>3

\* However liquidity is calibrated, and whatever books arrive, the simulation
\* is the tracker: its price depends on the signal and on where it opened.
THEOREM SimulationsTrackSignals == ScoresSpec => ImplementsTracker
<1>1. ScoresInit => Tracker!Init
  BY TrackerInit
<1>2. AllInv /\ [ScoresNext]_allVars
        => [Tracker!Next]_<<TrackedAhead, TrackedPrice>>
  BY TrackerNext
<1> QED
  BY <1>1, <1>2, AllInvAlways, PTL
  DEF ScoresSpec, ImplementsTracker, Tracker!Spec, TrackedAhead, TrackedPrice
-----------------------------------------------------------------------------
(* The simulated price never passes the signal.                            *)

Between(x, a, z) == (a <= x /\ x <= z) \/ (z <= x /\ x <= a)

\* What is less is divided into less.
LEMMA DivisionIsMonotone ==
    ASSUME NEW d \in Nat \ {0}, NEW x \in Int, NEW y \in Int, x <= d * y
    PROVE  x \div d <= y
<1>1. d * (x \div d) <= x /\ x \div d \in Int
  OBVIOUS
<1> DEFINE k == x \div d
<1> HIDE DEF k
<1>2. d * k <= d * y /\ k \in Int
  BY <1>1 DEF k
<1>3. ~(k >= y + 1)
  <2> SUFFICES ASSUME k >= y + 1 PROVE FALSE
    OBVIOUS
  <2>1. d * k >= d * (y + 1) /\ d * (y + 1) = d * y + d
    BY <1>2
  <2> QED
    BY <1>2, <2>1
<1> QED
  BY <1>2, <1>3 DEF k

LEMMA DivisionIsMonotoneAbove ==
    ASSUME NEW d \in Nat \ {0}, NEW x \in Int, NEW y \in Int, d * y <= x
    PROVE  y <= x \div d
<1> DEFINE k == x \div d
<1>1. x < d * k + d /\ k \in Int
  OBVIOUS
<1> HIDE DEF k
<1>2. ~(k + 1 <= y)
  <2> SUFFICES ASSUME k + 1 <= y PROVE FALSE
    OBVIOUS
  <2>1. d * (k + 1) <= d * y /\ d * (k + 1) = d * k + d
    BY <1>1
  <2> QED
    BY <1>1, <2>1
<1> QED
  BY <1>1, <1>2 DEF k

\* A trade closes some of the gap and not more than the gap.
LEMMA PartIsBetween ==
    ASSUME NEW gap \in Int
    PROVE  Part(gap) \in Int /\ Between(Part(gap), 0, gap)
<1>1. RespNum \in Nat \ {0} /\ RespDen \in Nat \ {0} /\ RespNum <= RespDen
  BY SimMarketAssumption
<1>2. CASE gap >= 0
  <2>1. RespDen * 0 <= gap * RespNum /\ gap * RespNum <= RespDen * gap
    BY <1>1, <1>2
  <2>2. 0 <= Part(gap) /\ Part(gap) <= gap
    BY <1>1, <2>1, DivisionIsMonotone, DivisionIsMonotoneAbove DEF Part
  <2> QED
    BY <2>2, PartIsInt DEF Between
<1>3. CASE gap <= 0
  <2>1. gap * RespNum <= RespDen * 0 /\ RespDen * gap <= gap * RespNum
    BY <1>1, <1>3
  <2>2. Part(gap) <= 0 /\ gap <= Part(gap)
    BY <1>1, <2>1, DivisionIsMonotone, DivisionIsMonotoneAbove DEF Part
  <2> QED
    BY <2>2, PartIsInt DEF Between
<1> QED
  BY <1>2, <1>3

\* From r to s the price goes towards the signal at the first bar ahead.
Nears(r, s) ==
    \E t \in DOMAIN r.ahead :
        /\ \A u \in DOMAIN r.ahead : t <= u
        /\ Between(s.q \div s.b, r.q \div r.b, Logit[r.ahead[t]])

\* A trade moves the price towards the signal of its bar and never past it
\* (lmsr.step_from_signal: "responsiveness in (0, 1] is the fraction of the
\* logit-space gap closed in one step").
NeverOvershoots ==
    [][\A j \in Jobs :
          run[j].step = "loop" /\ run'[j] # run[j] /\ run'[j].step \in Running
          => Nears(run[j], run'[j])]_allVars

\* The price of a running simulation is a price that the clamped log-odds have.
PricesStayInOdds ==
    \A j \in Jobs : Trading(j) => run[j].q \div run[j].b \in Logit[0]..Logit[Top]

LEMMA SteppingNears ==
    ASSUME NEW r, NEW s, IsSound(r), IsSound(s), StepsOn(r, s)
    PROVE  Nears(r, s)
<1>1. r.step \in Running /\ s.step \in Running
  BY DEF StepsOn, Running
<1>2. PICK t : Tracks(r, s, t)
  BY SteppingTrades
<1>3. /\ DOMAIN AheadOf(r) = DOMAIN r.ahead
      /\ \A u \in DOMAIN r.ahead : AheadOf(r)[u] = Logit[r.ahead[u]]
  BY <1>1 DEF AheadOf
<1>4. t \in DOMAIN r.ahead /\ \A u \in DOMAIN r.ahead : t <= u
  BY <1>2, <1>3 DEF Tracks
<1>5. PICK x \in Int : r.q = r.b * x
  BY DEF IsSound
<1>6. r.q \div r.b = x
  BY <1>5, OddsOfShares DEF IsSound
<1>7. PICK aim \in Int : aim = Logit[r.ahead[t]]
  BY <1>4, BarsAreTimes, SimMarketAssumption DEF IsSound, IsSeries
<1>8. s.q \div s.b = x + Part(aim - x)
  BY <1>1, <1>2, <1>3, <1>4, <1>6, <1>7 DEF Tracks, PriceOf
<1>9. PICK part \in Int : part = Part(aim - x) /\ Between(part, 0, aim - x)
  BY PartIsBetween
<1>10. Between(x + part, x, aim)
  BY <1>9 DEF Between
<1> QED
  BY <1>4, <1>6, <1>7, <1>8, <1>9, <1>10 DEF Nears

\* Whatever books arrive, no trade passes the signal that it follows.
THEOREM TradesNearTheSignal == ScoresSpec => NeverOvershoots
<1>1. ASSUME AllInv, [ScoresNext]_allVars, NEW j \in Jobs,
             run[j].step = "loop", run'[j] # run[j], run'[j].step \in Running
      PROVE  Nears(run[j], run'[j])
  <2>1. JobsMove /\ DOMAIN run = Jobs /\ IsSound(run[j])
    BY <1>1, JobsOnlyMove DEF AllInv, MarketInv, SimInv
  <2>2. PICK i, s : i \in Jobs /\ MovesTo(run[i], s) /\ run' = [run EXCEPT ![i] = s]
    BY <1>1, <2>1 DEF JobsMove
  <2>3. i = j /\ run'[j] = s
    BY <1>1, <2>1, <2>2
  <2>4. IsSound(s) /\ StepsOn(run[j], s)
    BY <1>1, <2>2, <2>3 DEF MovesTo, Opens, Running
  <2> QED
    BY <2>1, <2>3, <2>4, SteppingNears
<1>2. AllInv /\ [ScoresNext]_allVars =>
        [\A j \in Jobs :
            run[j].step = "loop" /\ run'[j] # run[j] /\ run'[j].step \in Running
            => Nears(run[j], run'[j])]_allVars
  BY <1>1
<1> QED
  BY <1>2, AllInvAlways, PTL DEF ScoresSpec, NeverOvershoots

InOdds(r) == r.step \in Running => r.q \div r.b \in Logit[0]..Logit[Top]

LEMMA OddsAreOrdered ==
    ASSUME NEW p \in 0..Top
    PROVE  Logit[p] \in Logit[0]..Logit[Top] /\ Logit[0] \in Int /\ Logit[Top] \in Int
<1>1. 0 \in 0..Top /\ Top \in 0..Top
  BY MarketSeriesAssumption
<1>2. \A i \in 0..Top : Logit[i] \in Int
  BY SimMarketAssumption
<1>3. p = 0 \/ 0 < p
  OBVIOUS
<1>4. p = Top \/ p < Top
  BY MarketSeriesAssumption
<1>5. Logit[0] <= Logit[p] /\ Logit[p] <= Logit[Top]
  BY <1>1, <1>2, <1>3, <1>4, SimMarketAssumption
<1> QED
  BY <1>1, <1>2, <1>5

LEMMA MovingStaysInOdds ==
    ASSUME NEW r, NEW s, IsSound(r), InOdds(r), MovesTo(r, s)
    PROVE  InOdds(s)
<1>1. CASE Opens(r, s)
  <2>1. PICK p \in 0..Top : s.q = s.b * Logit[p]
    BY <1>1 DEF Opens
  <2>2. s.q \div s.b = Logit[p]
    BY <2>1, OddsOfShares, SimMarketAssumption DEF MovesTo, IsSound
  <2> QED
    BY <2>2, OddsAreOrdered DEF InOdds
<1>2. CASE StepsOn(r, s)
  <2>1. r.q \div r.b \in Logit[0]..Logit[Top]
    BY <1>2 DEF StepsOn, InOdds, Running
  <2>2. PICK t \in DOMAIN r.ahead : Between(s.q \div s.b, r.q \div r.b, Logit[r.ahead[t]])
    BY <1>2, SteppingNears DEF MovesTo, Nears
  <2>3. r.ahead[t] \in 0..Top
    BY BarsAreTimes DEF IsSound, IsSeries
  <2>4. Logit[r.ahead[t]] \in Logit[0]..Logit[Top]
    BY <2>3, OddsAreOrdered
  <2>5. PICK y \in Int : s.q = s.b * y
    BY DEF MovesTo, IsSound
  <2>6. s.q \div s.b = y
    BY <2>5, OddsOfShares DEF MovesTo, IsSound
  <2>7. PICK lo \in Int, hi \in Int : lo = Logit[0] /\ hi = Logit[Top]
    BY <2>3, OddsAreOrdered
  <2>8. y \in lo..hi
    BY <2>1, <2>2, <2>4, <2>6, <2>7 DEF Between
  <2> QED
    BY <2>6, <2>7, <2>8 DEF InOdds
<1>3. CASE s.step \notin Running
  BY <1>3 DEF InOdds
<1> QED
  BY <1>1, <1>2, <1>3 DEF MovesTo

\* So a simulated price is between the log-odds of 0 and of 1, which are finite:
\* no series, book or liquidity takes it to a certainty.
THEOREM SimulatedPricesAreOdds == ScoresSpec => []PricesStayInOdds
<1> DEFINE Inv == \A j \in Jobs : InOdds(run[j])
<1>1. ScoresInit => Inv
  BY NoRunIsSound DEF ScoresInit, Init, InOdds, Running
<1>2. ASSUME AllInv, Inv, [ScoresNext]_allVars
      PROVE  Inv'
  <2>1. JobsMove /\ DOMAIN run = Jobs /\ \A j \in Jobs : IsSound(run[j])
    BY <1>2, JobsOnlyMove DEF AllInv, MarketInv, SimInv
  <2>2. \A j \in Jobs : InOdds(run'[j])
    BY <1>2, <2>1, MovingStaysInOdds DEF JobsMove
  <2> QED
    BY <2>2
<1>3. Inv => PricesStayInOdds
  BY DEF InOdds, PricesStayInOdds, Trading, Running
<1> QED
  BY <1>1, <1>2, <1>3, AllInvAlways, PTL DEF ScoresSpec

-----------------------------------------------------------------------------
(* Positions among bars.                                                   *)

LEMMA HourIsPositive == HourLen \in Nat \ {0}
BY MarketSeriesAssumption

LEMMA BarIsMultiple ==
    ASSUME NEW t \in Bars
    PROVE  t \div HourLen \in Nat /\ t = HourLen * (t \div HourLen) /\ t \in Nat
<1>1. t \in Nat /\ t % HourLen = 0
  BY BarsAreTimes DEF Bars
<1> QED
  BY <1>1, HourIsPositive

LEMMA MultiplesAreOrdered ==
    ASSUME NEW h \in Nat \ {0}, NEW a \in Int, NEW b \in Int
    PROVE  /\ h * a < h * b => a < b
           /\ h * a <= h * b => a <= b
           /\ a <= b => h * a <= h * b
OBVIOUS

\* The bars after t up to u are as many as the positions between them, and no
\* more than the hours.
LEMMA PositionsSpread ==
    ASSUME NEW bars \in SUBSET Bars, NEW t \in bars, NEW u \in bars, t <= u
    PROVE  /\ Position(t, bars) \in Nat /\ Position(u, bars) \in Nat
           /\ Position(t, bars) <= Position(u, bars)
           /\ t < u => Position(t, bars) < Position(u, bars)
           /\ (Position(u, bars) - Position(t, bars)) * HourLen <= u - t
<1> DEFINE A == {v \in bars : v <= t}
           B == {v \in bars : v <= u}
           D == B \ A
           H == HourLen
           C == (t \div H + 1)..(u \div H)
           f == [v \in D |-> v \div H]
<1>1. bars \subseteq Nat /\ IsFiniteSet(bars)
  <2>1. bars \in SUBSET (0..MaxTime) /\ MaxTime \in Nat /\ bars \subseteq Nat
    BY BarsAreTimes
  <2>2. IsFiniteSet(0..MaxTime)
    BY <2>1, FS_Interval
  <2> QED
    BY <2>1, <2>2, FS_Subset
<1>2. A \subseteq B /\ B \subseteq bars
  <2>1. \A v \in bars : v \in Nat
    BY <1>1
  <2>2. \A v \in bars : v <= t => v <= u
    BY <2>1
  <2> QED
    BY <2>2
<1>3. IsFiniteSet(A) /\ IsFiniteSet(B) /\ IsFiniteSet(D)
  BY <1>1, <1>2, FS_Subset
<1>4. Cardinality(A) \in Nat /\ Cardinality(B) \in Nat /\ Cardinality(D) \in Nat
  BY <1>3, FS_CardinalityType
<1>5. Cardinality(D) = Cardinality(B) - Cardinality(A)
  <2>1. B \intersect A = A
    BY <1>2
  <2> HIDE DEF A, B
  <2> QED
    BY <1>3, <2>1, FS_Difference
<1>6. t < u => Cardinality(D) # 0
  <2>1. t < u => u \in D
    BY <1>1
  <2> HIDE DEF D
  <2> QED
    BY <1>3, <2>1, FS_EmptySet
<1>7. /\ t \div H \in Nat /\ t = H * (t \div H)
      /\ u \div H \in Nat /\ u = H * (u \div H)
  BY BarIsMultiple
<1>8. ASSUME NEW v \in D
      PROVE  f[v] \in C /\ v = H * f[v]
  <2>1. v \div H \in Nat /\ v = H * (v \div H) /\ t < v /\ v <= u
    BY <1>1, BarIsMultiple
  <2>2. t \div H < v \div H /\ v \div H <= u \div H
    <3>1. H * (t \div H) < H * (v \div H) /\ H * (v \div H) <= H * (u \div H)
      BY <1>7, <2>1
    <3> QED
      BY <1>7, <2>1, <3>1, MultiplesAreOrdered, HourIsPositive
  <2> QED
    BY <1>7, <2>1, <2>2
<1>9. Cardinality(D) <= u \div H - t \div H
  <2>1. t \div H <= u \div H
    <3>1. H * (t \div H) <= H * (u \div H)
      BY <1>7
    <3> QED
      BY <1>7, <3>1, MultiplesAreOrdered, HourIsPositive
  <2>2. IsFiniteSet(C) /\ Cardinality(C) = u \div H - t \div H
    <3>1. t \div H + 1 \in Int /\ u \div H \in Int
      BY <1>7
    <3>2. /\ IsFiniteSet(C)
          /\ Cardinality(C) = IF t \div H + 1 > u \div H THEN 0 ELSE u \div H - (t \div H + 1) + 1
      BY <3>1, FS_Interval
    <3> HIDE DEF C
    <3> QED
      BY <1>7, <2>1, <3>2
  <2>3. f \in Injection(D, C)
    <3>1. f \in [D -> C]
      BY <1>8
    <3>2. \A v, w \in D : f[v] = f[w] => v = w
      BY <1>8
    <3> HIDE DEF f
    <3> QED
      BY <3>1, <3>2 DEF Injection, IsInjective
  <2> HIDE DEF f, C, D
  <2> QED
    BY <2>2, <2>3, FS_Injection
<1> HIDE DEF D
<1>10. Cardinality(D) * H <= u - t
  <2>1. H * Cardinality(D) <= H * (u \div H - t \div H)
    BY <1>4, <1>7, <1>9, MultiplesAreOrdered, HourIsPositive
  <2>2. H * (u \div H - t \div H) = u - t
    BY <1>7, HourIsPositive
  <2> QED
    BY <1>4, <2>1, <2>2, HourIsPositive
<1>11. Position(t, bars) = Cardinality(A) /\ Position(u, bars) = Cardinality(B)
  BY DEF Position
<1> HIDE DEF A, B
<1> QED
  BY <1>4, <1>5, <1>6, <1>10, <1>11


\* A lag counts bars, and an hour without a price is no bar: at lag k the price
\* is of a bar at least k hours after the signal's, and at lag -k the signal of
\* one as much after the price's (leadlag.cross_correlation: "positive lag means
\* signal leads price").
LagsPointForward ==
    \A r \in Reports : \A lag \in DOMAIN r.lags : \A pair \in r.lags[lag] :
        /\ lag >= 0 => pair[2] - pair[1] >= lag * HourLen
        /\ lag <= 0 => pair[1] - pair[2] >= -lag * HourLen

\* It holds of the bars of a slice, whichever hours are among them.
LEMMA LaggedPointsForward ==
    ASSUME NEW bars \in SUBSET Bars, NEW lag \in Int, NEW pair \in Lagged(bars, lag)
    PROVE  /\ lag >= 0 => pair[2] - pair[1] >= lag * HourLen
           /\ lag <= 0 => pair[1] - pair[2] >= -lag * HourLen
<1>1. PICK t \in bars, u \in bars : pair = <<t, u>>
  BY DEF Lagged
<1>2. pair[1] = t /\ pair[2] = u
  BY <1>1
<1>3. Position(u, bars) - Position(t, bars) = lag
  BY <1>2 DEF Lagged
<1>4. t \in Nat /\ u \in Nat /\ HourLen \in Nat
  BY BarIsMultiple, HourIsPositive
<1> DEFINE p == Position(t, bars)
           q == Position(u, bars)
<1>5. CASE t <= u
  <2>1. p \in Nat /\ q \in Nat /\ p <= q /\ (t < u => p < q) /\ (q - p) * HourLen <= u - t
    BY <1>5, PositionsSpread
  <2> HIDE DEF p, q
  <2>2. lag * HourLen <= u - t /\ lag >= 0 /\ (lag = 0 => t = u)
    BY <1>3, <1>4, <1>5, <2>1 DEF p, q
  <2>3. CASE lag = 0
    BY <1>2, <1>4, <2>2, <2>3
  <2>4. CASE lag > 0
    BY <1>2, <1>4, <2>2, <2>4
  <2> QED
    BY <2>2, <2>3, <2>4
<1>6. CASE u < t
  <2>1. u <= t
    BY <1>4, <1>6
  <2>2. p \in Nat /\ q \in Nat /\ q < p /\ (p - q) * HourLen <= t - u
    BY <1>6, <2>1, PositionsSpread
  <2> HIDE DEF p, q
  <2>3. p - q = -lag /\ lag < 0
    BY <1>3, <2>2 DEF p, q
  <2>4. -lag * HourLen <= t - u
    <3>1. (0 - lag) * HourLen <= t - u
      <4>1. p - q = 0 - lag
        BY <2>3
      <4> QED
        BY <2>2, <4>1
    <3> QED
      BY <1>4, <3>1
  <2> QED
    BY <1>2, <1>4, <2>3, <2>4
<1> QED
  BY <1>4, <1>5, <1>6

\* A positive lag pairs a signal with a later price, a negative one with an
\* earlier price, and by at least as many hours.
THEOREM LagsAreHours == ScoresSpec => []LagsPointForward
<1>1. ASSUME AllInv
      PROVE  LagsPointForward
  <2> SUFFICES ASSUME NEW j \in Jobs, report[j] # None,
                      NEW lag \in DOMAIN report[j].lags, NEW pair \in report[j].lags[lag]
               PROVE  /\ lag >= 0 => pair[2] - pair[1] >= lag * HourLen
                      /\ lag <= 0 => pair[1] - pair[2] >= -lag * HourLen
    BY DEF LagsPointForward, Reports
  <2> DEFINE pairs == report[j].pairs
             bars == DOMAIN pairs
             widest == IF MaxLag < Cardinality(bars) \div LagShare THEN MaxLag
                       ELSE Cardinality(bars) \div LagShare
  <2>1. report[j].lags = Lags(pairs) /\ bars \in SUBSET Bars
    BY <1>1 DEF AllInv, ReportsInv, IsReport, IsSeries
  <2>2. Verdict(pairs) \notin {"few", "flat"}
    BY <2>1 DEF Lags
  <2>3. lag \in (-widest)..widest /\ pair \in Lagged(bars, lag)
    BY <2>1, <2>2 DEF Lags
  <2>4. lag \in Int
    BY <2>3
  <2> QED
    BY <2>1, <2>3, <2>4, LaggedPointsForward
<1> QED
  BY <1>1, AllInvAlways, PTL

-----------------------------------------------------------------------------
(* The price of an hour.                                                   *)

LEMMA LatestIsIn ==
    ASSUME NEW keys \in SUBSET Keys, keys # {}
    PROVE  Latest(keys) \in keys
<1> DEFINE T == {k.at : k \in keys}
           IsLatest(k) == \A l \in keys :
               l = k \/ l.at < k.at \/ (l.at = k.at /\ l.source = "candle")
<1>1. \A k \in keys : /\ k.at \in 0..MaxTime /\ k.source \in {"candle", "book"}
                      /\ k = [at |-> k.at, source |-> k.source]
  BY DEF Keys
<1>2. T \in SUBSET (0..MaxTime) /\ T # {} /\ MaxTime \in Nat
  BY <1>1, BarsAreTimes
<1>3. PICK m \in T : \A t \in T : t <= m
  BY <1>2, GreatestExists
<1>4. \A l \in keys : l.at \in Nat /\ l.at <= m
  BY <1>1, <1>3
<1>5. CASE \E k \in keys : k.at = m /\ k.source = "book"
  <2>1. PICK k \in keys : k.at = m /\ k.source = "book"
    BY <1>5
  <2>2. ASSUME NEW l \in keys
        PROVE  l = k \/ l.at < k.at \/ (l.at = k.at /\ l.source = "candle")
    <3>1. CASE l.at = m /\ l.source = "book"
      <4>1. l = [at |-> m, source |-> "book"] /\ k = [at |-> m, source |-> "book"]
        BY <1>1, <2>1, <3>1
      <4> QED
        BY <4>1
    <3>2. CASE l.at = m /\ l.source = "candle"
      BY <2>1, <3>2
    <3>3. CASE l.at # m
      BY <1>2, <1>4, <2>1, <3>3
    <3> QED
      BY <1>1, <3>1, <3>2, <3>3
  <2> QED
    BY <2>2 DEF Latest
<1>6. CASE ~ \E k \in keys : k.at = m /\ k.source = "book"
  <2>1. PICK k \in keys : k.at = m
    BY <1>3
  <2>2. ASSUME NEW l \in keys
        PROVE  l = k \/ l.at < k.at \/ (l.at = k.at /\ l.source = "candle")
    <3>1. CASE l.at = m
      BY <1>1, <1>6, <2>1, <3>1
    <3>2. CASE l.at # m
      BY <1>2, <1>4, <2>1, <3>2
    <3> QED
      BY <3>1, <3>2
  <2> QED
    BY <2>2 DEF Latest
<1> QED
  BY <1>5, <1>6

\* A book shows a price: the last trade, or the middle of its best levels.
Shows(x, b) ==
    \/ x = b.last
    \/ \E bid \in b.bids, ask \in b.asks :
          /\ \A l \in b.bids : l.price <= bid.price
          /\ \A l \in b.asks : ask.price <= l.price
          /\ 2 * x = bid.price + ask.price

LEMMA MidIsShown ==
    ASSUME NEW row, NEW b \in Books, NEW source, Tells(row, b, source),
           row.bid # None, row.ask # None
    PROVE  Shows((row.bid + row.ask) \div 2, b)
<1>1. /\ b.bids \in SUBSET Levels /\ b.asks \in SUBSET Levels
  BY BooksAreBooks
<1>2. PICK bid \in b.bids : bid.price = row.bid /\ \A l \in b.bids : l.price <= row.bid
  BY DEF Tells
<1>3. PICK ask \in b.asks : ask.price = row.ask /\ \A l \in b.asks : row.ask <= l.price
  BY DEF Tells
<1>4. /\ row.bid \in Nat /\ row.bid % 2 = 0
      /\ row.ask \in Nat /\ row.ask % 2 = 0
  <2>1. bid \in Levels /\ ask \in Levels
    BY <1>1
  <2> QED
    BY <1>2, <1>3, <2>1 DEF Levels
<1>5. 2 * ((row.bid + row.ask) \div 2) = row.bid + row.ask
  BY <1>4
<1> QED
  BY <1>2, <1>3, <1>5 DEF Shows

LEMMA RowShows ==
    ASSUME NEW row, IsRow(row), NEW b \in Books, NEW source, Tells(row, b, source)
    PROVE  /\ TickMid(row) = None \/ Shows(TickMid(row), b)
           /\ Reference(row) = None \/ Shows(Reference(row), b)
           /\ Reference(row) # None => TickMid(row) # None
<1>1. row.price = None \/ row.price = b.last \/ row.price = Mid(row.bid, row.ask)
  BY DEF Tells
<1>2. b.last = b.last => Shows(b.last, b)
  BY DEF Shows
<1>3. CASE row.bid # None /\ row.ask # None
  <2>1. Shows((row.bid + row.ask) \div 2, b) /\ Mid(row.bid, row.ask) = (row.bid + row.ask) \div 2
    BY <1>3, MidIsShown DEF Mid
  <2>2. (row.bid + row.ask) \div 2 # None
    BY <1>3, NoneIsNoNumber DEF IsRow, MaybePrice
  <2> HIDE DEF Shows
  <2> QED
    BY <1>1, <1>2, <1>3, <2>1, <2>2 DEF TickMid, Reference
<1>4. CASE row.bid = None \/ row.ask = None
  <2>1. Mid(row.bid, row.ask) = None /\ TickMid(row) = row.price
    BY <1>4 DEF Mid, TickMid
  <2> QED
    BY <1>1, <1>2, <2>1 DEF Reference
<1> QED
  BY <1>3, <1>4

\* Each pair has a price that the venue showed in the hour of its bar.
OfHour(pairs, book, today) ==
    \A t \in DOMAIN pairs :
        \E u \in t..today : Hour(u) = t /\ Shows(pairs[t].ref, book[u])

\* A row's hour begins at or before it.
LEMMA HourIsBefore ==
    ASSUME NEW at \in Nat
    PROVE  Hour(at) \in Nat /\ Hour(at) <= at
<1>1. at % HourLen \in 0..(HourLen - 1) /\ at % HourLen <= at
  BY HourIsPositive
<1> QED
  BY <1>1, HourIsPositive DEF Hour

\* The row that an hour's price is taken from.
LEMMA RowOfHour ==
    ASSUME IsVenue, NEW table, IsTable(table, shown, now), NEW k \in DOMAIN table
    PROVE  /\ k.at \in Hour(k.at)..now
           /\ TickMid(table[k]) = None \/ Shows(TickMid(table[k]), shown[k.at])
           /\ Reference(table[k]) = None \/ Shows(Reference(table[k]), shown[k.at])
           /\ Reference(table[k]) # None => TickMid(table[k]) # None
<1>1. /\ k.at \in Nat /\ k.at <= now /\ now \in Nat
      /\ IsRow(table[k]) /\ Tells(table[k], shown[k.at], k.source)
  BY BarsAreTimes DEF IsTable, Keys, IsVenue
<1>2. shown[k.at] \in Books
  BY <1>1 DEF IsVenue
<1>3. k.at \in Hour(k.at)..now
  BY <1>1, HourIsBefore
<1> HIDE DEF Shows
<1> QED
  BY <1>1, <1>2, <1>3, RowShows

LEMMA InHourIsIn ==
    ASSUME NEW table, DOMAIN table \subseteq Keys, NEW t
    PROVE  /\ InHour(table, t) \in SUBSET Keys
           /\ \A k \in InHour(table, t) : k \in DOMAIN table /\ Hour(k.at) = t
BY DEF InHour

LEMMA PairHasFields ==
    ASSUME NEW p, NEW ref
    PROVE  Pair(p, ref).p = p /\ Pair(p, ref).ref = ref
BY DEF Pair

LEMMA SlicePairsAreOfHour ==
    ASSUME IsVenue, NEW series, NEW ticks, IsTable(ticks, shown, now)
    PROVE  OfHour(SlicePairs(series, ticks), shown, now)
<1> DEFINE priced(t) == {k \in InHour(ticks, t) : TickMid(ticks[k]) # None}
           pairs == SlicePairs(series, ticks)
<1>1. DOMAIN pairs = {u \in DOMAIN series : priced(u) # {}}
  BY DEF SlicePairs
<1>2. ASSUME NEW t \in DOMAIN pairs
      PROVE  \E u \in t..now : Hour(u) = t /\ Shows(pairs[t].ref, shown[u])
  <2> DEFINE k == Latest(priced(t))
  <2>1. priced(t) # {} /\ priced(t) \in SUBSET Keys
    BY <1>1, InHourIsIn DEF IsTable
  <2>2. k \in priced(t)
    BY <2>1, LatestIsIn
  <2>3. k \in DOMAIN ticks /\ Hour(k.at) = t /\ TickMid(ticks[k]) # None
    BY <2>2, InHourIsIn DEF IsTable
  <2>4. pairs[t].ref = TickMid(ticks[k])
    <3>1. pairs[t] = Pair(series[t], TickMid(ticks[k]))
      BY <1>2 DEF SlicePairs
    <3> HIDE DEF pairs, k
    <3> QED
      BY <3>1, PairHasFields
  <2> HIDE DEF pairs, k, Shows
  <2> QED
    BY <2>3, <2>4, RowOfHour
<1> QED
  BY <1>2 DEF OfHour

LEMMA FrozenPairsAreOfHour ==
    ASSUME IsVenue, NEW series, NEW table, IsTable(table, shown, now)
    PROVE  /\ OfHour(FrozenPairs(series, table), shown, now)
           /\ DOMAIN FrozenPairs(series, table) \subseteq DOMAIN SlicePairs(series, table)
<1> DEFINE last(t) == Latest(InHour(table, t))
           ref(t) == Reference(table[last(t)])
           pairs == FrozenPairs(series, table)
<1>1. DOMAIN pairs = {u \in DOMAIN series : InHour(table, u) # {} /\ ref(u) # None}
  BY DEF FrozenPairs
<1>2. ASSUME NEW t \in DOMAIN pairs
      PROVE  /\ t \in DOMAIN SlicePairs(series, table)
             /\ \E u \in t..now : Hour(u) = t /\ Shows(pairs[t].ref, shown[u])
  <2> DEFINE k == last(t)
  <2>1. InHour(table, t) # {} /\ InHour(table, t) \in SUBSET Keys /\ t \in DOMAIN series
    BY <1>1, InHourIsIn DEF IsTable
  <2>2. k \in InHour(table, t)
    BY <2>1, LatestIsIn
  <2>3. k \in DOMAIN table /\ Hour(k.at) = t
    BY <2>2, InHourIsIn DEF IsTable
  <2>4. pairs[t].ref = Reference(table[k]) /\ Reference(table[k]) # None
    <3>1. pairs[t] = Pair(series[t], Reference(table[k])) /\ Reference(table[k]) # None
      BY <1>2 DEF FrozenPairs
    <3> HIDE DEF pairs, k
    <3> QED
      BY <3>1, PairHasFields
  <2>5. t \in DOMAIN SlicePairs(series, table)
    <3>1. k \in {l \in InHour(table, t) : TickMid(table[l]) # None}
      BY <2>2, <2>3, <2>4, RowOfHour
    <3> QED
      BY <2>1, <3>1 DEF SlicePairs
  <2> HIDE DEF pairs, k, Shows
  <2> QED
    BY <2>3, <2>4, <2>5, RowOfHour
<1> QED
  BY <1>2 DEF OfHour

\* What is reported and what is scored has the prices of its hours.
PairsInv ==
    /\ \A j \in Jobs : report[j] # None => OfHour(report[j].pairs, shown, now)
    /\ DOMAIN freeze = Watchers
    /\ \A w \in Watchers :
          freeze[w].score # None => OfHour(freeze[w].score.pairs, shown, now)

LEMMA FreezingHasFields ==
    ASSUME NEW step, NEW series, NEW score
    PROVE  /\ Freezing(step, series, score).step = step
           /\ Freezing(step, series, score).series = series
           /\ Freezing(step, series, score).score = score
BY DEF Freezing

LEMMA NoFreezeIsIdle == NoFreeze.step = "idle" /\ NoFreeze.score = None
BY FreezingHasFields DEF NoFreeze

LEMMA ScoreHasPairs ==
    ASSUME NEW pairs, NEW outcome
    PROVE  Score(pairs, outcome).pairs = pairs /\ Score(pairs, outcome).outcome = outcome
BY DEF Score

\* Time passes over what was paired.
LEMMA OfHourStays ==
    ASSUME MarketInv, [ScoresNext]_allVars, NEW pairs, OfHour(pairs, shown, now)
    PROVE  OfHour(pairs, shown', now')
<1>1. CASE UNCHANGED <<now, shown>>
  BY <1>1
<1>2. CASE Tick
  <2>1. PICK b \in Books : shown' = [shown EXCEPT ![now + 1] = b]
    BY <1>2 DEF Tick
  <2>2. /\ now \in Nat /\ now' = now + 1 /\ now + 1 \in 0..MaxTime
        /\ DOMAIN shown = 0..MaxTime
    BY <1>2, BarsAreTimes DEF Tick, MarketInv, IsVenue
  <2>3. ASSUME NEW t \in DOMAIN pairs
        PROVE  \E u \in t..now' : Hour(u) = t /\ Shows(pairs[t].ref, shown'[u])
    <3>1. PICK u \in t..now : Hour(u) = t /\ Shows(pairs[t].ref, shown[u])
      BY DEF OfHour
    <3>2. shown'[u] = shown[u] /\ u \in t..now'
      <4>1. u \in Int /\ u <= now /\ u # now + 1
        BY <2>2
      <4>2. u \in t..(now + 1)
        BY <2>2, <4>1
      <4>3. shown'[u] = shown[u]
        BY <2>1, <2>2, <4>1
      <4> QED
        BY <2>2, <4>2, <4>3
    <3> HIDE DEF Shows
    <3> QED
      BY <3>1, <3>2
  <2> QED
    BY <2>3 DEF OfHour
<1>3. Tick \/ UNCHANGED <<now, shown>>
  BY StepsAreThese
  DEF SignalWritten, PollHistory, PollBook, PollStore, PollDies, LoadSignals, LoadPrices,
      RefreshStore, RefreshSignals, SimStep, SimSave, SimDies, Slice, SlicePrints,
      SliceStores, SliceSignals, vars, marketVars
<1> QED
  BY <1>1, <1>2, <1>3

\* What happens to a report.
LEMMA ReportsAreOfHour ==
    ASSUME AllInv, PairsInv, [ScoresNext]_allVars, NEW i \in Jobs, report'[i] # None
    PROVE  OfHour(report'[i].pairs, shown', now')
<1> HIDE DEF OfHour
<1>1. DOMAIN report = Jobs /\ MarketInv
  BY DEF AllInv, ReportsInv
<1>2. ASSUME report[i] # None, report'[i].pairs = report[i].pairs
      PROVE  OfHour(report'[i].pairs, shown', now')
  BY <1>1, <1>2, OfHourStays DEF PairsInv
<1>3. CASE Elsewhere
  <2>1. report'[i] = IF run'[i] = NoRun THEN None ELSE report[i]
    BY <1>3 DEF Elsewhere
  <2> QED
    BY <1>2, <2>1
<1>4. ASSUME NEW j \in Jobs, Slice(j)
      PROVE  OfHour(report'[i].pairs, shown', now')
  <2>1. PICK bars \in (SUBSET {t \in Bars : t <= now}) \ {{}} :
          \E series \in [bars -> Targets] :
             report' = [report EXCEPT ![j] = Report(series, SlicePairs(series, poll[j].ticks))]
    BY <1>4 DEF Slice
  <2>2. PICK series \in [bars -> Targets] :
          report' = [report EXCEPT ![j] = Report(series, SlicePairs(series, poll[j].ticks))]
    BY <2>1
  <2>3. CASE i # j
    BY <1>1, <1>2, <2>2, <2>3
  <2>4. CASE i = j
    <3>1. j \in Pollers /\ UNCHANGED <<now, shown>>
      BY <1>4, MarketScoresAssumption DEF Slice
    <3>2. IsVenue /\ IsTable(poll[j].ticks, shown, now)
      BY <1>1, <3>1 DEF MarketInv
    <3>3. OfHour(SlicePairs(series, poll[j].ticks), shown, now)
      BY <3>2, SlicePairsAreOfHour
    <3>4. report'[i].pairs = SlicePairs(series, poll[j].ticks)
      BY <1>1, <2>2, <2>4 DEF Report
    <3> QED
      BY <3>1, <3>3, <3>4
  <2> QED
    BY <2>3, <2>4
<1>5. ASSUME NEW j \in Jobs, SlicePrints(j) \/ SliceSignals(j)
      PROVE  OfHour(report'[i].pairs, shown', now')
  <2>1. report' = [report EXCEPT ![j] = None]
    BY <1>5 DEF SlicePrints, SliceSignals
  <2> QED
    BY <1>1, <1>2, <2>1
<1>6. ASSUME NEW j \in Jobs, SliceStores(j)
      PROVE  OfHour(report'[i].pairs, shown', now')
  <2>1. report[j] # None /\ report' = [report EXCEPT ![j] = [report[j] EXCEPT !.stored = TRUE]]
    BY <1>6 DEF SliceStores
  <2>2. CASE i # j
    BY <1>1, <1>2, <2>1, <2>2
  <2>3. CASE i = j
    <3>1. report'[i].pairs = report[i].pairs
      BY <1>1, <2>1, <2>3 DEF AllInv, ReportsInv, IsReport
    <3> QED
      BY <1>2, <2>1, <2>3, <3>1
  <2> QED
    BY <2>2, <2>3
<1>7. CASE report' = report
  BY <1>2, <1>7
<1>8. ASSUME \/ Resolves \/ UNCHANGED allVars
             \/ \E w \in Watchers :
                   FreezeReads(w) \/ FreezeScores(w) \/ FreezeRecords(w) \/ WatcherDies(w)
      PROVE  report' = report
  BY <1>8
  DEF Resolves, FreezeReads, FreezeScores, FreezeRecords, WatcherDies, allVars, scoreVars
<1> QED
  BY <1>3, <1>4, <1>5, <1>6, <1>7, <1>8 DEF ScoresNext

\* What happens to a score: a watcher makes it of the rows there are.
LEMMA OnlyFreezersFreeze ==
    ASSUME PairsInv, [ScoresNext]_allVars, NEW w \in Watchers
    PROVE  \/ freeze'[w] = freeze[w]
           \/ freeze'[w].score = None /\ freeze'[w].step \in {"idle", "prices"}
           \/ /\ freeze[w].step = "prices"
              /\ freeze'[w].step = "record"
              /\ freeze'[w].score = Score(FrozenPairs(freeze[w].series, prices), result)
              /\ FrozenPairs(freeze[w].series, prices) # Empty
              /\ UNCHANGED <<vars, result>>
<1>1. DOMAIN freeze = Watchers
  BY DEF PairsInv
<1>2. ASSUME NEW v \in Watchers, FreezeScores(v)
      PROVE  \/ freeze'[w] = freeze[w]
             \/ freeze'[w] = NoFreeze
             \/ /\ freeze[w].step = "prices"
                /\ freeze'[w] = Freezing("record", freeze[w].series,
                        Score(FrozenPairs(freeze[w].series, prices), result))
                /\ FrozenPairs(freeze[w].series, prices) # Empty
                /\ UNCHANGED <<vars, result>>
  BY <1>1, <1>2 DEF FreezeScores
<1>3. ASSUME NEW v \in Watchers, FreezeReads(v)
      PROVE  \/ freeze'[w] = freeze[w]
             \/ \E series : freeze'[w] = Freezing("prices", series, None)
  BY <1>1, <1>3 DEF FreezeReads
<1>4. ASSUME NEW v \in Watchers, FreezeRecords(v) \/ WatcherDies(v)
      PROVE  freeze'[w] = freeze[w] \/ freeze'[w] = NoFreeze
  BY <1>1, <1>4 DEF FreezeRecords, WatcherDies
<1>5. ASSUME \/ Elsewhere \/ Resolves \/ UNCHANGED allVars
             \/ \E j \in Jobs : Slice(j) \/ SlicePrints(j) \/ SliceStores(j) \/ SliceSignals(j)
      PROVE  freeze' = freeze
  BY <1>5
  DEF Elsewhere, Resolves, Slice, SlicePrints, SliceStores, SliceSignals, allVars, scoreVars
<1> QED
  BY <1>2, <1>3, <1>4, <1>5, FreezingHasFields, NoFreezeIsIdle DEF ScoresNext

LEMMA PairsInvAlways == ScoresSpec => []PairsInv
<1>1. ScoresInit => PairsInv
  BY NoFreezeIsIdle DEF ScoresInit, PairsInv
<1>2. ASSUME AllInv, PairsInv, [ScoresNext]_allVars
      PROVE  PairsInv'
  <2>1. \A i \in Jobs : report'[i] # None => OfHour(report'[i].pairs, shown', now')
    BY <1>2, ReportsAreOfHour
  <2>2. DOMAIN freeze' = Watchers
    BY <1>2
    DEF PairsInv, ScoresNext, Elsewhere, Resolves, Slice, SlicePrints, SliceStores,
        SliceSignals, FreezeReads, FreezeScores, FreezeRecords, WatcherDies, allVars, scoreVars
  <2>3. ASSUME NEW w \in Watchers, freeze'[w].score # None
        PROVE  OfHour(freeze'[w].score.pairs, shown', now')
    <3>1. CASE freeze'[w] = freeze[w]
      BY <1>2, <2>3, <3>1, OfHourStays DEF AllInv, PairsInv
    <3>2. CASE /\ freeze'[w].score = Score(FrozenPairs(freeze[w].series, prices), result)
               /\ UNCHANGED <<vars, result>>
      <4>1. IsVenue /\ IsTable(prices, shown, now) /\ UNCHANGED <<now, shown>>
        BY <1>2, <3>2 DEF AllInv, MarketInv, vars, marketVars
      <4> HIDE DEF OfHour
      <4> QED
        BY <3>2, <4>1, FrozenPairsAreOfHour, ScoreHasPairs
    <3> QED
      BY <1>2, <2>3, <3>1, <3>2, OnlyFreezersFreeze
  <2> QED
    BY <2>1, <2>2, <2>3 DEF PairsInv
<1> QED
  BY <1>1, <1>2, AllInvAlways, PTL DEF ScoresSpec

\* Signal and price are paired within the hour, in reports and in scores.
THEOREM PairsAreOfTheHour == ScoresSpec => []PricesAreOfTheHour
<1>1. ASSUME PairsInv
      PROVE  PricesAreOfTheHour
  <2> SUFFICES ASSUME NEW r \in Scores \union Reports, NEW t \in DOMAIN r.pairs
               PROVE  \E u \in {v \in t..now : Hour(v) = t} : Shows(r.pairs[t].ref, shown[u])
    BY DEF PricesAreOfTheHour, Shows
  <2>1. OfHour(r.pairs, shown, now)
    BY <1>1 DEF PairsInv, Scores, Reports
  <2> QED
    BY <2>1 DEF OfHour
<1> QED
  BY <1>1, PairsInvAlways, PTL

\* The bars that a watcher scores are among those that a slice would.
THEOREM ScoresAreWithinSlices == ScoresSpec => FrozenWithinSlice
<1>1. ASSUME AllInv, PairsInv, [ScoresNext]_allVars,
             NEW w \in Watchers, freeze[w].step = "prices", freeze'[w].step = "record"
      PROVE  DOMAIN freeze'[w].score.pairs \subseteq
                DOMAIN SlicePairs(freeze[w].series, prices)
  <2>1. freeze'[w].score = Score(FrozenPairs(freeze[w].series, prices), result)
    BY <1>1, OnlyFreezersFreeze
  <2>2. IsVenue /\ IsTable(prices, shown, now)
    BY <1>1 DEF AllInv, MarketInv
  <2> QED
    BY <2>1, <2>2, FrozenPairsAreOfHour, ScoreHasPairs
<1>2. AllInv /\ PairsInv /\ [ScoresNext]_allVars =>
        [\A w \in Watchers : freeze[w].step = "prices" /\ freeze'[w].step = "record" =>
            DOMAIN freeze'[w].score.pairs \subseteq
                DOMAIN SlicePairs(freeze[w].series, prices)]_allVars
  BY <1>1
<1> QED
  BY <1>2, AllInvAlways, PairsInvAlways, PTL DEF ScoresSpec, FrozenWithinSlice

-----------------------------------------------------------------------------
(* Types.                                                                  *)

\* What the types add to the other invariants.
TypeInv ==
    /\ now \in Start..MaxTime
    /\ \A t \in 0..MaxTime : t > now => shown[t] = None
    /\ \A w \in Pollers : poll[w].step \in {"idle", "book", "store"}
    /\ sim \in BOOLEAN
    /\ result \in {0, 1, None}
    /\ \A j \in Jobs : report[j] # None => run[j].step \in Running
    /\ \A w \in Watchers :
          /\ freeze[w].step \in {"idle", "prices", "record"}
          /\ freeze[w].step # "idle" => result # None
          /\ freeze[w].score # None =>
                /\ freeze[w].step = "record"
                /\ freeze[w].score.n > 0 /\ freeze[w].score.outcome = result

LEMMA TypeInvInit == ScoresInit => TypeInv
<1> SUFFICES ASSUME ScoresInit PROVE TypeInv
  OBVIOUS
<1>1. PICK b \in Books : shown = [t \in 0..MaxTime |-> IF t <= Start THEN b ELSE None]
  BY DEF ScoresInit, Init, MarketInit
<1>2. now = Start /\ Start \in Nat /\ MaxTime \in Nat /\ Start <= MaxTime
  BY MarketSeriesAssumption DEF ScoresInit, Init, MarketInit
<1>3. \A t \in 0..MaxTime : t > now => shown[t] = None
  BY <1>1, <1>2
<1>4. \A w \in Pollers : poll[w].step = "idle"
  BY PollingHasFields DEF ScoresInit, Init, MarketInit, NoPoll
<1>5. /\ sim \in BOOLEAN /\ result \in {0, 1, None}
      /\ \A j \in Jobs : report[j] = None
      /\ \A w \in Watchers : freeze[w].step = "idle" /\ freeze[w].score = None
  BY NoFreezeIsIdle DEF ScoresInit, Init
<1>6. now \in Start..MaxTime
  BY <1>2
<1> QED
  BY <1>3, <1>4, <1>5, <1>6 DEF TypeInv

\* The clock and what the venue showed.
LEMMA ClockIsTyped ==
    ASSUME MarketInv, TypeInv, [ScoresNext]_allVars
    PROVE  now' \in Start..MaxTime /\ \A t \in 0..MaxTime : t > now' => shown'[t] = None
<1>1. CASE Tick
  <2>1. PICK b \in Books : shown' = [shown EXCEPT ![now + 1] = b]
    BY <1>1 DEF Tick
  <2>2. /\ now \in Start..MaxTime /\ now < MaxTime /\ now' = now + 1
        /\ Start \in Nat /\ MaxTime \in Nat
    BY <1>1, MarketSeriesAssumption DEF Tick, TypeInv
  <2>3. ASSUME NEW t \in 0..MaxTime, t > now'
        PROVE  shown'[t] = None
    <3>1. t > now /\ t # now + 1
      BY <2>2, <2>3
    <3>2. shown[t] = None /\ t \in DOMAIN shown
      BY <3>1 DEF TypeInv, MarketInv, IsVenue
    <3> QED
      BY <2>1, <3>1, <3>2
  <2> QED
    BY <2>2, <2>3
<1>2. CASE UNCHANGED <<now, shown>>
  BY <1>2 DEF TypeInv
<1>3. Tick \/ UNCHANGED <<now, shown>>
  BY StepsAreThese
  DEF SignalWritten, PollHistory, PollBook, PollStore, PollDies, LoadSignals, LoadPrices,
      RefreshStore, RefreshSignals, SimStep, SimSave, SimDies, Slice, SlicePrints,
      SliceStores, SliceSignals, vars, marketVars
<1> QED
  BY <1>1, <1>2, <1>3

LEMMA PollsAreTyped ==
    ASSUME MarketInv, TypeInv, [ScoresNext]_allVars
    PROVE  \A w \in Pollers : poll'[w].step \in {"idle", "book", "store"}
<1>1. NoPoll.step = "idle"
  BY PollingHasFields DEF NoPoll
<1>2. ASSUME NEW v \in Pollers,
             PollHistory(v) \/ PollBook(v) \/ PollStore(v) \/ PollDies(v)
      PROVE  \E step \in {"idle", "book", "store"} : \E ticks :
                poll' = [poll EXCEPT ![v] = Polling(step, ticks)]
  <2>1. CASE PollHistory(v)
    <3>1. PICK ticks : poll' = [poll EXCEPT ![v] = Polling("book", ticks)]
      BY <2>1 DEF PollHistory
    <3> QED
      BY <3>1
  <2>2. CASE PollBook(v)
    <3>1. PICK ticks \in {BookTick, NoTicks} :
            poll' = [poll EXCEPT ![v] = Polling("store", Upserted(@.ticks, ticks))]
      BY <2>2 DEF PollBook
    <3>2. poll' = [poll EXCEPT ![v] = Polling("store", Upserted(poll[v].ticks, ticks))]
      BY <3>1
    <3> QED
      BY <3>2
  <2>3. CASE PollStore(v) \/ PollDies(v)
    <3>1. poll' = [poll EXCEPT ![v] = Polling("idle", NoTicks)]
      BY <2>3 DEF PollStore, PollDies, NoPoll
    <3> QED
      BY <3>1
  <2> QED
    BY <1>2, <2>1, <2>2, <2>3
<1>3. ASSUME NEW j \in Jobs, RefreshStore(j) \/ Slice(j)
      PROVE  poll' = [poll EXCEPT ![j] = NoPoll]
  BY <1>3 DEF RefreshStore, Slice
<1>4. ASSUME \/ Tick \/ UNCHANGED vars
             \/ \E t \in Bars : SignalWritten(t)
             \/ \E j \in Jobs :
                   \/ LoadSignals(j) \/ LoadPrices(j) \/ RefreshSignals(j)
                   \/ SimStep(j) \/ SimSave(j) \/ SimDies(j)
                   \/ SlicePrints(j) \/ SliceStores(j) \/ SliceSignals(j)
      PROVE  poll' = poll
  BY <1>4
  DEF Tick, SignalWritten, LoadSignals, LoadPrices, RefreshSignals, SimStep, SimSave, SimDies,
      SlicePrints, SliceStores, SliceSignals, vars, marketVars
<1>5. DOMAIN poll = Pollers /\ \A w \in Pollers : poll[w].step \in {"idle", "book", "store"}
  BY DEF MarketInv, TypeInv
<1>6. ASSUME NEW v \in Pollers,
             PollHistory(v) \/ PollBook(v) \/ PollStore(v) \/ PollDies(v)
      PROVE  \A w \in Pollers : poll'[w].step \in {"idle", "book", "store"}
  <2>1. PICK step, ticks :
          /\ step \in {"idle", "book", "store"}
          /\ poll' = [poll EXCEPT ![v] = Polling(step, ticks)]
    BY <1>2, <1>6
  <2> QED
    BY <1>5, <2>1, PollingHasFields
<1> QED
  BY <1>1, <1>3, <1>4, <1>5, <1>6, StepsAreThese

\* A report's run goes on until the report is dropped.
LEMMA ReportsRun ==
    ASSUME AllInv, TypeInv, [ScoresNext]_allVars, NEW i \in Jobs, report'[i] # None
    PROVE  run'[i].step \in Running
<1>1. /\ DOMAIN run = Jobs /\ DOMAIN report = Jobs
      /\ \A j \in Jobs : IsSound(run[j]) /\ IsBooked(run[j].ticks)
  BY TablesAreBooked DEF AllInv, MarketInv, SimInv, ReportsInv
<1>2. ASSUME report[i] # None, run'[i] = run[i]
      PROVE  run'[i].step \in Running
  BY <1>2 DEF TypeInv
<1>3. NoRun.step = "idle"
  BY NoRunIsSound
<1>4. CASE Elsewhere
  <2>1. report[i] # None /\ run'[i] # NoRun /\ run[i].step \in Running
    BY <1>4 DEF Elsewhere, TypeInv
  <2>2. CASE run' = run
    BY <1>2, <2>1, <2>2
  <2>3. ASSUME NEW j \in Jobs, SimStep(j)
        PROVE  run'[i].step \in Running
    <3>1. /\ run[j].step = "loop"
          /\ run' = [run EXCEPT ![j] = Stepped(run[j], FirstOf(DOMAIN run[j].ahead))]
      BY <2>3 DEF SimStep
    <3>2. Stepped(run[j], FirstOf(DOMAIN run[j].ahead)).step \in Running
      <4>1. PICK x \in Int : run[j].q = run[j].b * x
        BY <1>1 DEF IsSound
      <4> QED
        BY <1>1, <3>1, <4>1, SteppedIsSound
    <3> QED
      BY <1>1, <1>2, <2>1, <3>1, <3>2
  <2>4. ASSUME NEW j \in Jobs,
               \/ LoadSignals(j) \/ LoadPrices(j) \/ RefreshStore(j) \/ RefreshSignals(j)
               \/ SimSave(j) \/ SimDies(j)
        PROVE  run'[i].step \in Running
    <3>1. /\ \A k \in Jobs \ {j} : run'[k] = run[k]
          /\ run[j].step \notin Running \/ run'[j] = NoRun
      BY <1>1, <1>3, <2>4
      DEF LoadSignals, LoadPrices, RefreshStore, RefreshSignals, SimSave, SimDies, Running
    <3> QED
      BY <1>2, <2>1, <3>1
  <2>5. MarketStep => run' = run
    BY DEF MarketStep, simVars
  <2> QED
    BY <1>4, <2>2, <2>3, <2>4, <2>5 DEF Elsewhere, Next, SimNext
<1>5. ASSUME NEW j \in Jobs, Slice(j)
      PROVE  run'[i].step \in Running
  <2>1. PICK bars \in (SUBSET {t \in Bars : t <= now}) \ {{}} :
          \E series \in [bars -> Targets] :
             /\ run' = [run EXCEPT ![j] = Opened(poll[j].ticks, series)]
             /\ report' = [report EXCEPT ![j] =
                   Report(series, SlicePairs(series, poll[j].ticks))]
    BY <1>5 DEF Slice
  <2>2. PICK series \in [bars -> Targets] :
          /\ run' = [run EXCEPT ![j] = Opened(poll[j].ticks, series)]
          /\ report' = [report EXCEPT ![j] = Report(series, SlicePairs(series, poll[j].ticks))]
    BY <2>1
  <2>3. Opened(poll[j].ticks, series).step = "loop"
    BY RunHasFields DEF Opened
  <2>4. CASE i = j
    BY <1>1, <2>2, <2>3, <2>4 DEF Running
  <2>5. CASE i # j
    BY <1>1, <1>2, <2>2, <2>5
  <2> QED
    BY <2>4, <2>5
<1>6. ASSUME NEW j \in Jobs, SlicePrints(j)
      PROVE  run'[i].step \in Running
  <2>1. run' = [run EXCEPT ![j] = NoRun] /\ report' = [report EXCEPT ![j] = None]
    BY <1>6 DEF SlicePrints
  <2> QED
    BY <1>1, <1>2, <2>1
<1>7. ASSUME NEW j \in Jobs, SliceStores(j) \/ SliceSignals(j)
      PROVE  run'[i].step \in Running
  <2>1. /\ run' = run /\ report[j] # None
        /\ \A k \in Jobs \ {j} : report'[k] = report[k]
    BY <1>1, <1>7 DEF SliceStores, SliceSignals, simVars
  <2> QED
    BY <1>2, <2>1
<1>8. ASSUME \/ Resolves \/ UNCHANGED allVars
             \/ \E w \in Watchers :
                   FreezeReads(w) \/ FreezeScores(w) \/ FreezeRecords(w) \/ WatcherDies(w)
      PROVE  run' = run /\ report' = report
  BY <1>8
  DEF Resolves, FreezeReads, FreezeScores, FreezeRecords, WatcherDies, allVars, scoreVars,
      vars, simVars
<1> QED
  BY <1>2, <1>4, <1>5, <1>6, <1>7, <1>8 DEF ScoresNext

\* A score is made of at least one bar, once there is an outcome.
LEMMA FreezesAreTyped ==
    ASSUME AllInv, PairsInv, TypeInv, [ScoresNext]_allVars, NEW w \in Watchers
    PROVE  /\ freeze'[w].step \in {"idle", "prices", "record"}
           /\ freeze'[w].step # "idle" => result' # None
           /\ freeze'[w].score # None =>
                 /\ freeze'[w].step = "record"
                 /\ freeze'[w].score.n > 0 /\ freeze'[w].score.outcome = result'
<1>1. UNCHANGED result \/ Resolves
  BY DEF ScoresNext, Elsewhere, Slice, SlicePrints, SliceStores, SliceSignals, FreezeReads,
         FreezeScores, FreezeRecords, WatcherDies, allVars, scoreVars
<1>2. CASE Resolves
  <2>1. result = None /\ result' \in {0, 1} /\ freeze' = freeze
    BY <1>2 DEF Resolves
  <2> QED
    BY <2>1, NoneIsNoNumber DEF TypeInv
<1>3. ASSUME UNCHANGED result, freeze'[w] = freeze[w]
      PROVE  /\ freeze'[w].step \in {"idle", "prices", "record"}
             /\ freeze'[w].step # "idle" => result' # None
             /\ freeze'[w].score # None =>
                   /\ freeze'[w].step = "record"
                   /\ freeze'[w].score.n > 0 /\ freeze'[w].score.outcome = result'
  BY <1>3 DEF TypeInv
<1>4. ASSUME freeze'[w].score = None, freeze'[w].step \in {"idle", "prices"},
             freeze'[w] # freeze[w], UNCHANGED result
      PROVE  freeze'[w].step # "idle" => result' # None
  <2>1. DOMAIN freeze = Watchers
    BY DEF PairsInv
  <2>2. ASSUME NEW v \in Watchers, FreezeReads(v)
        PROVE  result' # None
    BY <2>2 DEF FreezeReads
  <2>3. ASSUME NEW v \in Watchers, FreezeScores(v)
        PROVE  result' # None
    BY <1>4, <2>3 DEF FreezeScores, TypeInv
  <2>4. ASSUME NEW v \in Watchers, FreezeRecords(v) \/ WatcherDies(v)
        PROVE  freeze'[w] = freeze[w] \/ freeze'[w] = NoFreeze
    BY <2>1, <2>4 DEF FreezeRecords, WatcherDies
  <2>5. ASSUME \/ Elsewhere \/ Resolves \/ UNCHANGED allVars
               \/ \E j \in Jobs : Slice(j) \/ SlicePrints(j) \/ SliceStores(j) \/ SliceSignals(j)
        PROVE  freeze' = freeze
    BY <2>5
    DEF Elsewhere, Resolves, Slice, SlicePrints, SliceStores, SliceSignals, allVars, scoreVars
  <2> QED
    BY <1>4, <2>2, <2>3, <2>4, <2>5, NoFreezeIsIdle DEF ScoresNext
<1>5. ASSUME freeze[w].step = "prices", freeze'[w].step = "record", UNCHANGED result,
             freeze'[w].score = Score(FrozenPairs(freeze[w].series, prices), result),
             FrozenPairs(freeze[w].series, prices) # Empty, UNCHANGED vars
      PROVE  /\ result' # None
             /\ freeze'[w].score.n > 0 /\ freeze'[w].score.outcome = result'
  <2> DEFINE pairs == FrozenPairs(freeze[w].series, prices)
  <2>1. freeze'[w].score.n = Cardinality(DOMAIN pairs) /\ freeze'[w].score.outcome = result
    BY <1>5 DEF Score
  <2>2. \A t \in DOMAIN pairs : \E k \in DOMAIN prices : t = Hour(k.at) /\ k.at \in 0..MaxTime
    BY InHourIsIn DEF FrozenPairs, AllInv, MarketInv, IsTable, InHour, Keys
  <2>3. DOMAIN pairs \in SUBSET (0..MaxTime) /\ MaxTime \in Nat
    BY <2>2, HourIsBefore, BarsAreTimes
  <2>4. IsFiniteSet(DOMAIN pairs)
    <3>1. IsFiniteSet(0..MaxTime)
      BY <2>3, FS_Interval
    <3> HIDE DEF pairs
    <3> QED
      BY <2>3, <3>1, FS_Subset
  <2>5. DOMAIN pairs # {}
    BY <1>5 DEF FrozenPairs, Empty
  <2> HIDE DEF pairs
  <2>6. Cardinality(DOMAIN pairs) \in Nat /\ Cardinality(DOMAIN pairs) # 0
    BY <2>4, <2>5, FS_CardinalityType, FS_EmptySet
  <2> QED
    BY <1>5, <2>1, <2>6 DEF TypeInv
<1> QED
  BY <1>1, <1>2, <1>3, <1>4, <1>5, OnlyFreezersFreeze

LEMMA TypeInvAlways == ScoresSpec => []TypeInv
<1>1. ASSUME AllInv, PairsInv, TypeInv, [ScoresNext]_allVars
      PROVE  TypeInv'
  <2>1. now' \in Start..MaxTime /\ \A t \in 0..MaxTime : t > now' => shown'[t] = None
    BY <1>1, ClockIsTyped DEF AllInv
  <2>2. \A w \in Pollers : poll'[w].step \in {"idle", "book", "store"}
    BY <1>1, PollsAreTyped DEF AllInv
  <2>3. sim' = sim \/ sim' = TRUE
    BY <1>1, StepsAreThese
    DEF simVars, LoadSignals, LoadPrices, RefreshStore, RefreshSignals, SimStep, SimSave,
        SimDies, Slice, SlicePrints, SliceStores, SliceSignals, vars
  <2>4. result' \in {0, 1, None}
    BY <1>1
    DEF TypeInv, ScoresNext, Elsewhere, Resolves, Slice, SlicePrints, SliceStores, SliceSignals,
        FreezeReads, FreezeScores, FreezeRecords, WatcherDies, allVars, scoreVars
  <2>5. \A i \in Jobs : report'[i] # None => run'[i].step \in Running
    BY <1>1, ReportsRun
  <2>6. \A w \in Watchers :
           /\ freeze'[w].step \in {"idle", "prices", "record"}
           /\ freeze'[w].step # "idle" => result' # None
           /\ freeze'[w].score # None =>
                 /\ freeze'[w].step = "record"
                 /\ freeze'[w].score.n > 0 /\ freeze'[w].score.outcome = result'
    BY <1>1, FreezesAreTyped
  <2> QED
    BY <1>1, <2>1, <2>2, <2>3, <2>4, <2>5, <2>6 DEF TypeInv
<1> QED
  BY <1>1, TypeInvInit, AllInvAlways, PairsInvAlways, PTL DEF ScoresSpec

LEMMA SharesAreWhole ==
    ASSUME NEW b \in Nat \ {0}, NEW x \in Int
    PROVE  (b * x) % b = 0
OBVIOUS

\* The types of the market, of its simulations and of its scores are kept.
THEOREM ScoreTypesAreKept == ScoresSpec => []ScoresTypeOK
<1>1. ASSUME AllInv, TypeInv
      PROVE  ScoresTypeOK
  <2>1. MarketTypeOK
    <3>1. \A t \in 0..MaxTime : shown[t] \in IF t <= now THEN Books ELSE {None}
      BY <1>1, BarsAreTimes DEF AllInv, MarketInv, IsVenue, TypeInv
    <3> QED
      BY <1>1, <3>1 DEF AllInv, MarketInv, IsVenue, IsTable, SimInv, TypeInv, MarketTypeOK
  <2>2. ASSUME NEW j \in Jobs
        PROVE  /\ run[j].step \in {"idle", "prices", "refresh", "loop", "save"}
               /\ DOMAIN run[j].ahead \subseteq Bars /\ DOMAIN run[j].path \subseteq Bars
               /\ run[j].step = "loop" => DOMAIN run[j].ahead # {}
               /\ run[j].b \in Nat \ {0} /\ run[j].q % run[j].b = 0
               /\ \A t \in DOMAIN run[j].path :
                     run[j].path[t].b \in (BMin..BMax) \union {Fallback}
    <3>1. IsSound(run[j])
      BY <1>1 DEF AllInv, SimInv
    <3>2. run[j].q % run[j].b = 0
      BY <3>1, SharesAreWhole DEF IsSound
    <3> QED
      BY <3>1, <3>2 DEF IsSound, IsSeries, IsCurrent, Liquidities
  <2>3. SimTypeOK
    BY <1>1, <2>1, <2>2 DEF SimTypeOK, TypeInv
  <2> QED
    BY <1>1, <2>3 DEF ScoresTypeOK, TypeInv, AllInv, ReportsInv, IsReport, Running
<1> QED
  BY <1>1, AllInvAlways, TypeInvAlways, PTL

-----------------------------------------------------------------------------
(* Skill.                                                                  *)

\* Every hour that is paired has a signal and a price.
IsPaired(pairs) ==
    /\ IsFiniteSet(DOMAIN pairs) /\ DOMAIN pairs # {}
    /\ \A t \in DOMAIN pairs : pairs[t].p \in Int /\ pairs[t].ref \in Int

LEMMA ErrorsAreNatural ==
    ASSUME NEW x \in Int, NEW o \in {0, 1}
    PROVE  SquaredError(x, o) \in Nat
<1> DEFINE d == x - o * Top
<1>1. d \in Int
  BY NoneIsNoNumber
<1>2. d * d \in Nat
  <2> HIDE DEF d
  <2> QED
    BY <1>1
<1> QED
  BY <1>2 DEF SquaredError

\* The sums compare as the errors do, hour by hour.
LEMMA BriersCompare ==
    ASSUME NEW pairs, IsPaired(pairs), NEW o \in {0, 1}
    PROVE  LET signal == BrierSignal(pairs, o)
               market == BrierMarket(pairs, o)
               off(x) == SquaredError(x, o)
           IN  /\ signal \in Nat /\ market \in Nat
               /\ (\A t \in DOMAIN pairs : off(pairs[t].p) < off(pairs[t].ref)) =>
                     signal < market
               /\ (\A t \in DOMAIN pairs : off(pairs[t].ref) <= off(pairs[t].p)) =>
                     market <= signal
<1> DEFINE D == DOMAIN pairs
           zero == [t \in D |-> 0]
           f == [t \in D |-> SquaredError(pairs[t].p, o)]
           g == [t \in D |-> SquaredError(pairs[t].ref, o)]
<1>1. IsFiniteSet(D) /\ D # {}
  BY DEF IsPaired
<1>2. /\ \A t \in D : f[t] \in Nat /\ g[t] \in Nat
      /\ zero \in [D -> Int] /\ f \in [D -> Int] /\ g \in [D -> Int]
  BY ErrorsAreNatural DEF IsPaired
<1>3. /\ BrierSignal(pairs, o) = SumFunctionOnSet(f, D)
      /\ BrierMarket(pairs, o) = SumFunctionOnSet(g, D)
  BY DEF BrierSignal, BrierMarket, SumFunction
<1>4. \A t \in D : f[t] = SquaredError(pairs[t].p, o) /\ g[t] = SquaredError(pairs[t].ref, o)
  OBVIOUS
<1>5. \A t \in D : zero[t] = 0
  OBVIOUS
<1> HIDE DEF D, f, g, zero
<1>6. SumFunctionOnSet(f, D) \in Int /\ SumFunctionOnSet(g, D) \in Int
  BY <1>1, <1>2, SumLaws
<1>7. SumFunctionOnSet(zero, D) = 0
  <2> DEFINE Having == {S \in SUBSET D : SumFunctionOnSet(zero, S) = 0}
  <2>1. {} \in Having
    BY <1>1, <1>2, SumLaws
  <2>2. ASSUME NEW S \in Having, NEW x \in D \ S
        PROVE  S \union {x} \in Having
    <3>1. SumFunctionOnSet(zero, S \union {x}) = SumFunctionOnSet(zero, S) + zero[x]
      BY <1>1, <1>2, SumWithOneMore
    <3> QED
      BY <1>5, <3>1
  <2>3. Having \in SUBSET (SUBSET D)
    OBVIOUS
  <2> HIDE DEF Having
  <2>4. Having = SUBSET D
    BY <1>1, <2>1, <2>2, <2>3, SubsetInduction
  <2> QED
    BY <2>4 DEF Having
<1>8. 0 <= SumFunctionOnSet(f, D) /\ 0 <= SumFunctionOnSet(g, D)
  <2>1. \A t \in D : zero[t] <= f[t] /\ zero[t] <= g[t]
    BY <1>2, <1>5
  <2>2. SumFunctionOnSet(zero, D) <= SumFunctionOnSet(f, D)
    BY <1>1, <1>2, <2>1, SumGrows
  <2>3. SumFunctionOnSet(zero, D) <= SumFunctionOnSet(g, D)
    BY <1>1, <1>2, <2>1, SumGrows
  <2> QED
    BY <1>7, <2>2, <2>3
<1>9. ASSUME \A t \in D : f[t] < g[t]
      PROVE  SumFunctionOnSet(f, D) < SumFunctionOnSet(g, D)
  <2>1. \A t \in D : f[t] <= g[t]
    BY <1>2, <1>9
  <2> QED
    BY <1>1, <1>2, <1>9, <2>1, SumGrows
<1>10. ASSUME \A t \in D : g[t] <= f[t]
       PROVE  SumFunctionOnSet(g, D) <= SumFunctionOnSet(f, D)
  BY <1>1, <1>2, <1>10, SumGrows
<1> QED
  BY <1>3, <1>4, <1>6, <1>8, <1>9, <1>10 DEF D

\* A score is of hours that have both, and its skill is theirs.
IsScore(s) ==
    /\ s.outcome \in {0, 1}
    /\ IsPaired(s.pairs)
    /\ s.skill = Skill(BrierSignal(s.pairs, s.outcome), BrierMarket(s.pairs, s.outcome))

SkillInv ==
    \A w \in Watchers :
        /\ freeze[w].step = "prices" => IsSeries(freeze[w].series)
        /\ freeze[w].score # None => IsScore(freeze[w].score)

LEMMA ReferenceIsPrice ==
    ASSUME NEW row, IsRow(row)
    PROVE  Reference(row) \in MaybePrice
BY MidIsPrice DEF Reference, IsRow

LEMMA FrozenPairsArePaired ==
    ASSUME IsVenue, NEW series, IsSeries(series), NEW table, IsTable(table, shown, now),
           FrozenPairs(series, table) # Empty
    PROVE  IsPaired(FrozenPairs(series, table))
<1> DEFINE last(t) == Latest(InHour(table, t))
           ref(t) == Reference(table[last(t)])
           pairs == FrozenPairs(series, table)
<1>1. DOMAIN pairs = {u \in DOMAIN series : InHour(table, u) # {} /\ ref(u) # None}
  BY DEF FrozenPairs
<1>2. ASSUME NEW t \in DOMAIN pairs
      PROVE  t \in 0..MaxTime /\ pairs[t].p \in Int /\ pairs[t].ref \in Int
  <2> DEFINE k == last(t)
  <2>1. InHour(table, t) # {} /\ InHour(table, t) \in SUBSET Keys /\ t \in DOMAIN series
    BY <1>1, InHourIsIn DEF IsTable
  <2>2. k \in InHour(table, t)
    BY <2>1, LatestIsIn
  <2>3. k \in DOMAIN table /\ IsRow(table[k])
    BY <2>2, InHourIsIn DEF IsTable
  <2>4. /\ pairs[t].p = series[t]
        /\ pairs[t].ref = Reference(table[k]) /\ Reference(table[k]) # None
    <3>1. pairs[t] = Pair(series[t], Reference(table[k])) /\ Reference(table[k]) # None
      BY <1>2 DEF FrozenPairs
    <3> HIDE DEF pairs, k
    <3> QED
      BY <3>1, PairHasFields
  <2>5. t \in 0..MaxTime /\ series[t] \in Int
    <3>1. t \in Bars /\ series[t] \in Targets
      BY <2>1 DEF IsSeries
    <3>2. Bars \subseteq 0..MaxTime /\ Targets \subseteq 0..Top /\ 0..Top \subseteq Int
      BY BarsAreTimes, NoneIsNoNumber
    <3> QED
      BY <3>1, <3>2
  <2>6. Reference(table[k]) \in Int
    BY <2>3, <2>4, ReferenceIsPrice, NoneIsNoNumber DEF MaybePrice
  <2> HIDE DEF pairs, k
  <2> QED
    BY <2>4, <2>5, <2>6
<1>3. IsFiniteSet(DOMAIN pairs)
  <2>1. IsFiniteSet(0..MaxTime)
    BY BarsAreTimes, FS_Interval
  <2> HIDE DEF pairs
  <2> QED
    BY <1>2, <2>1, FS_Subset
<1>4. DOMAIN pairs # {}
  BY DEF FrozenPairs, Empty
<1>5. IsPaired(pairs)
  <2> HIDE DEF pairs
  <2> QED
    BY <1>2, <1>3, <1>4 DEF IsPaired
<1> QED
  BY <1>5

LEMMA SkillInvNext ==
    ASSUME AllInv, PairsInv, TypeInv, SkillInv, [ScoresNext]_allVars, NEW w \in Watchers
    PROVE  /\ freeze'[w].step = "prices" => IsSeries(freeze'[w].series)
           /\ freeze'[w].score # None => IsScore(freeze'[w].score)
<1>1. ASSUME freeze'[w].step = "prices", freeze'[w] # freeze[w]
      PROVE  IsSeries(freeze'[w].series)
  <2>1. DOMAIN freeze = Watchers
    BY DEF PairsInv
  <2>2. CASE FreezeReads(w)
    <3>1. freeze'[w].series = [t \in {u \in Bars : signals[u] # None} |-> signals[t]]
      BY <2>1, <2>2, FreezingHasFields DEF FreezeReads
    <3> QED
      BY <3>1, SignalsAreSeries DEF AllInv
  <2>3. ASSUME NEW v \in Watchers, FreezeReads(v), v # w
        PROVE  freeze'[w] = freeze[w]
    BY <2>1, <2>3 DEF FreezeReads
  <2>4. ASSUME NEW v \in Watchers, FreezeScores(v)
        PROVE  freeze'[w] = freeze[w] \/ freeze'[w].step # "prices"
    BY <2>1, <2>4, FreezingHasFields, NoFreezeIsIdle DEF FreezeScores
  <2>5. ASSUME NEW v \in Watchers, FreezeRecords(v) \/ WatcherDies(v)
        PROVE  freeze'[w] = freeze[w] \/ freeze'[w].step # "prices"
    BY <2>1, <2>5, NoFreezeIsIdle DEF FreezeRecords, WatcherDies
  <2>6. ASSUME \/ Elsewhere \/ Resolves \/ UNCHANGED allVars
               \/ \E j \in Jobs : Slice(j) \/ SlicePrints(j) \/ SliceStores(j) \/ SliceSignals(j)
        PROVE  freeze' = freeze
    BY <2>6
    DEF Elsewhere, Resolves, Slice, SlicePrints, SliceStores, SliceSignals, allVars, scoreVars
  <2> QED
    BY <1>1, <2>2, <2>3, <2>4, <2>5, <2>6 DEF ScoresNext
<1>2. ASSUME freeze[w].step = "prices", FrozenPairs(freeze[w].series, prices) # Empty,
             freeze'[w].score = Score(FrozenPairs(freeze[w].series, prices), result)
      PROVE  IsScore(freeze'[w].score)
  <2> DEFINE pairs == FrozenPairs(freeze[w].series, prices)
  <2>1. IsPaired(pairs)
    BY <1>2, FrozenPairsArePaired DEF AllInv, MarketInv, SkillInv
  <2>2. result \in {0, 1}
    BY <1>2 DEF TypeInv
  <2> HIDE DEF pairs
  <2>3. /\ Score(pairs, result).outcome = result /\ Score(pairs, result).pairs = pairs
        /\ Score(pairs, result).skill = Skill(BrierSignal(pairs, result), BrierMarket(pairs, result))
    BY DEF Score
  <2>4. freeze'[w].score = Score(pairs, result)
    BY <1>2 DEF pairs
  <2> QED
    BY <2>1, <2>2, <2>3, <2>4 DEF IsScore
<1>3. CASE freeze'[w] = freeze[w]
  BY <1>3 DEF SkillInv
<1>4. CASE freeze'[w].score = None /\ freeze'[w].step \in {"idle", "prices"}
  BY <1>1, <1>4 DEF SkillInv
<1>5. CASE /\ freeze[w].step = "prices" /\ freeze'[w].step = "record"
           /\ freeze'[w].score = Score(FrozenPairs(freeze[w].series, prices), result)
           /\ FrozenPairs(freeze[w].series, prices) # Empty
  BY <1>2, <1>5
<1> QED
  BY <1>3, <1>4, <1>5, OnlyFreezersFreeze

\* Whatever the rows, the outcome and the moment, a score credits a signal with
\* skill only for errors that are smaller than the market's.
THEOREM SkillsAreEarned == ScoresSpec => []SkillIsEarned
<1>1. ScoresInit => SkillInv
  BY NoFreezeIsIdle DEF ScoresInit, SkillInv
<1>2. ASSUME AllInv, PairsInv, TypeInv, SkillInv, [ScoresNext]_allVars
      PROVE  SkillInv'
  BY <1>2, SkillInvNext DEF SkillInv
<1>3. ASSUME SkillInv
      PROVE  SkillIsEarned
  <2> SUFFICES ASSUME NEW s \in Scores
               PROVE  LET off(x) == SquaredError(x, s.outcome)
                          bars == DOMAIN s.pairs
                      IN  /\ (\A t \in bars : off(s.pairs[t].p) < off(s.pairs[t].ref)) =>
                                s.skill > 0
                          /\ (\A t \in bars : off(s.pairs[t].ref) <= off(s.pairs[t].p)) =>
                                s.skill <= 0
    BY DEF SkillIsEarned
  <2> DEFINE signal == BrierSignal(s.pairs, s.outcome)
             market == BrierMarket(s.pairs, s.outcome)
  <2>1. IsPaired(s.pairs) /\ s.outcome \in {0, 1} /\ s.skill = Skill(signal, market)
    BY <1>3 DEF SkillInv, IsScore, Scores
  <2>2. /\ signal \in Nat /\ market \in Nat
        /\ (\A t \in DOMAIN s.pairs : SquaredError(s.pairs[t].p, s.outcome)
                                         < SquaredError(s.pairs[t].ref, s.outcome)) =>
              signal < market
        /\ (\A t \in DOMAIN s.pairs : SquaredError(s.pairs[t].ref, s.outcome)
                                         <= SquaredError(s.pairs[t].p, s.outcome)) =>
              market <= signal
    BY <2>1, BriersCompare
  <2> HIDE DEF signal, market
  <2>3. /\ signal < market => Skill(signal, market) > 0
        /\ market <= signal => Skill(signal, market) <= 0
    BY <2>2 DEF Skill
  <2> QED
    BY <2>1, <2>2, <2>3
<1> QED
  BY <1>1, <1>2, <1>3, AllInvAlways, PairsInvAlways, TypeInvAlways, PTL DEF ScoresSpec
=============================================================================
