----------------------------- MODULE MarketScores -----------------------------
(***************************************************************************)
(* What the series of a market are compared for.  `augury slice` polls,    *)
(* builds a signal, simulates, pairs signal and price by the hour, lines   *)
(* the pairs up at several lags, and may store all of it; its market is    *)
(* the configuration's, which is always open, so that it never scores.     *)
(* The watcher, once the market has resolved, freezes a score of the       *)
(* stored series.                                                          *)
(*                                                                         *)
(* A Brier score is kept as the sum of the squared errors, of which it is  *)
(* the mean, and the skill score as its sign.                              *)
(***************************************************************************)
EXTENDS SimMarket, FiniteSetsExt

CONSTANTS
    Slicing,        \* the jobs that may be an `augury slice`
    Watchers,       \* processes that freeze scores
    CloseAt,        \* when the market closes
    MinAligned,     \* fewer pairs than this are not analysed (5)
    MinGranger,     \* fewer than this are not tested (20)
    MaxLag,         \* no lag is greater (6) ...
    LagShare        \* ... nor than the pairs divided by this (3)

ASSUME MarketScoresAssumption ==
    /\ Slicing \subseteq Jobs \intersect Pollers
    /\ CloseAt \in Nat
    /\ MaxLag \in Nat \ {0} /\ LagShare \in Nat \ {0}
    /\ MinAligned \in Nat /\ MinGranger \in Nat
    /\ LagShare <= MinAligned   \* else cross_correlation is given no lag

VARIABLES
    result,     \* the venue's outcome: 0, 1 or None
    report,     \* [Jobs -> report or None]: what a slice has found
    freeze      \* [Watchers -> record]: a watcher's locals

scoreVars == <<result, report, freeze>>
allVars == <<vars, scoreVars>>

-----------------------------------------------------------------------------
(* Pairing by the hour.                                                    *)

\* Mutant: to the nearest hour.
HourNearest(at) == ((at + HourLen \div 2) \div HourLen) * HourLen

\* The hour that a row falls into.
Hour(at) == at - (at % HourLen)

\* A book that is read in the instant of a bar is read after it.
Latest(keys) ==
    CHOOSE k \in keys : \A l \in keys :
        l = k \/ l.at < k.at \/ (l.at = k.at /\ l.source = "candle")

InHour(table, t) == {k \in DOMAIN table : Hour(k.at) = t}

Pair(p, ref) == [p |-> p, ref |-> ref]

\* _aligned_pairs and _score of the slice: the last row that has a price.
SlicePairs(series, ticks) ==
    LET priced(t) == {k \in InHour(ticks, t) : TickMid(ticks[k]) # None}
    IN  [t \in {u \in DOMAIN series : priced(u) # {}} |->
            Pair(series[t], TickMid(ticks[Latest(priced(t))]))]

\* _freeze_scores prefers the price to the middle of the quote.
Reference(row) == IF row.price # None THEN row.price ELSE Mid(row.bid, row.ask)

\* Mutant: an hour without a row takes the last price before it.
FrozenPairsCarried(series, table) ==
    LET known(t) == {k \in DOMAIN table : Hour(k.at) <= t}
        ref(t) == Reference(table[Latest(known(t))])
    IN  [t \in {u \in DOMAIN series : known(u) # {} /\ ref(u) # None} |->
            Pair(series[t], ref(t))]

\* _freeze_scores: the last row, if that has a price.
FrozenPairs(series, table) ==
    LET ref(t) == Reference(table[Latest(InHour(table, t))])
    IN  [t \in {u \in DOMAIN series : InHour(table, u) # {} /\ ref(u) # None} |->
            Pair(series[t], ref(t))]

-----------------------------------------------------------------------------
(* Scores and lags.                                                        *)

SquaredError(p, outcome) == (p - outcome * Top) * (p - outcome * Top)

\* brier_score, for the signal and for the market.
BrierSignal(pairs, outcome) ==
    SumFunction([t \in DOMAIN pairs |-> SquaredError(pairs[t].p, outcome)])
BrierMarket(pairs, outcome) ==
    SumFunction([t \in DOMAIN pairs |-> SquaredError(pairs[t].ref, outcome)])

\* Mutant: the signal is the reference.
SkillSwapped(signal, market) ==
    IF market < signal THEN 1 ELSE IF market = signal THEN 0 ELSE -1

\* The sign of brier_skill_score, 1 - signal / market; a perfect reference
\* gives 0 or minus infinity.
Skill(signal, market) ==
    IF market = 0 THEN IF signal = 0 THEN 0 ELSE -1
    ELSE IF signal < market THEN 1 ELSE IF signal = market THEN 0 ELSE -1

\* score_market; there is nothing to score without pairs.
Score(pairs, outcome) ==
    [n |-> Cardinality(DOMAIN pairs), outcome |-> outcome, pairs |-> pairs,
     skill |-> Skill(BrierSignal(pairs, outcome), BrierMarket(pairs, outcome))]

Position(t, bars) == Cardinality({u \in bars : u <= t})

\* cross_correlation at one lag: the signal that many positions before the
\* price.
Lagged(bars, lag) ==
    {pair \in bars \X bars : Position(pair[2], bars) - Position(pair[1], bars) = lag}

\* _analyze: too few pairs, or a price that did not move, are not correlated,
\* and the Granger test needs more of them still.
Verdict(pairs) ==
    LET n == Cardinality(DOMAIN pairs)
    IN  IF n < MinAligned THEN "few"
        ELSE IF \A t, u \in DOMAIN pairs : pairs[t].ref = pairs[u].ref THEN "flat"
        ELSE IF n < MinGranger THEN "short"
        ELSE "tested"

Lags(pairs) ==
    LET n == Cardinality(DOMAIN pairs)
        widest == IF MaxLag < n \div LagShare THEN MaxLag ELSE n \div LagShare
    IN  IF Verdict(pairs) \in {"few", "flat"} THEN [lag \in {} |-> {}]
        ELSE [lag \in (-widest)..widest |-> Lagged(DOMAIN pairs, lag)]

Report(series, pairs) ==
    [series |-> series, stored |-> FALSE, pairs |-> pairs, lags |-> Lags(pairs)]

-----------------------------------------------------------------------------
(* Actions.                                                                *)

Freezing(step, series, score) == [step |-> step, series |-> series, score |-> score]
NoFreeze == Freezing("idle", Empty, None)

ScoresInit ==
    /\ Init
    /\ result = None
    /\ report = [j \in Jobs |-> None]
    /\ freeze = [w \in Watchers |-> NoFreeze]

\* The venue announces the outcome.
Resolves ==
    /\ now >= CloseAt
    /\ result = None
    /\ \E o \in {0, 1} : result' = o
    /\ UNCHANGED <<vars, report, freeze>>

\* run_slice: what it polled and a signal of its own, analysed in memory.
Slice(j) ==
    /\ j \in Slicing
    /\ run[j] = NoRun
    /\ poll[j].step = "store"
    /\ \E bars \in (SUBSET {t \in Bars : t <= now}) \ {{}} :
          \E series \in [bars -> Targets] :
             /\ run' = [run EXCEPT ![j] = Opened(poll[j].ticks, series)]
             /\ report' = [report EXCEPT ![j] =
                   Report(series, SlicePairs(series, poll[j].ticks))]
    /\ poll' = [poll EXCEPT ![j] = NoPoll]
    /\ UNCHANGED <<venue, now, shown, prices, signals, sim, result, freeze>>

\* It prints, and without --persist that is all.
SlicePrints(j) ==
    /\ report[j] # None /\ ~report[j].stored /\ run[j].step = "save"
    /\ run' = [run EXCEPT ![j] = NoRun]
    /\ report' = [report EXCEPT ![j] = None]
    /\ UNCHANGED <<marketVars, sim, result, freeze>>

\* _persist: the prices ...
SliceStores(j) ==
    /\ report[j] # None /\ ~report[j].stored /\ run[j].step = "save"
    /\ prices' = Upserted(prices, run[j].ticks)
    /\ report' = [report EXCEPT ![j].stored = TRUE]
    /\ UNCHANGED <<venue, now, shown, signals, poll, simVars, result, freeze>>

\* ... the signal, and then the path (SimSave).
SliceSignals(j) ==
    /\ report[j] # None /\ report[j].stored
    /\ signals' = [t \in Bars |->
          IF t \in DOMAIN report[j].series THEN report[j].series[t] ELSE signals[t]]
    /\ report' = [report EXCEPT ![j] = None]
    /\ UNCHANGED <<venue, now, shown, prices, poll, simVars, result, freeze>>

\* _freeze_scores: the signal rows of a version ...
FreezeReads(w) ==
    /\ result # None
    /\ freeze[w] = NoFreeze
    /\ LET bars == {t \in Bars : signals[t] # None}
       IN  /\ bars # {}
           /\ freeze' = [freeze EXCEPT ![w] =
                 Freezing("prices", [t \in bars |-> signals[t]], None)]
    /\ UNCHANGED <<vars, result, report>>

\* ... then the price rows; there may be nothing to score ...
FreezeScores(w) ==
    /\ freeze[w].step = "prices"
    /\ LET pairs == FrozenPairs(freeze[w].series, prices)
       IN  freeze' = [freeze EXCEPT ![w] =
               IF pairs = Empty THEN NoFreeze
               ELSE Freezing("record", @.series, Score(pairs, result))]
    /\ UNCHANGED <<vars, result, report>>

\* ... and the score, a row of `scores`, which the module Resolution keeps.
FreezeRecords(w) ==
    /\ freeze[w].step = "record"
    /\ freeze' = [freeze EXCEPT ![w] = NoFreeze]
    /\ UNCHANGED <<vars, result, report>>

WatcherDies(w) ==
    /\ freeze[w] # NoFreeze
    /\ freeze' = [freeze EXCEPT ![w] = NoFreeze]
    /\ UNCHANGED <<vars, result, report>>

\* What the other modules describe.  A slice saves its path after the rest, and
\* its report dies with it.
Elsewhere ==
    /\ Next
    /\ \A j \in Jobs : report[j] # None /\ run'[j] # run[j] => sim' = sim
    /\ report' = [j \in Jobs |-> IF run'[j] = NoRun THEN None ELSE report[j]]
    /\ UNCHANGED <<result, freeze>>

ScoresNext ==
    \/ Elsewhere
    \/ Resolves
    \/ \E j \in Jobs : Slice(j) \/ SlicePrints(j) \/ SliceStores(j) \/ SliceSignals(j)
    \/ \E w \in Watchers : FreezeReads(w) \/ FreezeScores(w) \/ FreezeRecords(w) \/ WatcherDies(w)

ScoresSpec == ScoresInit /\ [][ScoresNext]_allVars

-----------------------------------------------------------------------------
(* Properties.                                                             *)

\* The types; and that a report lives as long as its run, and a score is of the
\* outcome that the venue announced and of at least one bar.
ScoresTypeOK ==
    /\ SimTypeOK
    /\ result \in {0, 1, None}
    /\ \A j \in Jobs : report[j] # None =>
          /\ run[j].step \in {"loop", "save"}
          /\ DOMAIN report[j].pairs \subseteq DOMAIN report[j].series
    /\ \A w \in Watchers :
          /\ freeze[w].step \in {"idle", "prices", "record"}
          /\ freeze[w].score # None =>
                /\ freeze[w].step = "record"
                /\ freeze[w].score.n > 0 /\ freeze[w].score.outcome = result

Reports == {report[j] : j \in Jobs} \ {None}

Scores == {freeze[w].score : w \in Watchers} \ {None}

\* A signal has skill if it is nearer to the outcome than the market in every
\* hour that is scored, and has none if it is no nearer in any of them
\* (scoring.brier_skill_score).
SkillIsEarned ==
    \A s \in Scores :
        LET off(x) == SquaredError(x, s.outcome)
            bars == DOMAIN s.pairs
        IN  /\ (\A t \in bars : off(s.pairs[t].p) < off(s.pairs[t].ref)) => s.skill > 0
            /\ (\A t \in bars : off(s.pairs[t].ref) <= off(s.pairs[t].p)) => s.skill <= 0

\* A price that a signal is paired with is one at which the venue showed YES in
\* the hour that begins at the signal's bar: the last trade, or the middle of
\* the book.
PricesAreOfTheHour ==
    \A pairs \in {r.pairs : r \in Scores \union Reports} :
        \A t \in DOMAIN pairs :
            \E u \in {v \in t..now : Hour(v) = t} :
                \/ pairs[t].ref = shown[u].last
                \/ \E bid \in shown[u].bids, ask \in shown[u].asks :
                      /\ \A l \in shown[u].bids : l.price <= bid.price
                      /\ \A l \in shown[u].asks : ask.price <= l.price
                      /\ 2 * pairs[t].ref = bid.price + ask.price

\* The watcher scores no bar that a slice over the same rows would not: the
\* two ways of pairing differ only in the hours whose last row has no price.
FrozenWithinSlice ==
    [][\A w \in Watchers : freeze[w].step = "prices" /\ freeze'[w].step = "record" =>
          DOMAIN freeze'[w].score.pairs \subseteq
              DOMAIN SlicePairs(freeze[w].series, prices)]_allVars
=============================================================================
