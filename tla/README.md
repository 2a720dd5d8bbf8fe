# Augury in TLA+

Models, model-checking runs and machine-checked proofs about the parts of Augury
whose correctness depends on the order in which things happen: the paper-trading
ledger, the market resolution watcher, the two daily read budgets, the streaming
near-duplicate filter, the way from a post to the series S(t), and what becomes of
that series: the prices it is compared with, the synthetic market it drives, and the
scores and lags computed from the pairs.

Run a model with `tlc -config <run>.cfg <module>.tla`, check a proof module with
`tlapm <module>.tla`. `PROJECT.json` lists the runs, the mutants that show each
property can fail, the source lines behind each definition, the hazards and the
theorems.

## 1. Inventory

Augury tracks prediction markets, scores what is posted about them, and compares
the resulting probability with the market price. Five programs share one
PostgreSQL/TimescaleDB database; there is no other channel between them but an
optional Redis bus for the live dashboard. Components in bold are modelled, in whole
or in part.

| Component | State it keeps | Operations | What is hard |
|---|---|---|---|
| **Paper-trading ledger** (`PaperTradingService.java`, `AuguryRepository.java`, `db.py`, migration 003) | `ledger_fills` (append-only), `positions` (materialized), a writer's locals | `rebalance`; `_settle_position`; `record_fill` / `apply_fill_to_position` | read, fill and update are three separate commits; API threads and watchers share rows; a writer may die between commits |
| **Resolution watcher** (`steps.resolve_markets`, `_freeze_scores`, `_settle_position`; `cli.py watch-resolutions`; the hourly schedule) | `markets.status`/`resolved_outcome`, `scores`, a sweep's queue and the fetched market | sweep, fetch, upsert, freeze one score per model version, close the position out | the row is marked settled *first*; crashes and exceptions; two watchers; venue calls that fail |
| **Market configuration sync** (`steps.sync_config`, `slice --persist`) | the same market rows, `market_queries` | fetch the venue or fall back on the config, upsert | overwrites rows that the watcher depends on |
| **Ingest read budget** (`budget.rs`, `x_client.rs`) | `read_budget` rows, one reservation per call | `reserve`, request, `release_unused`, midnight | concurrent workers; lost answers; a call that straddles midnight |
| **Near-duplicate detector and post filter** (`minhash.rs`, `filter.rs`) | the FIFO window of signatures, the inverted index, arrival numbers | `check`, `evict_front`, `apply_mut` | index, window and slot arithmetic must agree through evictions |
| **Ingest polling loop and post store** (`main.rs`, `db.rs`, `x_client.rs`) | `posts` | search, filter, insert `ON CONFLICT DO NOTHING` | a fresh filter per poll, newest-first answers, the pipeline inserting the same posts unfiltered |
| **Signal-side file budget and X client** (`clients/budget.py`, `x.py`, `_http.py`) | a JSON file of counts by day | check, request with retries, record | read-modify-write of a file without a lock, attempts billed and not recorded, a page recorded on another day than it was checked |
| **Scoring pipeline and orchestration** (`steps.py`, `orchestrator.py`, `cli.py refresh`) | `stances`, `signals`, `market_prices`, `sim_prices`, `scores` | assets every 15 minutes and every hour; a refresh by hand | reruns over a moving window, overlapping jobs, jobs that die half-way, backlogs |
| **Venue clients** (`kalshi.py`, `polymarket.py`) | none | market, history, order book | two venues with opposite conventions (bids for NO; a book per token, in any order), either request failing alone |
| **Vertical slice** (`slice.py`) | what it holds in memory | poll, signal, simulation, pairing, lags, `--persist` | stores in three transactions while the assets run |
| **Signal and stance models** (`signal/`) | none | decay, calibration, stance | real arithmetic; which posts count at a bar |
| **Analytics** (`analytics/`, R) | `granger_results`, scores | Brier and skill scores, lags, Granger | which hours are paired and which bars a lag compares; the rest is statistics |
| **LMSR engine and backtest** (C++, `engine/lmsr.py`, `simulate_lmsr`) | market-maker shares and liquidity | calibrate, recalibrate, trade, walk-forward split | integer and partial steps around exponentials; which book a bar may see |
| Streaming API (`StreamConfiguration`, `AuguryWebSocketHandler`, `AuguryController`, `bus.py`) | a multicast sink with a bounded buffer, subscriber sessions | publish, subscribe, drop | slow and first subscribers |
| Schema migrations (`migrate.sh`) | `schema_migrations` | apply, record | crash between the two |

How they interact: the ingest writes `posts`; the pipeline reads them and writes
`stances`, `signals` and prices; the watcher turns closed markets into settled
rows, final scores and closed positions; the API reads everything and is the only
other writer of the ledger. Every statement outside an explicit transaction is
committed on its own (`db.py:69` commits at the end of each `cursor()` block,
`JdbcTemplate` autocommits), and no row is ever locked for longer than that.

What makes each component correct:

- *Ledger*: the position is what the fill log tells of it; a market is paid out once,
  after its result, at its result; what a settled position realized is final.
- *Resolution*: nothing on record contradicts the venue; every resolved market is
  recorded, scored once per model version, and closed out.
- *Read budget*: no interleaving bills more than the day's limit; the row always
  covers what was billed and what may still be.
- *File budget*: what X bills on a day is within the limit but for the calls that
  failed after they were billed; nothing counted is given back, except by damage to the
  file that it does not notice.
- *Filter*: the index never shows: each answer is the one that a scan of the last
  posts would give; near-duplicates within the window are not both accepted.
- *Posts and S(t)*: a post is stored and counted once; whoever stored it first
  decides its verdict; no bar knows the future; computing a bar again takes nothing
  from it; every accepted post of some weight is counted in the end.
- *Prices and the synthetic market*: every stored row is what the venue showed of YES
  at that time; a bar of the simulation has the liquidity that was current at the bar,
  and liquidity never moves its price.
- *Scores and lags*: a signal is paired with a price of its own hour; a lag never
  points backwards; skill has the sign that the errors have.

## 2. Plan

Written in this order, each module made to be proved about as well as checked
(constants with named assumptions, one action per statement, no recursive
operators).

1. `PaperLedger`, and `FillLog`, which extends it — done. 2. `Resolution`, which
extends it and refines it — done.
3. `ReadBudget`, refining `DailyMeter` — done. 4. `PostFilter`, refining
`SlidingWindow` — done.
5. `PostStore` and `SignalSeries`, which extends it — done: polls, the assets
`posts`, `stances` and `signals`, and `augury refresh`.
6. `FileBudget` — done. 7. `MarketSeries`, `SimMarket`, which extends it and refines
`PriceTracker`, and `MarketScores`, which extends that — done: the assets
`market_prices` and `sim_prices`, the simulation of a refresh, the slice, and the
pairing of `_freeze_scores`.

What could follow: `WalkForward`, the windows of `backtest.cpp` and the index
arithmetic of `decay.py` against reference definitions.

Every safety property that a passing run checks is now a theorem. Still to prove:
what holds of two jobs that overlap (`LoneJobLosesOnlyTheOld` is for one), and of
several watchers' realized P&L, which the runs show to change.

## 3. The modules

### PaperLedger

`ledger_fills` is represented by what it adds up to (`replay`: the quantity of each
action, cash, paid-out P&L and the number of settlements and trades), the row of
`positions` by `position`, and a writer's locals by `task`. A row of the log has an
action and a quantity above zero, as in the code: a negative delta is a sale of its
absolute value (`PaperTradingService.java:100`), and a settlement says how many shares
it closed, not on which side (`steps.py:609`); a row's `side` follows from its action.
Only the update of the position has the sign (`qty` of a `Fill`). `rebalance`
(`PaperTradingService.java:79`) and `_settle_position` (`steps.py:586`) are each
three actions, one per statement that commits: `Rebalance` or `Settle` is the
read, with the early returns as guards and the fill computed from what was read;
`RecordFill` the insert; `ApplyToPosition` the upsert, which adds the deltas to
the row *as it is then*. Between any two, other writers act, or the writer dies
(`Crash`; a raised SQL error is the same to the database).

`PositionsDeriveFromFills` says how far the log determines the position. Cash and
realized P&L are sums of signed columns and exact. Shares are bought less sold until
a settlement is logged, and after a settlement at YES its cash flow tells the sign. At
NO the cash flow is zero, and the shares are only within the closed quantity of it.

Prices are numbers of 1/Scale and amounts of 1/Scale², so that `p * q` is exact.
No writer ever makes `qty_no` nonzero, so one signed quantity stands for
`qty_yes - qty_no`. `dropped` is a history variable: the fills whose writer died
before it applied them. `rebalance` has no caller in production code yet, only
tests; the model lets any API thread call it with any signal and mark.

### FillLog

The rows of the log, each as it is inserted and in their order, beside the ledger of
`PaperLedger`, whose actions it takes as they are. It asks whether a replay of the whole
log, which `003_ledger_and_scores.sql:9` calls the source of truth, could recover a
position.

### Resolution

Extends the ledger with the market rows (`row`: the outcome, and whether the close
time is known; by `settled_iff_outcome` the status is `settled` exactly when there
is an outcome), the final scores (`finals`: how many, by market, version and the
outcome they were computed against), the locals of `resolve_markets` (`watcher`)
and of `sync_config` (`syncer`). One action per statement: `Sweep` is the query of
`open_markets_past_close`; `FetchMarket` or `FetchFails` the venue call;
`UpsertFetched` stores the row and continues only with an outcome; `FreezeScore`
one insert per model version with aligned history, in any order; `CloseOut`,
`SettlementFill` and `SettlementApply` are the ledger's three statements, or
`NothingToClose` the early return. `WatcherDies` covers a crash and any exception
after the fetch, since both end the sweep; the history variable `abandoned` notes the
market it died on after the row was stored. `SyncFetch` falls back on the config
when the venue fails, and `PersistSlice` always stores the config's market, which
is open and without a close time.

A fetched market always has a close time in the model: the row of a market that
the venue reports without one would merely leave the watcher's queue.

### ReadBudget and DailyMeter

A worker's call is `Reserve` (the conditional upsert: the whole page is taken, or
nothing), `Serve` (X answers and charges for the posts it returned) or `Lose` (a
failed request: its reservation stands, `forfeited`), then `Release` (the unused
part goes back to *today's* row). `charged` is what X billed, by the day of the
reservation. `Midnight` advances the database's `CURRENT_DATE`; with `Overnight`
FALSE it waits for calls in flight. `DailyMeter` is the promise: each step spends
within a day's limit, or spends nothing.

### PostFilter and SlidingWindow

`window`, `index`, `frontSeq` and `nextSeq` are the fields of `DuplicateDetector`.
A signature is a function from bands to rows of hash values, and a bucket key is a
band with its rows; FNV is taken as injective, since a collision only adds a
candidate that the threshold then rejects. An absent bucket is the empty set,
because `evict_front` removes emptied buckets. `ApplyMut` is `apply_mut` with all
of `check`: the candidates, the verdict, the eviction, the push, in that order.
`suspect` is what `heuristic_reject` says, an input. Text without a shingle has no
signature and leaves the detector alone (`ApplyMutBlank`). `NewPoll` is the new
filter of the next poll. `SlidingWindow` is the abstract filter, which has no index
and scans the remembered posts.

### PostStore and SignalSeries

`PostStore` has the table `posts` (`stored`: a row is a post with its timestamp,
like the table's key; of the verdict it keeps whether the post is accepted), X
(`created`) and the polls of the ingest. `PollFetch` is the search and `PollStore`
the filter, new for each poll, with the insert transaction (`main.rs:265-278`); a
failed insert and a crash are `PollLost`. `Answers` are what a search may return:
the newest posts of the lookback. With `Replay` TRUE the source is the fixture,
whose timestamps each run shifts so that its newest post is new (`CreatedAt`).

`SignalSeries` adds `stances` (the rows that have one), `bars` (the table
`signals`, by the rows each bar was aggregated from) and the locals of the jobs.
Each asset is its read followed by its write, and other jobs act in between:
`FetchPosts`/`StorePosts`, `ReadBacklog`/`InsertStances`, and `LoadScored` followed
by one `InsertSignal` per bar. `RefreshFetch`, `RefreshStore`, `RefreshScore` and
again `InsertSignal` are `augury refresh`, which hands its posts on without reading
them back. The series is computed at the instant of the load, or of the stance
insert of a refresh. `Points` and `Contributions` are the grid and the window of
`build_signal_series` and `compute_signal`.

Time is in units, with `BarLen` units to the bar; `MaxAge` is both
`SIGNAL_MAX_AGE` and the window of the asset, seven days each. No two posts have the
same timestamp. There is one market and one model version, since every query is
scoped to both. The value of S(t), the half-life and the prices it depends on are
left out.

### FileBudget

`file` is the object that `_load` makes of the file, from days to counts, and
`readable` whether it parses. A search is the steps of `LiveXBackend.search` and of the
budget under it: `Check` raises when the page does not fit; `AttemptLost` is an attempt
whose answer never arrives, whatever X billed for it, after which the session retries or
gives up; `Answer`; `LoadBook` reads the file again and adds the answer to the count of
*that* day, keeping the newest days (`Pruned`); `SaveBook` renames the new object into
place. `Fails` is the death of the process, an answer that does not parse or a file that
`record` cannot read.

Damage to the file is one of two. `Corrupt` leaves what does not parse: it can then only
be replaced by a save already prepared. `Blank` leaves what `_load` reads as `{}`: JSON
that is no object (`budget.py:65`), or no file. `billed`, `lost` and `forgotten` are
history: what X billed by day, what of it belongs to calls that recorded nothing, and
what the file counted when it was made to read as empty. `MaxLost` and `MaxForgotten`
bound the last two. Damage that leaves an object with other counts is not modelled.

### MarketSeries

The table `market_prices` (`prices`, by time and source) and the table `signals`
(one p_hat per bar and version) of one market, whose venue is either. `shown` is what
the venue showed at each time: the bids and asks of the YES token, and the last trade.
The wire formats are modelled by what they do: `KalshiWire` has bids for YES and bids
for NO; `TokenWire` is one token's book, and the tokens may come in either order.
`KalshiBook`, `PolymarketBook` and the two candles are the clients' readings of them.
A poll is `PollHistory` and `PollBook`, each of which may fail and leave nothing, and
`PollStore`, the upsert of both. Prices are parts of `Top`; only even ones are quoted,
so that a middle is exact. What a signal is worth is an input (`Targets`); its rules
are those of `SignalSeries`.

### SimMarket and PriceTracker

`simulate_lmsr` with the LMSR market under it. A price is handled by its log-odds
(`Logit`, any increasing function): in LMSR they are (q_yes - q_no)/b, so that
calibration, recalibration and trading are linear and nothing else of the exponentials
is needed. Division is the integers'; the part of a gap that is traded is rounded. The
asset reads the signals and then the prices (`LoadSignals`, `LoadPrices`), and a refresh
has both in hand (`RefreshStore`, `RefreshSignals`); `SimStep` is one turn of the loop
and `SimSave` the upsert of the path. `from` and `anchor` are history: the times of the
books that the liquidity and the opening price were taken from. `PriceTracker` is the
promise: runs that close a part of the gap to each bar's signal in order, from some
opening price, with no liquidity at all. The values stored in `sim_prices` stay in
the local `path` of the run; of the table only that it has a path is kept, since
nothing reads it back.

### MarketScores

`run_slice` (`Slice`, `SlicePrints` or `SliceStores`, `SliceSignals` and then `SimSave`)
and `_freeze_scores` (`FreezeReads`, `FreezeScores`, `FreezeRecords`, `WatcherDies`),
each with its own way of pairing a signal with the price of its hour: `SlicePairs`
takes the last row of the hour that has a price, `FrozenPairs` the last row if it has
one. A Brier score is kept as the sum of the squared errors, whose mean it is, and the
skill score as its sign. `Lags` has, for each lag, which bars are compared; the
correlations are left out. The slice's market is built from the configuration and
always open (`config.py:286`), so its scoring branch has no action.

## 4. The runs

Passing runs. Each of their properties has a mutant: a plausible bug in a mapped
definition that makes TLC report the property.

| Run | Instance | Shows |
|---|---|---|
| `resolution_truth` | 1 market, 2 watchers, 2 traders, 1 sync, all may die, 2 rewrites | `RecordsTellTheTruth`, whatever races; `PositionsDeriveFromFills`: the row is what the log tells but for fills in flight and dropped ones; `SettledHasFill` |
| `resolution_live` | 2 markets, one of which is traded, 1 watcher that may die anywhere, 1 trader that may die, 2 trades, 2 versions, fairness, nothing that rewrites rows | `PaidOutOnce`, `RealizedIsFinal` and `FinalOnce` through deaths, failed calls and trades during and after the close-out; `ScoredUnlessAbandoned`: only the death of a watcher in the middle of a market leaves it unscored; `ResolvedIsScored` and `ResolvedIsClosedOut` as liveness; `ImplementsLedger` (the refinement) |
| `budget_same_day` | 3 workers, limit 5, pages 1, 2, 3 and 6, 2 days | `AccountsBalance`, `SpendWithinLimit`, and `ImplementsMeter` (the refinement) |
| `budget_midnight` | 2 workers, limit 3, 3 days, calls in flight at midnight | `TypeOK` (no negative row), `CeilingHolds`, `OverspendBounded` |
| `filter_window` | 2 bands of 2 hashes, 8 signatures, capacity 2, polls of 5 posts | `IndexMatchesWindow`, `AcceptedAreDistinct`, and `ImplementsWindow` (the refinement) |
| `file_budget_lone` | 1 process, limit 3, pages of 1 or 2 from requests of 0, 1, 2 and 9, 1 retry, 3 days of which 2 are kept, 1 read lost and 3 counts forgotten a day | `BookWithinLimit`, `SpendBounded`, `NothingGivenBack` |
| `market_series` | 1 market on either venue, 2 books of which one has no bids, tokens in the order NO, YES, 2 bars, 1 process that polls, simulates, refreshes or slices, 1 watcher that may die | `PricesTellTheVenue`, `LiquidityIsCurrent`, `PricesAreOfTheHour`, `SkillIsEarned`, `FrozenWithinSlice`, and `ImplementsTracker` (the refinement) |
| `series_live` | live X, 2 near-duplicate posts of which one has no weight, 1 poll, 1 reliable job, 1 job that may die and may be a refresh, fairness | `NothingFromTheFuture`, `NothingDangles`, `EachPostOnce`, `FirstVerdictStands`; `AcceptedIsCounted` as liveness |

Runs that end in a violation, each a finding: the code does what the model shows,
and a comment or document says otherwise.

| Run | Property | What happens |
|---|---|---|
| `resolution_crash` | `SettledIsScored` | a watcher dies after it stored the settled row: no later sweep returns the market |
| `series_rerun` | `BarsKeepTheirPosts` | the asset `signals` loads seven days of posts but recomputes every bar since the oldest of them, so it overwrites the bars at the start of that window with values from fewer posts; in the end a bar keeps little more than its last hour |
| `sim_lookahead` | `NoLookahead` | a simulation opens at the middle of the latest book, here of the wide one, polled after the only bar that there is; the bar's price is one trade away from that middle |
| `ledger_replay` | `FillsDeterminePosition` | one market is sold short and bought back past zero by a trade in flight during the close-out, and keeps two shares; the other is bought before it is closed out, and keeps none; both logs have the same sale, purchase and settlement at NO |

**Other behaviours** of the same kind. The first seven are counterexamples that TLC
gives when a configuration is changed as noted; the rest was seen while modelling.

- Two watchers (the schedule and the CLI) both read the open position and both pay it
  out: `resolution_live` with two `Settlers`, `PaidOutOnce`.
- Of two watchers, one may ask the venue before the result and store its answer, an open
  market, after the other has stored the result (`steps.py:496` stores what was fetched,
  whatever it is): the settled row is open again, the next sweep takes it up, and the
  market can be scored three times, where otherwise both watchers score it once:
  `resolution_live` with two `Settlers`, `FinalOnce` (for the reopened row
  `RowsStaySettled` of `ResolutionProofs` as a property).
- A sync that fell back on the config reopens a settled row; the next good sync
  restores its close time and the watcher scores it again: `resolution_live` with a
  syncer and two rewrites, `FinalOnce`.
- Under fixture replay, the default, each run gives the same posts new timestamps,
  which are part of the key: they are stored, scored and counted again. `series_live`
  with `Replay` TRUE and `Start` 1, `EachPostOnce`.
- Two processes of the Python side check the file budget together, and one save
  overwrites the other's count: `file_budget_lone` with `Procs = {p1, p2}`,
  `SpendBounded`. `budget.py:17` has it that each service stays bounded.
- A budget file that holds JSON but no object, or none at all, reads as nothing used
  (`budget.py:65`), and today's count is gone: `file_budget_lone` with
  `CorruptIsRefused` as a property. The comment at `budget.py:58` has it that a corrupt
  ledger "must not read as 'zero reads used'", and the test of it
  (`test_clients_and_config.py:198`) writes a file that does not parse.
- With calls in flight at midnight (`budget_midnight`, where `OverspendBounded` is the
  most that holds) a reservation of yesterday is refunded to today's row, which makes
  room for more than the limit: `SpendWithinLimit` holds only without them.
- A rebalance that read before the settlement and writes after it leaves shares in a
  settled row, and so does one that runs later (`rebalance` never looks at `settled`);
  two concurrent rebalances of a market add the same delta twice and pass the position
  limit (where rebalances do not overlap, `LoneTraderKeepsLimit` is what they keep). A
  flat position is never marked settled, so a trade after the resolution opens one for
  good.
- A `sync_config` that sees the result before the watcher does stores the settled row
  itself, and nobody freezes the scores.
- Lags are positions in the table of pairs, not hours: an hour without a price has no
  row (`slice.py`, `leadlag.cross_correlation`), and the lag after it is longer than the
  "+kh" that the slice prints. `LagsPointForward` of `MarketProofs` therefore says "at
  least k hours".
- The price that a signal is paired with is the last of its hour, hence up to an hour
  later than the signal: the two are of the same hour, not of "the same timestamps"
  (`scoring.py:11`).
- `_freeze_scores` takes every bar on record, those after the close too, while
  `resolved_signal_pairs` (`db.py:565`) leaves them out of the Platt fit.
- The asset, a refresh and `slice --persist` all write the path of run id `live`, bar
  by bar, although "independent price paths ... must never be merged"
  (`sim_tick.schema.json`).
- A writer that dies between its fill and its update leaves a fill that no position
  reflects and nothing replays (`dropped` in the model), though
  `003_ledger_and_scores.sql` says that positions are derivable from fills.
- Each poll filters with an empty window and sees the newest post first, so of two
  near-duplicates in one poll of live X the later is kept, and of two in different
  polls both are. What the ingest rejected `augury refresh` scores and counts all the
  same, and what the pipeline stores first was never filtered.

**Bounds and why they suffice.** Markets do not interact in the ledger, so one is
enough there; the watcher's liveness run has two, since one market's failure could
affect another, of which one is traded. Two traders and two watchers give every pairing
of the writers' statements; a third writer would need two others to interfere twice.
`MaxTrades` bounds the fills that a market may have when a rebalance starts, so that
with 1 two traders can still race, and with 2 a single one trades an open position,
during its close-out and after it. `MaxSettles` (2) lets a settlement be repeated. In
`resolution_crash`, where nothing is traded, only the scores matter.
Prices 0, 1/2 and 1 make edges of both signs and none. `MaxRewrites` (2) is the
failed sync and the good one. Pages of 1 to 6 with limits 3 and 5 make a page fit
exactly, nearly and not at all; the bound of `OverspendBounded` is reached. Two
bands of two hashes with threshold 2 have pairs that are alike without sharing a
band, which the banding misses, and pairs it cannot miss; capacity 2 with 5 posts
has three evictions. In `series_live` a bar is 2 units, `MaxAge` 4 and time ends at
6, so that there are three bars after the first, a post can age out of the window,
and a bar be recomputed with it and without it; `BatchLimit` 1 with two posts makes
a backlog. `series_rerun` goes on to 8 with a single job. In `file_budget_lone` pages
of 1 and 2 fit a limit of 3 exactly, nearly and not at all; requests of 0 and 9 are
raised and cut to the page; the third day is the first that makes the file forget one;
a file may be blanked at any count that it can reach, and again after a day's budget
was spent anew.
In `market_series` time runs from 1 to 2 with a bar at 0 and at 2, so that a bar lies
before the first poll, a poll falls in the instant of a bar and one between two; the
wide book gives a fit of b and the one-sided book the fallback, so b changes in a run.
Its signal has one value, 5, which is on either side of the prices that the books give;
longer series and other values are left to the theorems, which cover all of its
properties. Two bars leave no hour without a price between them, so that lags are left
to a theorem alone (`LagsAreHours`), and no price is 0 or 1, so that a market that was
right at every hour is too (`SkillsAreEarned`).

**Deadlock** is not checked in the ledger, resolution, series and both kinds of budget
runs, whose systems come to rest: every market settled, every trade made, the last
day's budget spent, the last unit of time passed. It is checked in `filter_window`,
`market_series` and `sim_lookahead`.

**Fairness** (`FairSpec`). The schedule runs `augury_resolution` every hour
(`orchestrator.py:449`), so the watcher's next step is not put off for ever: weak
fairness of `WatcherStep`. A market stays in the queue until it is settled, so the
venue is asked again every hour; that it answers at some time is strong fairness of
`FetchMarket`: failures may come again and again, but not for ever. Close times
pass (weak fairness). Nothing is assumed of traders, of syncs, or of the venue
publishing a result. The watcher may die anywhere and is started again by the next
schedule; that it does not always die between the venue's answer and the upsert is
strong fairness of `UpsertFetched`. What a watcher leaves behind when it dies later,
in `abandoned`, is excepted from the promises, since `resolution_crash` shows that
they fail for it.

In `series_live` the schedule runs the assets every 15 minutes
(`orchestrator.py:443`): the job that does not die finishes what it has begun (weak
fairness of its writes), and among its other work starts `stances` and `signals`
again and again (strong fairness of `ReadBacklog` and `LoadScored`). Time passes. A
job that dies is some other process; of it, of the polls, of refreshes and of posts
appearing nothing is assumed. `AcceptedIsCounted` excepts a post that gets too old
before it is counted, which `ORDER BY created_at DESC LIMIT` permits.

## 5. The proofs

`tlapm` checks all of them, for every value of the constants that the named
assumptions allow: each `...Assumption` is in the module that declares the constants,
and is what the configuration or the code guarantees. Traders and watchers are
finitely many, like the processes they stand for. A theorem that needs more says so in
its own ASSUME, and the table in brackets.

`SetLemmas` has the facts that several components need: least and greatest numbers, and
the laws of sums over finite sets. The library's induction theorems take a property as
an operator, which the provers cannot instantiate; `SubsetInduction` takes the *set* of
those that have the property instead, and rests on the strict subsets of a finite set
being well-founded.

| Module | Theorem | Rests on |
|---|---|---|
| `LedgerProofs` | `LedgerTypesAreKept`, `SettledRowsHaveFill` | the types; a settlement about to be applied is in the log (`SettleLogged`) |
| `LedgerProofs` | `PositionsAreDerived` | `DerivedInv`: the property with the types and the signs of the fills in hand; the laws of sums |
| `LedgerProofs` | `EachWatcherPaysOnce` | `CountInv`: a payout is dropped, in a watcher's hand, or of a settled row |
| `LedgerProofs` | `LoneWatcherPaysOnce`, `LoneWatcherPnlIsFinal` (at most one watcher) | `PaidInv` |
| `LedgerProofs` | `LoneTraderKeepsLimit` (at most one trader) | `LimitInv` |
| `ResolutionProofs` | `TypesAreKept` | `TypeOK`, which ties a watcher's locals to the fill it has in hand |
| `ResolutionProofs` | `RecordsStayTrue` | `TruthInv` |
| `ResolutionProofs` | `ResolutionImplementsLedger` (its steps are those of `PaperLedger`) | `TruthInv` |
| `ResolutionProofs` | `ResolutionKeepsTheLedger`; `LoneWatcherKeepsTheLedger` (at most one watcher) | the above, and the ledger's theorems |
| `ResolutionProofs` | `SettledAreScored` (no rewrites) | `ScoredInv` |
| `ResolutionProofs` | `LoneWatcherScoresOnce`, `LoneWatcherKeepsRowsSettled` (at most one watcher, no rewrites) | `OnceInv` |
| `ReadBudgetProofs` | `CeilingAlwaysHolds` | the ceiling with the types |
| `ReadBudgetProofs` | `BooksBalance`, `BillStaysWithinLimit`, `BudgetImplementsMeter` (no call in flight at midnight) | the balance `used = charged + outstanding + forfeited` |
| `ReadBudgetProofs` | `BudgetTypesAreKept` | a refund larger than the new day's row empties it |
| `ReadBudgetProofs` | `OvernightBillIsBounded` (some worker) | `OverInv` |
| `FileBudgetProofs` | `FileTypesAreKept` | the types, and that no day is counted before it begins |
| `FileBudgetProofs` | `LoneBookWithinLimit`, `LoneSpendBounded`, `LoneGivesNothingBack` (one process) | `LoneInv` |
| `FilterProofs` | `IndexStaysInStep` | `IndexInv` |
| `FilterProofs` | `FilterImplementsWindow` (the refinement of `SlidingWindow`) | `IndexInv`; a best candidate exists (`BestExists`) and is an original of the window (`BestsAreOriginals`) |
| `FilterProofs` | `FilterTypesAreKept` | `IndexInv` and `AnswersInv` |
| `FilterProofs` | `AcceptedPostsAreDistinct` | `IndexInv`, `AnswersInv`, and that signatures without a common bucket differ in each band (`MissedDiffer`) |
| `SeriesProofs` | `SeriesTypesAreKept`, `VerdictsStand` | the types |
| `SeriesProofs` | `SeriesIsCausal` | the types, and that bars a job has in hand lie in the past (`PointsPast`) |
| `SeriesProofs` | `ScoresHaveTheirPosts` | what a job has in hand after its first commit is stored (`HandsStored`) |
| `SeriesProofs` | `LivePostsCountOnce` (live posts) | every row anywhere has its post's timestamp (`DatedInv`) |
| `SeriesProofs` | `LoneJobLosesOnlyTheOld` (at most one job, no refresh) | `LoadedInv` |
| `MarketProofs` | `StoredPricesAreTheVenues` | `MarketInv` |
| `MarketProofs` | `BarsHaveTheirLiquidity` | `SimInv` |
| `MarketProofs` | `SimulationsTrackSignals` (the refinement of `PriceTracker`) | `SimInv` and `ReportsInv` |
| `MarketProofs` | `TradesNearTheSignal`, `SimulatedPricesAreOdds` | the tracker's trade; a part of a gap is between nothing and the gap (`PartIsBetween`) |
| `MarketProofs` | `LagsAreHours` | the positions of bars and their hours |
| `MarketProofs` | `PairsAreOfTheHour`, `ScoresAreWithinSlices` | `PairsInv`, `MarketInv` |
| `MarketProofs` | `ScoreTypesAreKept` | `TypeInv` |
| `MarketProofs` | `SkillsAreEarned` | `SkillInv`; the laws of sums |

Why the invariants are strengthened:

- *`RecordsTellTheTruth`* is not inductive. A row and a score are written from what
  was fetched several commits before. With `FetchesAreTrue` it is: the venue answers
  once and for all, so a fetched outcome stays true while it is carried, and every
  write takes it from there. `PayoutsAreTrue` also needs the fills in flight to pay
  at the outcome.
- *`PositionsDeriveFromFills`* needs the sign that each fill in hand has
  (`FillsSayTheirSign`): a purchase adds what it logs, a sale takes as much away, and a
  settlement at YES pays what it takes. A fill that is recorded enters the log and the
  sum of those in flight, which are a writer's each; applying it takes it from that sum
  and adds it to the row, death to what was dropped. So each step changes one term of a
  sum, and `SumWithOneMore` and `SumsAgree` say what that does.
- *`PaidOncePerWatcher`* counts: while a row is not settled, each payout in the log was
  dropped or is in the hand of a watcher of its own, so there are at most as many as
  there are watchers; once it is settled nobody reads it to pay it out, and the payouts
  with those still to be written are no more than that. It is what holds of several
  watchers, for whom `PaidOutOnce` fails.
- *`PaidOutOnce`* needs to know that what the lone watcher read is still so when it
  writes: a settlement in hand belongs to a watcher, its market is published and its
  row not yet settled (`SettlesUnsettled`), and without a settlement that is applied
  or about to be, every settlement in the log was dropped (`SettlesCounted`). Two
  watchers break the first, as section 4 says.
- *`PositionsWithinLimit`*: a lone rebalance trades the difference between its target and
  the row it read, which only settlements have changed since. An unsettled row is still
  as it was read, so that the trade reaches the target. Both that row, with the trade in
  hand or without, and a settlement in hand are within the limit, hence their sum is
  within twice the limit; the lone watcher makes no second one of a settled row.
- *`ResolutionImplementsLedger`*: the watcher's `CloseOut` settles at the outcome it
  fetched, the ledger's `SettleStep` at the outcome that the venue published. They are
  the same because of `FetchesAreTrue`; a watcher's death maps to a writer's, or to
  nothing when it had no fill in hand.
- *`SpendWithinLimit`* follows from the balance and the ceiling: what X billed is at
  most the row, which is at most the limit. A refund on another day breaks the
  balance; then only the ceiling holds.
- *`IndexMatchesWindow`* is inductive with the types. Eviction is the difficult step:
  `frontSeq` becomes the second entry's number, or `nextSeq` when the window empties,
  in both cases one more than before, so that slots shift with the window; and since
  arrival numbers are distinct, unlinking the head's takes no other post out of a
  bucket.
- *`ImplementsWindow`*: the posts retrieved from the index are those of the window that
  are comparable, because arrival numbers and slots agree (`IndexFindsComparable`);
  among them there is a best, since every set of pairs of numbers has a least. The code
  evicts before it pushes and the abstract filter forgets after it, and both leave the
  last `Capacity` posts. *`AcceptedAreDistinct`* is preserved by eviction, and a new
  post is accepted only if no comparable one reaches the threshold; signatures that
  share no bucket differ in some hash of each band, which maps the bands one to one
  into the hashes that differ.
- *`ScoredUnlessAbandoned`* needs `ScoredOrInHand`: a settled market is scored for a
  version, or some watcher in its freezing step has that version still to do, which
  holds with any number of watchers. *`FinalOnce`* needs that the lone watcher's work
  is new (`WorkIsNew`): the markets in its queue are not settled in the table, what it
  has in hand to store is not in the queue, and the versions still to score have none;
  and an unsettled market has no scores. A second watcher breaks `WorkIsNew` with the
  same market in its queue, and a rewritten row makes a scored market unsettled.
  `RowsStaySettled` follows, since what is in hand to store is of an unsettled row.
- *`OverspendBounded`*: the balance does not hold overnight, and an inequality does.
  What was charged on a day plus *all* reads in flight is at most the row plus a page
  for each worker but one (`TodaysBill`). It is established by the request that creates
  the row, whose worker has nothing else in flight; a refund of an earlier day's request
  lowers the row and the reads in flight alike, and a clamped one the row by less. When
  the day is over its bill can only be completed from its own requests (`PastBill`).
- *`NothingDangles`* needs to follow the rows from hand to hand: a stance is written
  after its post whether a job read the post from the table or, in a refresh, has
  just stored it. *`EachPostOnce`* follows from what the key relies on: a live
  post's timestamp never changes once it is known, in any table or hand. Replay
  breaks just that, as section 4 says.
- *`LosesOnlyTheOld`* says how much of a bar the run `series_rerun` can lose. A job's
  load has every score of the last `MaxAge` (`Recent`), which stays so while it writes its
  bars, since time only takes rows out of `Recent` and nobody else scores; and a bar
  counts only what has a score. A second job may write bars from an earlier load, and a
  refresh from the posts that it fetched.
- *`LoneInv`*: the check says that there is room for the page on the day of the
  check, and the answer may be counted on a later day. There is room then too
  (`HasRoom`): nobody else writes, so a day that had not begun at the check counts
  nothing, and a page that fits at all fits there. The bill of a day is covered
  (`IsCovered`) by what the file counts as long as the day can still be written to,
  and by the limit afterwards, when pruning may have forgotten it. What the file counted
  when it was made to read as empty is excused, like the reads of failed calls
  (`Excused`): room only grows by it. A second process breaks `HasRoom`.
- *`PricesTellTheVenue`* needs the same of every table in a job's hands: what the
  venue showed at a time in the past does not change, so a row is right whenever it
  is stored and however often. Best prices are chosen from finite sets of levels in
  the clients' convention and inverted, and the proofs show that the best bid for NO
  is the best ask of YES.
- *`LiquidityIsCurrent`* needs that the book in use is the first of all or not later
  than any bar ahead (`FromIsEarly`): the loop replaces it as soon as there is a later
  one, except before the first book.
- *`ImplementsTracker`* needs that q is always b times a whole number of log-odds.
  Then q * b' / b is exact, so that recalibration keeps the price, and a trade adds the
  same to the price whatever b is. A step of the loop maps to `Trade`, the opening to
  `Open`, the save and a death to `Close`, and all else to a stutter.
- *`NeverOvershoots`* follows from the refinement: a trade adds `Part(gap)` to the price,
  and with a responsiveness in (0, 1] that lies between 0 and the gap, rounding included.
  Since a run opens within the log-odds of the prices, and each signal is among them, it
  stays there (`PricesStayInOdds`).
- *`SkillIsEarned`* is about two sums over the same hours. Errors are natural numbers, so
  a sum is less than another if each of its terms is and there is one (`SumGrows`), and a
  reference without error leaves no room for less.
- *`PricesAreOfTheHour`* needs that the pairs in a report or a score are rows of the
  tables that they were made from, all of which tell the venue; time passing only adds
  to what was shown. *`LagsPointForward`* compares positions with hours: the bars
  between two bars map one to one into the hours between them, so k positions are at
  least k hours.

**Only model-checked**: liveness (`AcceptedIsCounted`, `ResolvedIsScored`,
`ResolvedIsClosedOut`), which is beyond the proof system used under fairness. The
four properties that a run shows to fail (`SettledIsScored`, `BarsKeepTheirPosts`,
`NoLookahead`, `FillsDeterminePosition`) are no theorems; `SettledAreScored`,
`LoneJobLosesOnlyTheOld`, `BarsHaveTheirLiquidity` and `PositionsAreDerived` say what
holds instead. `CorruptIsRefused` fails as section 4 says, and
`LoneGivesNothingBack` is what holds instead. `PaidOncePerWatcher`, `RowsStaySettled`,
`LagsPointForward`, `PositionsWithinLimit`, `LosesOnlyTheOld`, `NeverOvershoots` and
`PricesStayInOdds` are stated in the proof modules and have no run of their own.

## 6. Not modelled

- *Real-valued models*: the stance models, decay weights, calibration, the LMSR cost
  function and the C++ engine, correlations, Granger tests and the R report have no
  exact finite counterpart, and most of them no state. What is discrete about them is
  modelled: which posts count at a bar, which book a bar may see, the arithmetic of the
  market maker in log-odds, which bars a lag compares, which series are analysed at all,
  the sign of the skill.
- *Platt calibration*: `calibration_fit` and `augury calibrate` read settled markets and
  print; the fit is stored nowhere.
- *Streaming API*: what is buffered, dropped or delivered is decided by Reactor's
  multicast sink and by each socket's demand; the repository constructs the sink
  (`StreamConfiguration.java:43`) and ignores a failed emit. Its comment promises a new
  subscriber "never a backlog", by `replay().limit(0)`, which the code does not use;
  whether the first subscriber gets one is the library's answer, not this source's.
- *Schema migrations*: a migration is applied in one transaction and recorded in
  another. All statements of the three files say `IF NOT EXISTS`, so applying one again,
  after a crash or in two runs, changes nothing.
- *Backtest*: walk-forward windows are index arithmetic without state, for a reference
  definition of its own (section 2).
- Formatting, logging, configuration parsing and the fixtures carry no behaviour of
  interest. Valuation and the portfolio summary only read.
