----------------------------- MODULE Resolution -----------------------------
(***************************************************************************)
(* The life of a market row and its resolution.  The venue publishes an    *)
(* outcome; the resolution watcher (steps.resolve_markets) polls the       *)
(* markets past their close time, stores what the venue says, freezes the  *)
(* final scores and closes the paper position.  Every write is a           *)
(* transaction of its own, and the row is marked settled first.            *)
(* Meanwhile sync_config and `slice --persist` rewrite the same rows, and  *)
(* the API's rebalance trades the same positions (module PaperLedger).     *)
(*                                                                         *)
(* A row is its resolved outcome and whether its close time is known: by   *)
(* Market.__post_init__ and the constraint settled_iff_outcome, the status *)
(* is `settled` exactly when there is an outcome; what the other statuses  *)
(* are makes no difference to the code modelled here.                      *)
(***************************************************************************)
EXTENDS PaperLedger

CONSTANTS
    Versions,       \* stance model versions
    Scorable,       \* [Markets -> SUBSET Versions]: have aligned history
    Syncers,        \* processes running sync_config
    MaxRewrites     \* bound: rows rewritten by sync_config or a slice

ASSUME ResolutionAssumption ==
    /\ Scorable \in [Markets -> SUBSET Versions]
    /\ MaxRewrites \in Nat

VARIABLES
    due,        \* [Markets -> BOOLEAN] the close time has passed
    row,        \* [Markets -> record]  the row of `markets`
    finals,     \* [Markets -> [Versions -> [Outcomes -> Nat]]] final scores
    watcher,    \* [Settlers -> record] resolve_markets, its locals
    syncer,     \* [Syncers -> record]  sync_config, its locals
    rewrites,   \* how many rows sync_config and slices have rewritten
    abandoned   \* history: markets whose watcher died after it stored the
                \* settled row, before it had scored and closed them

marketVars == <<due, row, finals, watcher, syncer, rewrites, abandoned>>
vars == <<outcome, ledgerVars, marketVars>>

\* A watcher's locals: the markets still to do, and for the one in hand the
\* outcome it fetched and the model versions it has yet to score.
Local(step, queue, market, seen, versions) ==
    [step |-> step, queue |-> queue, market |-> market, seen |-> seen,
     versions |-> versions]

Asleep == Local("idle", {}, None, None, {})
NoSync == [market |-> None, row |-> [outcome |-> None, close |-> FALSE]]

\* A market enters through a good sync_config while it is still open.
Init ==
    /\ LedgerInit
    /\ due = [m \in Markets |-> FALSE]
    /\ row = [m \in Markets |-> [outcome |-> None, close |-> TRUE]]
    /\ finals = [m \in Markets |-> [v \in Versions |-> [o \in Outcomes |-> 0]]]
    /\ watcher = [w \in Settlers |-> Asleep]
    /\ syncer = [y \in Syncers |-> NoSync]
    /\ rewrites = 0
    /\ abandoned = {}

-----------------------------------------------------------------------------
(* What the venue answers, and the rows that are written from it.          *)

\* Mutant: an empty `result` is read as "no".
FetchedOutcomeGuess(m) == IF outcome[m] = 1 THEN 1 ELSE 0

\* get_market: '' until the market settles, then 'yes' or 'no'.
FetchedOutcome(m) == outcome[m]

FetchedRow(o) == [outcome |-> o, close |-> TRUE]

\* The market as load_market_config builds it: open, with no close time.
ConfigRow == [outcome |-> None, close |-> FALSE]

\* Mutant: settled markets are not filtered out.
WorkQueueAll == {m \in Markets : row[m].close /\ due[m]}

\* open_markets_past_close: tracked, not settled, close time known and past.
WorkQueue == {m \in Markets : row[m].outcome = None /\ row[m].close /\ due[m]}

-----------------------------------------------------------------------------
(* resolve_markets.                                                        *)

Sweep(w) ==
    /\ watcher[w].step = "idle"
    /\ WorkQueue # {}
    /\ watcher' = [watcher EXCEPT ![w] = Local("next", WorkQueue, None, None, {})]
    /\ UNCHANGED <<outcome, ledgerVars, due, row, finals, syncer, rewrites, abandoned>>

FetchMarket(w, m) ==
    /\ watcher[w].step = "next"
    /\ m \in watcher[w].queue
    /\ watcher' = [watcher EXCEPT ![w] =
          Local("upsert", @.queue \ {m}, m, FetchedOutcome(m), {})]
    /\ UNCHANGED <<outcome, ledgerVars, due, row, finals, syncer, rewrites, abandoned>>

\* The venue call raises: logged, and on to the next market.
FetchFails(w, m) ==
    /\ watcher[w].step = "next"
    /\ m \in watcher[w].queue
    /\ watcher' = [watcher EXCEPT ![w] =
          Local("next", @.queue \ {m}, None, None, {})]
    /\ UNCHANGED <<outcome, ledgerVars, due, row, finals, syncer, rewrites, abandoned>>

SweepEnds(w) ==
    /\ watcher[w].step = "next"
    /\ watcher[w].queue = {}
    /\ watcher' = [watcher EXCEPT ![w] = Asleep]
    /\ UNCHANGED <<outcome, ledgerVars, due, row, finals, syncer, rewrites, abandoned>>

\* Back to the loop, with nothing of the last market left in hand.
NextMarket(w) == Local("next", watcher[w].queue, None, None, {})

\* Mutant: a row that is not settled yet is frozen and closed out all the same.
UpsertFetchedUnchecked(w) ==
    LET m == watcher[w].market
    IN /\ watcher[w].step = "upsert"
       /\ row' = [row EXCEPT ![m] = FetchedRow(watcher[w].seen)]
       /\ watcher' = [watcher EXCEPT ![w] =
             Local("freeze", @.queue, m, @.seen, Scorable[m])]
       /\ UNCHANGED <<outcome, ledgerVars, due, finals, syncer, rewrites, abandoned>>

\* Mutant: `if not fresh.resolved_outcome`, which takes a NO for no outcome.
UpsertFetchedFalsy(w) ==
    LET m == watcher[w].market
        seen == watcher[w].seen
    IN /\ watcher[w].step = "upsert"
       /\ row' = [row EXCEPT ![m] = FetchedRow(seen)]
       /\ watcher' = [watcher EXCEPT ![w] =
             IF seen \in {0, None}
             THEN NextMarket(w)
             ELSE Local("freeze", @.queue, m, seen, Scorable[m])]
       /\ UNCHANGED <<outcome, ledgerVars, due, finals, syncer, rewrites, abandoned>>

UpsertFetched(w) ==
    LET m == watcher[w].market
        seen == watcher[w].seen
    IN /\ watcher[w].step = "upsert"
       /\ row' = [row EXCEPT ![m] = FetchedRow(seen)]
       /\ watcher' = [watcher EXCEPT ![w] =
             IF seen = None
             THEN NextMarket(w)
             ELSE Local("freeze", @.queue, m, seen, Scorable[m])]
       /\ UNCHANGED <<outcome, ledgerVars, due, finals, syncer, rewrites, abandoned>>

\* Mutant: only one model version is scored.
FreezeScoreFirst(w, v) ==
    /\ watcher[w].step = "freeze"
    /\ v \in watcher[w].versions
    /\ finals' = [finals EXCEPT ![watcher[w].market][v][watcher[w].seen] = @ + 1]
    /\ watcher' = [watcher EXCEPT ![w] =
          Local("freeze", @.queue, @.market, @.seen, {})]
    /\ UNCHANGED <<outcome, ledgerVars, due, row, syncer, rewrites, abandoned>>

\* One INSERT INTO scores per model version, in no particular order.
FreezeScore(w, v) ==
    LET m == watcher[w].market
    IN /\ watcher[w].step = "freeze"
       /\ v \in watcher[w].versions
       /\ finals' = [finals EXCEPT ![m][v][watcher[w].seen] = @ + 1]
       /\ watcher' = [watcher EXCEPT ![w] =
             Local("freeze", @.queue, m, @.seen, @.versions \ {v})]
       /\ UNCHANGED <<outcome, ledgerVars, due, row, syncer, rewrites, abandoned>>

\* _settle_position: its read, or its early return.
CloseOut(w) ==
    LET m == watcher[w].market
    IN /\ watcher[w].step = "freeze"
       /\ watcher[w].versions = {}
       /\ Settle(w, m, watcher[w].seen)
       /\ watcher' = [watcher EXCEPT ![w] =
             Local("closing", @.queue, m, @.seen, {})]
       /\ UNCHANGED <<due, row, finals, syncer, rewrites, abandoned>>

NothingToClose(w) ==
    /\ watcher[w].step = "freeze"
    /\ watcher[w].versions = {}
    /\ ~HasOpenPosition(watcher[w].market)
    /\ watcher' = [watcher EXCEPT ![w] = NextMarket(w)]
    /\ UNCHANGED <<outcome, ledgerVars, due, row, finals, syncer, rewrites, abandoned>>

SettlementFill(w) == RecordFill(w) /\ UNCHANGED marketVars

SettlementApply(w) ==
    /\ ApplyToPosition(w)
    /\ watcher' = [watcher EXCEPT ![w] = NextMarket(w)]
    /\ UNCHANGED <<due, row, finals, syncer, rewrites, abandoned>>

\* The watcher dies, or any statement raises: the sweep is over, and what was
\* committed stays.
WatcherDies(w) ==
    /\ w \in Crashing
    /\ watcher[w] # Asleep
    /\ watcher' = [watcher EXCEPT ![w] = Asleep]
    /\ task' = [task EXCEPT ![w] = Idle]
    /\ dropped' = DroppedWith(w)
    /\ abandoned' = IF watcher[w].step \in {"freeze", "closing"}
                    THEN abandoned \union {watcher[w].market} ELSE abandoned
    /\ UNCHANGED <<outcome, replay, position, due, row, finals, syncer, rewrites>>

-----------------------------------------------------------------------------
(* The other writers of `markets`, and the world.                          *)

\* sync_config asks the venue, and falls back on the config when that fails.
SyncFetch(y, m) ==
    /\ syncer[y] = NoSync
    /\ rewrites < MaxRewrites
    /\ \E r \in {FetchedRow(FetchedOutcome(m)), ConfigRow} :
          syncer' = [syncer EXCEPT ![y] = [market |-> m, row |-> r]]
    /\ rewrites' = rewrites + 1
    /\ UNCHANGED <<outcome, ledgerVars, due, row, finals, watcher, abandoned>>

SyncUpsert(y) ==
    /\ syncer[y] # NoSync
    /\ row' = [row EXCEPT ![syncer[y].market] = syncer[y].row]
    /\ syncer' = [syncer EXCEPT ![y] = NoSync]
    /\ UNCHANGED <<outcome, ledgerVars, due, finals, watcher, rewrites, abandoned>>

\* `slice --persist` stores the market as the config describes it.
PersistSlice(m) ==
    /\ rewrites < MaxRewrites
    /\ row' = [row EXCEPT ![m] = ConfigRow]
    /\ rewrites' = rewrites + 1
    /\ UNCHANGED <<outcome, ledgerVars, due, finals, watcher, syncer, abandoned>>

CloseTimePasses(m) ==
    /\ ~due[m]
    /\ due' = [due EXCEPT ![m] = TRUE]
    /\ UNCHANGED <<outcome, ledgerVars, row, finals, watcher, syncer, rewrites, abandoned>>

VenuePublishes(m, o) == Publish(m, o) /\ UNCHANGED marketVars

TradeStep(t) == Trade(t) /\ UNCHANGED marketVars

TraderDies(t) == Crash(t) /\ UNCHANGED marketVars

WatcherStep(w) ==
    \/ Sweep(w)
    \/ \E m \in Markets : FetchMarket(w, m) \/ FetchFails(w, m)
    \/ SweepEnds(w)
    \/ UpsertFetched(w)
    \/ \E v \in Versions : FreezeScore(w, v)
    \/ CloseOut(w) \/ NothingToClose(w)
    \/ SettlementFill(w) \/ SettlementApply(w)

Next ==
    \/ \E w \in Settlers : WatcherStep(w) \/ WatcherDies(w)
    \/ \E y \in Syncers : SyncUpsert(y) \/ \E m \in Markets : SyncFetch(y, m)
    \/ \E t \in Traders : TradeStep(t) \/ TraderDies(t)
    \/ \E m \in Markets :
          \/ PersistSlice(m)
          \/ CloseTimePasses(m)
          \/ \E o \in Outcomes : VenuePublishes(m, o)

Spec == Init /\ [][Next]_vars

\* The schedule runs the watcher again and again, its process is scheduled,
\* close times pass, a venue asked again and again does answer, and a watcher
\* started again and again does not always die right after the answer.
Fairness ==
    /\ \A w \in Settlers : WF_vars(WatcherStep(w))
    /\ \A w \in Settlers, m \in Markets :
          /\ SF_vars(FetchMarket(w, m))
          /\ SF_vars(watcher[w].market = m /\ UpsertFetched(w))
    /\ \A m \in Markets : WF_vars(CloseTimePasses(m))

FairSpec == Spec /\ Fairness

-----------------------------------------------------------------------------
(* Properties.                                                             *)

MarketRow == [outcome : Outcomes \union {None}, close : BOOLEAN]

WatcherType ==
    [step : {"idle", "next", "upsert", "freeze", "closing"},
     queue : SUBSET Markets, market : Markets \union {None},
     seen : Outcomes \union {None}, versions : SUBSET Versions]

\* The types, and what a watcher's step says of its locals: it has a market in
\* hand from the fetch on, and an outcome once it writes scores (the assert of
\* _freeze_scores and _settle_position).
TypeOK ==
    /\ LedgerTypeOK
    /\ due \in [Markets -> BOOLEAN]
    /\ row \in [Markets -> MarketRow]
    /\ finals \in [Markets -> [Versions -> [Outcomes -> Nat]]]
    /\ watcher \in [Settlers -> WatcherType]
    /\ \A w \in Settlers :
          /\ watcher[w].step \in {"upsert", "freeze", "closing"}
                => watcher[w].market \in Markets
          /\ watcher[w].step \in {"freeze", "closing"} => watcher[w].seen # None
          /\ task[w] # Idle => /\ watcher[w].step = "closing"
                               /\ task[w].market = watcher[w].market
    /\ syncer \in [Syncers -> [market : Markets, row : MarketRow] \union {NoSync}]
    /\ rewrites \in Nat
    /\ abandoned \subseteq Markets

RowsAreTrue ==
    \A m \in Markets : row[m].outcome # None => row[m].outcome = outcome[m]

ScoresAreTrue ==
    \A m \in Markets, v \in Versions, o \in Outcomes :
        finals[m][v][o] > 0 => outcome[m] = o

PayoutsAreTrue ==
    \A m \in Markets :
        /\ position[m].settled => outcome[m] # None
        /\ \A a \in Actors : Settles(task[a]) /\ task[a].market = m =>
              /\ outcome[m] # None
              /\ task[a].cash = (-task[a].qty) * outcome[m] * Scale

\* Whatever crashes, races or is rewritten from the config, nothing on record
\* contradicts the venue: a settled row carries the published outcome, a final
\* score was computed against it, a settled position belongs to a resolved
\* market, and a settlement in flight pays the shares at that outcome (001:
\* "Guards against ... freezing a Brier score against a NULL outcome").
RecordsTellTheTruth == RowsAreTrue /\ ScoresAreTrue /\ PayoutsAreTrue

Attended(m) == \E w \in Settlers : watcher[w].market = m

FinalScores(m, v) == finals[m][v][0] + finals[m][v][1]

\* A score is frozen once: no model version gets a second final score for a
\* market (003: "the score will not change again"), though the watcher may die
\* anywhere and sweep again.
FinalOnce == \A m \in Markets, v \in Versions : FinalScores(m, v) <= 1

\* A market recorded as settled has its final scores, unless a watcher is still
\* at it: nothing marks a row settled and leaves the freezing to nobody
\* (resolve_markets: "For each newly resolved market this freezes a final
\* Brier/BSS into `scores`").
SettledIsScored ==
    \A m \in Markets : row[m].outcome # None /\ ~Attended(m) =>
        \A v \in Scorable[m] : FinalScores(m, v) > 0

\* The only markets that are settled and stay unscored are those whose watcher
\* died on them: races, failed venue calls and deaths at any other point leave
\* none behind.
ScoredUnlessAbandoned ==
    \A m \in Markets \ abandoned : row[m].outcome # None /\ ~Attended(m) =>
        \A v \in Scorable[m] : FinalScores(m, v) > 0

\* Every market that resolves is in the end, and for good, recorded as settled
\* and scored for every version with history, however often the venue call
\* fails or the watcher dies before it stores the row.
ResolvedIsScored ==
    \A m \in Markets :
        outcome[m] # None ~>
            []\/ m \in abandoned
              \/ /\ row[m].outcome = outcome[m]
                 /\ \A v \in Scorable[m] : FinalScores(m, v) > 0

OpenPosition(m) == position[m].qty # 0 /\ ~position[m].settled

\* A position that is open when its market resolves, and before the watcher has
\* recorded that, is closed in the end, whoever trades it meanwhile.
ResolvedIsClosedOut ==
    \A m \in Markets :
        (outcome[m] # None /\ row[m].outcome = None /\ OpenPosition(m))
            ~> (m \in abandoned \/ ~OpenPosition(m))

\* The watcher trades positions only as PaperLedger says: it settles a market
\* the venue has resolved, at the published outcome, one statement at a time.
ImplementsLedger == LedgerSpec
=============================================================================
