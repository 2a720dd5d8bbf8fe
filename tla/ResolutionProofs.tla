-------------------------- MODULE ResolutionProofs --------------------------
(***************************************************************************)
(* Theorems about Resolution: for any markets, watchers, traders, syncers, *)
(* versions, prices and bounds, its types are kept and what it records     *)
(* agrees with the venue.                                                  *)
(***************************************************************************)
EXTENDS Resolution, LedgerProofs

USE DEF Fill, Settles, Logged

(* TypeOK is inductive; its conjuncts on the ledger are disturbed by the   *)
(* actions of PaperLedger, and the others by those of Resolution.          *)

LEMMA TypeInit == Init => TypeOK
<1> SUFFICES ASSUME Init PROVE TypeOK
  OBVIOUS
<1> USE DEF Init, LedgerInit
<1>1. LedgerTypeOK
  BY DEF LedgerTypeOK, TaskType, Idle
<1>2. watcher \in [Settlers -> WatcherType]
  BY DEF Asleep, Local, WatcherType
<1>3. syncer \in [Syncers -> [market : Markets, row : MarketRow] \union {NoSync}]
  BY DEF NoSync
<1>4. row \in [Markets -> MarketRow]
  BY DEF MarketRow
<1>5. \A w \in Settlers : watcher[w].step = "idle" /\ task[w] = Idle
  BY DEF Asleep, Local, Actors
<1> QED
  BY <1>1, <1>2, <1>3, <1>4, <1>5, ResolutionAssumption DEF TypeOK

\* TypeOK holds of a state whose variables are those of a state it holds of.
LEMMA TypeStutter == TypeOK /\ UNCHANGED vars => TypeOK'
BY DEF TypeOK, LedgerTypeOK, vars, ledgerVars, marketVars

\* A watcher's locals are typed, and hold what was put there.
LEMMA LocalType ==
    ASSUME NEW step \in {"idle", "next", "upsert", "freeze", "closing"},
           NEW queue \in SUBSET Markets, NEW market \in Markets \union {None},
           NEW seen \in Outcomes \union {None}, NEW versions \in SUBSET Versions
    PROVE  /\ Local(step, queue, market, seen, versions) \in WatcherType
           /\ Local(step, queue, market, seen, versions).step = step
           /\ Local(step, queue, market, seen, versions).market = market
           /\ Local(step, queue, market, seen, versions).seen = seen
BY DEF Local, WatcherType

\* A watcher's step that leaves the ledger alone keeps TypeOK, if it keeps the
\* types of what it does write.
LEMMA LocalStepType ==
    ASSUME TypeOK, NEW w \in Settlers,
           watcher[w].step # "closing", watcher'[w].step # "closing",
           watcher' \in [Settlers -> WatcherType],
           \A x \in Settlers \ {w} : watcher'[x] = watcher[x],
           watcher'[w].step \in {"upsert", "freeze"} => watcher'[w].market \in Markets,
           watcher'[w].step = "freeze" => watcher'[w].seen # None,
           UNCHANGED <<outcome, ledgerVars, due, syncer, rewrites, abandoned>>,
           row' \in [Markets -> MarketRow],
           finals' \in [Markets -> [Versions -> [Outcomes -> Nat]]]
    PROVE  TypeOK'
<1>1. task' = task /\ LedgerTypeOK'
  BY DEF TypeOK, ledgerVars, LedgerTypeOK
<1> QED
  BY <1>1 DEF TypeOK

\* Each action of a watcher, by the locals it leaves.
LEMMA WatcherStepType ==
    ASSUME TypeOK, NEW w \in Settlers, WatcherStep(w)
    PROVE  TypeOK'
<1> DEFINE q == watcher[w].queue
           m == watcher[w].market
           seen == watcher[w].seen
           vs == watcher[w].versions
           Leaves(rec) == /\ watcher' \in [Settlers -> WatcherType]
                          /\ watcher'[w] = rec
                          /\ \A x \in Settlers \ {w} : watcher'[x] = watcher[x]
<1>1. /\ row \in [Markets -> MarketRow] /\ outcome \in [Markets -> Outcomes \union {None}]
      /\ finals \in [Markets -> [Versions -> [Outcomes -> Nat]]]
      /\ watcher \in [Settlers -> WatcherType]
      /\ q \subseteq Markets /\ m \in Markets \union {None}
      /\ seen \in Outcomes \union {None} /\ vs \subseteq Versions
      /\ watcher[w].step \in {"upsert", "freeze", "closing"} => m \in Markets
      /\ watcher[w].step \in {"freeze", "closing"} => seen \in Outcomes
      /\ None \notin Markets /\ None \notin Outcomes
  BY LedgerAssumption DEF TypeOK, WatcherType, Outcomes, LedgerTypeOK
<1> HIDE DEF q, m, seen, vs
<1>2. CASE Sweep(w)
  <2>1. Local("next", WorkQueue, None, None, {}) \in WatcherType
    BY LocalType DEF WorkQueue
  <2>2. Leaves(Local("next", WorkQueue, None, None, {}))
    BY <1>1, <1>2, <2>1 DEF Sweep
  <2>3. watcher'[w].step = "next"
    BY <2>2 DEF Local
  <2> QED
    BY <1>1, <1>2, <2>2, <2>3, LocalStepType DEF Sweep
<1>3. ASSUME NEW n \in Markets, FetchMarket(w, n)
      PROVE  TypeOK'
  <2> DEFINE rec == Local("upsert", q \ {n}, n, FetchedOutcome(n), {})
  <2>1. q \ {n} \in SUBSET Markets /\ FetchedOutcome(n) \in Outcomes \union {None}
    BY <1>1 DEF FetchedOutcome
  <2>2. rec \in WatcherType /\ rec.step = "upsert" /\ rec.market = n
    BY <2>1, LocalType
  <2>3. Leaves(rec)
    BY <1>1, <1>3, <2>2 DEF FetchMarket, q
  <2> HIDE DEF rec
  <2> QED
    BY <1>1, <1>3, <2>2, <2>3, LocalStepType DEF FetchMarket
<1>4. ASSUME NEW n \in Markets, FetchFails(w, n)
      PROVE  TypeOK'
  <2> DEFINE rec == Local("next", q \ {n}, None, None, {})
  <2>1. q \ {n} \in SUBSET Markets
    BY <1>1
  <2>2. rec \in WatcherType /\ rec.step = "next"
    BY <2>1, LocalType
  <2>3. Leaves(rec)
    BY <1>1, <1>4, <2>2 DEF FetchFails, q
  <2> HIDE DEF rec
  <2> QED
    BY <1>1, <1>4, <2>2, <2>3, LocalStepType DEF FetchFails
<1>5. CASE SweepEnds(w)
  <2>1. Asleep \in WatcherType /\ Asleep.step = "idle"
    BY LocalType DEF Asleep
  <2>2. Leaves(Asleep)
    BY <1>1, <1>5, <2>1 DEF SweepEnds
  <2> QED
    BY <1>1, <1>5, <2>1, <2>2, LocalStepType DEF SweepEnds
<1>6. NextMarket(w) \in WatcherType /\ NextMarket(w).step = "next"
  BY <1>1, LocalType DEF NextMarket, q
<1>7. CASE UpsertFetched(w)
  <2>1. m \in Markets /\ Scorable[m] \in SUBSET Versions
    BY <1>1, <1>7, ResolutionAssumption DEF UpsertFetched
  <2>2. row' \in [Markets -> MarketRow]
    BY <1>1, <1>7 DEF UpsertFetched, FetchedRow, MarketRow, m, seen
  <2>3. CASE seen = None
    <3>1. Leaves(NextMarket(w))
      BY <1>1, <1>6, <1>7, <2>3 DEF UpsertFetched, seen
    <3> QED
      BY <1>1, <1>6, <1>7, <2>2, <3>1, LocalStepType DEF UpsertFetched
  <2>4. CASE seen # None
    <3> DEFINE rec == Local("freeze", q, m, seen, Scorable[m])
    <3>1. /\ rec \in WatcherType /\ rec.step = "freeze" /\ rec.market = m
          /\ rec.seen = seen
      BY <1>1, <2>1, LocalType
    <3>2. Leaves(rec)
      BY <1>1, <1>7, <2>4, <3>1 DEF UpsertFetched, q, m, seen
    <3> QED
      BY <1>1, <1>7, <2>1, <2>2, <2>4, <3>1, <3>2, LocalStepType DEF UpsertFetched
  <2> QED
    BY <2>3, <2>4
<1>8. ASSUME NEW v \in Versions, FreezeScore(w, v)
      PROVE  TypeOK'
  <2> DEFINE rec == Local("freeze", q, m, seen, vs \ {v})
  <2>1. m \in Markets /\ seen \in Outcomes
    BY <1>1, <1>8 DEF FreezeScore
  <2>2. /\ rec \in WatcherType /\ rec.step = "freeze" /\ rec.market = m
        /\ rec.seen = seen
    BY <1>1, LocalType
  <2>3. Leaves(rec)
    BY <1>1, <1>8, <2>2 DEF FreezeScore, q, m, seen, vs
  <2>4. finals' = [finals EXCEPT ![m][v][seen] = finals[m][v][seen] + 1]
    BY <1>8 DEF FreezeScore, m, seen
  <2>5. finals' \in [Markets -> [Versions -> [Outcomes -> Nat]]]
    BY <1>1, <2>1, <2>4
  <2> HIDE DEF rec
  <2> QED
    BY <1>1, <1>8, <2>1, <2>2, <2>3, <2>5, LocalStepType DEF FreezeScore
<1>9. CASE CloseOut(w)
  <2> DEFINE rec == Local("closing", q, m, seen, {})
  <2>1. m \in Markets /\ seen \in Outcomes
    BY <1>1, <1>9 DEF CloseOut
  <2>2. /\ rec \in WatcherType /\ rec.step = "closing" /\ rec.market = m
        /\ rec.seen = seen
    BY <1>1, LocalType
  <2>3. Leaves(rec)
    BY <1>1, <1>9, <2>2 DEF CloseOut, q, m, seen
  <2>4. Settle(w, m, seen) /\ LedgerTypeOK'
    BY <1>9, <2>1, LedgerStepType DEF CloseOut, TypeOK, Actors, m, seen
  <2>5. /\ task'[w].market = m
        /\ \A x \in Actors \ {w} : task'[x] = task[x]
    BY <2>4 DEF Settle, SettleFill, TypeOK, LedgerTypeOK, Actors
  <2> HIDE DEF rec
  <2> QED
    BY <1>1, <1>9, <2>1, <2>2, <2>3, <2>4, <2>5 DEF CloseOut, TypeOK, Actors
<1>10. CASE NothingToClose(w)
  <2>1. Leaves(NextMarket(w))
    BY <1>1, <1>6, <1>10 DEF NothingToClose
  <2> QED
    BY <1>1, <1>6, <1>10, <2>1, LocalStepType DEF NothingToClose
<1>11. CASE SettlementFill(w)
  <2>1. LedgerTypeOK'
    BY <1>11, LedgerStepType DEF SettlementFill, TypeOK, Actors
  <2>2. /\ task[w] # Idle /\ task'[w].market = task[w].market
        /\ \A x \in Actors \ {w} : task'[x] = task[x]
    BY <1>11 DEF SettlementFill, RecordFill, TypeOK, LedgerTypeOK, TaskType, Idle,
                 Actors
  <2> QED
    BY <1>11, <2>1, <2>2 DEF SettlementFill, marketVars, TypeOK, Actors
<1>12. CASE SettlementApply(w)
  <2>1. LedgerTypeOK'
    BY <1>12, LedgerStepType DEF SettlementApply, TypeOK, Actors
  <2>2. Leaves(NextMarket(w))
    BY <1>1, <1>6, <1>12 DEF SettlementApply
  <2>3. task'[w] = Idle /\ \A x \in Actors \ {w} : task'[x] = task[x]
    BY <1>12 DEF SettlementApply, ApplyToPosition, TypeOK, LedgerTypeOK, Actors
  <2> QED
    BY <1>1, <1>6, <1>12, <2>1, <2>2, <2>3 DEF SettlementApply, TypeOK, Actors
<1> QED
  BY <1>2, <1>3, <1>4, <1>5, <1>7, <1>8, <1>9, <1>10, <1>11, <1>12 DEF WatcherStep

\* Every step of the program and of the world keeps the types.
LEMMA TypeNext == TypeOK /\ [Next]_vars => TypeOK'
<1> SUFFICES ASSUME TypeOK, Next PROVE TypeOK'
  BY TypeStutter
<1>1. ASSUME NEW w \in Settlers, WatcherDies(w)
      PROVE  TypeOK'
  <2>1. Asleep \in WatcherType /\ Asleep.step = "idle"
    BY LocalType DEF Asleep
  <2>2. LedgerTypeOK'
    <3>1. DroppedWith(w) \in
            [Markets -> [qty : Int, cash : Int, paid : Int, settles : Nat]]
      BY DroppedType DEF TypeOK, Actors
    <3> QED
      BY <1>1, <3>1 DEF WatcherDies, TypeOK, LedgerTypeOK, TaskType
  <2>3. /\ watcher' \in [Settlers -> WatcherType] /\ watcher'[w] = Asleep
        /\ \A x \in Settlers \ {w} : watcher'[x] = watcher[x]
        /\ task'[w] = Idle /\ \A x \in Actors \ {w} : task'[x] = task[x]
    BY <1>1, <2>1 DEF WatcherDies, TypeOK, LedgerTypeOK, Actors
  <2> QED
    BY <1>1, <2>1, <2>2, <2>3 DEF WatcherDies, TypeOK, Actors
<1>2. ASSUME NEW y \in Syncers, SyncUpsert(y)
      PROVE  TypeOK'
  BY <1>2 DEF SyncUpsert, TypeOK, ledgerVars, LedgerTypeOK
<1>3. ASSUME NEW y \in Syncers, NEW m \in Markets, SyncFetch(y, m)
      PROVE  TypeOK'
  <2>1. FetchedRow(FetchedOutcome(m)) \in MarketRow /\ ConfigRow \in MarketRow
    BY DEF TypeOK, LedgerTypeOK, FetchedRow, FetchedOutcome, ConfigRow, MarketRow
  <2> QED
    BY <1>3, <2>1 DEF SyncFetch, TypeOK, ledgerVars, LedgerTypeOK
<1>4. ASSUME NEW t \in Traders, TradeStep(t) \/ TraderDies(t)
      PROVE  TypeOK'
  <2>1. t \in Actors /\ \A w \in Settlers : w # t /\ w \in Actors
    BY LedgerAssumption DEF Actors
  <2>2. LedgerTypeOK' /\ UNCHANGED marketVars
    BY <1>4, <2>1, LedgerStepType DEF TradeStep, TraderDies, Trade, TypeOK
  <2>3. \A x \in Actors \ {t} : task'[x] = task[x]
    BY <1>4, <2>1 DEF TradeStep, TraderDies, Trade, Rebalance, RecordFill,
       ApplyToPosition, Crash, TypeOK, LedgerTypeOK
  <2> QED
    BY <2>1, <2>2, <2>3 DEF TypeOK, marketVars
<1>5. ASSUME NEW m \in Markets, PersistSlice(m)
      PROVE  TypeOK'
  BY <1>5 DEF PersistSlice, ConfigRow, MarketRow, TypeOK, ledgerVars, LedgerTypeOK
<1>6. ASSUME NEW m \in Markets, CloseTimePasses(m)
      PROVE  TypeOK'
  BY <1>6 DEF CloseTimePasses, TypeOK, ledgerVars, LedgerTypeOK
<1>7. ASSUME NEW m \in Markets, NEW o \in Outcomes, VenuePublishes(m, o)
      PROVE  TypeOK'
  BY <1>7 DEF VenuePublishes, Publish, marketVars, TypeOK, ledgerVars, LedgerTypeOK
<1> QED
  BY <1>1, <1>2, <1>3, <1>4, <1>5, <1>6, <1>7, WatcherStepType DEF Next

\* No crash, race or rewrite leads the tables or the watchers' locals out of
\* their types (TypeOK): what the asserts of _freeze_scores and
\* _settle_position rely on, and the CHECK of ledger_fills.
THEOREM TypesAreKept == Spec => []TypeOK
BY TypeInit, TypeNext, PTL DEF Spec

(* RecordsTellTheTruth is not inductive: a row and a score are written from *)
(* what a watcher fetched some steps before.  With FetchesAreTrue it is.    *)

\* What a watcher or a sync_config fetched, and has yet to use, is the venue's
\* answer, which the venue gives once and for all.
FetchesAreTrue ==
    /\ \A w \in Settlers : watcher[w].seen # None =>
          /\ watcher[w].market \in Markets
          /\ watcher[w].seen = outcome[watcher[w].market]
    /\ \A y \in Syncers : syncer[y].row.outcome # None =>
          syncer[y].row.outcome = outcome[syncer[y].market]

TruthInv == TypeOK /\ RecordsTellTheTruth /\ FetchesAreTrue

LEMMA TruthInit == Init => TruthInv
<1> SUFFICES ASSUME Init PROVE TruthInv
  OBVIOUS
<1>1. \A w \in Settlers : watcher[w].seen = None
  BY DEF Init, Asleep, Local
<1>2. \A y \in Syncers : syncer[y].row.outcome = None
  BY DEF Init, NoSync
<1>3. \A a \in Actors : ~Settles(task[a])
  BY DEF Init, LedgerInit, Idle
<1>4. RowsAreTrue /\ ScoresAreTrue
  BY DEF Init, RowsAreTrue, ScoresAreTrue
<1>5. PayoutsAreTrue
  BY <1>3 DEF Init, LedgerInit, PayoutsAreTrue
<1> QED
  BY <1>1, <1>2, <1>4, <1>5, TypeInit DEF TruthInv, RecordsTellTheTruth, FetchesAreTrue

\* The venue answers once and for all, so what was true stays true.
LEMMA TruthSurvivesPublish ==
    ASSUME TruthInv, NEW n \in Markets, NEW r \in Outcomes, VenuePublishes(n, r)
    PROVE  RecordsTellTheTruth' /\ FetchesAreTrue'
<1> USE DEF TruthInv, RecordsTellTheTruth
<1>1. /\ outcome[n] = None /\ None \notin Outcomes
      /\ \A m \in Markets : outcome[m] # None => outcome'[m] = outcome[m]
      /\ UNCHANGED <<ledgerVars, marketVars>>
  BY LedgerAssumption
  DEF VenuePublishes, Publish, Outcomes, TypeOK, LedgerTypeOK
<1>2. UNCHANGED <<replay, position, task, row, finals, watcher, syncer>>
  BY <1>1 DEF ledgerVars, marketVars
<1>3. RowsAreTrue'
  BY <1>1, <1>2 DEF RowsAreTrue
<1>4. ScoresAreTrue'
  BY <1>1, <1>2 DEF ScoresAreTrue
<1>5. PayoutsAreTrue'
  BY <1>1, <1>2 DEF PayoutsAreTrue
<1>6. ASSUME NEW w \in Settlers, watcher[w].seen # None
      PROVE  /\ watcher[w].market \in Markets
             /\ watcher[w].seen = outcome'[watcher[w].market]
  BY <1>1, <1>6 DEF FetchesAreTrue
<1>7. ASSUME NEW y \in Syncers, syncer[y].row.outcome # None
      PROVE  syncer[y].row.outcome = outcome'[syncer[y].market]
  <2>1. syncer[y] # NoSync
    BY <1>7 DEF NoSync
  <2>2. syncer[y].market \in Markets
    BY <2>1 DEF TypeOK
  <2> QED
    BY <1>1, <1>7, <2>2 DEF FetchesAreTrue
<1>8. FetchesAreTrue'
  BY <1>2, <1>6, <1>7 DEF FetchesAreTrue
<1> QED
  BY <1>3, <1>4, <1>5, <1>8

\* A row is written from what was fetched, or from the config, which has no
\* outcome.
LEMMA RowsStayTrue ==
    ASSUME TruthInv, UNCHANGED outcome,
           \/ UNCHANGED row
           \/ \E w \in Settlers : UpsertFetched(w)
           \/ \E y \in Syncers : SyncUpsert(y)
           \/ \E m \in Markets : PersistSlice(m)
    PROVE  RowsAreTrue'
<1> USE DEF TruthInv, RecordsTellTheTruth, RowsAreTrue
<1>1. ASSUME NEW w \in Settlers, UpsertFetched(w)
      PROVE  RowsAreTrue'
  BY <1>1 DEF UpsertFetched, FetchedRow, FetchesAreTrue, TypeOK
<1>2. ASSUME NEW y \in Syncers, SyncUpsert(y)
      PROVE  RowsAreTrue'
  BY <1>2 DEF SyncUpsert, FetchesAreTrue, TypeOK
<1>3. ASSUME NEW m \in Markets, PersistSlice(m)
      PROVE  RowsAreTrue'
  BY <1>3 DEF PersistSlice, ConfigRow, TypeOK
<1> QED
  BY <1>1, <1>2, <1>3

\* A score is frozen against what was fetched.
LEMMA ScoresStayTrue ==
    ASSUME TruthInv, UNCHANGED outcome,
           \/ UNCHANGED finals
           \/ \E w \in Settlers, v \in Versions : FreezeScore(w, v)
    PROVE  ScoresAreTrue'
<1> USE DEF TruthInv, RecordsTellTheTruth, ScoresAreTrue
<1>1. ASSUME NEW w \in Settlers, NEW v \in Versions, FreezeScore(w, v)
      PROVE  ScoresAreTrue'
  <2> DEFINE m == watcher[w].market
             o == watcher[w].seen
  <2>1. m \in Markets /\ o # None /\ outcome[m] = o
    BY <1>1 DEF FreezeScore, FetchesAreTrue, TypeOK
  <2>2. finals' = [finals EXCEPT ![m][v][o] = finals[m][v][o] + 1]
    BY <1>1 DEF FreezeScore
  <2> HIDE DEF m, o
  <2>3. ASSUME NEW n \in Markets, NEW x \in Versions, NEW p \in Outcomes,
               ~(n = m /\ p = o)
        PROVE  finals'[n][x][p] = finals[n][x][p]
    BY <2>1, <2>2, <2>3 DEF TypeOK
  <2> QED
    BY <2>1, <2>3
<1> QED
  BY <1>1

\* A settlement pays at the outcome its watcher fetched; every other write of
\* the ledger leaves the fills in flight as they are, or drops one.
LEMMA PayoutsStayTrue ==
    ASSUME TruthInv, UNCHANGED outcome,
           \/ UNCHANGED <<position, task>>
           \/ \E w \in Settlers : CloseOut(w) \/ WatcherDies(w)
           \/ \E a \in Actors : RecordFill(a) \/ ApplyToPosition(a) \/ Crash(a)
           \/ \E t \in Traders, m \in Markets, pHat \in PHats, mark \in Marks :
                 Rebalance(t, m, pHat, mark)
    PROVE  PayoutsAreTrue'
<1> USE DEF TruthInv, RecordsTellTheTruth, PayoutsAreTrue
<1>1. /\ Traders \subseteq Actors /\ Settlers \subseteq Actors
      /\ task \in [Actors -> TaskType] /\ ~Settles(Idle)
  BY DEF Actors, TypeOK, LedgerTypeOK, Idle
<1>2. ASSUME NEW w \in Settlers, CloseOut(w)
      PROVE  PayoutsAreTrue'
  <2> DEFINE n == watcher[w].market
             held == position[n].qty
             fill == SettleFill(n, held, watcher[w].seen)
  <2>1. /\ n \in Markets /\ outcome[n] = watcher[w].seen /\ outcome[n] # None
        /\ outcome[n] \in Int
    BY <1>2 DEF CloseOut, FetchesAreTrue, TypeOK, LedgerTypeOK, Outcomes
  <2>2. task' = [task EXCEPT ![w] = fill] /\ UNCHANGED position
    BY <1>2 DEF CloseOut, Settle
  <2>3. held \in Int
    BY <2>1 DEF TypeOK, LedgerTypeOK
  <2>4. fill.market = n /\ fill.qty = -held /\ fill.cash = held * outcome[n] * Scale
    BY <2>1 DEF SettleFill
  <2>5. task'[w] = fill /\ \A a \in Actors \ {w} : task'[a] = task[a]
    BY <1>1, <2>2
  <2> HIDE DEF fill, held
  <2>6. (-fill.qty) = held
    BY <2>3, <2>4
  <2>7. fill.cash = (-fill.qty) * outcome[n] * Scale
    BY <2>4, <2>6
  <2> HIDE DEF n
  <2> QED
    BY <2>1, <2>2, <2>4, <2>5, <2>7
<1>3. ASSUME NEW a \in Actors, task' = [task EXCEPT ![a] = Idle], UNCHANGED position
      PROVE  PayoutsAreTrue'
  <2>1. task'[a] = Idle /\ \A b \in Actors \ {a} : task'[b] = task[b]
    BY <1>1, <1>3
  <2> QED
    BY <1>1, <1>3, <2>1
<1>4. ASSUME NEW a \in Actors, RecordFill(a)
      PROVE  PayoutsAreTrue'
  <2>1. ASSUME NEW b \in Actors
        PROVE  /\ task'[b].action = task[b].action /\ task'[b].market = task[b].market
               /\ task'[b].qty = task[b].qty /\ task'[b].cash = task[b].cash
    <3>1. task' = [task EXCEPT ![a].step = "apply"] /\ task[a].step = "fill"
      BY <1>4 DEF RecordFill
    <3>2. CASE b = a
      BY <1>1, <3>1, <3>2 DEF TaskType, Idle
    <3>3. CASE b # a
      BY <1>1, <3>1, <3>3
    <3> QED
      BY <3>2, <3>3
  <2>2. UNCHANGED position
    BY <1>4 DEF RecordFill
  <2> QED
    BY <2>1, <2>2
<1>5. ASSUME NEW a \in Actors, ApplyToPosition(a)
      PROVE  PayoutsAreTrue'
  <2>1. /\ task'[a] = Idle
        /\ \A b \in Actors \ {a} : task'[b] = task[b]
    BY <1>1, <1>5 DEF ApplyToPosition
  <2>2. task[a].market \in Markets
    BY <1>1, <1>5 DEF ApplyToPosition, TaskType, Idle
  <2>3. \A m \in Markets : position'[m].settled =>
            position[m].settled \/ (m = task[a].market /\ Settles(task[a]))
    BY <1>5, <2>2 DEF ApplyToPosition, TypeOK, LedgerTypeOK
  <2> QED
    BY <1>1, <1>5, <2>1, <2>3
<1>6. ASSUME NEW t \in Traders, NEW m \in Markets, NEW pHat \in PHats,
             NEW mark \in Marks, Rebalance(t, m, pHat, mark)
      PROVE  PayoutsAreTrue'
  <2>1. ~Settles(task'[t]) /\ \A b \in Actors \ {t} : task'[b] = task[b]
    BY <1>1, <1>6 DEF Rebalance, RebalanceFill
  <2> QED
    BY <1>1, <1>6, <2>1 DEF Rebalance
<1> QED
  BY <1>1, <1>2, <1>3, <1>4, <1>5, <1>6 DEF WatcherDies, Crash

\* What a watcher or a sync has in hand is what it fetched, until it moves on.
LEMMA FetchesStayTrue ==
    ASSUME TruthInv, UNCHANGED outcome,
           \/ UNCHANGED <<watcher, syncer>>
           \/ \E w \in Settlers : \/ WatcherStep(w) \/ WatcherDies(w)
           \/ \E y \in Syncers : \/ SyncUpsert(y)
                                  \/ \E m \in Markets : SyncFetch(y, m)
    PROVE  FetchesAreTrue'
<1> USE DEF TruthInv
<1>1. ASSUME NEW w \in Settlers, WatcherStep(w) \/ WatcherDies(w)
      PROVE  FetchesAreTrue'
  <2>1. UNCHANGED syncer /\ \A x \in Settlers \ {w} : watcher'[x] = watcher[x]
    BY <1>1 DEF WatcherStep, WatcherDies, Sweep, FetchMarket, FetchFails, SweepEnds,
       UpsertFetched, FreezeScore, CloseOut, NothingToClose, SettlementFill,
       SettlementApply, marketVars, TypeOK
  <2>2. ASSUME NEW m \in Markets, FetchMarket(w, m)
        PROVE  watcher'[w].market = m /\ watcher'[w].seen = outcome[m]
    BY <2>2 DEF FetchMarket, Local, FetchedOutcome, TypeOK
  <2>3. ASSUME \/ UpsertFetched(w) /\ watcher[w].seen # None
               \/ \E v \in Versions : FreezeScore(w, v)
               \/ CloseOut(w) \/ SettlementFill(w)
        PROVE  /\ watcher'[w].market = watcher[w].market
               /\ watcher'[w].seen = watcher[w].seen
    <3>1. CASE UpsertFetched(w) /\ watcher[w].seen # None
      BY <3>1 DEF UpsertFetched, Local, TypeOK
    <3>2. CASE \E v \in Versions : FreezeScore(w, v)
      BY <3>2 DEF FreezeScore, Local, TypeOK
    <3>3. CASE CloseOut(w)
      BY <3>3 DEF CloseOut, Local, TypeOK
    <3>4. CASE SettlementFill(w)
      BY <3>4 DEF SettlementFill, marketVars
    <3> QED
      BY <2>3, <3>1, <3>2, <3>3, <3>4
  <2>4. ASSUME \/ Sweep(w) \/ SweepEnds(w) \/ WatcherDies(w)
               \/ \E m \in Markets : FetchFails(w, m)
               \/ UpsertFetched(w) /\ watcher[w].seen = None
               \/ NothingToClose(w) \/ SettlementApply(w)
        PROVE  watcher'[w].seen = None
    BY <2>4 DEF Sweep, FetchFails, SweepEnds, UpsertFetched, NothingToClose,
       SettlementApply, WatcherDies, NextMarket, Asleep, Local, TypeOK
  <2>5. \/ watcher'[w].seen = None
        \/ \E m \in Markets : watcher'[w].market = m /\ watcher'[w].seen = outcome[m]
        \/ /\ watcher'[w].market = watcher[w].market
           /\ watcher'[w].seen = watcher[w].seen
    BY <1>1, <2>2, <2>3, <2>4 DEF WatcherStep
  <2> QED
    BY <1>1, <2>1, <2>5 DEF FetchesAreTrue
<1>2. ASSUME NEW y \in Syncers, SyncUpsert(y)
      PROVE  FetchesAreTrue'
  BY <1>2 DEF SyncUpsert, NoSync, FetchesAreTrue, TypeOK
<1>3. ASSUME NEW y \in Syncers, NEW m \in Markets, SyncFetch(y, m)
      PROVE  FetchesAreTrue'
  BY <1>3 DEF SyncFetch, FetchedRow, FetchedOutcome, ConfigRow, FetchesAreTrue, TypeOK
<1> QED
  BY <1>1, <1>2, <1>3 DEF FetchesAreTrue

LEMMA TruthNext == TruthInv /\ [Next]_vars => TruthInv'
<1> SUFFICES ASSUME TruthInv, [Next]_vars PROVE TruthInv'
  OBVIOUS
<1>1. TypeOK'
  BY TypeNext DEF TruthInv
<1>2. CASE UNCHANGED vars
  BY <1>1, <1>2 DEF vars, ledgerVars, marketVars, TruthInv, RecordsTellTheTruth,
     RowsAreTrue, ScoresAreTrue, PayoutsAreTrue, FetchesAreTrue
<1>3. ASSUME NEW m \in Markets, NEW o \in Outcomes, VenuePublishes(m, o)
      PROVE  TruthInv'
  BY <1>1, <1>3, TruthSurvivesPublish DEF TruthInv
<1>4. ASSUME UNCHANGED outcome,
             RowsAreTrue', ScoresAreTrue', PayoutsAreTrue', FetchesAreTrue'
      PROVE  TruthInv'
  BY <1>1, <1>4 DEF TruthInv, RecordsTellTheTruth
<1>5. ASSUME NEW w \in Settlers, WatcherStep(w) \/ WatcherDies(w)
      PROVE  TruthInv'
  <2>1. w \in Actors
    BY DEF Actors
  <2>2. /\ UNCHANGED outcome
        /\ UNCHANGED row \/ UpsertFetched(w)
        /\ UNCHANGED finals \/ \E v \in Versions : FreezeScore(w, v)
        /\ \/ UNCHANGED <<position, task>>
           \/ CloseOut(w) \/ WatcherDies(w) \/ RecordFill(w) \/ ApplyToPosition(w)
    BY <1>5 DEF WatcherStep, WatcherDies, Sweep, FetchMarket, FetchFails, SweepEnds,
       UpsertFetched, FreezeScore, CloseOut, NothingToClose, SettlementFill,
       SettlementApply, Settle, RecordFill, ApplyToPosition, ledgerVars, marketVars
  <2> QED
    BY <1>4, <1>5, <2>1, <2>2, RowsStayTrue, ScoresStayTrue, PayoutsStayTrue,
       FetchesStayTrue
<1>6. ASSUME NEW y \in Syncers,
             SyncUpsert(y) \/ \E m \in Markets : SyncFetch(y, m)
      PROVE  TruthInv'
  <2>1. /\ UNCHANGED <<outcome, finals, position, task>>
        /\ UNCHANGED row \/ SyncUpsert(y)
    BY <1>6 DEF SyncUpsert, SyncFetch, ledgerVars
  <2> QED
    BY <1>4, <1>6, <2>1, RowsStayTrue, ScoresStayTrue, PayoutsStayTrue,
       FetchesStayTrue
<1>7. ASSUME NEW t \in Traders, TradeStep(t) \/ TraderDies(t)
      PROVE  TruthInv'
  <2>1. t \in Actors
    BY DEF Actors
  <2>2. /\ UNCHANGED <<outcome, row, finals, watcher, syncer>>
        /\ \/ RecordFill(t) \/ ApplyToPosition(t) \/ Crash(t)
           \/ \E m \in Markets, pHat \in PHats, mark \in Marks :
                 Rebalance(t, m, pHat, mark)
    BY <1>7 DEF TradeStep, TraderDies, Trade, Rebalance, RecordFill,
       ApplyToPosition, Crash, marketVars
  <2> QED
    BY <1>4, <2>1, <2>2, RowsStayTrue, ScoresStayTrue, PayoutsStayTrue,
       FetchesStayTrue
<1>8. ASSUME NEW m \in Markets, PersistSlice(m) \/ CloseTimePasses(m)
      PROVE  TruthInv'
  <2>1. /\ UNCHANGED <<outcome, finals, position, task, watcher, syncer>>
        /\ UNCHANGED row \/ PersistSlice(m)
    BY <1>8 DEF PersistSlice, CloseTimePasses, ledgerVars
  <2> QED
    BY <1>4, <2>1, RowsStayTrue, ScoresStayTrue, PayoutsStayTrue, FetchesStayTrue
<1> QED
  BY <1>2, <1>3, <1>5, <1>6, <1>7, <1>8 DEF Next

\* Whatever dies, races or is rewritten from the config, for any number of
\* markets, watchers and traders: nothing on record contradicts the venue.
THEOREM RecordsStayTrue == Spec => []RecordsTellTheTruth
<1>1. TruthInv => RecordsTellTheTruth
  BY DEF TruthInv
<1> QED
  BY <1>1, TruthInit, TruthNext, PTL DEF Spec

(* Resolution is a ledger.  Its writers of positions do what PaperLedger    *)
(* lets them, since the outcome a watcher closes out at is the venue's; all *)
(* else it does leaves the ledger alone.                                    *)

LEMMA ResolutionStepsLedger ==
    TruthInv /\ [Next]_vars => [LedgerNext]_<<outcome, ledgerVars>>
<1> SUFFICES ASSUME TruthInv, [Next]_vars
             PROVE  LedgerNext \/ UNCHANGED <<outcome, ledgerVars>>
  OBVIOUS
<1>1. Settlers \subseteq Actors /\ Traders \subseteq Actors
  BY DEF Actors
<1>2. ASSUME NEW w \in Settlers, CloseOut(w)
      PROVE  LedgerNext
  <2> DEFINE m == watcher[w].market
  <2>1. m \in Markets /\ watcher[w].seen = outcome[m] /\ outcome[m] # None
    BY <1>2 DEF CloseOut, TruthInv, TypeOK, FetchesAreTrue
  <2>2. Settle(w, m, outcome[m])
    BY <1>2, <2>1 DEF CloseOut
  <2>3. SettleStep(w)
    BY <2>1, <2>2 DEF SettleStep
  <2> QED
    BY <2>3 DEF LedgerNext
<1>3. ASSUME NEW w \in Settlers, SettlementFill(w) \/ SettlementApply(w)
      PROVE  LedgerNext
  BY <1>3 DEF SettlementFill, SettlementApply, SettleStep, LedgerNext
<1>4. ASSUME NEW w \in Settlers, WatcherDies(w)
      PROVE  LedgerNext \/ UNCHANGED <<outcome, ledgerVars>>
  <2>1. CASE task[w] = Idle
    <3>1. DroppedWith(w) = dropped /\ [task EXCEPT ![w] = Idle] = task
      BY <1>1, <2>1 DEF DroppedWith, Idle, TruthInv, TypeOK, LedgerTypeOK
    <3> QED
      BY <1>4, <3>1 DEF WatcherDies, ledgerVars
  <2>2. CASE task[w] # Idle
    BY <1>1, <1>4, <2>2 DEF WatcherDies, Crash, LedgerNext
  <2> QED
    BY <2>1, <2>2
<1>5. ASSUME NEW w \in Settlers, WatcherStep(w)
      PROVE  LedgerNext \/ UNCHANGED <<outcome, ledgerVars>>
  BY <1>2, <1>3, <1>5 DEF WatcherStep, Sweep, FetchMarket, FetchFails, SweepEnds,
     UpsertFetched, FreezeScore, NothingToClose
<1>6. ASSUME NEW t \in Traders, TradeStep(t) \/ TraderDies(t)
      PROVE  LedgerNext
  BY <1>1, <1>6 DEF TradeStep, TraderDies, LedgerNext
<1>7. ASSUME NEW m \in Markets, NEW o \in Outcomes, VenuePublishes(m, o)
      PROVE  LedgerNext
  BY <1>7 DEF VenuePublishes, LedgerNext
<1>8. ASSUME NEW y \in Syncers, SyncUpsert(y) \/ \E m \in Markets : SyncFetch(y, m)
      PROVE  UNCHANGED <<outcome, ledgerVars>>
  BY <1>8 DEF SyncUpsert, SyncFetch
<1>9. ASSUME NEW m \in Markets, PersistSlice(m) \/ CloseTimePasses(m)
      PROVE  UNCHANGED <<outcome, ledgerVars>>
  BY <1>9 DEF PersistSlice, CloseTimePasses
<1>10. CASE UNCHANGED vars
  BY <1>10 DEF vars
<1> QED
  BY <1>4, <1>5, <1>6, <1>7, <1>8, <1>9, <1>10 DEF Next

\* Whatever watchers, syncs and slices do to the rows of `markets`, and wherever
\* they die, the ledger under them behaves as PaperLedger says: a watcher settles
\* at the published outcome (the assert of _settle_position), and its death is
\* the death of a writer.
THEOREM ResolutionImplementsLedger == Spec => ImplementsLedger
<1>1. Init => LedgerInit
  BY DEF Init
<1> QED
  BY <1>1, ResolutionStepsLedger, TruthInit, TruthNext, PTL
  DEF Spec, LedgerSpec, ImplementsLedger

\* So what holds of the ledger holds under resolution: positions derive from
\* fills, settled rows have theirs, and each watcher pays a market out once.
THEOREM ResolutionKeepsTheLedger ==
    Spec => [](PositionsDeriveFromFills /\ SettledHasFill /\ PaidOncePerWatcher)
BY ResolutionImplementsLedger, PositionsAreDerived, SettledRowsHaveFill,
   EachWatcherPaysOnce, PTL DEF ImplementsLedger

\* And with a single watcher a market is paid out once and its P&L is final,
\* however its row is rewritten and whenever the watcher dies and sweeps again.
THEOREM LoneWatcherKeepsTheLedger ==
    ASSUME \A r, s \in Settlers : r = s
    PROVE  Spec => []PaidOutOnce /\ RealizedIsFinal
BY ResolutionImplementsLedger, LoneWatcherPaysOnce, LoneWatcherPnlIsFinal, PTL
DEF ImplementsLedger

(* Scores.  Without rewrites of the rows from elsewhere, a market that is   *)
(* settled is either scored for a version, or a watcher in hand is about to *)
(* score it; and with one watcher, only markets without scores get that far.*)

Undisturbed == rewrites = 0 /\ \A y \in Syncers : syncer[y] = NoSync

AboutToScore(w, m, v) ==
    watcher[w].step = "freeze" /\ watcher[w].market = m /\ v \in watcher[w].versions

ScoredOrInHand ==
    \A m \in Markets \ abandoned : row[m].outcome # None =>
        \A v \in Scorable[m] :
            FinalScores(m, v) > 0 \/ \E w \in Settlers : AboutToScore(w, m, v)

ScoredInv == TypeOK /\ Undisturbed /\ ScoredOrInHand

LEMMA UndisturbedStays ==
    ASSUME MaxRewrites = 0, Undisturbed, [Next]_vars
    PROVE  Undisturbed' /\ UNCHANGED <<rewrites, syncer>>
<1>1. \A y \in Syncers, m \in Markets : ~SyncFetch(y, m) /\ ~SyncUpsert(y)
  BY DEF Undisturbed, SyncFetch, SyncUpsert
<1>2. \A m \in Markets : ~PersistSlice(m)
  BY DEF Undisturbed, PersistSlice
<1>3. \A y \in Syncers : ~SyncUpsert(y)
  BY DEF Undisturbed, SyncUpsert
<1>4. UNCHANGED <<rewrites, syncer>>
  BY <1>1, <1>2, <1>3 DEF Next, WatcherStep, WatcherDies, Sweep, FetchMarket,
     FetchFails, SweepEnds, UpsertFetched, FreezeScore, CloseOut, NothingToClose,
     SettlementFill, SettlementApply, TradeStep, TraderDies, CloseTimePasses,
     VenuePublishes, marketVars, vars
<1> QED
  BY <1>4 DEF Undisturbed

\* Every step is a watcher's, or one that leaves the watchers, their scores and
\* the rows alone.
LEMMA QuietSteps ==
    ASSUME MaxRewrites = 0, Undisturbed, [Next]_vars
    PROVE  \/ UNCHANGED <<row, finals, watcher, abandoned>>
           \/ \E w \in Settlers : WatcherStep(w) \/ WatcherDies(w)
<1>1. \A y \in Syncers : ~SyncUpsert(y)
  BY DEF Undisturbed, SyncUpsert
<1>2. \A m \in Markets : ~PersistSlice(m)
  BY DEF Undisturbed, PersistSlice
<1>3. \A y \in Syncers, m \in Markets : ~SyncFetch(y, m)
  BY DEF Undisturbed, SyncFetch
<1> QED
  BY <1>1, <1>2, <1>3 DEF Next, TradeStep, TraderDies, CloseTimePasses,
     VenuePublishes, marketVars, vars

\* A final score adds one to what the market has for that version.
LEMMA ScoreCounts ==
    ASSUME TypeOK, NEW w \in Settlers, NEW v \in Versions, FreezeScore(w, v)
    PROVE  \A m \in Markets, x \in Versions :
              FinalScores(m, x)' = IF m = watcher[w].market /\ x = v
                                   THEN FinalScores(m, x) + 1
                                   ELSE FinalScores(m, x)
<1> DEFINE n == watcher[w].market
           o == watcher[w].seen
<1>1. n \in Markets /\ o \in {0, 1} /\ Outcomes = {0, 1}
  BY DEF FreezeScore, TypeOK, Outcomes, WatcherType
<1>2. finals' = [finals EXCEPT ![n][v][o] = finals[n][v][o] + 1]
  BY DEF FreezeScore
<1>3. finals \in [Markets -> [Versions -> [{0, 1} -> Nat]]]
  BY <1>1 DEF TypeOK
<1> HIDE DEF n, o
<1>4. ASSUME NEW m \in Markets, NEW x \in Versions
      PROVE  finals'[m][x][0] + finals'[m][x][1] =
                IF m = n /\ x = v THEN finals[m][x][0] + finals[m][x][1] + 1
                ELSE finals[m][x][0] + finals[m][x][1]
  <2>1. CASE o = 0
    BY <1>1, <1>2, <1>3, <2>1
  <2>2. CASE o = 1
    BY <1>1, <1>2, <1>3, <2>2
  <2> QED
    BY <1>1, <2>1, <2>2
<1> QED
  BY <1>4 DEF FinalScores, n

LEMMA ScoresAreNat ==
    ASSUME TypeOK
    PROVE  \A m \in Markets, v \in Versions : FinalScores(m, v) \in Nat
BY DEF TypeOK, FinalScores, Outcomes

\* The scores a step leaves alone.
LEMMA ScoresKept ==
    ASSUME UNCHANGED finals
    PROVE  \A m, v : FinalScores(m, v)' = FinalScores(m, v)
BY DEF FinalScores

LEMMA ScoredNext ==
    ASSUME MaxRewrites = 0
    PROVE  ScoredInv /\ [Next]_vars => ScoredInv'
<1> SUFFICES ASSUME ScoredInv, [Next]_vars PROVE ScoredInv'
  OBVIOUS
<1>1. TypeOK /\ TypeOK' /\ Undisturbed'
  BY TypeNext, UndisturbedStays DEF ScoredInv
<1> SUFFICES ScoredOrInHand'
  BY <1>1 DEF ScoredInv
<1>2. CASE UNCHANGED <<row, finals, watcher, abandoned>>
  BY <1>2 DEF ScoredInv, ScoredOrInHand, AboutToScore, FinalScores
<1>3. ASSUME NEW w \in Settlers, WatcherStep(w) \/ WatcherDies(w)
      PROVE  ScoredOrInHand'
  <2>1. /\ watcher \in [Settlers -> WatcherType]
        /\ \A x \in Settlers \ {w} : watcher'[x] = watcher[x]
    BY <1>1, <1>3 DEF WatcherStep, WatcherDies, Sweep, FetchMarket, FetchFails,
       SweepEnds, UpsertFetched, FreezeScore, CloseOut, NothingToClose,
       SettlementFill, SettlementApply, marketVars, TypeOK
  <2>2. \* a step on which no score or row depends
        ASSUME UNCHANGED <<row, finals>>, abandoned \subseteq abandoned',
               \A m \in Markets \ abandoned', v \in Versions : ~AboutToScore(w, m, v)
        PROVE  ScoredOrInHand'
    <3> SUFFICES ASSUME NEW m \in Markets \ abandoned', row'[m].outcome # None,
                        NEW v \in Scorable[m]
                 PROVE  \/ FinalScores(m, v)' > 0
                        \/ \E x \in Settlers : AboutToScore(x, m, v)'
      BY DEF ScoredOrInHand
    <3>1. m \in Markets \ abandoned /\ v \in Versions
      BY <2>2, ResolutionAssumption
    <3>2. \/ FinalScores(m, v) > 0
          \/ \E x \in Settlers : AboutToScore(x, m, v)
      BY <2>2, <3>1 DEF ScoredInv, ScoredOrInHand
    <3>3. \A x \in Settlers : AboutToScore(x, m, v) => x # w
      BY <2>2, <3>1
    <3>4. \A x \in Settlers : AboutToScore(x, m, v) => AboutToScore(x, m, v)'
      BY <2>1, <3>3 DEF AboutToScore
    <3> QED
      BY <2>2, <3>2, <3>4 DEF FinalScores
  <2>3. CASE \/ Sweep(w) \/ SweepEnds(w) \/ SettlementFill(w) \/ SettlementApply(w)
             \/ \E m \in Markets : FetchMarket(w, m) \/ FetchFails(w, m)
    <3>1. watcher[w].step # "freeze"
      <4>1. ASSUME SettlementFill(w) \/ SettlementApply(w)
            PROVE  watcher[w].step = "closing"
        BY <1>1, <4>1 DEF SettlementFill, SettlementApply, RecordFill,
           ApplyToPosition, TypeOK, Idle
      <4>2. ASSUME NEW m \in Markets, FetchMarket(w, m) \/ FetchFails(w, m)
            PROVE  watcher[w].step = "next"
        BY <4>2 DEF FetchMarket, FetchFails
      <4>3. ASSUME Sweep(w) \/ SweepEnds(w)
            PROVE  watcher[w].step \in {"idle", "next"}
        BY <4>3 DEF Sweep, SweepEnds
      <4> QED
        BY <2>3, <4>1, <4>2, <4>3
    <3>2. UNCHANGED <<row, finals, abandoned>>
      BY <2>3 DEF Sweep, SweepEnds, SettlementFill, SettlementApply, FetchMarket,
         FetchFails, marketVars
    <3> QED
      BY <2>2, <3>1, <3>2 DEF AboutToScore
  <2>4. CASE CloseOut(w) \/ NothingToClose(w)
    <3>1. watcher[w].versions = {} /\ UNCHANGED <<row, finals, abandoned>>
      BY <2>4 DEF CloseOut, NothingToClose
    <3> QED
      BY <2>2, <3>1 DEF AboutToScore
  <2>5. CASE WatcherDies(w)
    <3>1. UNCHANGED <<row, finals>> /\ abandoned \subseteq abandoned'
      BY <2>5 DEF WatcherDies
    <3>2. watcher[w].step = "freeze" => watcher[w].market \in abandoned'
      BY <2>5 DEF WatcherDies
    <3> QED
      BY <2>2, <3>1, <3>2 DEF AboutToScore
  <2>6. CASE UpsertFetched(w)
    <3> DEFINE n == watcher[w].market
    <3>1. /\ n \in Markets /\ watcher[w].step = "upsert"
          /\ UNCHANGED <<finals, abandoned>>
          /\ \A m \in Markets \ {n} : row'[m] = row[m]
          /\ row'[n].outcome = watcher[w].seen
      BY <1>1, <2>6 DEF UpsertFetched, TypeOK, FetchedRow
    <3>2. watcher[w].seen # None =>
              \A m \in Markets : m = n =>
                  \A v \in Scorable[m] : AboutToScore(w, m, v)'
      BY <2>1, <2>6 DEF UpsertFetched, AboutToScore, Local
    <3>3. \A x \in Settlers, m \in Markets, v \in Versions :
              AboutToScore(x, m, v) => AboutToScore(x, m, v)'
      BY <2>1, <3>1 DEF AboutToScore
    <3> HIDE DEF n
    <3> SUFFICES ASSUME NEW m \in Markets \ abandoned', row'[m].outcome # None,
                        NEW v \in Scorable[m]
                 PROVE  \/ FinalScores(m, v)' > 0
                        \/ \E x \in Settlers : AboutToScore(x, m, v)'
      BY DEF ScoredOrInHand
    <3>4. CASE m = n
      BY <3>1, <3>2, <3>4
    <3>5. CASE m # n
      <4>1. \/ FinalScores(m, v) > 0
            \/ \E x \in Settlers : AboutToScore(x, m, v)
        BY <3>1, <3>5 DEF ScoredInv, ScoredOrInHand
      <4>2. FinalScores(m, v)' = FinalScores(m, v)
        BY <3>1 DEF FinalScores
      <4>3. v \in Versions
        BY ResolutionAssumption
      <4> QED
        BY <3>3, <4>1, <4>2, <4>3
    <3> QED
      BY <3>4, <3>5
  <2>7. ASSUME NEW u \in Versions, FreezeScore(w, u)
        PROVE  ScoredOrInHand'
    <3>1. UNCHANGED <<row, abandoned>>
      BY <2>7 DEF FreezeScore
    <3>2. ASSUME NEW x \in Settlers, NEW m \in Markets, NEW v \in Versions,
                 AboutToScore(x, m, v), ~(m = watcher[w].market /\ v = u)
          PROVE  AboutToScore(x, m, v)'
      BY <2>1, <2>7, <3>2 DEF FreezeScore, AboutToScore, Local
    <3> SUFFICES ASSUME NEW m \in Markets \ abandoned', row'[m].outcome # None,
                        NEW v \in Scorable[m]
                 PROVE  \/ FinalScores(m, v)' > 0
                        \/ \E x \in Settlers : AboutToScore(x, m, v)'
      BY DEF ScoredOrInHand
    <3>3. v \in Versions /\ FinalScores(m, v) \in Nat
      BY <1>1, ScoresAreNat, ResolutionAssumption
    <3>4. \/ FinalScores(m, v) > 0
          \/ \E x \in Settlers : AboutToScore(x, m, v)
      BY <3>1 DEF ScoredInv, ScoredOrInHand
    <3>5. CASE m = watcher[w].market /\ v = u
      BY <1>1, <2>7, <3>3, <3>5, ScoreCounts
    <3>6. CASE ~(m = watcher[w].market /\ v = u)
      BY <1>1, <2>7, <3>2, <3>3, <3>4, <3>6, ScoreCounts
    <3> QED
      BY <3>5, <3>6
  <2> QED
    BY <1>3, <2>3, <2>4, <2>5, <2>6, <2>7 DEF WatcherStep
<1> QED
  BY <1>2, <1>3, QuietSteps DEF ScoredInv

\* However many watchers race, fail or die: as long as only they write the rows,
\* a market that is settled and not attended has its scores, unless its watcher
\* died between the row and the scores.
THEOREM SettledAreScored ==
    ASSUME MaxRewrites = 0
    PROVE  Spec => []ScoredUnlessAbandoned
<1>1. Init => ScoredInv
  BY TypeInit DEF Init, ScoredInv, Undisturbed, ScoredOrInHand
<1>2. ScoredInv /\ [Next]_vars => ScoredInv'
  BY ScoredNext
<1>3. ScoredInv => ScoredUnlessAbandoned
  BY DEF ScoredInv, ScoredOrInHand, ScoredUnlessAbandoned, AboutToScore, Attended
<1> QED
  BY <1>1, <1>2, <1>3, PTL DEF Spec

UnsettledUnscored ==
    \A m \in Markets : row[m].outcome = None =>
        \A v \in Versions : FinalScores(m, v) = 0

\* What the watcher is about to do it has not done before.
WorkIsNew ==
    \A w \in Settlers :
        /\ \A m \in watcher[w].queue : row[m].outcome = None
        /\ watcher[w].step = "upsert" =>
              /\ row[watcher[w].market].outcome = None
              /\ watcher[w].market \notin watcher[w].queue
        /\ watcher[w].step = "freeze" =>
              /\ row[watcher[w].market].outcome # None
              /\ \A v \in watcher[w].versions :
                    FinalScores(watcher[w].market, v) = 0

OnceInv == TypeOK /\ Undisturbed /\ FinalOnce /\ UnsettledUnscored /\ WorkIsNew

\* A step of the lone watcher that stores no row and no score keeps OnceInv, if
\* the work that it leaves itself is new.
LEMMA OnceLocal ==
    ASSUME OnceInv, TypeOK', Undisturbed', NEW w \in Settlers,
           \A r, s \in Settlers : r = s,
           UNCHANGED <<row, finals>>,
           \A m \in watcher'[w].queue : row[m].outcome = None,
           watcher'[w].step = "upsert" =>
              /\ row[watcher'[w].market].outcome = None
              /\ watcher'[w].market \notin watcher'[w].queue,
           watcher'[w].step # "freeze"
    PROVE  OnceInv'
<1>1. FinalOnce' /\ UnsettledUnscored'
  BY DEF OnceInv, FinalOnce, UnsettledUnscored, FinalScores
<1>2. WorkIsNew'
  BY DEF WorkIsNew
<1> QED
  BY <1>1, <1>2 DEF OnceInv

LEMMA OnceNext ==
    ASSUME MaxRewrites = 0, \A r, s \in Settlers : r = s
    PROVE  OnceInv /\ [Next]_vars => OnceInv'
<1> SUFFICES ASSUME OnceInv, [Next]_vars PROVE OnceInv'
  OBVIOUS
<1>1. TypeOK /\ TypeOK' /\ Undisturbed'
  BY TypeNext, UndisturbedStays DEF OnceInv
<1>2. CASE UNCHANGED <<row, finals, watcher, abandoned>>
  BY <1>1, <1>2 DEF OnceInv, FinalOnce, UnsettledUnscored, WorkIsNew, FinalScores
<1>3. ASSUME NEW w \in Settlers, WatcherStep(w) \/ WatcherDies(w)
      PROVE  OnceInv'
  <2> DEFINE q == watcher[w].queue
             n == watcher[w].market
  <2>1. /\ watcher \in [Settlers -> WatcherType] /\ watcher[w] \in WatcherType
        /\ \A m \in q : row[m].outcome = None
    BY <1>1 DEF TypeOK, OnceInv, WorkIsNew
  <2>2. CASE Sweep(w)
    <3>1. /\ watcher'[w].step = "next" /\ watcher'[w].queue = WorkQueue
          /\ UNCHANGED <<row, finals>>
      BY <2>1, <2>2 DEF Sweep, Local
    <3>2. \A m \in WorkQueue : row[m].outcome = None
      BY DEF WorkQueue
    <3> QED
      BY <1>1, <3>1, <3>2, OnceLocal
  <2>3. ASSUME NEW m \in Markets, FetchMarket(w, m)
        PROVE  OnceInv'
    <3>1. /\ watcher'[w].step = "upsert" /\ watcher'[w].queue = q \ {m}
          /\ watcher'[w].market = m /\ m \in q /\ UNCHANGED <<row, finals>>
      BY <2>1, <2>3 DEF FetchMarket, Local
    <3> QED
      BY <1>1, <2>1, <3>1, OnceLocal
  <2>4. ASSUME NEW m \in Markets, FetchFails(w, m)
        PROVE  OnceInv'
    <3>1. /\ watcher'[w].step = "next" /\ watcher'[w].queue = q \ {m}
          /\ UNCHANGED <<row, finals>>
      BY <2>1, <2>4 DEF FetchFails, Local
    <3> QED
      BY <1>1, <2>1, <3>1, OnceLocal
  <2>5. CASE SweepEnds(w) \/ WatcherDies(w)
    <3>1. /\ watcher'[w].step = "idle" /\ watcher'[w].queue = {}
          /\ UNCHANGED <<row, finals>>
      BY <2>1, <2>5 DEF SweepEnds, WatcherDies, Asleep, Local
    <3> QED
      BY <1>1, <3>1, OnceLocal
  <2>6. CASE NothingToClose(w) \/ SettlementApply(w)
    <3>1. /\ watcher'[w].step = "next" /\ watcher'[w].queue = q
          /\ UNCHANGED <<row, finals>>
      BY <2>1, <2>6 DEF NothingToClose, SettlementApply, NextMarket, Local
    <3> QED
      BY <1>1, <2>1, <3>1, OnceLocal
  <2>7. CASE CloseOut(w)
    <3>1. /\ watcher'[w].step = "closing" /\ watcher'[w].queue = q
          /\ UNCHANGED <<row, finals>>
      BY <2>1, <2>7 DEF CloseOut, Local
    <3> QED
      BY <1>1, <2>1, <3>1, OnceLocal
  <2>8. CASE SettlementFill(w)
    <3>1. UNCHANGED <<row, finals, watcher, abandoned>>
      BY <2>8 DEF SettlementFill, marketVars
    <3> QED
      BY <1>2, <3>1
  <2>9. CASE UpsertFetched(w)
    <3>1. /\ n \in Markets /\ row[n].outcome = None /\ n \notin q
          /\ row'[n].outcome = watcher[w].seen /\ UNCHANGED finals
          /\ \A m \in Markets \ {n} : row'[m] = row[m]
      BY <1>1, <2>9 DEF UpsertFetched, TypeOK, FetchedRow, OnceInv, WorkIsNew
    <3>2. /\ watcher'[w].queue = q
          /\ \/ watcher'[w].step = "next"
             \/ /\ watcher'[w].step = "freeze" /\ watcher'[w].market = n
                /\ watcher[w].seen # None /\ watcher'[w].versions = Scorable[n]
      BY <2>1, <2>9 DEF UpsertFetched, NextMarket, Local
    <3>3. q \subseteq Markets
      BY <2>1 DEF WatcherType
    <3> HIDE DEF n, q
    <3>4. \A m, v : FinalScores(m, v)' = FinalScores(m, v)
      BY <3>1, ScoresKept
    <3>5. FinalOnce'
      BY <3>1 DEF OnceInv, FinalOnce, FinalScores
    <3>6. UnsettledUnscored'
      BY <3>1, <3>4 DEF OnceInv, UnsettledUnscored
    <3>7. \A m \in Markets : m = n => \A v \in Versions : FinalScores(m, v)' = 0
      BY <3>1, <3>4 DEF OnceInv, UnsettledUnscored
    <3>8. \A m \in watcher'[w].queue : row'[m].outcome = None
      BY <2>1, <3>1, <3>2, <3>3 DEF q
    <3>9. \A v \in Scorable[n] : v \in Versions
      BY <3>1, ResolutionAssumption
    <3>10. WorkIsNew'
      <4>1. ASSUME watcher'[w].step = "freeze"
            PROVE  /\ row'[watcher'[w].market].outcome # None
                   /\ \A v \in watcher'[w].versions :
                         FinalScores(watcher[w].market, v)' = 0
        BY <3>1, <3>2, <3>7, <3>9, <4>1
      <4>2. watcher'[w].step # "upsert"
        BY <3>2
      <4> QED
        BY <3>8, <4>1, <4>2 DEF WorkIsNew
    <3> QED
      BY <1>1, <3>5, <3>6, <3>10 DEF OnceInv
  <2>10. ASSUME NEW u \in Versions, FreezeScore(w, u)
         PROVE  OnceInv'
    <3>1. /\ n \in Markets /\ row[n].outcome # None /\ UNCHANGED row
          /\ \A v \in watcher[w].versions : FinalScores(n, v) = 0
          /\ u \in watcher[w].versions /\ watcher[w].versions \subseteq Versions
      BY <1>1, <2>1, <2>10 DEF FreezeScore, TypeOK, OnceInv, WorkIsNew, WatcherType
    <3>2. /\ watcher'[w].queue = q /\ watcher'[w].step = "freeze"
          /\ watcher'[w].market = n
          /\ watcher'[w].versions = watcher[w].versions \ {u}
      BY <2>1, <2>10 DEF FreezeScore, Local
    <3>3. \A m \in Markets, x \in Versions :
              FinalScores(m, x)' = IF m = n /\ x = u THEN FinalScores(m, x) + 1
                                   ELSE FinalScores(m, x)
      BY <1>1, <2>10, ScoreCounts
    <3> HIDE DEF n, q
    <3>4. FinalOnce'
      <4> SUFFICES ASSUME NEW m \in Markets, NEW x \in Versions
                   PROVE  FinalScores(m, x)' <= 1
        BY DEF FinalOnce
      <4>1. CASE m = n /\ x = u
        <5>1. FinalScores(m, x) = 0
          BY <3>1, <4>1
        <5> QED
          BY <3>3, <4>1, <5>1
      <4>2. CASE ~(m = n /\ x = u)
        <5>1. FinalScores(m, x) <= 1
          BY DEF OnceInv, FinalOnce
        <5> QED
          BY <3>3, <4>2, <5>1
      <4> QED
        BY <4>1, <4>2
    <3>5. UnsettledUnscored'
      BY <3>1, <3>3 DEF OnceInv, UnsettledUnscored
    <3>6. \A m \in Markets : m = n =>
              \A v \in watcher[w].versions \ {u} : FinalScores(m, v)' = 0
      BY <3>1, <3>3
    <3>7. WorkIsNew'
      <4>1. /\ row'[watcher'[w].market].outcome # None
            /\ \A v \in watcher'[w].versions :
                  FinalScores(watcher[w].market, v)' = 0
        BY <3>1, <3>2, <3>6
      <4>2. \A m \in watcher'[w].queue : row'[m].outcome = None
        BY <2>1, <3>1, <3>2
      <4> QED
        BY <3>2, <4>1, <4>2 DEF WorkIsNew
    <3> QED
      BY <1>1, <3>4, <3>5, <3>7 DEF OnceInv
  <2> QED
    BY <1>3, <2>2, <2>3, <2>4, <2>5, <2>6, <2>7, <2>8, <2>9, <2>10 DEF WatcherStep
<1> QED
  BY <1>2, <1>3, QuietSteps DEF OnceInv

LEMMA OnceInit == Init => OnceInv
<1> SUFFICES ASSUME Init PROVE OnceInv
  OBVIOUS
<1>1. \A m \in Markets, v \in Versions : FinalScores(m, v) = 0
  BY DEF Init, FinalScores, Outcomes
<1>2. WorkIsNew
  BY DEF Init, WorkIsNew, Asleep, Local
<1> QED
  BY <1>1, <1>2, TypeInit
  DEF Init, OnceInv, Undisturbed, FinalOnce, UnsettledUnscored

\* With a single watcher, and as long as only it writes the rows, no death or
\* failure of a call ever has a market scored twice for a version.
THEOREM LoneWatcherScoresOnce ==
    ASSUME MaxRewrites = 0, \A r, s \in Settlers : r = s
    PROVE  Spec => []FinalOnce
<1>1. OnceInv /\ [Next]_vars => OnceInv'
  BY OnceNext
<1>2. OnceInv => FinalOnce
  BY DEF OnceInv
<1> QED
  BY <1>1, <1>2, OnceInit, PTL DEF Spec

\* A row that is stored as settled stays so.  Every sweep stores what it fetched,
\* open or not (steps.resolve_markets).
RowsStaySettled ==
    [][\A m \in Markets : row[m].outcome # None => row'[m].outcome = row[m].outcome]_vars

\* With a single watcher, and as long as only it writes the rows, no answer of the
\* venue that was fetched before the result reopens a row that has it.  A second
\* watcher's would, in the course of one call.
THEOREM LoneWatcherKeepsRowsSettled ==
    ASSUME MaxRewrites = 0, \A r, s \in Settlers : r = s
    PROVE  Spec => RowsStaySettled
<1>1. Init => OnceInv
  BY OnceInit
<1>2. OnceInv /\ [Next]_vars => OnceInv'
  BY OnceNext
<1>3. ASSUME OnceInv, [Next]_vars, NEW m \in Markets, row[m].outcome # None
      PROVE  row'[m].outcome = row[m].outcome
  <2>1. CASE UNCHANGED row
    BY <2>1
  <2>2. ASSUME NEW w \in Settlers, UpsertFetched(w)
        PROVE  row'[m] = row[m]
    <3>1. /\ row[watcher[w].market].outcome = None
          /\ row' = [row EXCEPT ![watcher[w].market] = FetchedRow(watcher[w].seen)]
      BY <1>3, <2>2 DEF UpsertFetched, OnceInv, WorkIsNew
    <3> QED
      BY <1>3, <3>1
  <2>3. UNCHANGED row \/ \E w \in Settlers : UpsertFetched(w)
    <3>1. ASSUME NEW w \in Settlers, WatcherStep(w) \/ WatcherDies(w), ~UpsertFetched(w)
          PROVE  UNCHANGED row
      BY <3>1 DEF WatcherStep, WatcherDies, Sweep, FetchMarket, FetchFails, SweepEnds,
         FreezeScore, CloseOut, NothingToClose, SettlementFill, SettlementApply, marketVars
    <3> QED
      BY <1>3, <3>1, QuietSteps DEF OnceInv
  <2> QED
    BY <2>1, <2>2, <2>3
<1>4. OnceInv /\ [Next]_vars =>
        [\A m \in Markets : row[m].outcome # None => row'[m].outcome = row[m].outcome]_vars
  BY <1>3
<1> QED
  BY <1>1, <1>2, <1>4, PTL DEF Spec, RowsStaySettled
=============================================================================
