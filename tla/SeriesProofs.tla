---------------------------- MODULE SeriesProofs ----------------------------
(***************************************************************************)
(* Theorems about SignalSeries: for any posts, ingest processes and jobs,  *)
(* whatever races, dies or is run again, the series never looks ahead,     *)
(* nothing it counts is missing from the store, a stored verdict stands,   *)
(* and on live posts nothing is counted twice; and a lone job that runs    *)
(* again takes no post from a bar but those that have left its window.     *)
(***************************************************************************)
EXTENDS SignalSeries, TLAPS

\* What an insert leaves alone, and what it adds.
LEMMA InsertKeepsRows ==
    ASSUME NEW table, NEW batch
    PROVE  /\ DOMAIN InsertPosts(table, batch) = DOMAIN table \union DOMAIN batch
           /\ \A r \in DOMAIN table : InsertPosts(table, batch)[r] = table[r]
           /\ \A r \in DOMAIN batch \ DOMAIN table :
                 InsertPosts(table, batch)[r] = batch[r]
BY DEF InsertPosts

\* Whatever a search answers are rows, dated as the search dates them.
LEMMA AnswersAreRows ==
    ASSUME SeriesTypeOK, NEW S \in Answers
    PROVE  /\ S \subseteq Rows
           /\ \A r \in S : r.at = CreatedAt(r.post) /\ r.post \in Visible
<1>1. ASSUME NEW r \in S
      PROVE  /\ r \in Rows
             /\ r.at = CreatedAt(r.post) /\ r.post \in Visible
  <2>1. PICK p \in Visible : r = [post |-> p, at |-> CreatedAt(p)]
    BY <1>1 DEF Answers, Matches
  <2>2. p \in Posts
    BY <2>1 DEF Visible
  <2>3. CASE Replay
    <3>1. now \in Nat /\ Start \in Nat /\ Start <= now /\ now <= MaxTime
          /\ MaxTime \in Nat
      BY PostStoreAssumption DEF SeriesTypeOK
    <3>2. Age[p] \in Nat /\ Age[p] <= Start
      BY <2>2, <2>3, PostStoreAssumption
    <3>3. now - Age[p] \in 0..MaxTime
      BY <3>1, <3>2
    <3> QED
      BY <2>1, <2>2, <2>3, <3>3 DEF Rows, CreatedAt
  <2>4. CASE ~Replay
    <3>1. created[p] \in 0..MaxTime
      BY <2>1, <2>2, <2>4 DEF Visible, SeriesTypeOK
    <3> QED
      BY <2>1, <2>2, <2>4, <3>1 DEF Rows, CreatedAt
  <2> QED
    BY <2>3, <2>4
<1> QED
  BY <1>1

\* A bar computed from rows counts some of them, none after it.
LEMMA PointsAreBars ==
    ASSUME NEW rows
    PROVE  /\ Points(rows) \subseteq Bars
           /\ \A t \in Points(rows) : t <= now
           /\ \A t \in Bars : Contributions(rows, t) \subseteq rows
BY DEF Points, Contributions

-----------------------------------------------------------------------------
(* The types.                                                              *)

JobType == [step : Step, rows : SUBSET Rows, points : SUBSET Bars]

LEMMA Locals ==
    ASSUME NEW s \in Step, NEW rows \in SUBSET Rows, NEW points \in SUBSET Bars
    PROVE  Doing(s, rows, points) \in JobType
BY DEF Doing, JobType

LEMMA RestingIsALocal == Resting \in JobType
BY Locals DEF Resting, Step

LEMMA InsertTypes ==
    ASSUME SeriesTypeOK, NEW batch,
           DOMAIN batch \subseteq Rows,
           \A r \in DOMAIN batch : batch[r] \in BOOLEAN
    PROVE  /\ DOMAIN InsertPosts(stored, batch) \subseteq Rows
           /\ \A r \in DOMAIN InsertPosts(stored, batch) :
                 InsertPosts(stored, batch)[r] \in BOOLEAN
<1> DEFINE table == InsertPosts(stored, batch)
<1>1. /\ DOMAIN table = DOMAIN stored \union DOMAIN batch
      /\ \A r \in DOMAIN stored : table[r] = stored[r]
      /\ \A r \in DOMAIN batch \ DOMAIN stored : table[r] = batch[r]
  BY InsertKeepsRows
<1>2. DOMAIN stored \subseteq Rows /\ \A r \in DOMAIN stored : stored[r] \in BOOLEAN
  BY DEF SeriesTypeOK
<1> HIDE DEF table
<1>3. DOMAIN table \subseteq Rows
  BY <1>1, <1>2
<1>4. ASSUME NEW r \in DOMAIN table PROVE table[r] \in BOOLEAN
  <2>1. CASE r \in DOMAIN stored
    BY <1>1, <1>2, <2>1
  <2>2. CASE r \in DOMAIN batch \ DOMAIN stored
    BY <1>1, <2>2
  <2> QED
    BY <1>1, <2>1, <2>2
<1> QED
  BY <1>3, <1>4 DEF table

LEMMA TypesStart == Init => SeriesTypeOK
<1> SUFFICES ASSUME Init PROVE SeriesTypeOK
  OBVIOUS
<1>1. now \in Start..MaxTime
  BY PostStoreAssumption DEF Init, StoreInit
<1>2. job \in [Jobs -> JobType]
  BY RestingIsALocal DEF Init
<1>3. bars \in [Bars -> SUBSET Rows]
  BY DEF Init
<1>4. DOMAIN stored = {}
  BY DEF Init, StoreInit
<1> QED
  BY <1>1, <1>2, <1>3, <1>4 DEF Init, StoreInit, SeriesTypeOK, JobType

LEMMA TypesStep == SeriesTypeOK /\ [Next]_vars => SeriesTypeOK'
<1> SUFFICES ASSUME SeriesTypeOK, [Next]_vars PROVE SeriesTypeOK'
  OBVIOUS
<1> USE DEF storeVars
<1>1. CASE Tick /\ UNCHANGED seriesVars
  <2>1. now' \in Start..MaxTime
    BY <1>1, PostStoreAssumption DEF Tick, SeriesTypeOK
  <2> QED
    BY <1>1, <2>1 DEF Tick, seriesVars, SeriesTypeOK
<1>2. ASSUME NEW p \in Posts, Publish(p), UNCHANGED seriesVars
      PROVE  SeriesTypeOK'
  <2>1. now \in 0..MaxTime
    BY PostStoreAssumption DEF SeriesTypeOK
  <2>2. created' \in [Posts -> (0..MaxTime) \union {None}]
    BY <1>2, <2>1 DEF Publish, SeriesTypeOK
  <2> QED
    BY <1>2, <2>2 DEF Publish, seriesVars, SeriesTypeOK
<1>3. ASSUME NEW w \in Polls, PollFetch(w), UNCHANGED seriesVars
      PROVE  SeriesTypeOK'
  <2>1. PICK batch \in Answers : poll' = [poll EXCEPT ![w] = batch]
    BY <1>3 DEF PollFetch
  <2>2. poll' \in [Polls -> (SUBSET Rows) \union {None}]
    BY <2>1, AnswersAreRows DEF SeriesTypeOK
  <2> QED
    BY <1>3, <2>2 DEF PollFetch, seriesVars, SeriesTypeOK
<1>4. ASSUME NEW w \in Polls, PollStore(w), UNCHANGED seriesVars
      PROVE  SeriesTypeOK'
  <2>1. poll[w] \in SUBSET Rows
    BY <1>4 DEF PollStore, SeriesTypeOK
  <2>2. /\ DOMAIN ApplyBatch(poll[w]) \subseteq Rows
        /\ \A r \in DOMAIN ApplyBatch(poll[w]) :
              ApplyBatch(poll[w])[r] \in BOOLEAN
    BY <2>1 DEF ApplyBatch
  <2>3. /\ DOMAIN stored' \subseteq Rows
        /\ \A r \in DOMAIN stored' : stored'[r] \in BOOLEAN
    BY <1>4, <2>2, InsertTypes DEF PollStore
  <2>4. poll' \in [Polls -> (SUBSET Rows) \union {None}]
    BY <1>4 DEF PollStore, SeriesTypeOK
  <2> QED
    BY <1>4, <2>3, <2>4 DEF PollStore, seriesVars, SeriesTypeOK
<1>5. ASSUME NEW w \in Polls, PollLost(w), UNCHANGED seriesVars
      PROVE  SeriesTypeOK'
  BY <1>5 DEF PollLost, seriesVars, SeriesTypeOK
<1>6. ASSUME NEW j \in Jobs, NEW next \in JobType, job' = [job EXCEPT ![j] = next]
      PROVE  job' \in [Jobs -> JobType]
  BY <1>6 DEF SeriesTypeOK, JobType
<1>7. ASSUME NEW j \in Jobs, FetchPosts(j) \/ RefreshFetch(j)
      PROVE  SeriesTypeOK'
  <2>1. PICK batch \in Answers, s \in Step :
           job' = [job EXCEPT ![j] = Doing(s, batch, {})]
    BY <1>7 DEF FetchPosts, RefreshFetch, Step
  <2>2. job' \in [Jobs -> JobType]
    BY <2>1, <1>6, AnswersAreRows, Locals
  <2> QED
    BY <1>7, <2>2 DEF FetchPosts, RefreshFetch, SeriesTypeOK, JobType
<1>8. ASSUME NEW j \in Jobs, StorePosts(j) \/ RefreshStore(j)
      PROVE  SeriesTypeOK'
  <2>1. job[j] \in JobType
    BY DEF SeriesTypeOK, JobType
  <2>2. /\ DOMAIN Unfiltered(job[j].rows) \subseteq Rows
        /\ \A r \in DOMAIN Unfiltered(job[j].rows) :
              Unfiltered(job[j].rows)[r] \in BOOLEAN
    BY <2>1 DEF Unfiltered, JobType
  <2>3. /\ DOMAIN stored' \subseteq Rows
        /\ \A r \in DOMAIN stored' : stored'[r] \in BOOLEAN
    BY <1>8, <2>2, InsertTypes DEF StorePosts, RefreshStore
  <2>4. Doing("refreshScore", job[j].rows, {}) \in JobType
    BY <2>1, Locals DEF JobType, Step
  <2>5. job' \in [Jobs -> JobType]
    BY <1>6, <1>8, <2>4, RestingIsALocal DEF StorePosts, RefreshStore, Rest
  <2> QED
    BY <1>8, <2>3, <2>5 DEF StorePosts, RefreshStore, SeriesTypeOK, JobType
<1>9. ASSUME NEW j \in Jobs, ReadBacklog(j)
      PROVE  SeriesTypeOK'
  <2>1. PICK batch \in UnscoredPosts :
           job' = [job EXCEPT ![j] = Doing("score", batch, {})]
    BY <1>9 DEF ReadBacklog
  <2>2. batch \subseteq Rows
    BY <2>1 DEF UnscoredPosts, Unscored, Accepted, SeriesTypeOK
  <2>3. job' \in [Jobs -> JobType]
    BY <1>6, <2>1, <2>2, Locals DEF Step
  <2> QED
    BY <1>9, <2>3 DEF ReadBacklog, SeriesTypeOK, JobType
<1>10. ASSUME NEW j \in Jobs, InsertStances(j)
       PROVE  SeriesTypeOK'
  <2>1. stances' \subseteq Rows
    BY <1>10 DEF InsertStances, SeriesTypeOK
  <2>2. job' \in [Jobs -> JobType]
    BY <1>6, <1>10, RestingIsALocal DEF InsertStances, Rest
  <2> QED
    BY <1>10, <2>1, <2>2 DEF InsertStances, SeriesTypeOK, JobType
<1>11. ASSUME NEW j \in Jobs, LoadScored(j)
       PROVE  SeriesTypeOK'
  <2>1. ScoredPosts \subseteq Rows
    BY DEF ScoredPosts, SeriesTypeOK
  <2>2. Doing("bars", ScoredPosts, Points(ScoredPosts)) \in JobType
    BY <2>1, PointsAreBars, Locals DEF Step
  <2>3. job' \in [Jobs -> JobType]
    BY <1>6, <1>11, <2>2 DEF LoadScored
  <2> QED
    BY <1>11, <2>3 DEF LoadScored, SeriesTypeOK, JobType
<1>12. ASSUME NEW j \in Jobs, InsertSignal(j)
       PROVE  SeriesTypeOK'
  <2>1. job[j] \in JobType
    BY DEF SeriesTypeOK, JobType
  <2>2. PICK t \in job[j].points :
           /\ bars' = [bars EXCEPT ![t] = Contributions(job[j].rows, t)]
           /\ \/ Rest(j)
              \/ job' = [job EXCEPT ![j] =
                    Doing("bars", job[j].rows, job[j].points \ {t})]
    BY <1>12 DEF InsertSignal
  <2>3. Contributions(job[j].rows, t) \subseteq Rows
    BY <2>1 DEF Contributions, JobType
  <2>4. bars' \in [Bars -> SUBSET Rows]
    BY <2>2, <2>3 DEF SeriesTypeOK
  <2>5. Doing("bars", job[j].rows, job[j].points \ {t}) \in JobType
    BY <2>1, Locals DEF JobType, Step
  <2>6. job' \in [Jobs -> JobType]
    BY <1>6, <2>2, <2>5, RestingIsALocal DEF Rest
  <2> QED
    BY <1>12, <2>4, <2>6 DEF InsertSignal, SeriesTypeOK, JobType
<1>13. ASSUME NEW j \in Jobs, RefreshScore(j)
       PROVE  SeriesTypeOK'
  <2>1. job[j] \in JobType
    BY DEF SeriesTypeOK, JobType
  <2>2. stances' \subseteq Rows
    BY <1>13, <2>1 DEF RefreshScore, SeriesTypeOK, JobType
  <2>3. Doing("bars", job[j].rows, Points(job[j].rows)) \in JobType
    BY <2>1, PointsAreBars, Locals DEF JobType, Step
  <2>4. job' \in [Jobs -> JobType]
    BY <1>6, <1>13, <2>3, RestingIsALocal DEF RefreshScore
  <2> QED
    BY <1>13, <2>2, <2>4 DEF RefreshScore, SeriesTypeOK, JobType
<1>14. ASSUME NEW j \in Jobs, JobDies(j)
       PROVE  SeriesTypeOK'
  <2>1. job' \in [Jobs -> JobType]
    BY <1>6, <1>14, RestingIsALocal DEF JobDies, Rest
  <2> QED
    BY <1>14, <2>1 DEF JobDies, SeriesTypeOK, JobType
<1>15. CASE UNCHANGED vars
  BY <1>15 DEF vars, seriesVars, SeriesTypeOK
<1> QED
  BY <1>1, <1>2, <1>3, <1>4, <1>5, <1>7, <1>8, <1>9, <1>10, <1>11, <1>12,
     <1>13, <1>14, <1>15 DEF Next, StoreNext, JobStep

\* Every variable keeps its type: in particular no job ever holds a bar off the
\* grid of build_signal_series, or a post dated outside the model's time.
THEOREM SeriesTypesAreKept == Spec => []SeriesTypeOK
<1> QED
  BY TypesStart, TypesStep, PTL DEF Spec

-----------------------------------------------------------------------------
(* The store only grows.                                                   *)

StoredGrows ==
    \A r \in DOMAIN stored : r \in DOMAIN stored' /\ stored'[r] = stored[r]

LEMMA StepsKeepRows == [Next]_vars => StoredGrows
<1> SUFFICES ASSUME [Next]_vars PROVE StoredGrows
  OBVIOUS
<1>1. ASSUME NEW batch, stored' = InsertPosts(stored, batch) PROVE StoredGrows
  BY <1>1, InsertKeepsRows DEF StoredGrows
<1>2. CASE stored' = stored
  BY <1>2 DEF StoredGrows
<1>3. CASE StoreNext
  BY <1>1, <1>2, <1>3 DEF StoreNext, Tick, Publish, PollFetch, PollStore, PollLost
<1>4. ASSUME NEW j \in Jobs, JobStep(j) \/ JobDies(j) PROVE StoredGrows
  BY <1>1, <1>2, <1>4 DEF JobStep, JobDies, FetchPosts, StorePosts, ReadBacklog,
     InsertStances, LoadScored, InsertSignal, RefreshFetch, RefreshStore,
     RefreshScore, storeVars
<1> QED
  BY <1>2, <1>3, <1>4 DEF Next, vars, storeVars

\* A stored row and its verdict stay as the first writer made them, whichever
\* of the ingest, the assets and the refreshes fetches the post again.
THEOREM VerdictsStand == Spec => FirstVerdictStands
<1>1. [Next]_vars => [StoredGrows]_vars
  BY StepsKeepRows
<1> QED
  BY <1>1, PTL DEF Spec, FirstVerdictStands, StoredGrows

-----------------------------------------------------------------------------
(* No bar looks ahead: what is still to be inserted lies in the past too.  *)

PointsPast == \A j \in Jobs : \A t \in job[j].points : t <= now

CausalInv == SeriesTypeOK /\ NothingFromTheFuture /\ PointsPast

LEMMA CausalStep == CausalInv /\ [Next]_vars => CausalInv'
<1> SUFFICES ASSUME CausalInv, [Next]_vars PROVE CausalInv'
  OBVIOUS
<1>1. SeriesTypeOK /\ SeriesTypeOK'
  BY TypesStep DEF CausalInv
<1>2. now \in Nat /\ now' \in Nat /\ now <= now'
  <2>1. now' = now \/ now' = now + 1
    BY DEF Next, StoreNext, Tick, Publish, PollFetch, PollStore, PollLost,
       JobStep, JobDies, FetchPosts, StorePosts, ReadBacklog, InsertStances,
       LoadScored, InsertSignal, RefreshFetch, RefreshStore, RefreshScore,
       vars, storeVars
  <2>2. now \in Nat
    BY <1>1, PostStoreAssumption DEF SeriesTypeOK
  <2> QED
    BY <2>1, <2>2
<1>3. Bars \subseteq Nat
  BY PostStoreAssumption DEF Bars
<1>4. ASSUME UNCHANGED bars PROVE NothingFromTheFuture'
  BY <1>2, <1>3, <1>4 DEF CausalInv, NothingFromTheFuture
<1>5. ASSUME UNCHANGED job PROVE PointsPast'
  <2>1. \A j \in Jobs : job[j].points \subseteq Nat
    BY <1>1, <1>3 DEF SeriesTypeOK
  <2> QED
    BY <1>2, <1>5, <2>1 DEF CausalInv, PointsPast
<1>6. ASSUME NEW j \in Jobs, NEW next, job' = [job EXCEPT ![j] = next],
             \A t \in next.points : t <= now, now' = now
      PROVE  PointsPast'
  BY <1>1, <1>6 DEF CausalInv, PointsPast, SeriesTypeOK
<1>7. \A s, rows : /\ Doing(s, rows, {}).points = {}
                   /\ \A t \in Doing(s, rows, Points(rows)).points : t <= now
  BY DEF Doing, Points
<1>8. CASE StoreNext /\ UNCHANGED seriesVars
  BY <1>1, <1>4, <1>5, <1>8 DEF CausalInv, seriesVars
<1>9. ASSUME NEW j \in Jobs, FetchPosts(j) \/ RefreshFetch(j) \/ ReadBacklog(j)
      PROVE  CausalInv'
  <2>1. PICK s, rows : job' = [job EXCEPT ![j] = Doing(s, rows, {})]
    BY <1>9 DEF FetchPosts, RefreshFetch, ReadBacklog
  <2>2. PointsPast'
    BY <1>6, <1>7, <1>9, <2>1 DEF FetchPosts, RefreshFetch, ReadBacklog, storeVars
  <2> QED
    BY <1>1, <1>4, <1>9, <2>2 DEF CausalInv, FetchPosts, RefreshFetch, ReadBacklog
<1>10. ASSUME NEW j \in Jobs, StorePosts(j) \/ InsertStances(j) \/ JobDies(j)
       PROVE  CausalInv'
  <2>1. job' = [job EXCEPT ![j] = Doing("idle", {}, {})] /\ now' = now
    BY <1>10 DEF StorePosts, InsertStances, JobDies, Rest, Resting, storeVars
  <2>2. PointsPast'
    BY <1>6, <1>7, <2>1
  <2> QED
    BY <1>1, <1>4, <1>10, <2>2 DEF CausalInv, StorePosts, InsertStances, JobDies
<1>11. ASSUME NEW j \in Jobs, RefreshStore(j)
       PROVE  CausalInv'
  <2>1. PointsPast'
    BY <1>6, <1>7, <1>11 DEF RefreshStore
  <2> QED
    BY <1>1, <1>4, <1>11, <2>1 DEF CausalInv, RefreshStore
<1>12. ASSUME NEW j \in Jobs, LoadScored(j)
       PROVE  CausalInv'
  <2>1. PointsPast'
    BY <1>6, <1>7, <1>12 DEF LoadScored, storeVars
  <2> QED
    BY <1>1, <1>4, <1>12, <2>1 DEF CausalInv, LoadScored
<1>13. ASSUME NEW j \in Jobs, RefreshScore(j)
       PROVE  CausalInv'
  <2>1. PICK next : /\ job' = [job EXCEPT ![j] = next]
                    /\ \A t \in next.points : t <= now
    BY <1>7, <1>13 DEF RefreshScore, Resting
  <2>2. PointsPast'
    BY <1>6, <1>13, <2>1 DEF RefreshScore, storeVars
  <2> QED
    BY <1>1, <1>4, <1>13, <2>2 DEF CausalInv, RefreshScore
<1>14. ASSUME NEW j \in Jobs, InsertSignal(j)
       PROVE  CausalInv'
  <2>1. PICK t \in job[j].points :
           /\ bars' = [bars EXCEPT ![t] = Contributions(job[j].rows, t)]
           /\ \/ Rest(j)
              \/ job' = [job EXCEPT ![j] =
                    Doing("bars", job[j].rows, job[j].points \ {t})]
           /\ now' = now
    BY <1>14 DEF InsertSignal, storeVars
  <2>2. t <= now /\ t \in Bars
    BY <1>1, <2>1 DEF CausalInv, PointsPast, SeriesTypeOK
  <2>3. NothingFromTheFuture'
    <3> SUFFICES ASSUME NEW u \in Bars, bars'[u] # {}
                 PROVE  u <= now /\ \A r \in bars'[u] : u - MaxAge <= r.at /\ r.at <= u
      BY <2>1 DEF NothingFromTheFuture
    <3>1. CASE u = t
      BY <1>1, <2>1, <2>2, <3>1 DEF SeriesTypeOK, Contributions
    <3>2. CASE u # t
      BY <1>1, <2>1, <3>2 DEF SeriesTypeOK, CausalInv, NothingFromTheFuture
    <3> QED
      BY <3>1, <3>2
  <2>4. \A u \in Doing("bars", job[j].rows, job[j].points \ {t}).points : u <= now
    BY DEF Doing, CausalInv, PointsPast
  <2>5. PointsPast'
    BY <1>6, <1>7, <2>1, <2>4 DEF Rest, Resting
  <2> QED
    BY <1>1, <2>3, <2>5 DEF CausalInv
<1>15. CASE UNCHANGED vars
  BY <1>1, <1>4, <1>5, <1>15 DEF CausalInv, vars, seriesVars
<1> QED
  BY <1>8, <1>9, <1>10, <1>11, <1>12, <1>13, <1>14, <1>15 DEF Next, JobStep

\* S(t) never leaks the future: however jobs overlap, and whenever they compute
\* a bar, it counts only posts made by then.
THEOREM SeriesIsCausal == Spec => []NothingFromTheFuture
<1>1. Init => CausalInv
  BY TypesStart DEF Init, CausalInv, NothingFromTheFuture, PointsPast, Resting, Doing
<1>2. CausalInv => NothingFromTheFuture
  BY DEF CausalInv
<1> QED
  BY <1>1, <1>2, CausalStep, PTL DEF Spec

-----------------------------------------------------------------------------
(* Nothing dangles: what a job scores or counts it has seen in the store, or *)
(* put there itself, and the store only grows.                               *)

HandsStored ==
    \A j \in Jobs : job[j].step \in {"score", "bars", "refreshScore"} =>
        job[j].rows \subseteq DOMAIN stored

DanglingInv == SeriesTypeOK /\ NothingDangles /\ HandsStored

LEMMA DanglingStep == DanglingInv /\ [Next]_vars => DanglingInv'
<1> SUFFICES ASSUME DanglingInv, [Next]_vars PROVE DanglingInv'
  OBVIOUS
<1>1. SeriesTypeOK /\ SeriesTypeOK'
  BY TypesStep DEF DanglingInv
<1>2. DOMAIN stored \subseteq DOMAIN stored'
  BY StepsKeepRows DEF StoredGrows
<1>3. ASSUME UNCHANGED <<stances, bars>> PROVE NothingDangles'
  BY <1>2, <1>3 DEF DanglingInv, NothingDangles
<1>4. ASSUME UNCHANGED job PROVE HandsStored'
  BY <1>2, <1>4 DEF DanglingInv, HandsStored
<1>5. ASSUME NEW j \in Jobs, NEW s, NEW rows, NEW points,
             job' = [job EXCEPT ![j] = Doing(s, rows, points)],
             s \in {"score", "bars", "refreshScore"} => rows \subseteq DOMAIN stored'
      PROVE  HandsStored'
  <2> SUFFICES ASSUME NEW k \in Jobs,
                      job'[k].step \in {"score", "bars", "refreshScore"}
               PROVE  job'[k].rows \subseteq DOMAIN stored'
    BY DEF HandsStored
  <2>1. CASE k = j
    BY <1>1, <1>5, <2>1 DEF SeriesTypeOK, Doing
  <2>2. CASE k # j
    BY <1>1, <1>2, <1>5, <2>2 DEF SeriesTypeOK, DanglingInv, HandsStored
  <2> QED
    BY <2>1, <2>2
<1>6. ASSUME NEW j \in Jobs, Rest(j) PROVE HandsStored'
  BY <1>5, <1>6 DEF Rest, Resting
<1>8. CASE StoreNext /\ UNCHANGED seriesVars
  BY <1>1, <1>3, <1>4, <1>8 DEF DanglingInv, seriesVars
<1>9. ASSUME NEW j \in Jobs, FetchPosts(j) \/ RefreshFetch(j)
      PROVE  DanglingInv'
  <2>1. PICK s \in {"store", "refreshStore"}, rows \in Answers :
           job' = [job EXCEPT ![j] = Doing(s, rows, {})]
    BY <1>9 DEF FetchPosts, RefreshFetch
  <2>2. HandsStored'
    BY <1>5, <2>1
  <2> QED
    BY <1>1, <1>3, <1>9, <2>2 DEF DanglingInv, FetchPosts, RefreshFetch
<1>10. ASSUME NEW j \in Jobs, ReadBacklog(j)
       PROVE  DanglingInv'
  <2>1. PICK batch \in UnscoredPosts :
           job' = [job EXCEPT ![j] = Doing("score", batch, {})]
    BY <1>10 DEF ReadBacklog
  <2>2. batch \subseteq DOMAIN stored
    BY <2>1 DEF UnscoredPosts, Unscored, Accepted
  <2>3. HandsStored'
    BY <1>2, <1>5, <2>1, <2>2
  <2> QED
    BY <1>1, <1>3, <1>10, <2>3 DEF DanglingInv, ReadBacklog
<1>11. ASSUME NEW j \in Jobs, LoadScored(j)
       PROVE  DanglingInv'
  <2>1. ScoredPosts \subseteq DOMAIN stored
    BY DEF ScoredPosts, Accepted
  <2>2. HandsStored'
    BY <1>2, <1>5, <1>11, <2>1 DEF LoadScored
  <2> QED
    BY <1>1, <1>3, <1>11, <2>2 DEF DanglingInv, LoadScored
<1>12. ASSUME NEW j \in Jobs, RefreshStore(j)
       PROVE  DanglingInv'
  <2>1. stored' = InsertPosts(stored, Unfiltered(job[j].rows))
    BY <1>12 DEF RefreshStore
  <2>2. DOMAIN Unfiltered(job[j].rows) = job[j].rows
    BY DEF Unfiltered
  <2>3. DOMAIN InsertPosts(stored, Unfiltered(job[j].rows))
           = DOMAIN stored \union DOMAIN Unfiltered(job[j].rows)
    BY InsertKeepsRows
  <2>4. job[j].rows \subseteq DOMAIN stored'
    BY <2>1, <2>2, <2>3
  <2>5. HandsStored'
    BY <1>5, <1>12, <2>4 DEF RefreshStore
  <2> QED
    BY <1>1, <1>3, <1>12, <2>5 DEF DanglingInv, RefreshStore
<1>13. ASSUME NEW j \in Jobs, StorePosts(j) \/ JobDies(j)
       PROVE  DanglingInv'
  <2>1. HandsStored'
    BY <1>6, <1>13 DEF StorePosts, JobDies
  <2> QED
    BY <1>1, <1>3, <1>13, <2>1 DEF DanglingInv, StorePosts, JobDies
<1>14. ASSUME NEW j \in Jobs, InsertStances(j) \/ RefreshScore(j)
       PROVE  DanglingInv'
  <2>1. job[j].rows \subseteq DOMAIN stored
    BY <1>14 DEF InsertStances, RefreshScore, DanglingInv, HandsStored
  <2>2. stances' = stances \union job[j].rows /\ bars' = bars
    BY <1>14 DEF InsertStances, RefreshScore
  <2>3. NothingDangles'
    BY <1>2, <2>1, <2>2 DEF DanglingInv, NothingDangles
  <2>4. \/ Rest(j)
        \/ job' = [job EXCEPT ![j] =
              Doing("bars", job[j].rows, Points(job[j].rows))]
    BY <1>14 DEF InsertStances, RefreshScore, Rest
  <2>5. HandsStored'
    BY <1>2, <1>5, <1>6, <2>1, <2>4
  <2> QED
    BY <1>1, <2>3, <2>5 DEF DanglingInv
<1>15. ASSUME NEW j \in Jobs, InsertSignal(j)
       PROVE  DanglingInv'
  <2>1. PICK t \in job[j].points :
           /\ bars' = [bars EXCEPT ![t] = Contributions(job[j].rows, t)]
           /\ \/ Rest(j)
              \/ job' = [job EXCEPT ![j] =
                    Doing("bars", job[j].rows, job[j].points \ {t})]
    BY <1>15 DEF InsertSignal
  <2>2. job[j].rows \subseteq DOMAIN stored
    BY <1>15 DEF InsertSignal, DanglingInv, HandsStored
  <2>3. Contributions(job[j].rows, t) \subseteq DOMAIN stored
    BY <2>2 DEF Contributions
  <2>4. \A u \in Bars : bars'[u] \subseteq DOMAIN stored'
    BY <1>1, <1>2, <2>1, <2>3 DEF SeriesTypeOK, DanglingInv, NothingDangles
  <2>5. NothingDangles'
    BY <1>2, <1>15, <2>4 DEF InsertSignal, DanglingInv, NothingDangles
  <2>6. HandsStored'
    BY <1>2, <1>5, <1>6, <2>1, <2>2
  <2> QED
    BY <1>1, <2>5, <2>6 DEF DanglingInv
<1>16. CASE UNCHANGED vars
  BY <1>1, <1>3, <1>4, <1>16 DEF DanglingInv, vars, seriesVars
<1> QED
  BY <1>8, <1>9, <1>10, <1>11, <1>12, <1>13, <1>14, <1>15, <1>16
  DEF Next, JobStep

LEMMA DanglingStart == Init => DanglingInv
BY TypesStart DEF Init, DanglingInv, NothingDangles, HandsStored, Resting, Doing

\* Every stance is of a stored post and S(t) counts stored posts only, though no
\* foreign key says so.
THEOREM ScoresHaveTheirPosts == Spec => []NothingDangles
<1>1. DanglingInv => NothingDangles
  BY DEF DanglingInv
<1> QED
  BY <1>1, DanglingStart, DanglingStep, PTL DEF Spec

-----------------------------------------------------------------------------
(* On live posts nothing is counted twice: a post keeps its timestamp, so    *)
(* that whatever is fetched again has the key it has in the table.           *)

DatedBy(dates, rows) == \A r \in rows : r \in Rows /\ dates[r.post] = r.at

DatedInv ==
    /\ DanglingInv
    /\ DatedBy(created, DOMAIN stored)
    /\ \A w \in Polls : poll[w] # None => DatedBy(created, poll[w])
    /\ \A j \in Jobs : job[j].step \in {"store", "refreshStore"}
                          => DatedBy(created, job[j].rows)

LEMMA DatesStand ==
    ASSUME SeriesTypeOK, [Next]_vars, NEW rows, DatedBy(created, rows)
    PROVE  DatedBy(created', rows)
<1>1. ASSUME NEW r \in rows PROVE created'[r.post] = created[r.post]
  <2>1. r.post \in Posts /\ created[r.post] \in Nat
    BY PostStoreAssumption DEF DatedBy, Rows
  <2>2. created[r.post] # None
    BY <2>1, PostStoreAssumption
  <2>3. ASSUME NEW p \in Posts, Publish(p)
        PROVE  created'[r.post] = created[r.post]
    BY <2>1, <2>2, <2>3 DEF Publish, SeriesTypeOK
  <2>4. CASE created' = created
    BY <2>4
  <2> QED
    BY <2>3, <2>4 DEF Next, StoreNext, Tick, PollFetch, PollStore, PollLost,
       JobStep, JobDies, FetchPosts, StorePosts, ReadBacklog, InsertStances,
       LoadScored, InsertSignal, RefreshFetch, RefreshStore, RefreshScore,
       vars, storeVars
<1> QED
  BY <1>1 DEF DatedBy

LEMMA LiveAnswersAreDated ==
    ASSUME SeriesTypeOK, ~Replay, NEW S \in Answers
    PROVE  DatedBy(created, S)
BY AnswersAreRows DEF DatedBy, CreatedAt

LEMMA DatedStep == ~Replay /\ DatedInv /\ [Next]_vars => DatedInv'
<1> SUFFICES ASSUME ~Replay, DatedInv, [Next]_vars PROVE DatedInv'
  OBVIOUS
<1>1. DanglingInv' /\ SeriesTypeOK /\ SeriesTypeOK'
  BY DanglingStep DEF DatedInv, DanglingInv
<1>2. ASSUME NEW rows, DatedBy(created, rows) PROVE DatedBy(created', rows)
  BY <1>1, <1>2, DatesStand
<1>3. DatedBy(created, DOMAIN stored')
  <2>1. ASSUME NEW batch, stored' = InsertPosts(stored, batch),
               DatedBy(created, DOMAIN batch)
        PROVE  DatedBy(created, DOMAIN stored')
    <3>1. DOMAIN stored' = DOMAIN stored \union DOMAIN batch
      BY <2>1, InsertKeepsRows
    <3> QED
      BY <2>1, <3>1 DEF DatedBy, DatedInv
  <2>2. ASSUME NEW w \in Polls, PollStore(w)
        PROVE  DatedBy(created, DOMAIN stored')
    <3>1. DatedBy(created, poll[w])
      BY <2>2 DEF PollStore, DatedInv
    <3>2. DOMAIN ApplyBatch(poll[w]) = poll[w]
      BY DEF ApplyBatch
    <3>3. DatedBy(created, DOMAIN ApplyBatch(poll[w]))
      BY <3>1, <3>2
    <3> QED
      BY <2>1, <2>2, <3>3 DEF PollStore
  <2>3. ASSUME NEW j \in Jobs, StorePosts(j) \/ RefreshStore(j)
        PROVE  DatedBy(created, DOMAIN stored')
    <3>1. DatedBy(created, job[j].rows)
      BY <2>3 DEF StorePosts, RefreshStore, DatedInv
    <3>2. DOMAIN Unfiltered(job[j].rows) = job[j].rows
      BY DEF Unfiltered
    <3>3. DatedBy(created, DOMAIN Unfiltered(job[j].rows))
      BY <3>1, <3>2
    <3> QED
      BY <2>1, <2>3, <3>3 DEF StorePosts, RefreshStore
  <2>4. CASE stored' = stored
    BY <2>4 DEF DatedInv
  <2> QED
    BY <2>2, <2>3, <2>4 DEF Next, StoreNext, Tick, Publish, PollFetch, PollLost,
       JobStep, JobDies, FetchPosts, ReadBacklog, InsertStances, LoadScored,
       InsertSignal, RefreshFetch, RefreshScore, vars, storeVars
<1>4. ASSUME NEW w \in Polls, poll'[w] # None
      PROVE  DatedBy(created, poll'[w])
  <2>1. CASE poll'[w] = poll[w]
    BY <1>4, <2>1 DEF DatedInv
  <2>2. ASSUME NEW v \in Polls, PollFetch(v) PROVE DatedBy(created, poll'[w])
    <3>1. PICK batch \in Answers : poll' = [poll EXCEPT ![v] = batch]
      BY <2>2 DEF PollFetch
    <3>2. DatedBy(created, batch)
      BY <1>1, <3>1, LiveAnswersAreDated
    <3> QED
      BY <1>1, <2>1, <3>1, <3>2 DEF SeriesTypeOK
  <2>3. ASSUME NEW v \in Polls, PollStore(v) \/ PollLost(v)
        PROVE  DatedBy(created, poll'[w])
    BY <1>1, <1>4, <2>1, <2>3 DEF PollStore, PollLost, SeriesTypeOK
  <2> QED
    BY <2>1, <2>2, <2>3 DEF Next, StoreNext, Tick, Publish,
       JobStep, JobDies, FetchPosts, StorePosts, ReadBacklog, InsertStances,
       LoadScored, InsertSignal, RefreshFetch, RefreshStore, RefreshScore,
       vars, storeVars
<1>5. ASSUME NEW k \in Jobs, job'[k].step \in {"store", "refreshStore"}
      PROVE  DatedBy(created, job'[k].rows)
  <2>1. CASE job'[k] = job[k]
    BY <1>5, <2>1 DEF DatedInv
  <2>2. ASSUME NEW j \in Jobs, NEW s, NEW rows, NEW points,
               job' = [job EXCEPT ![j] = Doing(s, rows, points)],
               s \in {"store", "refreshStore"} => DatedBy(created, rows)
        PROVE  DatedBy(created, job'[k].rows)
    <3>1. CASE k = j
      <4>1. job'[k].step = s /\ job'[k].rows = rows
        BY <1>1, <2>2, <3>1 DEF SeriesTypeOK, Doing
      <4> QED
        BY <1>5, <2>2, <4>1
    <3>2. CASE k # j
      BY <1>1, <2>1, <2>2, <3>2 DEF SeriesTypeOK
    <3> QED
      BY <3>1, <3>2
  <2>3. ASSUME NEW j \in Jobs, FetchPosts(j) \/ RefreshFetch(j)
        PROVE  DatedBy(created, job'[k].rows)
    <3>1. PICK batch \in Answers, s \in Step :
             job' = [job EXCEPT ![j] = Doing(s, batch, {})]
      BY <2>3 DEF FetchPosts, RefreshFetch, Step
    <3>2. DatedBy(created, batch)
      BY <1>1, <3>1, LiveAnswersAreDated
    <3> QED
      BY <2>2, <3>1, <3>2
  <2>4. ASSUME NEW j \in Jobs, Rest(j) PROVE DatedBy(created, job'[k].rows)
    BY <2>2, <2>4 DEF Rest, Resting
  <2>5. ASSUME NEW j \in Jobs,
               StorePosts(j) \/ InsertStances(j) \/ JobDies(j)
        PROVE  DatedBy(created, job'[k].rows)
    BY <2>4, <2>5 DEF StorePosts, InsertStances, JobDies
  <2>6. ASSUME NEW j \in Jobs, ReadBacklog(j) \/ LoadScored(j) \/ RefreshStore(j)
        PROVE  DatedBy(created, job'[k].rows)
    BY <2>2, <2>6 DEF ReadBacklog, LoadScored, RefreshStore
  <2>7. ASSUME NEW j \in Jobs, InsertSignal(j)
        PROVE  DatedBy(created, job'[k].rows)
    BY <2>2, <2>4, <2>7 DEF InsertSignal
  <2>8. ASSUME NEW j \in Jobs, RefreshScore(j)
        PROVE  DatedBy(created, job'[k].rows)
    <3>1. \/ Rest(j)
          \/ job' = [job EXCEPT ![j] =
                Doing("bars", job[j].rows, Points(job[j].rows))]
      BY <2>8 DEF RefreshScore, Rest
    <3> QED
      BY <2>2, <2>4, <3>1
  <2>9. CASE UNCHANGED job
    BY <2>1, <2>9
  <2> QED
    BY <2>3, <2>5, <2>6, <2>7, <2>8, <2>9
    DEF Next, JobStep, vars, seriesVars
<1> QED
  BY <1>1, <1>2, <1>3, <1>4, <1>5 DEF DatedInv

LEMMA DatedOnce == DatedInv => EachPostOnce
<1> SUFFICES ASSUME DatedInv,
                    NEW q \in DOMAIN stored, NEW r \in DOMAIN stored,
                    q.post = r.post
             PROVE  q = r
  BY DEF DatedInv, DanglingInv, NothingDangles, EachPostOnce
<1>1. q.at = r.at /\ q \in Rows /\ r \in Rows
  BY DEF DatedInv, DatedBy
<1> QED
  BY <1>1 DEF Rows

\* With live posts, no post is stored twice or counted twice by S(t), however
\* many jobs and polls fetch it again.
THEOREM LivePostsCountOnce ==
    ASSUME ~Replay
    PROVE  Spec => []EachPostOnce
<1>1. Init => DatedInv
  BY DanglingStart DEF Init, StoreInit, DatedInv, DatedBy, Resting, Doing
<1>2. DatedInv /\ [Next]_vars => DatedInv'
  BY DatedStep
<1> QED
  BY <1>1, <1>2, DatedOnce, PTL DEF Spec

-----------------------------------------------------------------------------
(* What a bar may lose.  The assets alone, with no two of them at once, load *)
(* every score of the last MaxAge: whatever a bar counted is there or older. *)

\* A bar that is computed again loses no post but those older than MaxAge.
LosesOnlyTheOld ==
    [][\A t \in Bars : \A r \in bars[t] \ bars'[t] : r.at < now - MaxAge]_vars

\* The scores that the load of a job starting now would return, at least.
Recent == {r \in stances : r.at >= now - MaxAge}

\* What the lone job has in hand, and what the bars count, has a score.
LoadedInv ==
    /\ SeriesTypeOK
    /\ stances \subseteq Accepted
    /\ \A t \in Bars : bars[t] \subseteq Contributions(stances, t)
    /\ \A j \in Jobs :
          /\ job[j].step \in {"idle", "store", "score", "bars"}
          /\ job[j].step = "score" => job[j].rows \subseteq Accepted
          /\ job[j].step = "bars" => Recent \subseteq job[j].rows /\ job[j].rows \subseteq stances

LEMMA AcceptedGrows == [Next]_vars => Accepted \subseteq Accepted'
BY StepsKeepRows DEF StoredGrows, Accepted

LEMMA ContributionsGrow ==
    ASSUME NEW rows, NEW more, rows \subseteq more, NEW t
    PROVE  Contributions(rows, t) \subseteq Contributions(more, t)
BY DEF Contributions

LEMMA LoadedStart == Refreshing = {} /\ Init => LoadedInv
BY TypesStart DEF Init, LoadedInv, Resting, Doing

\* The statement that inserts a bar.
LEMMA InsertLosesOnlyTheOld ==
    ASSUME LoadedInv, NEW j \in Jobs, InsertSignal(j)
    PROVE  /\ \A t \in Bars : bars'[t] \subseteq Contributions(stances, t)
           /\ \A t \in Bars : \A r \in bars[t] \ bars'[t] : r.at < now - MaxAge
<1>1. PICK u \in job[j].points : bars' = [bars EXCEPT ![u] = Contributions(job[j].rows, u)]
  BY DEF InsertSignal
<1>2. /\ bars \in [Bars -> SUBSET Rows] /\ u \in Bars
      /\ Recent \subseteq job[j].rows /\ job[j].rows \subseteq stances /\ stances \subseteq Rows
  BY DEF InsertSignal, LoadedInv, SeriesTypeOK
<1>3. bars'[u] = Contributions(job[j].rows, u) /\ \A t \in Bars \ {u} : bars'[t] = bars[t]
  BY <1>1, <1>2
<1>4. bars[u] \subseteq Contributions(stances, u)
  BY <1>2 DEF LoadedInv
<1>5. \A t \in Bars : bars'[t] \subseteq Contributions(stances, t)
  <2>1. bars'[u] \subseteq Contributions(stances, u)
    BY <1>2, <1>3, ContributionsGrow
  <2> QED
    BY <1>3, <2>1 DEF LoadedInv
<1>6. ASSUME NEW r \in bars[u], r \notin bars'[u]
      PROVE  r.at < now - MaxAge
  <2>1. r \in stances /\ r \notin job[j].rows
    BY <1>3, <1>4, <1>6 DEF Contributions
  <2>2. ~(r.at >= now - MaxAge)
    BY <1>2, <2>1 DEF Recent
  <2>3. r.at \in Int /\ now \in Int /\ MaxAge \in Int
    BY <1>2, <2>1, PostStoreAssumption, SeriesAssumption
    DEF Rows, LoadedInv, SeriesTypeOK
  <2> QED
    BY <2>2, <2>3
<1> QED
  BY <1>3, <1>5, <1>6

LEMMA LoadedStep ==
    ASSUME Refreshing = {}, \A i, j \in Jobs : i = j, LoadedInv, [Next]_vars
    PROVE  LoadedInv'
<1>1. SeriesTypeOK /\ SeriesTypeOK' /\ Accepted \subseteq Accepted'
  BY TypesStep, AcceptedGrows DEF LoadedInv
<1>2. ASSUME UNCHANGED <<stances, bars>>
      PROVE  /\ stances' \subseteq Accepted'
             /\ \A t \in Bars : bars'[t] \subseteq Contributions(stances', t)
  BY <1>1, <1>2 DEF LoadedInv
<1>3. ASSUME NEW j \in Jobs, NEW s, NEW rows, NEW points,
             job' = [job EXCEPT ![j] = Doing(s, rows, points)]
      PROVE  \A i \in Jobs : job'[i].step = s /\ job'[i].rows = rows
  <2>1. job'[j] = Doing(s, rows, points)
    BY <1>1, <1>3 DEF SeriesTypeOK
  <2> QED
    BY <2>1 DEF Doing
<1>4. ASSUME NEW j \in Jobs, Rest(j)
      PROVE  \A i \in Jobs : job'[i].step = "idle"
  BY <1>3, <1>4 DEF Rest, Resting
<1>5. CASE StoreNext /\ UNCHANGED seriesVars
  <2>1. now' = now \/ now' = now + 1
    BY <1>5 DEF StoreNext, Tick, Publish, PollFetch, PollStore, PollLost
  <2>2. now \in Int /\ MaxAge \in Int /\ \A r \in stances : r.at \in Int
    BY <1>1, PostStoreAssumption, SeriesAssumption DEF SeriesTypeOK, Rows
  <2>3. Recent' \subseteq Recent
    BY <1>5, <2>1, <2>2 DEF Recent, seriesVars
  <2> QED
    BY <1>1, <1>2, <1>5, <2>3 DEF LoadedInv, seriesVars
<1>6. ASSUME NEW j \in Jobs, FetchPosts(j)
      PROVE  LoadedInv'
  <2>1. \A i \in Jobs : job'[i].step = "store"
    BY <1>3, <1>6 DEF FetchPosts
  <2> QED
    BY <1>1, <1>2, <1>6, <2>1 DEF LoadedInv, FetchPosts
<1>7. ASSUME NEW j \in Jobs, StorePosts(j) \/ JobDies(j)
      PROVE  LoadedInv'
  <2>1. \A i \in Jobs : job'[i].step = "idle"
    BY <1>4, <1>7 DEF StorePosts, JobDies
  <2> QED
    BY <1>1, <1>2, <1>7, <2>1 DEF LoadedInv, StorePosts, JobDies
<1>8. ASSUME NEW j \in Jobs, ReadBacklog(j)
      PROVE  LoadedInv'
  <2>1. PICK batch \in UnscoredPosts : job' = [job EXCEPT ![j] = Doing("score", batch, {})]
    BY <1>8 DEF ReadBacklog
  <2>2. batch \subseteq Accepted
    BY DEF UnscoredPosts, Unscored
  <2>3. \A i \in Jobs : job'[i].step = "score" /\ job'[i].rows = batch
    BY <1>3, <2>1
  <2> QED
    BY <1>1, <1>2, <1>8, <2>2, <2>3 DEF LoadedInv, ReadBacklog
<1>9. ASSUME NEW j \in Jobs, InsertStances(j)
      PROVE  LoadedInv'
  <2>1. /\ stances' = stances \union job[j].rows /\ bars' = bars
        /\ job[j].rows \subseteq Accepted
    BY <1>9 DEF InsertStances, LoadedInv
  <2>2. \A i \in Jobs : job'[i].step = "idle"
    BY <1>4, <1>9 DEF InsertStances
  <2>3. \A t \in Bars : Contributions(stances, t) \subseteq Contributions(stances', t)
    BY <2>1, ContributionsGrow
  <2> QED
    BY <1>1, <2>1, <2>2, <2>3 DEF LoadedInv
<1>10. ASSUME NEW j \in Jobs, LoadScored(j)
       PROVE  LoadedInv'
  <2>1. \A i \in Jobs : job'[i].step = "bars" /\ job'[i].rows = ScoredPosts
    <3>1. job' = [job EXCEPT ![j] = Doing("bars", ScoredPosts, Points(ScoredPosts))]
      BY <1>10 DEF LoadScored
    <3>2. PICK rows, points :
             rows = ScoredPosts /\ job' = [job EXCEPT ![j] = Doing("bars", rows, points)]
      BY <3>1
    <3> QED
      BY <1>3, <3>2
  <2>2. UNCHANGED <<stances, bars, now>>
    BY <1>10 DEF LoadScored, storeVars
  <2>3. Recent \subseteq ScoredPosts /\ ScoredPosts \subseteq stances
    BY DEF ScoredPosts, Recent, LoadedInv
  <2>4. Recent' = Recent
    BY <2>2 DEF Recent
  <2> QED
    BY <1>1, <1>2, <2>1, <2>2, <2>3, <2>4 DEF LoadedInv
<1>11. ASSUME NEW j \in Jobs, InsertSignal(j)
       PROVE  LoadedInv'
  <2>1. \A t \in Bars : bars'[t] \subseteq Contributions(stances, t)
    BY <1>11, InsertLosesOnlyTheOld
  <2>2. UNCHANGED <<stances, now>>
    BY <1>11 DEF InsertSignal, storeVars
  <2>3. Recent' = Recent
    BY <2>2 DEF Recent
  <2>4. \/ \A i \in Jobs : job'[i].step = "idle"
        \/ \A i \in Jobs : job'[i].step = "bars" /\ job'[i].rows = job[j].rows
    BY <1>3, <1>4, <1>11 DEF InsertSignal
  <2>5. Recent \subseteq job[j].rows /\ job[j].rows \subseteq stances
    BY <1>11 DEF InsertSignal, LoadedInv
  <2> QED
    BY <1>1, <2>1, <2>2, <2>3, <2>4, <2>5 DEF LoadedInv
<1>12. ASSUME NEW j \in Jobs, RefreshFetch(j) \/ RefreshStore(j) \/ RefreshScore(j)
       PROVE  FALSE
  BY <1>12 DEF RefreshFetch, RefreshStore, RefreshScore, LoadedInv
<1>13. CASE UNCHANGED vars
  <2>1. Recent' = Recent
    BY <1>13 DEF Recent, vars, storeVars, seriesVars
  <2> QED
    BY <1>1, <1>2, <1>13, <2>1 DEF LoadedInv, vars, seriesVars
<1> QED
  BY <1>5, <1>6, <1>7, <1>8, <1>9, <1>10, <1>11, <1>12, <1>13 DEF Next, JobStep

\* Where the pipeline's jobs run one at a time and nobody refreshes by hand, a
\* bar that is computed again loses only what has left the window of the load:
\* the overwritten bars of `series_rerun` are all that a rerun can do.
THEOREM LoneJobLosesOnlyTheOld ==
    ASSUME Refreshing = {}, \A i, j \in Jobs : i = j
    PROVE  Spec => LosesOnlyTheOld
<1>1. LoadedInv /\ [Next]_vars => LoadedInv'
  BY LoadedStep
<1>2. ASSUME LoadedInv, [Next]_vars
      PROVE  \A t \in Bars : \A r \in bars[t] \ bars'[t] : r.at < now - MaxAge
  <2>1. ASSUME NEW j \in Jobs, InsertSignal(j)
        PROVE  \A t \in Bars : \A r \in bars[t] \ bars'[t] : r.at < now - MaxAge
    BY <1>2, <2>1, InsertLosesOnlyTheOld
  <2>2. (\E j \in Jobs : InsertSignal(j)) \/ bars' = bars
    BY <1>2 DEF Next, JobStep, JobDies, FetchPosts, StorePosts, ReadBacklog, InsertStances,
       LoadScored, RefreshFetch, RefreshStore, RefreshScore, vars, seriesVars
  <2> QED
    BY <2>1, <2>2
<1>3. LoadedInv /\ [Next]_vars =>
        [\A t \in Bars : \A r \in bars[t] \ bars'[t] : r.at < now - MaxAge]_vars
  BY <1>2
<1> QED
  BY <1>1, <1>3, LoadedStart, PTL DEF Spec, LosesOnlyTheOld
=============================================================================
