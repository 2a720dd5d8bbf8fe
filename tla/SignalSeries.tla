----------------------------- MODULE SignalSeries -----------------------------
(***************************************************************************)
(* From stored posts to the series S(t) of one market and one model        *)
(* version: the assets `posts`, `stances` and `signals` of the pipeline,   *)
(* and the command `augury refresh`, which does the three in one go from   *)
(* what it fetched.  Jobs run and re-run in any order and at the same      *)
(* time, commit each statement on its own, and may die between two.        *)
(*                                                                         *)
(* What S(t) is at a bar is abstracted to the rows it is aggregated from.  *)
(***************************************************************************)
EXTENDS PostStore

CONSTANTS
    Jobs,           \* processes running assets or `augury refresh`
    Mortal,         \* jobs that may die
    Refreshing,     \* jobs that may be an `augury refresh`
    Weightless,     \* posts of accounts without followers
    BarLen,         \* units of time per bar of the grid
    MaxAge,         \* SIGNAL_MAX_AGE, also how far back `signals` loads
    BatchLimit      \* posts that `stances` scores at most

ASSUME SeriesAssumption ==
    /\ Mortal \subseteq Jobs /\ Refreshing \subseteq Jobs
    /\ Weightless \subseteq Posts
    /\ BarLen \in Nat \ {0} /\ MaxAge \in Nat /\ BatchLimit \in Nat \ {0}

VARIABLES
    stances,    \* rows that have a stance
    bars,       \* [Bars -> SUBSET rows]: `signals`, {} where there is no row
    job         \* [Jobs -> record]: a job's locals

seriesVars == <<stances, bars, job>>
vars == <<storeVars, seriesVars>>

Bars == {t \in 0..MaxTime : t % BarLen = 0}

\* A job's locals: the posts in hand, and the bars computed from them that it
\* has yet to insert.
Doing(step, rows, points) == [step |-> step, rows |-> rows, points |-> points]
Resting == Doing("idle", {}, {})

Init ==
    /\ StoreInit
    /\ stances = {}
    /\ bars = [t \in Bars |-> {}]
    /\ job = [j \in Jobs |-> Resting]

-----------------------------------------------------------------------------
(* Reading and aggregating.                                                *)

Accepted == {r \in DOMAIN stored : stored[r]}

\* Mutant: the posts that have a stance are not left out.
UnscoredAll == Accepted

Unscored == Accepted \ stances

\* unscored_posts: the newest, up to the limit.
UnscoredPosts ==
    {S \in SUBSET Unscored :
        /\ \A r \in S, q \in Unscored \ S : q.at <= r.at
        /\ Cardinality(S) <= BatchLimit
        /\ S # Unscored => Cardinality(S) = BatchLimit}

\* scored_posts since now - 7 days.
ScoredPosts == {r \in Accepted \intersect stances : r.at >= now - MaxAge}

\* Mutant: posts after the bar are not excluded.
ContributionsAhead(rows, t) ==
    {r \in rows : r.post \notin Weightless /\ t - MaxAge <= r.at}

\* compute_signal at t: not in the future, not too old, and of some weight.
Contributions(rows, t) ==
    {r \in rows : r.post \notin Weightless /\ t - MaxAge <= r.at /\ r.at <= t}

\* Mutant: the cursor starts at the oldest post, not at its hour.
PointsUnaligned(rows) ==
    {t \in 0..MaxTime :
        /\ t <= now
        /\ \E r \in rows : r.at < t /\ (t - r.at) % BarLen = 0
        /\ Contributions(rows, t) # {}}

\* build_signal_series: the bars after the one that the oldest post is in, up
\* to now, but for those where the signal is undefined.
Points(rows) ==
    {t \in Bars :
        /\ t <= now
        /\ \E r \in rows : r.at - (r.at % BarLen) < t
        /\ Contributions(rows, t) # {}}

-----------------------------------------------------------------------------
(* Jobs.                                                                   *)

Rest(j) == job' = [job EXCEPT ![j] = Resting]

\* The asset `posts`: search, then insert.
FetchPosts(j) ==
    /\ job[j] = Resting
    /\ \E batch \in Answers \ {{}} :
          job' = [job EXCEPT ![j] = Doing("store", batch, {})]
    /\ UNCHANGED <<storeVars, stances, bars>>

StorePosts(j) ==
    /\ job[j].step = "store"
    /\ stored' = InsertPosts(stored, Unfiltered(job[j].rows))
    /\ Rest(j)
    /\ UNCHANGED <<now, created, poll, stances, bars>>

\* The asset `stances`: read the backlog, score, upsert.
ReadBacklog(j) ==
    /\ job[j] = Resting
    /\ \E batch \in UnscoredPosts \ {{}} :
          job' = [job EXCEPT ![j] = Doing("score", batch, {})]
    /\ UNCHANGED <<storeVars, stances, bars>>

InsertStances(j) ==
    /\ job[j].step = "score"
    /\ stances' = stances \union job[j].rows
    /\ Rest(j)
    /\ UNCHANGED <<storeVars, bars>>

\* The asset `signals`: load, compute the series.
LoadScored(j) ==
    /\ job[j] = Resting
    /\ Points(ScoredPosts) # {}
    /\ job' = [job EXCEPT ![j] = Doing("bars", ScoredPosts, Points(ScoredPosts))]
    /\ UNCHANGED <<storeVars, stances, bars>>

\* insert_signal, oldest bar first, one commit each; DO UPDATE.
InsertSignal(j) ==
    /\ job[j].step = "bars"
    /\ \E t \in job[j].points :
          /\ \A u \in job[j].points : t <= u
          /\ bars' = [bars EXCEPT ![t] = Contributions(job[j].rows, t)]
          /\ IF job[j].points = {t} THEN Rest(j)
             ELSE job' = [job EXCEPT ![j] = Doing("bars", @.rows, @.points \ {t})]
    /\ UNCHANGED <<storeVars, stances>>

\* Mutant: the stances are inserted without the posts.
RefreshFetchUnstored(j) ==
    /\ j \in Refreshing
    /\ job[j] = Resting
    /\ \E batch \in Answers \ {{}} :
          job' = [job EXCEPT ![j] = Doing("refreshScore", batch, {})]
    /\ UNCHANGED <<storeVars, stances, bars>>

\* augury refresh: store, score and aggregate what was fetched, whatever the
\* table says of it.
RefreshFetch(j) ==
    /\ j \in Refreshing
    /\ job[j] = Resting
    /\ \E batch \in Answers \ {{}} :
          job' = [job EXCEPT ![j] = Doing("refreshStore", batch, {})]
    /\ UNCHANGED <<storeVars, stances, bars>>

RefreshStore(j) ==
    /\ job[j].step = "refreshStore"
    /\ stored' = InsertPosts(stored, Unfiltered(job[j].rows))
    /\ job' = [job EXCEPT ![j] = Doing("refreshScore", @.rows, {})]
    /\ UNCHANGED <<now, created, poll, stances, bars>>

RefreshScore(j) ==
    /\ job[j].step = "refreshScore"
    /\ stances' = stances \union job[j].rows
    /\ job' = [job EXCEPT ![j] =
          IF Points(@.rows) = {} THEN Resting
          ELSE Doing("bars", @.rows, Points(@.rows))]
    /\ UNCHANGED <<storeVars, bars>>

JobDies(j) ==
    /\ j \in Mortal
    /\ job[j] # Resting
    /\ Rest(j)
    /\ UNCHANGED <<storeVars, stances, bars>>

JobStep(j) ==
    \/ FetchPosts(j) \/ StorePosts(j)
    \/ ReadBacklog(j) \/ InsertStances(j)
    \/ LoadScored(j) \/ InsertSignal(j)
    \/ RefreshFetch(j) \/ RefreshStore(j) \/ RefreshScore(j)

Next ==
    \/ StoreNext /\ UNCHANGED seriesVars
    \/ \E j \in Jobs : JobStep(j) \/ JobDies(j)

Spec == Init /\ [][Next]_vars

\* The schedule starts every asset again and again, and time passes.
Fairness ==
    /\ WF_vars(Tick /\ UNCHANGED seriesVars)
    /\ \A j \in Jobs \ Mortal :
          /\ WF_vars(StorePosts(j) \/ InsertStances(j) \/ InsertSignal(j)
                        \/ RefreshStore(j) \/ RefreshScore(j))
          /\ SF_vars(ReadBacklog(j))
          /\ SF_vars(LoadScored(j))

FairSpec == Spec /\ Fairness

-----------------------------------------------------------------------------
(* Properties.                                                             *)

Step == {"idle", "store", "score", "bars", "refreshStore", "refreshScore"}

\* The types, and that a job computes bars only from posts it holds.
SeriesTypeOK ==
    /\ now \in Start..MaxTime
    /\ created \in [Posts -> (0..MaxTime) \union {None}]
    /\ DOMAIN stored \subseteq Rows
    /\ \A r \in DOMAIN stored : stored[r] \in BOOLEAN
    /\ poll \in [Polls -> (SUBSET Rows) \union {None}]
    /\ stances \subseteq Rows
    /\ bars \in [Bars -> SUBSET Rows]
    /\ job \in [Jobs -> [step : Step, rows : SUBSET Rows, points : SUBSET Bars]]

\* No bar knows the future: whenever it was computed and however often, a bar
\* that is recorded lies in the past and counts only posts from the MaxAge up
\* to it (decay.compute_signal: "Allowing them would leak future information").
NothingFromTheFuture ==
    \A t \in Bars : bars[t] # {} =>
        t <= now /\ \A r \in bars[t] : t - MaxAge <= r.at /\ r.at <= t

\* There is no foreign key from `stances` to `posts`: that every stance, and
\* every post counted by S(t), is of a stored post hangs on the order of the
\* statements of jobs that race with each other and with the ingest.
NothingDangles == stances \union UNION {bars[t] : t \in Bars} \subseteq DOMAIN stored

\* A post is stored once and S(t) counts it once, however often it is fetched,
\* by whom, and however often its score is computed (db.py: "Polling the same
\* market twice, or re-scoring a corpus, must not create duplicate rows or
\* double-count anything in S(t)").
EachPostOnce ==
    \A q, r \in DOMAIN stored \union UNION {bars[t] : t \in Bars} :
        q.post = r.post => q = r

\* Whoever stores a post first decides its verdict for good: scores computed
\* from it are never put in doubt by a later fetch.
FirstVerdictStands ==
    [][\A r \in DOMAIN stored : r \in DOMAIN stored' /\ stored'[r] = stored[r]]_vars

\* Computing the series again never takes a post out of a recorded bar (steps:
\* every step can "re-run ... over an overlapping window without corrupting
\* anything").
BarsKeepTheirPosts == [][\A t \in Bars : bars[t] \subseteq bars'[t]]_vars

\* An accepted post of some weight is counted in the end, unless it is too old
\* by then: neither a backlog of newer posts nor a job that died starves it.
Counted(p) == \E t \in Bars : \E r \in bars[t] : r.post = p

AcceptedIsCounted ==
    \A p \in Posts \ Weightless :
        (\E r \in Accepted : r.post = p) ~>
            Counted(p) \/ \A r \in Accepted : r.post = p => now > r.at + MaxAge
=============================================================================
