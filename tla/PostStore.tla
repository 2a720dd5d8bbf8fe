------------------------------ MODULE PostStore ------------------------------
(***************************************************************************)
(* How posts of one market get into the table `posts`.  The Rust ingest    *)
(* polls X (main.rs, poll_all), filters each answer with a filter of its   *)
(* own and inserts it in one transaction; the Python pipeline (module      *)
(* SignalSeries) asks the same search and inserts what it gets unfiltered. *)
(* Neither overwrites a stored row.                                        *)
(*                                                                         *)
(* A row is a post with its timestamp, as in the table's key (post_id,     *)
(* market_id, created_at); what is kept of its verdict is whether it was   *)
(* accepted.  X's posts have a timestamp of their own; a replayed fixture  *)
(* is shifted at each fetch so that its newest post is new.                *)
(***************************************************************************)
EXTENDS Integers, FiniteSets

CONSTANTS
    Posts,          \* the posts of the market, on X or in the fixture
    Text,           \* [Posts -> class]: near-duplicates have the same class
    Suspect,        \* posts that the heuristics reject
    Polls,          \* ingest processes
    Replay,         \* TRUE: fixture replay, the default; FALSE: live X
    Age,            \* [Posts -> Nat]: how much older than the newest (replay)
    Start,          \* the time at which the model begins
    Lookback,       \* how far back a search goes
    MaxResults,     \* posts that a search returns at most
    MaxTime,        \* bound: the last instant
    None

ASSUME PostStoreAssumption ==
    /\ Suspect \subseteq Posts
    /\ Replay \in BOOLEAN
    /\ Age \in [Posts -> Nat]
    /\ Start \in Nat /\ (Replay => \A p \in Posts : Age[p] <= Start)
    /\ Lookback \in Nat /\ MaxResults \in Nat \ {0}
    /\ MaxTime \in Nat /\ Start <= MaxTime
    /\ None \notin Nat

VARIABLES
    now,
    created,    \* [Posts -> time or None]: when it appeared on X
    stored,     \* rows |-> accepted?: the table `posts`
    poll        \* [Polls -> SUBSET rows, or None]: the answer in hand

storeVars == <<now, created, stored, poll>>

Rows == [post : Posts, at : 0..MaxTime]

StoreInit ==
    /\ now = Start
    /\ created = [p \in Posts |-> None]
    /\ stored = [r \in {} |-> TRUE]
    /\ poll = [w \in Polls |-> None]

-----------------------------------------------------------------------------
(* The search, the filter and the insert.                                  *)

Visible == IF Replay THEN Posts ELSE {p \in Posts : created[p] # None}

\* Mutant: a live post carries the time at which it was fetched.
CreatedAtFetch(p) == IF Replay THEN now - Age[p] ELSE now

CreatedAt(p) == IF Replay THEN now - Age[p] ELSE created[p]

Matches ==
    {r \in {[post |-> p, at |-> CreatedAt(p)] : p \in Visible} :
        r.at >= now - Lookback}

\* Every answer a search may give: the newest of what matches.
Answers ==
    {S \in SUBSET Matches :
        /\ \A r \in S, q \in Matches \ S : q.at < r.at
        /\ Cardinality(S) <= MaxResults
        /\ S # Matches => Cardinality(S) = MaxResults}

\* The order in which the filter sees two posts: fixtures are sorted oldest
\* first, X answers newest first.
Precedes(q, r) == IF Replay THEN q.at < r.at ELSE q.at > r.at

\* apply_batch with a filter of its own: of each class the first is accepted,
\* unless the heuristics reject it.
ApplyBatch(batch) ==
    [r \in batch |->
        /\ r.post \notin Suspect
        /\ ~\E q \in batch : Text[q.post] = Text[r.post] /\ Precedes(q, r)]

\* What Python inserts: every post as accepted.
Unfiltered(batch) == [r \in batch |-> TRUE]

\* Mutant: ON CONFLICT DO UPDATE of the verdict.
InsertPostsUpdating(table, batch) ==
    [r \in DOMAIN table \union DOMAIN batch |->
        IF r \in DOMAIN batch THEN batch[r] ELSE table[r]]

\* One transaction; ON CONFLICT (post_id, market_id, created_at) DO NOTHING.
InsertPosts(table, batch) ==
    [r \in DOMAIN table \union DOMAIN batch |->
        IF r \in DOMAIN table THEN table[r] ELSE batch[r]]

-----------------------------------------------------------------------------
(* Actions.                                                                *)

Tick ==
    /\ now < MaxTime
    /\ now' = now + 1
    /\ UNCHANGED <<created, stored, poll>>

\* Someone posts.  No two posts have the same timestamp.
Publish(p) ==
    /\ ~Replay
    /\ now < MaxTime
    /\ created[p] = None
    /\ \A q \in Posts : created[q] # now
    /\ created' = [created EXCEPT ![p] = now]
    /\ UNCHANGED <<now, stored, poll>>

\* poll_all: nothing returned means nothing to do.
PollFetch(w) ==
    /\ poll[w] = None
    /\ \E batch \in Answers \ {{}} : poll' = [poll EXCEPT ![w] = batch]
    /\ UNCHANGED <<now, created, stored>>

PollStore(w) ==
    /\ poll[w] # None
    /\ stored' = InsertPosts(stored, ApplyBatch(poll[w]))
    /\ poll' = [poll EXCEPT ![w] = None]
    /\ UNCHANGED <<now, created>>

\* The insert fails and is logged, or the process dies: the transaction is
\* rolled back and the next poll starts afresh.
PollLost(w) ==
    /\ poll[w] # None
    /\ poll' = [poll EXCEPT ![w] = None]
    /\ UNCHANGED <<now, created, stored>>

StoreNext ==
    \/ Tick
    \/ \E p \in Posts : Publish(p)
    \/ \E w \in Polls : PollFetch(w) \/ PollStore(w) \/ PollLost(w)
=============================================================================
