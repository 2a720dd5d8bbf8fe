----------------------------- MODULE ReadBudget -----------------------------
(***************************************************************************)
(* The ingester's persisted daily read budget (budget.rs) and the search   *)
(* that spends it (LiveSource::search).  A worker reserves a whole page in *)
(* one guarded upsert on the row of CURRENT_DATE, sends the request, and   *)
(* once the answer is decoded gives back the reads it did not use, to the  *)
(* row of CURRENT_DATE as it is by then.  A request that fails keeps its   *)
(* reservation, because X may have metered it.                             *)
(***************************************************************************)
EXTENDS Integers, FiniteSets

CONSTANTS
    Workers,        \* ingest processes and tasks sharing the row
    Limit,          \* MAX_DAILY_READS
    Pages,          \* page sizes: max_results clamped to 10..MAX_PAGE_SIZE
    MaxPage,        \* the largest of them
    LastDay,        \* bound: days are 1..LastDay
    Overnight       \* may a request be in flight at midnight UTC?

ASSUME BudgetAssumption ==
    /\ Limit \in Nat /\ MaxPage \in Nat /\ LastDay \in Nat \ {0}
    /\ Pages \subseteq 1..MaxPage
    /\ Overnight \in BOOLEAN
    /\ IsFiniteSet(Workers)

Days == 1..LastDay

VARIABLES
    today,      \* CURRENT_DATE
    rows,       \* days with a row in read_budget
    used,       \* [Days -> Nat] reads_used, 0 without a row
    call,       \* [Workers -> record] a search in progress
    charged,    \* history: [Days -> Nat] reads X charged for, by the day on
                \* which they were reserved
    forfeited   \* history: [Days -> Nat] reads reserved for calls that failed
                \* and that X did not charge for

vars == <<today, rows, used, call, charged, forfeited>>

NoCall == [step |-> "idle", page |-> 0, returned |-> 0, day |-> 1]

Init ==
    /\ today = 1
    /\ rows = {}
    /\ used = [d \in Days |-> 0]
    /\ call = [w \in Workers |-> NoCall]
    /\ charged = [d \in Days |-> 0]
    /\ forfeited = [d \in Days |-> 0]

-----------------------------------------------------------------------------
\* Mutants: the first request of a day is not checked; the ceiling is checked
\* against what was used before this request.
HasHeadroomFirstFree(page) == today \in rows => used[today] + page <= Limit
HasHeadroomBefore(page) == used[today] <= Limit

\* The guard on INSERT ... SELECT for a first request, and the one on the
\* conflicting row for every other.
HasHeadroom(page) ==
    IF today \in rows THEN used[today] + page <= Limit ELSE page <= Limit

\* reserve: one statement.  Without headroom it fails and nothing changes.
Reserve(w, page) ==
    /\ call[w] = NoCall
    /\ HasHeadroom(page)
    /\ rows' = rows \union {today}
    /\ used' = [used EXCEPT ![today] = @ + page]
    /\ call' = [call EXCEPT ![w] =
          [step |-> "sent", page |-> page, returned |-> 0, day |-> today]]
    /\ UNCHANGED <<today, charged, forfeited>>

\* X answers the request, and charges for the posts it returns: at most a page.
Serve(w, posts) ==
    /\ call[w].step = "sent"
    /\ posts <= call[w].page
    /\ charged' = [charged EXCEPT ![call[w].day] = @ + posts]
    /\ call' = [call EXCEPT ![w] =
          [step |-> "served", page |-> @.page, returned |-> posts, day |-> @.day]]
    /\ UNCHANGED <<today, rows, used, forfeited>>

\* Reads that are reserved and that X has not charged for.
Claim(w) == call[w].page - call[w].returned

\* Mutant: a failed request gives its whole reservation back.
LoseRefunding(w) ==
    /\ call[w] # NoCall
    /\ used' = [used EXCEPT ![today] = IF @ < call[w].page THEN 0
                                                           ELSE @ - call[w].page]
    /\ call' = [call EXCEPT ![w] = NoCall]
    /\ UNCHANGED <<today, rows, charged, forfeited>>

\* Timeout, non-2xx status, undecodable body, or the process dies: before or
\* after X metered the request.  The reservation stands.
Lose(w) ==
    /\ call[w] # NoCall
    /\ forfeited' = [forfeited EXCEPT ![call[w].day] = @ + Claim(w)]
    /\ call' = [call EXCEPT ![w] = NoCall]
    /\ UNCHANGED <<today, rows, used, charged>>

\* Mutant: the refund is the number of posts returned.
RefundReturned(w, reads) == used[today] - call[w].returned

\* Mutant: the refund is not clamped.
RefundedUnclamped(w, reads) == used[today] - reads

\* GREATEST(0, reads_used - refund)
Refunded(w, reads) == IF used[today] < reads THEN 0 ELSE used[today] - reads

\* release_unused: the row is today's, not the one that was reserved against,
\* and nothing happens when there is no such row.
Release(w) ==
    /\ call[w].step = "served"
    /\ used' = IF today \in rows
               THEN [used EXCEPT ![today] = Refunded(w, Claim(w))]
               ELSE used
    /\ call' = [call EXCEPT ![w] = NoCall]
    /\ UNCHANGED <<today, rows, charged, forfeited>>

Midnight ==
    /\ today < LastDay
    /\ Overnight \/ \A w \in Workers : call[w] = NoCall
    /\ today' = today + 1
    /\ UNCHANGED <<rows, used, call, charged, forfeited>>

Next ==
    \/ \E w \in Workers :
          \/ \E page \in Pages : Reserve(w, page)
          \/ \E posts \in 0..MaxPage : Serve(w, posts)
          \/ Lose(w)
          \/ Release(w)
    \/ Midnight

Spec == Init /\ [][Next]_vars

-----------------------------------------------------------------------------
(* Properties.                                                             *)

CallType ==
    [step : {"sent", "served"}, page : 1..MaxPage, returned : 0..MaxPage,
     day : Days] \union {NoCall}

\* Types, and the CHECK of the read_budget table; a call never has more posts
\* than its page, and none before it was answered.
TypeOK ==
    /\ today \in Days
    /\ rows \subseteq Days
    /\ used \in [Days -> Nat]
    /\ call \in [Workers -> CallType]
    /\ charged \in [Days -> Nat]
    /\ forfeited \in [Days -> Nat]
    /\ \A w \in Workers : /\ call[w].returned <= call[w].page
                          /\ call[w].step = "sent" => call[w].returned = 0
                          /\ call[w] # NoCall => call[w].day <= today
    /\ \A d \in Days : (d \notin rows => used[d] = 0) /\ (d > today => d \notin rows)

\* The reads claimed against a day, counted one by one: worker w's claim is the
\* pairs <<w, 1>> .. <<w, Claim(w)>>.
Reads(claim) == {t \in Workers \X (1..MaxPage) : t[2] <= claim[t[1]]}

ClaimsOn(d) == [w \in Workers |-> IF call[w].day = d THEN Claim(w) ELSE 0]

Outstanding(d) == Cardinality(Reads(ClaimsOn(d)))

\* The row over-counts by exactly the reads of failed requests, so that the
\* ceiling does not "collapse to the number of requests": every successful
\* call is reconciled to its actual count.
AccountsBalance ==
    \A d \in Days : used[d] = charged[d] + Outstanding(d) + forfeited[d]

\* No row ever passes the limit, whatever a midnight moved into it.
CeilingHolds == \A d \in Days : used[d] <= Limit

\* Requests in flight at midnight are refunded to the new day, which makes room
\* for reads above its limit: at most a page for each worker but the one whose
\* reservation created the new day's row.
OverspendBounded ==
    \A d \in Days : charged[d] <= Limit + (Cardinality(Workers) - 1) * MaxPage

\* The day's bill stays within the limit, with any number of workers racing
\* for the last of it ("two concurrent workers cannot both observe headroom
\* and both spend it").
SpendWithinLimit == \A d \in Days : charged[d] <= Limit

Meter == INSTANCE DailyMeter WITH spent <- charged

\* The budget implements the promise: every step of the code spends within the
\* limit of the day it reserved on, or spends nothing.
ImplementsMeter == Meter!MeterSpec
=============================================================================
