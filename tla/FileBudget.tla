------------------------------ MODULE FileBudget ------------------------------
(***************************************************************************)
(* The read budget of the Python pipeline: a JSON file of counts by day    *)
(* (clients/budget.py), checked before each search of X and updated after  *)
(* it (clients/x.py, LiveXBackend.search).  The session retries a request  *)
(* by itself; X may have billed an attempt whose answer never arrives.     *)
(* The file is loaded and replaced as a whole, without a lock.             *)
(***************************************************************************)
EXTENDS Integers, FiniteSets

CONSTANTS
    Procs,              \* processes of the one service `augury-signal`
    Limit,              \* max_daily_reads
    Wanted,             \* values of max_results that callers pass
    MinPage, MaxPage,   \* the least and the most that a request asks for
    Retries,            \* attempts after the first (total_retries)
    KeepDays,           \* days the file remembers
    MaxDay,             \* bound: the last day
    MaxLost,            \* bound: reads billed on a day and never recorded
    MaxForgotten        \* bound: counts of a day that go with a blank file

ASSUME FileBudgetAssumption ==
    /\ Procs # {}
    /\ Limit \in Nat /\ Wanted \subseteq Nat
    /\ MinPage \in Nat \ {0} /\ MaxPage \in Nat /\ MinPage <= MaxPage
    /\ Retries \in Nat /\ KeepDays \in Nat \ {0}
    /\ MaxDay \in Nat /\ MaxLost \in Nat /\ MaxForgotten \in Nat

VARIABLES
    day,        \* the UTC day
    file,       \* [days |-> count]: the object that _load makes of the file
    readable,   \* whether the file can be parsed at all
    call,       \* [Procs -> record]: a search in progress
    billed,     \* history: what X billed, by day
    lost,       \* history: what of it was billed to calls that never recorded
    forgotten   \* history: what the file counted, by day, when it became one that
                \* reads as empty

vars == <<day, file, readable, call, billed, lost, forgotten>>

Days == 0..MaxDay

\* The locals of a search: the page asked for and the attempts left; what the
\* answer holds and the day on which X billed it; the object about to be saved
\* and the day under which it counts the answer.
Call(step, page, left, served, on, book) ==
    [step |-> step, page |-> page, left |-> left,
     served |-> served, on |-> on, book |-> book]

NoBook == [d \in {} |-> 0]

Idle == Call("idle", 0, 0, 0, 0, NoBook)

Init ==
    /\ day = 0
    /\ file = NoBook
    /\ readable = TRUE
    /\ call = [p \in Procs |-> Idle]
    /\ billed = [d \in Days |-> 0]
    /\ lost = [d \in Days |-> 0]
    /\ forgotten = [d \in Days |-> 0]

-----------------------------------------------------------------------------
(* The object in the file.                                                 *)

Used(book, d) == IF d \in DOMAIN book THEN book[d] ELSE 0

\* Mutant: the oldest days are kept, and the newest dropped.
PrunedNewest(book) ==
    [d \in {e \in DOMAIN book : Cardinality({f \in DOMAIN book : f < e}) < KeepDays}
        |-> book[d]]

\* The newest KeepDays days.
Pruned(book) ==
    [d \in {e \in DOMAIN book : Cardinality({f \in DOMAIN book : f > e}) < KeepDays}
        |-> book[d]]

\* Mutant: the count is replaced instead of added to.
RecordedReplacing(book, d, reads) ==
    Pruned([e \in DOMAIN book \union {d} |-> IF e = d THEN reads ELSE book[e]])

\* Mutant: the day is that of a time zone ahead of UTC.
RecordedLocally(book, d, reads) ==
    Pruned([e \in DOMAIN book \union {d + 1} |->
        IF e = d + 1 THEN Used(book, e) + reads ELSE book[e]])

\* data[key] += actual, and the stale keys removed.
Recorded(book, d, reads) ==
    Pruned([e \in DOMAIN book \union {d} |->
        IF e = d THEN Used(book, d) + reads ELSE book[e]])

PageSize(wanted) ==
    IF wanted < MinPage THEN MinPage
    ELSE IF wanted > MaxPage THEN MaxPage ELSE wanted

-----------------------------------------------------------------------------
(* A search.                                                               *)

\* Mutant: the budget is compared with what is used, not with what would be.
CheckUsedOnly(p) ==
    /\ call[p] = Idle
    /\ readable
    /\ \E w \in Wanted :
          /\ Used(file, day) < Limit
          /\ call' = [call EXCEPT ![p] =
                Call("asking", PageSize(w), Retries, 0, day, NoBook)]
    /\ UNCHANGED <<day, file, readable, billed, lost, forgotten>>

\* check: raises if the page does not fit, or if the file cannot be read.
Check(p) ==
    /\ call[p] = Idle
    /\ readable
    /\ \E w \in Wanted :
          /\ Used(file, day) + PageSize(w) <= Limit
          /\ call' = [call EXCEPT ![p] =
                Call("asking", PageSize(w), Retries, 0, day, NoBook)]
    /\ UNCHANGED <<day, file, readable, billed, lost, forgotten>>

\* An attempt is lost, whatever X billed for it; the session tries again, or
\* gives up and raises.
AttemptLost(p) ==
    /\ call[p].step = "asking"
    /\ \E n \in 0..call[p].page :
          /\ lost[day] + n <= MaxLost
          /\ billed' = [billed EXCEPT ![day] = @ + n]
          /\ lost' = [lost EXCEPT ![day] = @ + n]
    /\ call' = [call EXCEPT ![p] =
          IF @.left = 0 THEN Idle
          ELSE Call("asking", @.page, @.left - 1, 0, @.on, NoBook)]
    /\ UNCHANGED <<day, file, readable, forgotten>>

\* X answers with up to a page of posts, and bills each.
Answer(p) ==
    /\ call[p].step = "asking"
    /\ \E n \in 0..call[p].page :
          /\ billed' = [billed EXCEPT ![day] = @ + n]
          /\ call' = [call EXCEPT ![p] =
                Call("answered", @.page, 0, n, day, NoBook)]
    /\ UNCHANGED <<day, file, readable, lost, forgotten>>

\* record: load the file and add the answer to the count of what is today now.
LoadBook(p) ==
    /\ call[p].step = "answered"
    /\ readable
    /\ call' = [call EXCEPT ![p] =
          Call("saving", @.page, 0, @.served, @.on, Recorded(file, day, @.served))]
    /\ UNCHANGED <<day, file, readable, billed, lost, forgotten>>

\* _save: a rename puts the new object in the place of whatever is there.
SaveBook(p) ==
    /\ call[p].step = "saving"
    /\ file' = call[p].book
    /\ readable' = TRUE
    /\ call' = [call EXCEPT ![p] = Idle]
    /\ UNCHANGED <<day, billed, lost, forgotten>>

\* The process dies, the answer does not parse, or record cannot read the file.
Fails(p) ==
    /\ call[p] # Idle
    /\ lost[call[p].on] + call[p].served <= MaxLost
    /\ lost' = [lost EXCEPT ![call[p].on] = @ + call[p].served]
    /\ call' = [call EXCEPT ![p] = Idle]
    /\ UNCHANGED <<day, file, readable, billed, forgotten>>

-----------------------------------------------------------------------------
Midnight ==
    /\ day < MaxDay
    /\ day' = day + 1
    /\ UNCHANGED <<file, readable, call, billed, lost, forgotten>>

\* Something else damages the file, and _load refuses it: it does not parse.
Corrupt ==
    /\ readable
    /\ readable' = FALSE
    /\ UNCHANGED <<day, file, call, billed, lost, forgotten>>

\* Or it reads as {}: it is JSON that is no object, or it is gone.
Blank ==
    /\ \A d \in Days : forgotten[d] + Used(file, d) <= MaxForgotten
    /\ forgotten' = [d \in Days |-> forgotten[d] + Used(file, d)]
    /\ file' = NoBook
    /\ readable' = TRUE
    /\ UNCHANGED <<day, call, billed, lost>>

Search(p) ==
    Check(p) \/ AttemptLost(p) \/ Answer(p) \/ LoadBook(p) \/ SaveBook(p) \/ Fails(p)

Next == Midnight \/ Corrupt \/ Blank \/ \E p \in Procs : Search(p)

Spec == Init /\ [][Next]_vars

-----------------------------------------------------------------------------
(* Properties.                                                             *)

\* The types, and that the file counts no day that has not begun.
FileTypeOK ==
    /\ day \in Days
    /\ DOMAIN file \subseteq 0..day /\ \A d \in DOMAIN file : file[d] \in Nat
    /\ readable \in BOOLEAN
    /\ DOMAIN call = Procs
    /\ \A p \in Procs :
          /\ DOMAIN call[p] = {"step", "page", "left", "served", "on", "book"}
          /\ call[p].step \in {"idle", "asking", "answered", "saving"}
          /\ call[p].page \in Nat /\ call[p].left \in 0..Retries
          /\ call[p].served \in 0..call[p].page /\ call[p].on \in 0..day
          /\ DOMAIN call[p].book \subseteq 0..day
          /\ \A d \in DOMAIN call[p].book : call[p].book[d] \in Nat
    /\ billed \in [Days -> Nat] /\ lost \in [Days -> Nat]
    /\ forgotten \in [Days -> Nat]

\* The file never counts more than the limit on any day, although an answer
\* may be recorded on another day than the one it was checked against.
BookWithinLimit == \A d \in DOMAIN file : file[d] <= Limit

\* What X bills on a day is within the limit (budget.py: "each service stays
\* individually bounded"), but for the calls that failed after X had billed them
\* and for the counts of a file that was made to read as empty: each is spent
\* again.
SpendBounded == \A d \in Days : billed[d] - lost[d] - forgotten[d] <= Limit

\* No crash, failure or rewrite of the file gives back what was counted today
\* (budget.py: "An in-memory counter resets every time the process restarts,
\* which turns a crash loop into unbounded spending"), and no damage to it does
\* but one that _load reads as {}.
NothingGivenBack ==
    [][day' = day /\ forgotten' = forgotten
          => Used(file, day)' >= Used(file, day)]_vars

\* What budget.py says of _load: "A corrupt ledger must not read as 'zero reads
\* used'".  It holds of a file that does not parse, and fails with Blank.
CorruptIsRefused == [][day' = day => Used(file, day)' >= Used(file, day)]_vars
=============================================================================
