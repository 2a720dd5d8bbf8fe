-------------------------- MODULE FileBudgetProofs --------------------------
(***************************************************************************)
(* Theorems about FileBudget.  The types hold for any processes.  That the *)
(* file stays within the limit, that the spending does, and that no count  *)
(* is given back, holds for a service that is a single process, whatever   *)
(* fails and whenever midnight comes, but for what a file counted when it  *)
(* was made to read as empty.                                              *)
(***************************************************************************)
EXTENDS FileBudget, TLAPS, FiniteSetTheorems

\* A book of counts, for days that have begun.
IsBook(book, today) ==
    DOMAIN book \subseteq 0..today /\ \A d \in DOMAIN book : book[d] \in Nat

\* The locals of a search.
IsCall(c, today) ==
    /\ DOMAIN c = {"step", "page", "left", "served", "on", "book"}
    /\ c.step \in {"idle", "asking", "answered", "saving"}
    /\ c.page \in Nat /\ c.left \in 0..Retries
    /\ c.served \in 0..c.page /\ c.on \in 0..today
    /\ IsBook(c.book, today)

-----------------------------------------------------------------------------
(* What recording does to a book.                                          *)

\* Pruning drops days and changes no count.
LEMMA PrunedIsPart ==
    ASSUME NEW book
    PROVE  /\ DOMAIN Pruned(book) \subseteq DOMAIN book
           /\ \A d \in DOMAIN Pruned(book) : Pruned(book)[d] = book[d]
BY DEF Pruned

\* Pruning keeps a day that is not before any other.
LEMMA PrunedKeepsNewest ==
    ASSUME NEW book, NEW d \in DOMAIN book, \A f \in DOMAIN book : ~(f > d)
    PROVE  d \in DOMAIN Pruned(book)
<1>1. {f \in DOMAIN book : f > d} = {}
  OBVIOUS
<1>2. Cardinality({f \in DOMAIN book : f > d}) = 0
  BY <1>1, FS_EmptySet
<1>3. 0 < KeepDays
  BY FileBudgetAssumption
<1> QED
  BY <1>2, <1>3 DEF Pruned

\* What a day counts is a number, and nothing for a day to come.
LEMMA UsedIsNat ==
    ASSUME NEW book, NEW today \in Nat, IsBook(book, today), NEW d
    PROVE  /\ Used(book, d) \in Nat
           /\ d \in Nat /\ d > today => Used(book, d) = 0
BY DEF Used, IsBook

\* Recording an answer today gives a book again, in which today's count is
\* higher by the answer and no other count is higher.
LEMMA RecordingAdds ==
    ASSUME NEW today \in Nat, NEW book, IsBook(book, today), NEW n \in Nat
    PROVE  /\ IsBook(Recorded(book, today, n), today)
           /\ Used(Recorded(book, today, n), today) = Used(book, today) + n
           /\ \A d \in Nat \ {today} : Used(Recorded(book, today, n), d) <= Used(book, d)
<1> DEFINE full == [e \in DOMAIN book \union {today} |->
                      IF e = today THEN Used(book, today) + n ELSE book[e]]
<1>1. Recorded(book, today, n) = Pruned(full)
  BY DEF Recorded
<1>2. Used(book, today) \in Nat
  BY UsedIsNat
<1>3. /\ DOMAIN full = DOMAIN book \union {today}
      /\ full[today] = Used(book, today) + n
      /\ \A e \in DOMAIN book \ {today} : full[e] = book[e]
  OBVIOUS
<1>4. DOMAIN full \subseteq 0..today /\ \A d \in DOMAIN full : full[d] \in Nat
  BY <1>2, <1>3 DEF IsBook
<1> HIDE DEF full
<1>5. \A f \in DOMAIN full : ~(f > today)
  BY <1>4
<1>6. today \in DOMAIN Pruned(full)
  BY <1>3, <1>5, PrunedKeepsNewest
<1>7. IsBook(Pruned(full), today)
  BY <1>4, PrunedIsPart DEF IsBook
<1>8. Used(Pruned(full), today) = Used(book, today) + n
  BY <1>3, <1>6, PrunedIsPart DEF Used
<1>9. ASSUME NEW d \in Nat \ {today}
      PROVE  Used(Pruned(full), d) <= Used(book, d)
  <2>1. Used(book, d) \in Nat
    BY UsedIsNat
  <2>2. CASE d \in DOMAIN Pruned(full)
    <3>1. d \in DOMAIN book /\ Pruned(full)[d] = book[d]
      BY <1>3, <2>2, PrunedIsPart
    <3> QED
      BY <2>1, <2>2, <3>1 DEF Used
  <2>3. CASE d \notin DOMAIN Pruned(full)
    BY <2>1, <2>3 DEF Used
  <2> QED
    BY <2>2, <2>3
<1> QED
  BY <1>1, <1>7, <1>8, <1>9

LEMMA PageIsNat ==
    ASSUME NEW w \in Wanted
    PROVE  PageSize(w) \in Nat
BY FileBudgetAssumption DEF PageSize

-----------------------------------------------------------------------------
(* The types.                                                              *)

LEMMA TypesUnfold ==
    FileTypeOK <=>
        /\ day \in Days /\ IsBook(file, day) /\ readable \in BOOLEAN
        /\ DOMAIN call = Procs /\ \A p \in Procs : IsCall(call[p], day)
        /\ billed \in [Days -> Nat] /\ lost \in [Days -> Nat] /\ forgotten \in [Days -> Nat]
BY DEF FileTypeOK, IsCall, IsBook

\* A search has the locals that it is given.
LEMMA CallHasFields ==
    ASSUME NEW step, NEW page, NEW left, NEW served, NEW on, NEW book
    PROVE  LET c == Call(step, page, left, served, on, book)
           IN  /\ DOMAIN c = {"step", "page", "left", "served", "on", "book"}
               /\ c.step = step /\ c.page = page /\ c.left = left
               /\ c.served = served /\ c.on = on /\ c.book = book
BY DEF Call

LEMMA CallIsCall ==
    ASSUME NEW today \in Nat,
           NEW step \in {"idle", "asking", "answered", "saving"},
           NEW page \in Nat, NEW left \in 0..Retries, NEW served \in 0..page,
           NEW on \in 0..today, NEW book, IsBook(book, today)
    PROVE  IsCall(Call(step, page, left, served, on, book), today)
BY CallHasFields DEF IsCall

LEMMA IdleIsCall ==
    ASSUME NEW today \in Nat
    PROVE  /\ IsBook(NoBook, today) /\ IsCall(Idle, today)
           /\ Idle.step = "idle" /\ Idle.served = 0 /\ Idle.on = 0
<1>1. IsBook(NoBook, today)
  BY DEF NoBook, IsBook
<1>2. 0 \in 0..Retries /\ 0 \in 0..today /\ 0 \in 0..0
  BY FileBudgetAssumption
<1> QED
  BY <1>1, <1>2, CallIsCall, CallHasFields DEF Idle

\* What is right today is right on a later day.
LEMMA LaterStillOK ==
    ASSUME NEW today \in Nat, NEW later \in Nat, today <= later, NEW c, IsCall(c, today)
    PROVE  IsCall(c, later)
<1>1. 0..today \subseteq 0..later
  OBVIOUS
<1> QED
  BY <1>1 DEF IsCall, IsBook

LEMMA FileTypesInit == Init => FileTypeOK
<1> SUFFICES ASSUME Init PROVE FileTypeOK
  OBVIOUS
<1>1. 0 \in Days /\ IsBook(file, day) /\ \A p \in Procs : IsCall(call[p], day)
  BY IdleIsCall, FileBudgetAssumption DEF Init, Days
<1> QED
  BY <1>1, TypesUnfold DEF Init

\* A step that gives one search new locals leaves the others theirs.
LEMMA CallsStayCalls ==
    ASSUME FileTypeOK, NEW p \in Procs, NEW c, IsCall(c, day),
           call' = [call EXCEPT ![p] = c]
    PROVE  DOMAIN call' = Procs /\ \A q \in Procs : IsCall(call'[q], day)
BY TypesUnfold

\* Raising a count keeps the counts numbers.
LEMMA CountsStayCounts ==
    ASSUME NEW f \in [Days -> Nat], NEW d \in Days, NEW n \in Nat
    PROVE  /\ [f EXCEPT ![d] = @ + n] \in [Days -> Nat]
           /\ [f EXCEPT ![d] = @ + n][d] = f[d] + n
           /\ \A e \in Days \ {d} : [f EXCEPT ![d] = @ + n][e] = f[e]
OBVIOUS

LEMMA FileTypesNext ==
    ASSUME FileTypeOK, [Next]_vars
    PROVE  FileTypeOK'
<1>1. /\ day \in Days /\ IsBook(file, day) /\ readable \in BOOLEAN
      /\ DOMAIN call = Procs /\ \A p \in Procs : IsCall(call[p], day)
      /\ billed \in [Days -> Nat] /\ lost \in [Days -> Nat] /\ forgotten \in [Days -> Nat]
  BY TypesUnfold
<1>2. day \in Nat /\ 0..day \subseteq Days /\ 0 \in 0..Retries /\ Retries \in 0..Retries
  BY <1>1, FileBudgetAssumption DEF Days
<1> DEFINE Right == /\ day' \in Days /\ IsBook(file', day') /\ readable' \in BOOLEAN
                    /\ DOMAIN call' = Procs /\ \A q \in Procs : IsCall(call'[q], day')
                    /\ billed' \in [Days -> Nat] /\ lost' \in [Days -> Nat]
                    /\ forgotten' \in [Days -> Nat]
<1> SUFFICES Right
  BY DEF FileTypeOK, IsCall, IsBook
<1>3. ASSUME NEW p \in Procs, Check(p)
      PROVE  Right
  <2>1. PICK w \in Wanted :
          call' = [call EXCEPT ![p] = Call("asking", PageSize(w), Retries, 0, day, NoBook)]
    BY <1>3 DEF Check
  <2>2. IsCall(Call("asking", PageSize(w), Retries, 0, day, NoBook), day)
    <3>1. PageSize(w) \in Nat /\ 0 \in 0..PageSize(w) /\ day \in 0..day
      BY <1>2, PageIsNat
    <3> QED
      BY <3>1, <1>2, IdleIsCall, CallIsCall
  <2> QED
    BY <1>1, <1>3, <2>1, <2>2, CallsStayCalls DEF Check
<1>4. ASSUME NEW p \in Procs, AttemptLost(p)
      PROVE  Right
  <2>1. PICK n \in 0..call[p].page :
          /\ billed' = [billed EXCEPT ![day] = @ + n]
          /\ lost' = [lost EXCEPT ![day] = @ + n]
    BY <1>4 DEF AttemptLost
  <2>2. n \in Nat
    BY <1>1, <2>1 DEF IsCall
  <2>3. billed' \in [Days -> Nat] /\ lost' \in [Days -> Nat]
    BY <1>1, <2>1, <2>2, CountsStayCounts
  <2> DEFINE c == IF call[p].left = 0 THEN Idle
                  ELSE Call("asking", call[p].page, call[p].left - 1, 0, call[p].on, NoBook)
  <2>4. IsCall(c, day)
    <3>1. CASE call[p].left = 0
      BY <1>2, <3>1, IdleIsCall
    <3>2. CASE call[p].left # 0
      <4>1. /\ call[p].page \in Nat /\ call[p].left - 1 \in 0..Retries
            /\ 0 \in 0..call[p].page /\ call[p].on \in 0..day
        BY <1>1, <3>2, FileBudgetAssumption DEF IsCall
      <4>2. IsCall(Call("asking", call[p].page, call[p].left - 1, 0, call[p].on, NoBook), day)
        BY <1>2, <4>1, IdleIsCall, CallIsCall
      <4> QED
        BY <3>2, <4>2
    <3> QED
      BY <3>1, <3>2
  <2>5. call' = [call EXCEPT ![p] = c]
    BY <1>1, <1>4 DEF AttemptLost
  <2> HIDE DEF c
  <2> QED
    BY <1>1, <1>4, <2>3, <2>4, <2>5, CallsStayCalls DEF AttemptLost
<1>5. ASSUME NEW p \in Procs, Answer(p)
      PROVE  Right
  <2>1. PICK n \in 0..call[p].page :
          /\ billed' = [billed EXCEPT ![day] = @ + n]
          /\ call' = [call EXCEPT ![p] = Call("answered", call[p].page, 0, n, day, NoBook)]
    BY <1>1, <1>5 DEF Answer
  <2>2. n \in Nat /\ call[p].page \in Nat /\ day \in 0..day
    BY <1>1, <1>2, <2>1 DEF IsCall
  <2>3. billed' \in [Days -> Nat]
    BY <1>1, <2>1, <2>2, CountsStayCounts
  <2>4. IsCall(Call("answered", call[p].page, 0, n, day, NoBook), day)
    BY <1>2, <2>1, <2>2, IdleIsCall, CallIsCall
  <2> QED
    BY <1>1, <1>5, <2>1, <2>3, <2>4, CallsStayCalls DEF Answer
<1>6. ASSUME NEW p \in Procs, LoadBook(p)
      PROVE  Right
  <2>1. call' = [call EXCEPT ![p] = Call("saving", call[p].page, 0, call[p].served,
                                         call[p].on, Recorded(file, day, call[p].served))]
    BY <1>1, <1>6 DEF LoadBook
  <2>2. /\ call[p].page \in Nat /\ call[p].served \in 0..call[p].page
        /\ call[p].served \in Nat /\ call[p].on \in 0..day
    BY <1>1 DEF IsCall
  <2>3. IsBook(Recorded(file, day, call[p].served), day)
    BY <1>1, <1>2, <2>2, RecordingAdds
  <2>4. IsCall(Call("saving", call[p].page, 0, call[p].served, call[p].on,
                    Recorded(file, day, call[p].served)), day)
    BY <1>2, <2>2, <2>3, CallIsCall
  <2> QED
    BY <1>1, <1>6, <2>1, <2>4, CallsStayCalls DEF LoadBook
<1>7. ASSUME NEW p \in Procs, SaveBook(p)
      PROVE  Right
  <2>1. IsBook(file', day)
    BY <1>1, <1>7 DEF SaveBook, IsCall
  <2> QED
    BY <1>1, <1>2, <1>7, <2>1, IdleIsCall, CallsStayCalls DEF SaveBook
<1>8. ASSUME NEW p \in Procs, Fails(p)
      PROVE  Right
  <2>1. call[p].on \in Days /\ call[p].served \in Nat
    BY <1>1, <1>2 DEF IsCall
  <2>2. lost' \in [Days -> Nat]
    BY <1>1, <1>8, <2>1, CountsStayCounts DEF Fails
  <2> QED
    BY <1>1, <1>2, <1>8, <2>2, IdleIsCall, CallsStayCalls DEF Fails
<1>9. CASE Midnight
  <2>1. day' \in Nat /\ day <= day' /\ day' \in Days /\ 0..day \subseteq 0..day'
    BY <1>1, <1>2, <1>9, FileBudgetAssumption DEF Midnight, Days
  <2>2. \A p \in Procs : IsCall(call[p], day')
    BY <1>1, <1>2, <2>1, LaterStillOK
  <2>3. IsBook(file, day')
    BY <1>1, <2>1 DEF IsBook
  <2> QED
    BY <1>1, <1>9, <2>1, <2>2, <2>3 DEF Midnight
<1>10. CASE Corrupt
  BY <1>1, <1>10 DEF Corrupt
<1>11. CASE Blank
  <2>1. \A d \in Days : Used(file, d) \in Nat
    BY <1>1, <1>2, UsedIsNat
  <2>2. forgotten' \in [Days -> Nat]
    BY <1>1, <1>11, <2>1 DEF Blank
  <2> QED
    BY <1>1, <1>2, <1>11, <2>2, IdleIsCall DEF Blank
<1>12. CASE UNCHANGED vars
  BY <1>1, <1>12 DEF vars
<1> HIDE DEF Right
<1>13. ASSUME NEW p \in Procs, Search(p)
       PROVE  Right
  BY <1>3, <1>4, <1>5, <1>6, <1>7, <1>8, <1>13 DEF Search
<1> QED
  BY <1>9, <1>10, <1>11, <1>12, <1>13 DEF Next, vars

\* The record of what was read has its types, whatever the processes do.
THEOREM FileTypesAreKept == Spec => []FileTypeOK
<1>1. Init => FileTypeOK
  BY FileTypesInit
<1>2. FileTypeOK /\ [Next]_vars => FileTypeOK'
  BY FileTypesNext
<1> QED
  BY <1>1, <1>2, PTL DEF Spec

-----------------------------------------------------------------------------
(* A service that is one process.                                          *)

Lone == \A p, q \in Procs : p = q

\* What X billed for an answer on its way into the file.
Pending(c, d) == IF c.on = d THEN c.served ELSE 0

\* What a day's bill is held against: the file, from today on and from the day
\* of a search's check on; before that, the limit.
Ceiling(c, book, today, d) ==
    IF d >= today \/ (c.step # "idle" /\ d >= c.on) THEN Used(book, d) ELSE Limit

\* A search in progress has room for its page on every day on which its answer
\* may be counted; what it is about to save counts it.
HasRoom(c, book, today) ==
    /\ c.step \in {"idle", "asking"} => c.served = 0
    /\ c.step # "idle" => \A d \in Days : d >= c.on => Used(book, d) + c.page <= Limit
    /\ c.step = "saving" =>
          /\ \A d \in DOMAIN c.book : c.book[d] <= Limit
          /\ Used(c.book, today) >= Used(book, today) + Pending(c, today)

\* What a day's bill is excused: the reads of calls that failed, and the counts
\* of a file that was made to read as empty.
Excused == [d \in Days |-> lost[d] + forgotten[d]]

LEMMA ExcusedIsNat ==
    ASSUME FileTypeOK
    PROVE  Excused \in [Days -> Nat]
BY TypesUnfold DEF Excused

\* A failed call is excused what it was billed.
LEMMA ExcusedGrows ==
    ASSUME FileTypeOK, NEW e \in Days, NEW n \in Nat,
           lost' = [lost EXCEPT ![e] = @ + n], forgotten' = forgotten
    PROVE  Excused' = [Excused EXCEPT ![e] = @ + n]
<1>1. lost \in [Days -> Nat] /\ forgotten \in [Days -> Nat]
  BY TypesUnfold
<1>2. ASSUME NEW d \in Days
      PROVE  lost'[d] + forgotten'[d] = [Excused EXCEPT ![e] = @ + n][d]
  BY <1>1 DEF Excused
<1> QED
  BY <1>2 DEF Excused

\* The bill is covered.
IsCovered(c, book, today, b, l) ==
    \A d \in Days : b[d] - l[d] - Pending(c, d) <= Ceiling(c, book, today, d)

LoneInv ==
    /\ \A d \in DOMAIN file : file[d] <= Limit
    /\ \A p \in Procs : HasRoom(call[p], file, day)
    /\ \A p \in Procs : IsCovered(call[p], file, day, billed, Excused)

LEMMA LoneInit == Init => LoneInv
<1> SUFFICES ASSUME Init PROVE LoneInv
  OBVIOUS
<1>1. \A p \in Procs : call[p] = Idle
  BY DEF Init
<1>2. DOMAIN file = {} /\ \A d \in Days : Used(file, d) = 0
  BY DEF Init, NoBook, Used
<1>3. /\ Limit \in Nat /\ day = 0 /\ Days \subseteq Nat
      /\ \A d \in Days : billed[d] = 0 /\ Excused[d] = 0
  BY FileBudgetAssumption DEF Init, Days, Excused
<1>4. HasRoom(Idle, file, day)
  BY IdleIsCall DEF HasRoom
<1>5. IsCovered(Idle, file, day, billed, Excused)
  BY <1>2, <1>3, IdleIsCall DEF IsCovered, Pending, Ceiling
<1> QED
  BY <1>1, <1>2, <1>4, <1>5 DEF LoneInv

\* What the type invariant and the strengthened one say of a lone process.
LEMMA LoneFacts ==
    ASSUME FileTypeOK, LoneInv, NEW p \in Procs
    PROVE  /\ day \in Days /\ day \in Nat /\ Days \subseteq Nat /\ Limit \in Nat
           /\ IsBook(file, day) /\ \A d \in DOMAIN file : file[d] <= Limit
           /\ \A d \in Days : Used(file, d) \in Nat /\ Used(file, d) <= Limit
           /\ \A d \in Days : d > day => Used(file, d) = 0
           /\ IsCall(call[p], day) /\ HasRoom(call[p], file, day)
           /\ call[p].on \in Days /\ call[p].on <= day
           /\ call[p].page \in Nat /\ call[p].served \in Nat
           /\ call[p].served <= call[p].page
           /\ IsCovered(call[p], file, day, billed, Excused)
           /\ billed \in [Days -> Nat] /\ Excused \in [Days -> Nat]
<1>1. /\ day \in Days /\ IsBook(file, day) /\ IsCall(call[p], day)
      /\ billed \in [Days -> Nat] /\ Excused \in [Days -> Nat]
  BY TypesUnfold, ExcusedIsNat
<1>2. day \in Nat /\ Days \subseteq Nat /\ Limit \in Nat /\ 0..day \subseteq Days
  BY <1>1, FileBudgetAssumption DEF Days
<1>3. \A d \in DOMAIN file : file[d] <= Limit
  BY DEF LoneInv
<1>4. ASSUME NEW d \in Days
      PROVE  /\ Used(file, d) \in Nat /\ Used(file, d) <= Limit
             /\ d > day => Used(file, d) = 0
  <2>1. Used(file, d) \in Nat /\ (d > day => Used(file, d) = 0)
    BY <1>1, <1>2, UsedIsNat
  <2>2. Used(file, d) <= Limit
    BY <1>2, <1>3 DEF Used
  <2> QED
    BY <2>1, <2>2
<1>5. /\ call[p].on \in Days /\ call[p].on <= day
      /\ call[p].page \in Nat /\ call[p].served \in Nat
      /\ call[p].served <= call[p].page
  BY <1>1, <1>2 DEF IsCall
<1> QED
  BY <1>1, <1>2, <1>3, <1>4, <1>5 DEF LoneInv

\* In a lone service, the step of one process is all that has to be looked at.
LEMMA LoneStep ==
    ASSUME Lone, FileTypeOK, NEW p \in Procs, NEW c,
           call' = [call EXCEPT ![p] = c],
           \A d \in DOMAIN file' : file'[d] <= Limit,
           HasRoom(c, file', day'),
           IsCovered(c, file', day', billed', Excused')
    PROVE  LoneInv'
<1>1. DOMAIN call = Procs
  BY TypesUnfold
<1>2. \A q \in Procs : call'[q] = c
  BY <1>1 DEF Lone
<1> QED
  BY <1>2 DEF LoneInv

LEMMA LoneCheck ==
    ASSUME Lone, FileTypeOK, LoneInv, NEW p \in Procs, Check(p)
    PROVE  LoneInv'
<1>1. PICK w \in Wanted :
        /\ Used(file, day) + PageSize(w) <= Limit
        /\ call' = [call EXCEPT ![p] = Call("asking", PageSize(w), Retries, 0, day, NoBook)]
  BY DEF Check
<1> DEFINE c == Call("asking", PageSize(w), Retries, 0, day, NoBook)
<1>2. c.step = "asking" /\ c.served = 0 /\ c.on = day /\ c.page = PageSize(w)
  BY CallHasFields
<1>3. call[p].served = 0
  BY IdleIsCall DEF Check
<1>4. PageSize(w) \in Nat
  BY PageIsNat
<1> HIDE DEF c
<1>5. HasRoom(c, file, day)
  <2>1. ASSUME NEW d \in Days, d >= day
        PROVE  Used(file, d) + PageSize(w) <= Limit
    BY <1>1, <1>4, <2>1, LoneFacts
  <2> QED
    BY <1>2, <2>1 DEF HasRoom
<1>6. IsCovered(c, file, day, billed, Excused)
  <2>1. call[p].step = "idle"
    BY IdleIsCall DEF Check
  <2> QED
    BY <1>2, <1>3, <2>1, LoneFacts DEF IsCovered, Pending, Ceiling
<1>7. file' = file /\ day' = day /\ billed' = billed /\ Excused' = Excused
  BY DEF Check, Excused
<1>8. call' = [call EXCEPT ![p] = c]
  BY <1>1 DEF c
<1> QED
  BY <1>5, <1>6, <1>7, <1>8, LoneFacts, LoneStep

LEMMA LoneAttemptLost ==
    ASSUME Lone, FileTypeOK, LoneInv, NEW p \in Procs, AttemptLost(p)
    PROVE  LoneInv'
<1>1. PICK n \in 0..call[p].page :
        /\ billed' = [billed EXCEPT ![day] = @ + n]
        /\ lost' = [lost EXCEPT ![day] = @ + n]
  BY DEF AttemptLost
<1>2. n \in Nat /\ call[p].step = "asking" /\ call[p].served = 0
  BY <1>1, LoneFacts DEF AttemptLost, HasRoom
<1>0. Excused' = [Excused EXCEPT ![day] = @ + n]
  <2>1. forgotten' = forgotten
    BY DEF AttemptLost
  <2> QED
    BY <1>1, <1>2, <2>1, LoneFacts, ExcusedGrows
<1>3. \A d \in Days : billed'[d] - Excused'[d] = billed[d] - Excused[d]
  <2>1. ASSUME NEW d \in Days
        PROVE  billed'[d] - Excused'[d] = billed[d] - Excused[d]
    BY <1>0, <1>1, <1>2, LoneFacts, CountsStayCounts
  <2> QED
    BY <2>1
<1> DEFINE c == IF call[p].left = 0 THEN Idle
                ELSE Call("asking", call[p].page, call[p].left - 1, 0, call[p].on, NoBook)
<1>4. /\ c.served = 0 /\ c.step \in {"idle", "asking"}
      /\ c.step = "asking" => c.on = call[p].on /\ c.page = call[p].page
  BY IdleIsCall, CallHasFields
<1>5. call' = [call EXCEPT ![p] = c]
  BY TypesUnfold DEF AttemptLost
<1> HIDE DEF c
<1>6. HasRoom(c, file, day)
  BY <1>2, <1>4, LoneFacts DEF HasRoom
<1>7. IsCovered(c, file, day, billed', Excused')
  <2>1. ASSUME NEW d \in Days
        PROVE  billed'[d] - Excused'[d] - Pending(c, d) <= Ceiling(c, file, day, d)
    <3>1. billed[d] - Excused[d] <= Ceiling(call[p], file, day, d)
      BY <1>2, LoneFacts DEF IsCovered, Pending
    <3>2. Ceiling(call[p], file, day, d) <= Ceiling(c, file, day, d)
      BY <1>2, <1>4, LoneFacts DEF Ceiling
    <3>3. Pending(c, d) = 0 /\ billed[d] \in Nat /\ Excused[d] \in Nat
      BY <1>4, LoneFacts DEF Pending
    <3>4. Ceiling(call[p], file, day, d) \in Nat /\ Ceiling(c, file, day, d) \in Nat
      BY LoneFacts DEF Ceiling
    <3> QED
      BY <1>3, <3>1, <3>2, <3>3, <3>4
  <2> QED
    BY <2>1 DEF IsCovered
<1>8. file' = file /\ day' = day
  BY DEF AttemptLost
<1> QED
  BY <1>5, <1>6, <1>7, <1>8, LoneFacts, LoneStep

LEMMA LoneAnswer ==
    ASSUME Lone, FileTypeOK, LoneInv, NEW p \in Procs, Answer(p)
    PROVE  LoneInv'
<1>1. PICK n \in 0..call[p].page :
        /\ billed' = [billed EXCEPT ![day] = @ + n]
        /\ call' = [call EXCEPT ![p] = Call("answered", call[p].page, 0, n, day, NoBook)]
  BY TypesUnfold DEF Answer
<1>2. n \in Nat /\ call[p].step = "asking" /\ call[p].served = 0
  BY <1>1, LoneFacts DEF Answer, HasRoom
<1> DEFINE c == Call("answered", call[p].page, 0, n, day, NoBook)
<1>3. c.step = "answered" /\ c.served = n /\ c.on = day /\ c.page = call[p].page
  BY CallHasFields
<1>4. call' = [call EXCEPT ![p] = c]
  BY <1>1
<1> HIDE DEF c
<1>5. HasRoom(c, file, day)
  BY <1>2, <1>3, LoneFacts DEF HasRoom
<1>6. IsCovered(c, file, day, billed', Excused)
  <2>1. ASSUME NEW d \in Days
        PROVE  billed'[d] - Excused[d] - Pending(c, d) <= Ceiling(c, file, day, d)
    <3>1. billed[d] - Excused[d] <= Ceiling(call[p], file, day, d)
      BY <1>2, LoneFacts DEF IsCovered, Pending
    <3>2. billed'[d] = billed[d] + Pending(c, d)
      BY <1>1, <1>2, <1>3, LoneFacts, CountsStayCounts DEF Pending
    <3>3. Ceiling(call[p], file, day, d) <= Ceiling(c, file, day, d)
      BY <1>2, <1>3, LoneFacts DEF Ceiling
    <3>4. Ceiling(call[p], file, day, d) \in Nat /\ Ceiling(c, file, day, d) \in Nat
      BY LoneFacts DEF Ceiling
    <3>5. Pending(c, d) \in Nat /\ billed[d] \in Nat /\ Excused[d] \in Nat
      BY <1>2, <1>3, LoneFacts DEF Pending
    <3> QED
      BY <3>1, <3>2, <3>3, <3>4, <3>5
  <2> QED
    BY <2>1 DEF IsCovered
<1>7. file' = file /\ day' = day /\ Excused' = Excused
  BY DEF Answer, Excused
<1> QED
  BY <1>4, <1>5, <1>6, <1>7, LoneFacts, LoneStep

LEMMA LoneLoadBook ==
    ASSUME Lone, FileTypeOK, LoneInv, NEW p \in Procs, LoadBook(p)
    PROVE  LoneInv'
<1> DEFINE served == call[p].served
           book == Recorded(file, day, served)
           c == Call("saving", call[p].page, 0, served, call[p].on, book)
<1>1. /\ c.step = "saving" /\ c.served = served /\ c.on = call[p].on
      /\ c.page = call[p].page /\ c.book = book
  BY CallHasFields
<1>2. call' = [call EXCEPT ![p] = c]
  BY TypesUnfold DEF LoadBook
<1>3. served \in Nat /\ call[p].step = "answered"
  BY LoneFacts DEF LoadBook
<1>4. /\ IsBook(book, day)
      /\ Used(book, day) = Used(file, day) + served
      /\ \A d \in Nat \ {day} : Used(book, d) <= Used(file, d)
  BY <1>3, LoneFacts, RecordingAdds
<1> HIDE DEF book, c
<1>5. \A d \in DOMAIN book : book[d] <= Limit
  <2>1. ASSUME NEW d \in DOMAIN book
        PROVE  book[d] <= Limit
    <3>1. d \in Days /\ d \in Nat /\ book[d] \in Nat
      BY <1>4, <2>1, LoneFacts, FileBudgetAssumption DEF IsBook, Days
    <3>2. Used(book, d) = book[d]
      BY <2>1 DEF Used
    <3>3. CASE d = day
      <4>1. Used(file, day) + call[p].page <= Limit
        BY <1>3, LoneFacts DEF HasRoom
      <4> QED
        BY <1>4, <3>1, <3>2, <3>3, <4>1, LoneFacts
    <3>4. CASE d # day
      BY <1>4, <3>1, <3>2, <3>4, LoneFacts
    <3> QED
      BY <3>3, <3>4
  <2> QED
    BY <2>1
<1>6. Used(book, day) >= Used(file, day) + Pending(c, day)
  BY <1>1, <1>3, <1>4, LoneFacts DEF Pending
<1>7. HasRoom(c, file, day)
  BY <1>1, <1>3, <1>5, <1>6, LoneFacts DEF HasRoom
<1>8. IsCovered(c, file, day, billed, Excused)
  BY <1>1, <1>3, LoneFacts DEF IsCovered, Pending, Ceiling
<1>9. file' = file /\ day' = day /\ billed' = billed /\ Excused' = Excused
  BY DEF LoadBook, Excused
<1> QED
  BY <1>2, <1>7, <1>8, <1>9, LoneFacts, LoneStep

LEMMA LoneSaveBook ==
    ASSUME Lone, FileTypeOK, LoneInv, NEW p \in Procs, SaveBook(p)
    PROVE  LoneInv'
<1>1. /\ call[p].step = "saving" /\ file' = call[p].book /\ call' = [call EXCEPT ![p] = Idle]
      /\ day' = day /\ billed' = billed /\ Excused' = Excused
  BY DEF SaveBook, Excused
<1>2. /\ \A d \in DOMAIN file' : file'[d] <= Limit
      /\ Used(file', day) >= Used(file, day) + Pending(call[p], day)
  BY <1>1, LoneFacts DEF HasRoom
<1>3. HasRoom(Idle, file', day)
  BY IdleIsCall DEF HasRoom
<1>4. \A d \in Days : Used(file', d) \in Nat
  <2>1. IsBook(file', day)
    BY <1>1, LoneFacts DEF IsCall
  <2> QED
    BY <2>1 DEF IsBook, Used
<1>5. ASSUME NEW d \in Days
      PROVE  billed[d] - Excused[d] - Pending(Idle, d) <= Ceiling(Idle, file', day, d)
  <2>1. Pending(Idle, d) = 0
    BY IdleIsCall DEF Pending
  <2>2. /\ billed[d] \in Nat /\ Excused[d] \in Nat /\ Pending(call[p], d) \in Nat
        /\ billed[d] - Excused[d] - Pending(call[p], d) <= Ceiling(call[p], file, day, d)
    BY LoneFacts DEF IsCovered, Pending
  <2>3. CASE d < day
    <3>1. Ceiling(Idle, file', day, d) = Limit
      BY <2>3, IdleIsCall, LoneFacts DEF Ceiling
    <3>2. billed[d] - Excused[d] <= Limit
      <4>1. CASE d >= call[p].on
        <5>1. Ceiling(call[p], file, day, d) = Used(file, d)
          BY <1>1, <4>1 DEF Ceiling
        <5>2. Used(file, d) + call[p].page <= Limit
          BY <1>1, <4>1, LoneFacts DEF HasRoom
        <5>3. Pending(call[p], d) <= call[p].page
          BY LoneFacts DEF Pending
        <5> QED
          BY <2>2, <5>1, <5>2, <5>3, LoneFacts
      <4>2. CASE ~(d >= call[p].on)
        <5>1. Ceiling(call[p], file, day, d) = Limit
          BY <2>3, <4>2, LoneFacts DEF Ceiling
        <5>2. Pending(call[p], d) = 0
          BY <4>2, LoneFacts DEF Pending
        <5> QED
          BY <2>2, <5>1, <5>2, LoneFacts
      <4> QED
        BY <4>1, <4>2
    <3> QED
      BY <2>1, <2>2, <3>1, <3>2
  <2>4. CASE d = day
    <3>1. /\ Ceiling(Idle, file', day, d) = Used(file', d)
          /\ Ceiling(call[p], file, day, d) = Used(file, d)
      BY <2>4, LoneFacts DEF Ceiling
    <3> QED
      BY <1>2, <1>4, <2>1, <2>2, <2>4, <3>1, LoneFacts
  <2>5. CASE d > day
    <3>1. /\ Ceiling(Idle, file', day, d) = Used(file', d)
          /\ Ceiling(call[p], file, day, d) = 0
          /\ Pending(call[p], d) = 0
      BY <2>5, LoneFacts DEF Ceiling, Pending
    <3> QED
      BY <1>4, <2>1, <2>2, <3>1
  <2> QED
    BY <2>3, <2>4, <2>5, LoneFacts
<1>6. IsCovered(Idle, file', day, billed, Excused)
  BY <1>5 DEF IsCovered
<1> QED
  BY <1>1, <1>2, <1>3, <1>6, LoneStep

LEMMA LoneFails ==
    ASSUME Lone, FileTypeOK, LoneInv, NEW p \in Procs, Fails(p)
    PROVE  LoneInv'
<1>0. /\ lost' = [lost EXCEPT ![call[p].on] = @ + call[p].served]
      /\ call' = [call EXCEPT ![p] = Idle] /\ forgotten' = forgotten
      /\ file' = file /\ day' = day /\ billed' = billed
  BY DEF Fails
<1>1. /\ Excused' = [Excused EXCEPT ![call[p].on] = @ + call[p].served]
      /\ call' = [call EXCEPT ![p] = Idle]
      /\ file' = file /\ day' = day /\ billed' = billed
  BY <1>0, LoneFacts, ExcusedGrows
<1>2. HasRoom(Idle, file, day)
  BY IdleIsCall DEF HasRoom
<1>3. ASSUME NEW d \in Days
      PROVE  billed[d] - Excused'[d] - Pending(Idle, d) <= Ceiling(Idle, file, day, d)
  <2>1. Pending(Idle, d) = 0
    BY IdleIsCall DEF Pending
  <2>2. /\ billed[d] \in Nat /\ Excused[d] \in Nat /\ Pending(call[p], d) \in Nat
        /\ billed[d] - Excused[d] - Pending(call[p], d) <= Ceiling(call[p], file, day, d)
    BY LoneFacts DEF IsCovered, Pending
  <2>3. Excused'[d] = Excused[d] + Pending(call[p], d)
    BY <1>1, LoneFacts, CountsStayCounts DEF Pending
  <2>4. Ceiling(call[p], file, day, d) <= Ceiling(Idle, file, day, d)
    BY IdleIsCall, LoneFacts DEF Ceiling
  <2>5. Ceiling(call[p], file, day, d) \in Nat /\ Ceiling(Idle, file, day, d) \in Nat
    BY LoneFacts DEF Ceiling
  <2> QED
    BY <2>1, <2>2, <2>3, <2>4, <2>5
<1>4. IsCovered(Idle, file, day, billed, Excused')
  BY <1>3 DEF IsCovered
<1> QED
  BY <1>1, <1>2, <1>4, LoneFacts, LoneStep

LEMMA LoneMidnight ==
    ASSUME FileTypeOK, LoneInv, Midnight
    PROVE  LoneInv'
<1>1. /\ day' = day + 1 /\ day < MaxDay
      /\ file' = file /\ call' = call /\ billed' = billed /\ Excused' = Excused
  BY DEF Midnight, Excused
<1>2. ASSUME NEW p \in Procs
      PROVE  /\ HasRoom(call[p], file, day + 1)
             /\ IsCovered(call[p], file, day + 1, billed, Excused)
  <2>1. day + 1 \in Days
    BY <1>1, LoneFacts, FileBudgetAssumption DEF Days
  <2>2. Used(file, day + 1) = 0 /\ Pending(call[p], day + 1) = 0
    BY <2>1, LoneFacts DEF Pending
  <2>3. Used(call[p].book, day + 1) \in Nat
    BY LoneFacts DEF IsCall, IsBook, Used
  <2>4. HasRoom(call[p], file, day + 1)
    BY <2>2, <2>3, LoneFacts DEF HasRoom
  <2>5. ASSUME NEW d \in Days
        PROVE  billed[d] - Excused[d] - Pending(call[p], d) <= Ceiling(call[p], file, day + 1, d)
    <3>1. /\ billed[d] \in Nat /\ Excused[d] \in Nat /\ Pending(call[p], d) \in Nat
          /\ billed[d] - Excused[d] - Pending(call[p], d) <= Ceiling(call[p], file, day, d)
      BY LoneFacts DEF IsCovered, Pending
    <3>2. Ceiling(call[p], file, day, d) <= Ceiling(call[p], file, day + 1, d)
      BY LoneFacts DEF Ceiling
    <3>3. /\ Ceiling(call[p], file, day, d) \in Nat
          /\ Ceiling(call[p], file, day + 1, d) \in Nat
      BY LoneFacts DEF Ceiling
    <3> QED
      BY <3>1, <3>2, <3>3
  <2> QED
    BY <2>4, <2>5 DEF IsCovered
<1>3. \A d \in DOMAIN file : file[d] <= Limit
  BY DEF LoneInv
<1> QED
  BY <1>1, <1>2, <1>3 DEF LoneInv

\* A file that reads as empty has more room, and what it counted is excused.
LEMMA LoneBlank ==
    ASSUME FileTypeOK, LoneInv, Blank
    PROVE  LoneInv'
<1>1. /\ forgotten' = [d \in Days |-> forgotten[d] + Used(file, d)]
      /\ file' = NoBook /\ call' = call /\ day' = day
      /\ billed' = billed /\ lost' = lost
  BY DEF Blank
<1>2. /\ \A d \in DOMAIN NoBook : NoBook[d] <= Limit
      /\ \A d \in Days : Used(NoBook, d) = 0
  BY DEF NoBook, Used
<1>3. lost \in [Days -> Nat] /\ forgotten \in [Days -> Nat]
  BY TypesUnfold
<1>4. ASSUME NEW p \in Procs
      PROVE  /\ HasRoom(call[p], NoBook, day)
             /\ IsCovered(call[p], NoBook, day, billed, Excused')
  <2>1. ASSUME NEW d \in Days
        PROVE  Excused'[d] = Excused[d] + Used(file, d)
    <3>1. Excused[d] = lost[d] + forgotten[d] /\ Excused'[d] = lost'[d] + forgotten'[d]
      BY DEF Excused
    <3>2. Used(file, d) \in Nat /\ lost[d] \in Nat /\ forgotten[d] \in Nat
      BY <1>3, LoneFacts
    <3> QED
      BY <1>1, <3>1, <3>2
  <2>2. HasRoom(call[p], NoBook, day)
    <3>1. ASSUME call[p].step # "idle", NEW d \in Days, d >= call[p].on
          PROVE  Used(NoBook, d) + call[p].page <= Limit
      <4>1. Used(file, d) + call[p].page <= Limit
        BY <3>1, LoneFacts DEF HasRoom
      <4> QED
        BY <1>2, <4>1, LoneFacts
    <3>2. ASSUME call[p].step = "saving"
          PROVE  Used(call[p].book, day) >= Used(NoBook, day) + Pending(call[p], day)
      <4>1. Used(call[p].book, day) >= Used(file, day) + Pending(call[p], day)
        BY <3>2, LoneFacts DEF HasRoom
      <4>2. Used(call[p].book, day) \in Nat /\ Pending(call[p], day) \in Nat
        BY LoneFacts DEF IsCall, IsBook, Used, Pending
      <4> QED
        BY <1>2, <4>1, <4>2, LoneFacts
    <3> QED
      BY <3>1, <3>2, LoneFacts DEF HasRoom
  <2>3. ASSUME NEW d \in Days
        PROVE  billed[d] - Excused'[d] - Pending(call[p], d)
                 <= Ceiling(call[p], NoBook, day, d)
    <3>1. /\ billed[d] \in Nat /\ Excused[d] \in Nat /\ Pending(call[p], d) \in Nat
          /\ billed[d] - Excused[d] - Pending(call[p], d) <= Ceiling(call[p], file, day, d)
      BY LoneFacts DEF IsCovered, Pending
    <3>2. Ceiling(call[p], file, day, d) <= Ceiling(call[p], NoBook, day, d) + Used(file, d)
      BY <1>2, LoneFacts DEF Ceiling
    <3>3. /\ Ceiling(call[p], file, day, d) \in Nat
          /\ Ceiling(call[p], NoBook, day, d) \in Nat
      BY <1>2, LoneFacts DEF Ceiling
    <3> QED
      BY <2>1, <3>1, <3>2, <3>3, LoneFacts
  <2> QED
    BY <2>2, <2>3 DEF IsCovered
<1> QED
  BY <1>1, <1>2, <1>4 DEF LoneInv

LEMMA LoneNext ==
    ASSUME Lone, FileTypeOK, LoneInv, [Next]_vars
    PROVE  LoneInv'
<1>1. ASSUME NEW p \in Procs, Search(p)
      PROVE  LoneInv'
  BY <1>1, LoneCheck, LoneAttemptLost, LoneAnswer, LoneLoadBook, LoneSaveBook, LoneFails
  DEF Search
<1>2. CASE Midnight
  BY <1>2, LoneMidnight
<1>3. CASE Corrupt
  BY <1>3 DEF Corrupt, LoneInv, Excused
<1>4. CASE Blank
  BY <1>4, LoneBlank
<1>5. CASE UNCHANGED vars
  BY <1>5 DEF vars, LoneInv, Excused
<1> QED
  BY <1>1, <1>2, <1>3, <1>4, <1>5 DEF Next, vars

LEMMA LoneInvAlways == Lone => (Spec => []LoneInv)
<1>1. Init => LoneInv
  BY LoneInit
<1>2. Lone /\ FileTypeOK /\ LoneInv /\ [Next]_vars => LoneInv'
  BY LoneNext
<1>3. Spec => []FileTypeOK
  BY FileTypesAreKept
<1> SUFFICES ASSUME Lone PROVE Spec => []LoneInv
  OBVIOUS
<1>4. FileTypeOK /\ LoneInv /\ [Next]_vars => LoneInv'
  BY <1>2
<1> QED
  BY <1>1, <1>3, <1>4, PTL DEF Spec

\* A lone process never counts more than the limit on any day.
THEOREM LoneBookWithinLimit == Lone => (Spec => []BookWithinLimit)
<1>1. LoneInv => BookWithinLimit
  BY DEF LoneInv, BookWithinLimit
<1> SUFFICES ASSUME Lone PROVE Spec => []BookWithinLimit
  OBVIOUS
<1>2. Spec => []LoneInv
  BY LoneInvAlways
<1> QED
  BY <1>1, <1>2, PTL

\* ... and is never billed for more, but for the calls that it lost
\* and the counts that the file forgot.
THEOREM LoneSpendBounded == Lone => (Spec => []SpendBounded)
<1>1. ASSUME FileTypeOK, LoneInv
      PROVE  SpendBounded
  <2>1. PICK p \in Procs : TRUE
    BY FileBudgetAssumption
  <2>2. ASSUME NEW d \in Days
        PROVE  billed[d] - lost[d] - forgotten[d] <= Limit
    <3>0. Excused[d] = lost[d] + forgotten[d] /\ lost[d] \in Nat /\ forgotten[d] \in Nat
      BY <1>1, TypesUnfold DEF Excused
    <3>1. /\ billed[d] \in Nat /\ Excused[d] \in Nat /\ Pending(call[p], d) \in Nat
          /\ billed[d] - Excused[d] - Pending(call[p], d) <= Ceiling(call[p], file, day, d)
          /\ Pending(call[p], d) <= call[p].page
      BY <1>1, LoneFacts DEF IsCovered, Pending
    <3>2. CASE call[p].step # "idle" /\ d >= call[p].on
      <4>1. /\ Used(file, d) + call[p].page <= Limit
            /\ Ceiling(call[p], file, day, d) = Used(file, d)
        BY <1>1, <3>2, LoneFacts DEF HasRoom, Ceiling
      <4> QED
        BY <1>1, <3>0, <3>1, <4>1, LoneFacts
    <3>3. CASE ~(call[p].step # "idle" /\ d >= call[p].on)
      <4>1. Pending(call[p], d) = 0
        BY <1>1, <3>3, LoneFacts DEF HasRoom, Pending
      <4>2. Ceiling(call[p], file, day, d) \in Nat /\ Ceiling(call[p], file, day, d) <= Limit
        BY <1>1, LoneFacts DEF Ceiling
      <4> QED
        BY <1>1, <3>0, <3>1, <4>1, <4>2, LoneFacts
    <3> QED
      BY <3>2, <3>3
  <2> QED
    BY <2>2 DEF SpendBounded
<1> SUFFICES ASSUME Lone PROVE Spec => []SpendBounded
  OBVIOUS
<1>2. Spec => []LoneInv
  BY LoneInvAlways
<1> QED
  BY <1>1, <1>2, FileTypesAreKept, PTL

\* ... and gives back nothing that was counted today.
THEOREM LoneGivesNothingBack == Lone => (Spec => NothingGivenBack)
<1>1. ASSUME FileTypeOK, LoneInv, [Next]_vars, day' = day, forgotten' = forgotten
      PROVE  Used(file, day)' >= Used(file, day)
  <2>1. Used(file, day) \in Nat
    BY <1>1, TypesUnfold, UsedIsNat, FileBudgetAssumption DEF Days
  <2>2. ASSUME NEW p \in Procs, SaveBook(p)
        PROVE  Used(file', day) >= Used(file, day)
    <3>1. Used(file', day) >= Used(file, day) + Pending(call[p], day)
      BY <1>1, <2>2, LoneFacts DEF SaveBook, HasRoom
    <3>2. Pending(call[p], day) \in Nat /\ Used(file', day) \in Nat
      BY <1>1, <2>2, LoneFacts DEF SaveBook, IsCall, IsBook, Used, Pending
    <3> QED
      BY <2>1, <3>1, <3>2
  <2>3. CASE file' = file
    BY <1>1, <2>1, <2>3
  <2>4. ASSUME Blank
        PROVE  Used(file', day) >= Used(file, day)
    <3>1. day \in Days /\ forgotten \in [Days -> Nat]
      BY <1>1, TypesUnfold
    <3>2. forgotten[day] = forgotten[day] + Used(file, day)
      BY <1>1, <2>4, <3>1 DEF Blank
    <3>3. Used(file, day) = 0
      BY <2>1, <3>1, <3>2
    <3> QED
      BY <2>4, <3>3 DEF Blank, NoBook, Used
  <2>5. file' = file \/ Blank \/ \E p \in Procs : SaveBook(p)
    BY <1>1 DEF Next, Search, Midnight, Corrupt, Check, AttemptLost, Answer, LoadBook,
                Fails, vars
  <2>6. Used(file', day) >= Used(file, day)
    BY <2>1, <2>2, <2>3, <2>4, <2>5
  <2> QED
    BY <1>1, <2>6 DEF Used
<1> SUFFICES ASSUME Lone PROVE Spec => NothingGivenBack
  OBVIOUS
<1>2. Spec => []LoneInv
  BY LoneInvAlways
<1>3. FileTypeOK /\ LoneInv /\ [Next]_vars
        => [day' = day /\ forgotten' = forgotten
              => Used(file, day)' >= Used(file, day)]_vars
  BY <1>1
<1> QED
  BY <1>2, <1>3, FileTypesAreKept, PTL DEF Spec, NothingGivenBack
=============================================================================
