-------------------------- MODULE ReadBudgetProofs --------------------------
(***************************************************************************)
(* Theorems about ReadBudget, for any workers, limit and page sizes: the   *)
(* ceiling holds always, and when no request is in flight at midnight the  *)
(* books balance and no day's bill exceeds the limit.                      *)
(***************************************************************************)
EXTENDS ReadBudget, FiniteSetTheorems, TLAPS

Claims == [Workers -> 0..MaxPage]

(* Counting reads.                                                         *)

LEMMA ReadsFinite ==
    ASSUME NEW f \in Claims
    PROVE  IsFiniteSet(Reads(f)) /\ Cardinality(Reads(f)) \in Nat
<1>1. IsFiniteSet(1..MaxPage)
  BY BudgetAssumption, FS_Interval
<1>2. IsFiniteSet(Workers \X (1..MaxPage))
  BY <1>1, BudgetAssumption, FS_Product
<1>3. Reads(f) \in SUBSET (Workers \X (1..MaxPage))
  BY DEF Reads
<1>4. IsFiniteSet(Reads(f))
  BY <1>2, <1>3, FS_Subset
<1> QED
  BY <1>4, FS_CardinalityType

\* The reads of one worker are as many as it claims.
LEMMA OwnReads ==
    ASSUME NEW w \in Workers, NEW k \in 0..MaxPage
    PROVE  /\ IsFiniteSet({w} \X (1..k))
           /\ Cardinality({w} \X (1..k)) = k
<1>1. k \in Int /\ k >= 0
  BY BudgetAssumption
<1>2. IsFiniteSet(1..k) /\ Cardinality(1..k) = k
  BY <1>1, FS_Interval
<1>3. IsFiniteSet({w}) /\ Cardinality({w}) = 1
  BY FS_Singleton
<1> QED
  BY <1>1, <1>2, <1>3, FS_Product

LEMMA DisjointUnion ==
    ASSUME NEW S, NEW T, IsFiniteSet(S), IsFiniteSet(T), S \intersect T = {}
    PROVE  Cardinality(S \union T) = Cardinality(S) + Cardinality(T)
<1>1. Cardinality(S \union T)
         = Cardinality(S) + Cardinality(T) - Cardinality(S \intersect T)
  BY FS_Union
<1>2. Cardinality(S \intersect T) = 0
  BY FS_EmptySet
<1>3. Cardinality(S) \in Nat /\ Cardinality(T) \in Nat
  BY FS_CardinalityType
<1> QED
  BY <1>1, <1>2, <1>3

\* Claims that differ for one worker only differ by what it claims.
LEMMA ReadsChange ==
    ASSUME NEW f \in Claims, NEW g \in Claims, NEW w \in Workers,
           \A x \in Workers \ {w} : g[x] = f[x]
    PROVE  Cardinality(Reads(g)) = Cardinality(Reads(f)) - f[w] + g[w]
<1> DEFINE Rest == {t \in Reads(f) : t[1] # w}
           Own(h) == {w} \X (1..h[w])
<1>1. f[w] \in 0..MaxPage /\ g[w] \in 0..MaxPage
  BY DEF Claims
<1>2. Rest \in SUBSET Reads(f)
  OBVIOUS
<1>3. IsFiniteSet(Rest) /\ Cardinality(Rest) \in Nat
  BY <1>2, ReadsFinite, FS_Subset, FS_CardinalityType
<1>4. Reads(f) = Rest \union Own(f)
  BY <1>1, BudgetAssumption DEF Reads
<1>5. Reads(g) = Rest \union Own(g)
  BY <1>1, BudgetAssumption DEF Reads
<1>6. Rest \intersect Own(f) = {} /\ Rest \intersect Own(g) = {}
  OBVIOUS
<1>7. /\ IsFiniteSet(Own(f)) /\ Cardinality(Own(f)) = f[w]
      /\ IsFiniteSet(Own(g)) /\ Cardinality(Own(g)) = g[w]
  BY <1>1, OwnReads
<1> HIDE DEF Rest, Own
<1>8. Cardinality(Reads(f)) = Cardinality(Rest) + f[w]
  BY <1>1, <1>3, <1>4, <1>6, <1>7, DisjointUnion
<1>9. Cardinality(Reads(g)) = Cardinality(Rest) + g[w]
  BY <1>1, <1>3, <1>5, <1>6, <1>7, DisjointUnion
<1> QED
  BY <1>1, <1>3, <1>8, <1>9, BudgetAssumption

\* Nobody claims anything.
LEMMA NoReads ==
    ASSUME NEW f \in Claims, \A w \in Workers : f[w] = 0
    PROVE  Cardinality(Reads(f)) = 0
<1>1. Reads(f) = {}
  BY BudgetAssumption DEF Reads
<1> QED
  BY <1>1, FS_EmptySet

(* The types, and the ceiling of every row.                                *)

LEMMA TypeInit == Init => TypeOK
<1> SUFFICES ASSUME Init PROVE TypeOK
  OBVIOUS
<1>1. 1 \in Days
  BY BudgetAssumption DEF Days
<1> QED
  BY <1>1 DEF Init, TypeOK, CallType, NoCall

LEMMA CallFacts ==
    ASSUME TypeOK, NEW w \in Workers, call[w] # NoCall
    PROVE  /\ call[w].step \in {"sent", "served"} /\ call[w].page \in 1..MaxPage
           /\ call[w].returned \in 0..call[w].page /\ call[w].day \in Days
           /\ call[w].day <= today /\ Claim(w) \in 0..MaxPage
<1>1. Days \subseteq Int /\ MaxPage \in Int
  BY BudgetAssumption DEF Days
<1>2. call[w] \in CallType /\ call[w].returned <= call[w].page /\ call[w].day <= today
  BY DEF TypeOK
<1> QED
  BY <1>1, <1>2 DEF CallType, Claim

LEMMA TypeNext == TypeOK /\ [Next]_vars => TypeOK'
<1> SUFFICES ASSUME TypeOK, [Next]_vars PROVE TypeOK'
  OBVIOUS
<1> USE DEF TypeOK
<1>1. /\ Days \subseteq Int /\ \A page \in Pages : page \in 1..MaxPage
      /\ MaxPage \in Int
  BY BudgetAssumption DEF Days
<1>2. ASSUME NEW w \in Workers, NEW page \in Pages, Reserve(w, page)
      PROVE  TypeOK'
  <2>1. [step |-> "sent", page |-> page, returned |-> 0, day |-> today] \in CallType
    BY <1>1 DEF CallType
  <2> QED
    BY <1>1, <1>2, <2>1 DEF Reserve
<1>3. ASSUME NEW w \in Workers, call[w] # NoCall
      PROVE  /\ call[w].step \in {"sent", "served"} /\ call[w].page \in 1..MaxPage
             /\ call[w].returned \in 0..call[w].page /\ call[w].day \in Days
             /\ call[w].day <= today /\ Claim(w) \in 0..MaxPage
  BY <1>3, CallFacts
<1>4. ASSUME NEW w \in Workers, NEW posts \in 0..MaxPage, Serve(w, posts)
      PROVE  TypeOK'
  <2>1. call[w] # NoCall
    BY <1>4 DEF Serve, NoCall
  <2> DEFINE served == [step |-> "served", page |-> call[w].page,
                        returned |-> posts, day |-> call[w].day]
  <2>2. call' = [call EXCEPT ![w] = served]
    BY <1>4 DEF Serve
  <2>3. served \in CallType
    BY <1>3, <2>1 DEF CallType
  <2>4. charged' \in [Days -> Nat]
    BY <1>3, <1>4, <2>1 DEF Serve
  <2> QED
    <3>1. posts <= call[w].page /\ call[w].day <= today
      BY <1>3, <1>4, <2>1 DEF Serve
    <3>2. call' \in [Workers -> CallType]
      BY <2>2, <2>3
    <3>3. call'[w] = served /\ \A x \in Workers \ {w} : call'[x] = call[x]
      BY <2>2
    <3> QED
      BY <1>4, <2>4, <3>1, <3>2, <3>3 DEF Serve
<1>5. ASSUME NEW w \in Workers, Lose(w)
      PROVE  TypeOK'
  <2> DEFINE d == call[w].day
             claim == Claim(w)
  <2>1. d \in Days /\ claim \in Nat
    BY <1>1, <1>3, <1>5 DEF Lose
  <2>2. forfeited' = [forfeited EXCEPT ![d] = @ + claim]
    BY <1>5 DEF Lose
  <2> HIDE DEF d, claim
  <2>3. forfeited' \in [Days -> Nat]
    BY <2>1, <2>2
  <2> QED
    BY <1>5, <2>3 DEF Lose, CallType, NoCall
<1>6. ASSUME NEW w \in Workers, Release(w)
      PROVE  TypeOK'
  <2>1. call[w] # NoCall
    BY <1>6 DEF Release, NoCall
  <2>2. Refunded(w, Claim(w)) \in Nat
    BY <1>1, <1>3, <2>1 DEF Refunded
  <2> QED
    BY <1>6, <2>2 DEF Release, CallType, NoCall
<1>7. CASE Midnight
  <2>1. today \in Int /\ today' = today + 1 /\ today' \in Days
    BY <1>7, BudgetAssumption DEF Midnight, Days
  <2>2. ASSUME NEW w \in Workers, call[w] # NoCall
        PROVE  call[w].day <= today'
    <3>1. call[w].day \in Int /\ call[w].day <= today
      BY <1>1, <1>3, <2>2
    <3> QED
      BY <2>1, <3>1
  <2>3. \A d \in Days : d > today' => d \notin rows
    BY <1>1, <2>1
  <2> QED
    BY <1>7, <2>1, <2>2, <2>3 DEF Midnight
<1>8. CASE UNCHANGED vars
  BY <1>8 DEF vars
<1> QED
  BY <1>2, <1>4, <1>5, <1>6, <1>7, <1>8 DEF Next

\* The types and the CHECK of the table hold overnight too.
THEOREM BudgetTypesAreKept == Spec => []TypeOK
<1>1. Init => TypeOK
  BY TypeInit
<1>2. TypeOK /\ [Next]_vars => TypeOK'
  BY TypeNext
<1> QED
  BY <1>1, <1>2, PTL DEF Spec

\* The guarded upsert is the only statement that adds to a row.
LEMMA CeilingNext == TypeOK /\ CeilingHolds /\ [Next]_vars => CeilingHolds'
<1> SUFFICES ASSUME TypeOK, CeilingHolds, [Next]_vars PROVE CeilingHolds'
  OBVIOUS
<1> USE DEF CeilingHolds
<1>1. /\ used \in [Days -> Nat] /\ today \in Days /\ Limit \in Nat
      /\ today \notin rows => used[today] = 0
  BY BudgetAssumption DEF TypeOK
<1>2. ASSUME NEW w \in Workers, NEW page \in Pages, Reserve(w, page)
      PROVE  CeilingHolds'
  BY <1>1, <1>2, BudgetAssumption DEF Reserve, HasHeadroom
<1>3. ASSUME NEW w \in Workers, Release(w)
      PROVE  CeilingHolds'
  <2>1. call[w] # NoCall
    BY <1>3 DEF Release, NoCall
  <2>2. Claim(w) \in Nat
    BY <2>1, CallFacts, BudgetAssumption
  <2> DEFINE left == Refunded(w, Claim(w))
  <2>3. left \in Int /\ left <= used[today]
    BY <1>1, <2>2 DEF Refunded
  <2>4. left <= Limit
    BY <1>1, <2>3
  <2>5. used' = used \/ used' = [used EXCEPT ![today] = left]
    BY <1>3 DEF Release
  <2> HIDE DEF left
  <2> QED
    BY <1>1, <2>4, <2>5
<1> QED
  BY <1>2, <1>3 DEF Next, Serve, Lose, Midnight, vars

LEMMA CeilingInit == Init => CeilingHolds
BY BudgetAssumption DEF Init, CeilingHolds

\* However many workers race for the last of the budget, no row passes the
\* limit, overnight too.
THEOREM CeilingAlwaysHolds == Spec => []CeilingHolds
<1>1. Init => TypeOK /\ CeilingHolds
  BY TypeInit, CeilingInit
<1>2. TypeOK /\ CeilingHolds /\ [Next]_vars => (TypeOK /\ CeilingHolds)'
  BY TypeNext, CeilingNext
<1> QED
  BY <1>1, <1>2, PTL DEF Spec

(* The books.                                                              *)

LEMMA ClaimsType ==
    TypeOK => \A d \in Days :
        /\ ClaimsOn(d) \in Claims /\ Outstanding(d) \in Nat
        /\ \A w \in Workers : ClaimsOn(d)[w] =
              IF call[w] # NoCall /\ call[w].day = d THEN Claim(w) ELSE 0
<1> SUFFICES ASSUME TypeOK, NEW d \in Days
             PROVE  /\ ClaimsOn(d) \in Claims /\ Outstanding(d) \in Nat
                    /\ \A w \in Workers : ClaimsOn(d)[w] =
                          IF call[w] # NoCall /\ call[w].day = d THEN Claim(w) ELSE 0
  OBVIOUS
<1>1. ASSUME NEW w \in Workers
      PROVE  (IF call[w].day = d THEN Claim(w) ELSE 0) \in 0..MaxPage
  <2>1. CASE call[w] = NoCall
    BY <2>1, BudgetAssumption DEF NoCall, Claim
  <2>2. CASE call[w] # NoCall
    BY <2>2, CallFacts, BudgetAssumption
  <2> QED
    BY <2>1, <2>2
<1>2. ClaimsOn(d) \in Claims
  BY <1>1 DEF ClaimsOn, Claims
<1>3. \A w \in Workers : call[w] = NoCall => Claim(w) = 0
  BY DEF NoCall, Claim
<1> QED
  BY <1>2, <1>3, ReadsFinite DEF ClaimsOn, Outstanding

ClaimsAreTyped == \A d \in Days : ClaimsOn(d) \in Claims

LEMMA ClaimsTyped == TypeOK => ClaimsAreTyped
BY ClaimsType DEF ClaimsAreTyped

LEMMA ClaimsTypedNext == TypeOK' => ClaimsAreTyped'
BY ClaimsTyped, PTL

\* A step of one worker changes what is outstanding by its own claim.
LEMMA OutstandingChange ==
    ASSUME TypeOK, TypeOK', NEW w \in Workers, NEW d \in Days,
           \A x \in Workers \ {w} : call'[x] = call[x]
    PROVE  Outstanding(d)' = Outstanding(d) - ClaimsOn(d)[w] + ClaimsOn(d)'[w]
<1>1. ClaimsOn(d) \in Claims /\ ClaimsOn(d)' \in Claims
  BY ClaimsTyped, ClaimsTypedNext DEF ClaimsAreTyped, Claims
<1>2. \A x \in Workers \ {w} : ClaimsOn(d)'[x] = ClaimsOn(d)[x]
  BY DEF ClaimsOn, Claim
<1>3. Outstanding(d)' = Cardinality(Reads(ClaimsOn(d)'))
  BY DEF Outstanding, Reads
<1> HIDE DEF Outstanding
<1> QED
  BY <1>1, <1>2, <1>3, ReadsChange DEF Outstanding

\* With no request in flight at midnight, every request was reserved today.
SameDay == \A w \in Workers : call[w] # NoCall => call[w].day = today

\* SpendWithinLimit is not inductive: that a charge fits follows from the row
\* covering it, and that from every refund being of reads the same row holds.
BooksInv == TypeOK /\ CeilingHolds /\ SameDay /\ AccountsBalance

LEMMA BooksInit == Init => BooksInv
<1> SUFFICES ASSUME Init PROVE BooksInv
  OBVIOUS
<1>1. TypeOK /\ CeilingHolds
  BY TypeInit, CeilingInit
<1>2. SameDay
  BY DEF Init, SameDay
<1>3. ASSUME NEW d \in Days
      PROVE  Outstanding(d) = 0
  <2>1. /\ ClaimsOn(d) \in Claims
        /\ \A w \in Workers : ClaimsOn(d)[w] = 0
    BY <1>1, ClaimsType DEF Init
  <2> QED
    BY <2>1, NoReads DEF Outstanding
<1>4. AccountsBalance
  BY <1>3 DEF Init, AccountsBalance
<1> QED
  BY <1>1, <1>2, <1>4 DEF BooksInv

\* One worker's step keeps the books, if the row, the charges and the forfeits
\* of each day move by what its claim moves.
LEMMA BooksStep ==
    ASSUME TypeOK, TypeOK', AccountsBalance, NEW w \in Workers,
           \A x \in Workers \ {w} : call'[x] = call[x],
           \A d \in Days :
              used'[d] - used[d] = (charged'[d] - charged[d])
                                    + (ClaimsOn(d)'[w] - ClaimsOn(d)[w])
                                    + (forfeited'[d] - forfeited[d])
    PROVE  AccountsBalance'
<1> SUFFICES ASSUME NEW d \in Days
             PROVE  used'[d] = charged'[d] + Outstanding(d)' + forfeited'[d]
  BY DEF AccountsBalance
<1>1. /\ used[d] \in Int /\ charged[d] \in Int /\ forfeited[d] \in Int
      /\ used'[d] \in Int /\ charged'[d] \in Int /\ forfeited'[d] \in Int
  BY DEF TypeOK
<1>2. ClaimsOn(d)[w] \in Int /\ ClaimsOn(d)'[w] \in Int
  <2>1. ClaimsOn(d) \in Claims /\ ClaimsOn(d)' \in Claims
    BY ClaimsTyped, ClaimsTypedNext DEF ClaimsAreTyped, Claims
  <2> QED
    BY <2>1, BudgetAssumption DEF Claims
<1>3. Outstanding(d) \in Int
  BY ClaimsType
<1>4. Outstanding(d)' = Outstanding(d) - ClaimsOn(d)[w] + ClaimsOn(d)'[w]
  BY OutstandingChange
<1>5. used[d] = charged[d] + Outstanding(d) + forfeited[d]
  BY DEF AccountsBalance
<1>6. used'[d] - used[d] = (charged'[d] - charged[d])
                           + (ClaimsOn(d)'[w] - ClaimsOn(d)[w])
                           + (forfeited'[d] - forfeited[d])
  OBVIOUS
<1> QED
  BY <1>1, <1>2, <1>3, <1>4, <1>5, <1>6

\* A worker's claim is part of what is outstanding on its day.
LEMMA ClaimIsOutstanding ==
    ASSUME TypeOK, NEW w \in Workers, call[w] # NoCall
    PROVE  Claim(w) <= Outstanding(call[w].day)
<1> DEFINE d == call[w].day
           f == ClaimsOn(d)
           g == [f EXCEPT ![w] = 0]
<1>1. d \in Days /\ f \in Claims /\ f[w] = Claim(w) /\ f[w] \in Nat
  BY CallFacts, ClaimsType, BudgetAssumption
<1>2. Outstanding(d) = Cardinality(Reads(f))
  BY DEF Outstanding
<1> HIDE DEF f
<1>3. g \in Claims /\ g[w] = 0 /\ \A x \in Workers \ {w} : g[x] = f[x]
  BY <1>1, BudgetAssumption DEF Claims
<1> HIDE DEF g
<1>4. Cardinality(Reads(g)) = Cardinality(Reads(f)) - f[w] + g[w]
  BY <1>1, <1>3, ReadsChange
<1>5. Cardinality(Reads(g)) \in Nat /\ Cardinality(Reads(f)) \in Nat
  BY <1>1, <1>3, ReadsFinite
<1> QED
  BY <1>1, <1>2, <1>3, <1>4, <1>5

LEMMA BooksNext ==
    ASSUME ~Overnight, BooksInv, [Next]_vars
    PROVE  BooksInv'
<1> USE DEF BooksInv
<1>1. TypeOK' /\ CeilingHolds'
  BY TypeNext, CeilingNext
<1>2. /\ used \in [Days -> Nat] /\ charged \in [Days -> Nat]
      /\ forfeited \in [Days -> Nat] /\ call \in [Workers -> CallType]
      /\ today \in Days /\ (today \notin rows => used[today] = 0)
  BY DEF TypeOK
<1>3. ASSUME NEW w \in Workers, call[w] # NoCall
      PROVE  /\ call[w].day = today /\ Claim(w) \in Nat
             /\ \A d \in Days : ClaimsOn(d)[w] = IF d = today THEN Claim(w) ELSE 0
  BY <1>3, CallFacts, BudgetAssumption DEF SameDay, ClaimsOn
<1>4. ASSUME NEW w \in Workers, NEW page \in Pages, Reserve(w, page)
      PROVE  BooksInv'
  <2>1. page \in Nat
    BY BudgetAssumption
  <2>2. /\ SameDay' /\ \A x \in Workers \ {w} : call'[x] = call[x]
        /\ call[w] = NoCall /\ call'[w].day = today
        /\ call'[w].page = page /\ call'[w].returned = 0
    BY <1>2, <1>4 DEF Reserve, SameDay
  <2>3. ASSUME NEW d \in Days
        PROVE  ClaimsOn(d)[w] = 0 /\ ClaimsOn(d)'[w] = IF d = today THEN page ELSE 0
    BY <2>1, <2>2 DEF ClaimsOn, Claim, NoCall
  <2>4. ASSUME NEW d \in Days
        PROVE  used'[d] = IF d = today THEN used[d] + page ELSE used[d]
    BY <1>2, <1>4 DEF Reserve
  <2>5. UNCHANGED <<charged, forfeited>>
    BY <1>4 DEF Reserve
  <2>6. AccountsBalance'
    BY <1>1, <1>2, <2>1, <2>2, <2>3, <2>4, <2>5, BooksStep
  <2> QED
    BY <1>1, <2>2, <2>6
<1>5. ASSUME NEW w \in Workers, NEW posts \in 0..MaxPage, Serve(w, posts)
      PROVE  BooksInv'
  <2>1. call[w] # NoCall /\ posts \in Nat
    BY <1>5, BudgetAssumption DEF Serve, NoCall
  <2>2. call[w].day = today /\ call[w].page \in Int /\ call[w].returned = 0
    BY <1>3, <1>5, <2>1, CallFacts, BudgetAssumption DEF Serve, TypeOK
  <2>3. /\ SameDay' /\ \A x \in Workers \ {w} : call'[x] = call[x]
        /\ call'[w].day = today
        /\ call'[w].page = call[w].page /\ call'[w].returned = posts
    BY <1>2, <1>5, <2>2 DEF Serve, SameDay
  <2>4. Claim(w)' = Claim(w) - posts
    BY <2>1, <2>2, <2>3 DEF Claim
  <2>5. ASSUME NEW d \in Days
        PROVE  ClaimsOn(d)'[w] = IF d = today THEN Claim(w) - posts ELSE 0
    BY <2>3, <2>4 DEF ClaimsOn
  <2>6. ASSUME NEW d \in Days
        PROVE  charged'[d] = IF d = today THEN charged[d] + posts ELSE charged[d]
    BY <1>2, <1>5, <2>2 DEF Serve
  <2>7. UNCHANGED <<used, forfeited>>
    BY <1>5 DEF Serve
  <2>8. AccountsBalance'
    BY <1>1, <1>2, <1>3, <2>1, <2>3, <2>5, <2>6, <2>7, BooksStep
  <2> QED
    BY <1>1, <2>3, <2>8
<1>6. ASSUME NEW w \in Workers, call[w] # NoCall, call' = [call EXCEPT ![w] = NoCall],
             UNCHANGED today
      PROVE  /\ SameDay' /\ \A x \in Workers \ {w} : call'[x] = call[x]
             /\ \A d \in Days : ClaimsOn(d)'[w] = 0
  BY <1>2, <1>6 DEF SameDay, ClaimsOn, Claim, NoCall
<1>7. ASSUME NEW w \in Workers, Lose(w)
      PROVE  BooksInv'
  <2>1. /\ call[w] # NoCall /\ call' = [call EXCEPT ![w] = NoCall]
        /\ UNCHANGED <<today, used, charged>>
    BY <1>7 DEF Lose
  <2>2. ASSUME NEW d \in Days
        PROVE  forfeited'[d] = IF d = today THEN forfeited[d] + Claim(w)
                                            ELSE forfeited[d]
    BY <1>2, <1>3, <1>7, <2>1 DEF Lose
  <2>3. ASSUME NEW d \in Days
        PROVE  /\ UNCHANGED <<used, charged>> /\ ClaimsOn(d)'[w] = 0
               /\ ClaimsOn(d)[w] = IF d = today THEN Claim(w) ELSE 0
               /\ used[d] \in Nat /\ charged[d] \in Nat /\ forfeited[d] \in Nat
               /\ Claim(w) \in Nat
    BY <1>2, <1>3, <1>6, <2>1
  <2>4. ASSUME NEW d \in Days
        PROVE  used'[d] - used[d] = (charged'[d] - charged[d])
                                     + (ClaimsOn(d)'[w] - ClaimsOn(d)[w])
                                     + (forfeited'[d] - forfeited[d])
    BY <2>2, <2>3
  <2>5. \A x \in Workers \ {w} : call'[x] = call[x]
    BY <1>6, <2>1
  <2>6. AccountsBalance'
    BY <1>1, <2>4, <2>5, BooksStep
  <2> QED
    BY <1>1, <1>6, <2>1, <2>6
<1>8. ASSUME NEW w \in Workers, Release(w)
      PROVE  BooksInv'
  <2>1. /\ call[w] # NoCall /\ call' = [call EXCEPT ![w] = NoCall]
        /\ UNCHANGED <<today, charged, forfeited>>
    BY <1>8 DEF Release, NoCall
  <2>2. Claim(w) <= used[today]
    <3>1. Claim(w) <= Outstanding(today) /\ Outstanding(today) \in Nat
      BY <1>2, <1>3, <2>1, ClaimIsOutstanding, ClaimsType
    <3>2. used[today] = charged[today] + Outstanding(today) + forfeited[today]
      BY <1>2 DEF AccountsBalance
    <3>3. charged[today] \in Nat /\ forfeited[today] \in Nat
      BY <1>2
    <3> QED
      BY <1>3, <2>1, <3>1, <3>2, <3>3
  <2>3. Refunded(w, Claim(w)) = used[today] - Claim(w)
    BY <1>2, <1>3, <2>1, <2>2 DEF Refunded
  <2>4. today \notin rows => Claim(w) = 0
    BY <1>2, <1>3, <2>1, <2>2
  <2>5. ASSUME NEW d \in Days
        PROVE  used'[d] = IF d = today THEN used[d] - Claim(w) ELSE used[d]
    BY <1>2, <1>3, <1>8, <2>1, <2>3, <2>4 DEF Release
  <2>6. ASSUME NEW d \in Days
        PROVE  /\ UNCHANGED <<charged, forfeited>> /\ ClaimsOn(d)'[w] = 0
               /\ ClaimsOn(d)[w] = IF d = today THEN Claim(w) ELSE 0
               /\ used[d] \in Nat /\ charged[d] \in Nat /\ forfeited[d] \in Nat
               /\ Claim(w) \in Nat
    BY <1>2, <1>3, <1>6, <2>1
  <2>7. ASSUME NEW d \in Days
        PROVE  used'[d] - used[d] = (charged'[d] - charged[d])
                                     + (ClaimsOn(d)'[w] - ClaimsOn(d)[w])
                                     + (forfeited'[d] - forfeited[d])
    BY <2>5, <2>6
  <2>8. \A x \in Workers \ {w} : call'[x] = call[x]
    BY <1>6, <2>1
  <2>9. AccountsBalance'
    BY <1>1, <2>7, <2>8, BooksStep
  <2> QED
    BY <1>1, <1>6, <2>1, <2>9
<1>9. CASE Midnight
  <2>1. \A w \in Workers : call[w] = NoCall
    BY <1>9 DEF Midnight
  <2>2. UNCHANGED <<used, call, charged, forfeited>>
    BY <1>9 DEF Midnight
  <2>3. SameDay'
    BY <2>1, <2>2 DEF SameDay
  <2>4. AccountsBalance'
    BY <2>2 DEF AccountsBalance, Outstanding, Reads, ClaimsOn, Claim
  <2> QED
    BY <1>1, <2>3, <2>4
<1>10. CASE UNCHANGED vars
  BY <1>1, <1>10 DEF vars, SameDay, AccountsBalance, Outstanding, Reads, ClaimsOn, Claim
<1> QED
  BY <1>4, <1>5, <1>7, <1>8, <1>9, <1>10 DEF Next

\* When no request is in flight at midnight, every row is at all times what X
\* charged, what it may still charge, and what failed requests forfeited.
THEOREM BooksBalance ==
    ASSUME ~Overnight
    PROVE  Spec => []AccountsBalance
<1>1. BooksInv => AccountsBalance
  BY DEF BooksInv
<1> QED
  BY <1>1, BooksInit, BooksNext, PTL DEF Spec

LEMMA BooksCoverBill ==
    ASSUME BooksInv
    PROVE  SpendWithinLimit
<1> SUFFICES ASSUME NEW d \in Days PROVE charged[d] <= Limit
  BY DEF SpendWithinLimit
<1>1. /\ used[d] \in Nat /\ charged[d] \in Nat /\ forfeited[d] \in Nat
      /\ Outstanding(d) \in Nat /\ Limit \in Nat
  BY ClaimsType, BudgetAssumption DEF BooksInv, TypeOK
<1>2. used[d] = charged[d] + Outstanding(d) + forfeited[d] /\ used[d] <= Limit
  BY DEF BooksInv, AccountsBalance, CeilingHolds
<1> QED
  BY <1>1, <1>2

\* ... and then no number of workers, racing for the last of the budget, makes
\* a day's bill exceed the limit.
THEOREM BillStaysWithinLimit ==
    ASSUME ~Overnight
    PROVE  Spec => []SpendWithinLimit
<1>1. BooksInv => SpendWithinLimit
  BY BooksCoverBill
<1> QED
  BY <1>1, BooksInit, BooksNext, PTL DEF Spec

\* A step of the budget is a step of the abstract meter, or leaves it alone.
LEMMA StepImplementsMeter ==
    ASSUME BooksInv, SpendWithinLimit', [Next]_vars
    PROVE  [Meter!MeterNext]_charged
<1>1. charged \in [Days -> Nat] /\ Limit \in Nat
  BY BudgetAssumption DEF BooksInv, TypeOK
<1>2. ASSUME NEW w \in Workers, NEW posts \in 0..MaxPage, Serve(w, posts)
      PROVE  Meter!MeterNext
  <2> DEFINE d == call[w].day
  <2>1. call[w] # NoCall
    BY <1>2 DEF Serve, NoCall
  <2>2. d \in Days /\ posts \in Nat
    BY <2>1, CallFacts, BudgetAssumption DEF BooksInv
  <2>3. charged' = [charged EXCEPT ![d] = @ + posts]
    BY <1>2 DEF Serve
  <2> HIDE DEF d
  <2>4. charged[d] \in Nat /\ charged'[d] = charged[d] + posts /\ charged'[d] <= Limit
    BY <1>1, <2>2, <2>3 DEF SpendWithinLimit
  <2>5. posts \in 0..Limit /\ charged[d] + posts <= Limit
    BY <1>1, <2>2, <2>4
  <2> QED
    BY <2>2, <2>3, <2>5 DEF Meter!MeterNext, Meter!Spend
<1> QED
  BY <1>2 DEF Next, Reserve, Lose, Release, Midnight, vars

\* The budget implements the daily meter it promises: what X charges is spent
\* read by read within the limit of the day, whatever is lost on the way.
THEOREM BudgetImplementsMeter ==
    ASSUME ~Overnight
    PROVE  Spec => ImplementsMeter
<1>1. Init => Meter!MeterInit
  BY DEF Init, Meter!MeterInit
<1>2. BooksInv => SpendWithinLimit
  BY BooksCoverBill
<1>3. BooksInv /\ SpendWithinLimit' /\ [Next]_vars => [Meter!MeterNext]_charged
  BY StepImplementsMeter
<1> QED
  BY <1>1, <1>2, <1>3, BooksInit, BooksNext, PTL
  DEF Spec, ImplementsMeter, Meter!MeterSpec

(* Overnight.  A request of an earlier day may still be refunded to today,  *)
(* once the row of today is there.  The worker whose request created the    *)
(* row has no such request, and each of the others has one at most.         *)

ClaimsInAll == [w \in Workers |-> Claim(w)]

\* Reads in flight, of whichever day.
InFlight == Cardinality(Reads(ClaimsInAll))

Slack == (Cardinality(Workers) - 1) * MaxPage

\* Without a row, nothing has been reserved.
RowsComeFirst ==
    /\ \A d \in Days \ rows : charged[d] = 0
    /\ \A w \in Workers : call[w] # NoCall => call[w].day \in rows

PastBill == \A d \in Days \ {today} : charged[d] + Outstanding(d) <= Limit + Slack

TodaysBill == today \in rows => charged[today] + InFlight <= used[today] + Slack

OverInv == TypeOK /\ CeilingHolds /\ RowsComeFirst /\ PastBill /\ TodaysBill

LEMMA SlackType ==
    ASSUME Workers # {}
    PROVE  Slack \in Nat
<1>1. Cardinality(Workers) \in Nat /\ Cardinality(Workers) # 0
  BY BudgetAssumption, FS_CardinalityType, FS_EmptySet
<1>2. Cardinality(Workers) - 1 \in Nat /\ MaxPage \in Nat
  BY <1>1, BudgetAssumption
<1> QED
  BY <1>2 DEF Slack

LEMMA InFlightType ==
    TypeOK => ClaimsInAll \in Claims /\ InFlight \in Nat
<1> SUFFICES ASSUME TypeOK PROVE ClaimsInAll \in Claims
  BY ReadsFinite DEF InFlight
<1>1. ASSUME NEW w \in Workers
      PROVE  Claim(w) \in 0..MaxPage
  <2>1. CASE call[w] = NoCall
    BY <2>1, BudgetAssumption DEF NoCall, Claim
  <2>2. CASE call[w] # NoCall
    BY <2>2, CallFacts
  <2> QED
    BY <2>1, <2>2
<1> QED
  BY <1>1 DEF ClaimsInAll, Claims

LEMMA InFlightTypeNext == TypeOK' => (ClaimsInAll \in Claims)' /\ (InFlight \in Nat)'
BY InFlightType, PTL

\* A step of one worker changes what is in flight by its own claim.
LEMMA InFlightChange ==
    ASSUME TypeOK, TypeOK', NEW w \in Workers,
           \A x \in Workers \ {w} : call'[x] = call[x]
    PROVE  InFlight' = InFlight - Claim(w) + Claim(w)'
<1>1. ClaimsInAll \in Claims /\ ClaimsInAll' \in Claims
  BY InFlightType, InFlightTypeNext DEF Claims
<1>2. \A x \in Workers \ {w} : ClaimsInAll'[x] = ClaimsInAll[x]
  BY DEF ClaimsInAll, Claim
<1>3. InFlight' = Cardinality(Reads(ClaimsInAll'))
  BY DEF InFlight, Reads
<1>4. ClaimsInAll[w] = Claim(w) /\ ClaimsInAll'[w] = Claim(w)'
  BY DEF ClaimsInAll
<1>5. Cardinality(Reads(ClaimsInAll'))
         = Cardinality(Reads(ClaimsInAll)) - ClaimsInAll[w] + ClaimsInAll'[w]
  BY <1>1, <1>2, ReadsChange
<1> QED
  BY <1>3, <1>4, <1>5 DEF InFlight

\* What is outstanding on a day is in flight.
LEMMA OutstandingInFlight ==
    ASSUME TypeOK, NEW d \in Days
    PROVE  Outstanding(d) <= InFlight
<1>1. ClaimsOn(d) \in Claims /\ ClaimsInAll \in Claims
  BY ClaimsType, InFlightType
<1>2. \A w \in Workers : ClaimsOn(d)[w] <= ClaimsInAll[w]
  <2>1. ASSUME NEW w \in Workers
        PROVE  ClaimsOn(d)[w] <= ClaimsInAll[w]
    <3>1. ClaimsInAll[w] \in 0..MaxPage /\ ClaimsInAll[w] = Claim(w)
      BY <1>1 DEF Claims, ClaimsInAll
    <3>2. ClaimsOn(d)[w] \in {0, Claim(w)}
      BY DEF ClaimsOn
    <3> QED
      BY <3>1, <3>2, BudgetAssumption
  <2> QED
    BY <2>1
<1>3. Reads(ClaimsOn(d)) \in SUBSET Reads(ClaimsInAll)
  <2>1. \A w \in Workers : ClaimsOn(d)[w] \in Int /\ ClaimsInAll[w] \in Int
    BY <1>1, BudgetAssumption DEF Claims
  <2>2. ASSUME NEW t \in Reads(ClaimsOn(d))
        PROVE  t \in Reads(ClaimsInAll)
    <3>1. /\ t \in Workers \X (1..MaxPage) /\ t[1] \in Workers /\ t[2] \in Int
          /\ t[2] <= ClaimsOn(d)[t[1]]
      BY BudgetAssumption DEF Reads
    <3>2. t[2] <= ClaimsInAll[t[1]]
      BY <1>2, <2>1, <3>1
    <3> QED
      BY <3>1, <3>2 DEF Reads
  <2> QED
    BY <2>2
<1>4. IsFiniteSet(Reads(ClaimsInAll))
  BY <1>1, ReadsFinite
<1> QED
  BY <1>3, <1>4, FS_Subset DEF Outstanding, InFlight

\* All workers but one have no more in flight than a page each.
LEMMA OthersInFlight ==
    ASSUME TypeOK, NEW w \in Workers, call[w] = NoCall
    PROVE  InFlight <= Slack
<1> DEFINE Others == Workers \ {w}
           All == Others \X (1..MaxPage)
<1>1. IsFiniteSet(Others) /\ Cardinality(Others) = Cardinality(Workers) - 1
  BY BudgetAssumption, FS_RemoveElement
<1>2. MaxPage \in Nat /\ IsFiniteSet(1..MaxPage) /\ Cardinality(1..MaxPage) = MaxPage
  BY BudgetAssumption, FS_Interval
<1>3. IsFiniteSet(All) /\ Cardinality(All) = Slack
  BY <1>1, <1>2, FS_Product DEF Slack
<1>4. ClaimsInAll[w] = 0
  BY DEF ClaimsInAll, Claim, NoCall
<1>5. Reads(ClaimsInAll) \in SUBSET All
  BY <1>4, BudgetAssumption DEF Reads
<1> QED
  BY <1>3, <1>5, FS_Subset DEF InFlight

\* One worker's step moves the bills and the row of today by no more than its
\* claim moves the other way.
LEMMA OverStep ==
    ASSUME OverInv, TypeOK', CeilingHolds', RowsComeFirst', UNCHANGED today,
           NEW w \in Workers, \A x \in Workers \ {w} : call'[x] = call[x],
           \A d \in Days \ {today} :
              charged'[d] + ClaimsOn(d)'[w] <= charged[d] + ClaimsOn(d)[w],
           today \in rows' =>
              /\ today \in rows
              /\ charged'[today] + Claim(w)' - used'[today]
                    <= charged[today] + Claim(w) - used[today]
    PROVE  OverInv'
<1> USE DEF OverInv
<1>1. PastBill'
  <2> SUFFICES ASSUME NEW d \in Days \ {today}
               PROVE  charged'[d] + Outstanding(d)' <= Limit + Slack
    BY DEF PastBill, Slack
  <2>1. Outstanding(d)' = Outstanding(d) - ClaimsOn(d)[w] + ClaimsOn(d)'[w]
    BY OutstandingChange
  <2>2. charged[d] + Outstanding(d) <= Limit + Slack
    BY DEF PastBill
  <2>3. charged[d] \in Int /\ charged'[d] \in Int /\ Outstanding(d) \in Int
    BY ClaimsType DEF TypeOK
  <2>4. ClaimsOn(d)[w] \in Int /\ ClaimsOn(d)'[w] \in Int
    <3>1. ClaimsOn(d) \in Claims /\ ClaimsOn(d)' \in Claims
      BY ClaimsTyped, ClaimsTypedNext DEF ClaimsAreTyped, Claims
    <3> QED
      BY <3>1, BudgetAssumption DEF Claims
  <2>5. Limit + Slack \in Int
    BY SlackType, BudgetAssumption
  <2> QED
    BY <2>1, <2>2, <2>3, <2>4, <2>5
<1>2. TodaysBill'
  <2> SUFFICES ASSUME today \in rows'
               PROVE  charged'[today] + InFlight' <= used'[today] + Slack
    BY DEF TodaysBill, Slack
  <2>1. InFlight' = InFlight - Claim(w) + Claim(w)'
    BY InFlightChange
  <2>2. charged[today] + InFlight <= used[today] + Slack
    BY DEF TodaysBill
  <2>3. /\ today \in Days
        /\ charged[today] \in Int /\ used[today] \in Int /\ InFlight \in Int
    BY InFlightType DEF TypeOK
  <2>4. charged'[today] \in Int /\ used'[today] \in Int
    BY <2>3 DEF TypeOK
  <2>5. Claim(w) \in Int /\ Claim(w)' \in Int
    <3>1. ClaimsInAll \in Claims /\ ClaimsInAll' \in Claims
      BY InFlightType, InFlightTypeNext DEF Claims
    <3>2. ClaimsInAll[w] = Claim(w) /\ ClaimsInAll'[w] = Claim(w)'
      BY DEF ClaimsInAll
    <3> QED
      BY <3>1, <3>2, BudgetAssumption DEF Claims
  <2>6. Slack \in Nat
    BY SlackType
  <2> QED
    BY <2>1, <2>2, <2>3, <2>4, <2>5, <2>6
<1> QED
  BY <1>1, <1>2

LEMMA OverNext == OverInv /\ [Next]_vars => OverInv'
<1> SUFFICES ASSUME OverInv, [Next]_vars PROVE OverInv'
  OBVIOUS
<1> USE DEF OverInv
<1>1. TypeOK' /\ CeilingHolds'
  BY TypeNext, CeilingNext
<1>2. /\ used \in [Days -> Nat] /\ charged \in [Days -> Nat]
      /\ call \in [Workers -> CallType] /\ rows \subseteq Days
      /\ today \in Days /\ (today \notin rows => used[today] = 0)
  BY DEF TypeOK
<1>3. ASSUME NEW w \in Workers, call[w] # NoCall
      PROVE  /\ call[w].day \in rows /\ Claim(w) \in Nat
             /\ \A d \in Days : ClaimsOn(d)[w] = IF d = call[w].day THEN Claim(w) ELSE 0
  BY <1>3, CallFacts, BudgetAssumption DEF RowsComeFirst, ClaimsOn
<1>4. ASSUME NEW w \in Workers, NEW page \in Pages, Reserve(w, page)
      PROVE  OverInv'
  <2>1. page \in Nat
    BY BudgetAssumption
  <2>2. /\ \A x \in Workers \ {w} : call'[x] = call[x]
        /\ call[w] = NoCall /\ call'[w].day = today
        /\ call'[w].page = page /\ call'[w].returned = 0
        /\ rows' = rows \union {today} /\ UNCHANGED <<today, charged>>
        /\ used'[today] = used[today] + page
    BY <1>2, <1>4 DEF Reserve
  <2>3. RowsComeFirst'
    BY <1>2, <2>2 DEF RowsComeFirst
  <2>4. Claim(w) = 0 /\ Claim(w)' = page
    BY <2>1, <2>2 DEF Claim, NoCall
  <2>5. \A d \in Days \ {today} : ClaimsOn(d)[w] = 0 /\ ClaimsOn(d)'[w] = 0
    BY <2>2, <2>4 DEF ClaimsOn
  <2>6. CASE today \in rows
    <3>1. charged'[today] + Claim(w)' - used'[today]
             <= charged[today] + Claim(w) - used[today]
      BY <1>2, <2>1, <2>2, <2>4
    <3>2. \A d \in Days \ {today} :
              charged'[d] + ClaimsOn(d)'[w] <= charged[d] + ClaimsOn(d)[w]
      BY <1>2, <2>2, <2>5
    <3> QED
      BY <1>1, <2>2, <2>3, <2>6, <3>1, <3>2, OverStep
  <2>7. CASE today \notin rows
    <3>1. InFlight <= Slack /\ InFlight \in Nat /\ Slack \in Nat
      BY <2>2, OthersInFlight, InFlightType, SlackType
    <3>2. InFlight' = InFlight - Claim(w) + Claim(w)'
      BY <1>1, <2>2, InFlightChange
    <3>3. charged[today] = 0 /\ used[today] = 0
      BY <1>2, <2>7 DEF RowsComeFirst
    <3>4. TodaysBill'
      <4>1. charged'[today] + InFlight' <= used'[today] + Slack
        BY <2>1, <2>2, <2>4, <3>1, <3>2, <3>3
      <4> QED
        BY <2>2, <4>1 DEF TodaysBill, Slack
    <3>5. PastBill'
      <4> SUFFICES ASSUME NEW d \in Days \ {today}
                   PROVE  charged'[d] + Outstanding(d)' <= Limit + Slack
        BY <2>2 DEF PastBill, Slack
      <4>1. Outstanding(d)' = Outstanding(d) - ClaimsOn(d)[w] + ClaimsOn(d)'[w]
        BY <1>1, <2>2, OutstandingChange
      <4>2. Outstanding(d)' = Outstanding(d)
        BY <2>5, <4>1, ClaimsType
      <4> QED
        BY <2>2, <4>2 DEF PastBill
    <3> QED
      BY <1>1, <2>3, <3>4, <3>5
  <2> QED
    BY <2>6, <2>7
<1>5. ASSUME NEW w \in Workers, NEW posts \in 0..MaxPage, Serve(w, posts)
      PROVE  OverInv'
  <2> DEFINE c == call[w].day
  <2>1. call[w] # NoCall /\ posts \in Nat
    BY <1>5, BudgetAssumption DEF Serve, NoCall
  <2>2. call[w].page \in Int /\ call[w].returned = 0 /\ c \in rows /\ c \in Days
    BY <1>2, <1>3, <1>5, <2>1, CallFacts, BudgetAssumption DEF Serve, TypeOK
  <2>3. /\ \A x \in Workers \ {w} : call'[x] = call[x]
        /\ call'[w].day = c
        /\ call'[w].page = call[w].page /\ call'[w].returned = posts
        /\ UNCHANGED <<today, rows, used>>
    BY <1>2, <1>5 DEF Serve
  <2>4. Claim(w)' = Claim(w) - posts
    BY <2>1, <2>2, <2>3 DEF Claim
  <2>5. \A d \in Days :
            /\ charged'[d] = IF d = c THEN charged[d] + posts ELSE charged[d]
            /\ ClaimsOn(d)'[w] = IF d = c THEN Claim(w) - posts ELSE 0
            /\ ClaimsOn(d)[w] = IF d = c THEN Claim(w) ELSE 0
    BY <1>2, <1>3, <1>5, <2>1, <2>3, <2>4 DEF Serve, ClaimsOn
  <2>6. RowsComeFirst'
    <3>1. \A d \in Days \ rows : d # c
      BY <2>2
    <3>2. \A x \in Workers : call'[x] # NoCall => call'[x].day \in rows
      BY <2>2, <2>3 DEF RowsComeFirst
    <3> QED
      BY <2>3, <2>5, <3>1, <3>2 DEF RowsComeFirst
  <2> HIDE DEF c
  <2>7. \A d \in Days :
            charged'[d] + ClaimsOn(d)'[w] <= charged[d] + ClaimsOn(d)[w]
    BY <1>2, <1>3, <2>1, <2>5
  <2>8. charged'[today] + Claim(w)' - used'[today]
           <= charged[today] + Claim(w) - used[today]
    BY <1>2, <1>3, <2>1, <2>3, <2>4, <2>5
  <2> QED
    BY <1>1, <2>3, <2>6, <2>7, <2>8, OverStep
<1>6. ASSUME NEW w \in Workers, call[w] # NoCall, call' = [call EXCEPT ![w] = NoCall],
             UNCHANGED <<today, rows, charged>>,
             used'[today] \in Nat,
             today \in rows => used'[today] >= used[today] - Claim(w)
      PROVE  OverInv'
  <2>1. /\ \A x \in Workers \ {w} : call'[x] = call[x]
        /\ call'[w] = NoCall
    BY <1>2, <1>6
  <2>2. Claim(w)' = 0 /\ \A d \in Days : ClaimsOn(d)'[w] = 0
    BY <2>1 DEF ClaimsOn, Claim, NoCall
  <2>3. RowsComeFirst'
    BY <1>6, <2>1 DEF RowsComeFirst
  <2>4. \A d \in Days : charged'[d] + ClaimsOn(d)'[w] <= charged[d] + ClaimsOn(d)[w]
    BY <1>2, <1>3, <1>6, <2>2
  <2>5. today \in rows => charged'[today] + Claim(w)' - used'[today]
                             <= charged[today] + Claim(w) - used[today]
    BY <1>2, <1>3, <1>6, <2>2
  <2> QED
    BY <1>1, <1>6, <2>1, <2>3, <2>4, <2>5, OverStep
<1>7. ASSUME NEW w \in Workers, Lose(w)
      PROVE  OverInv'
  <2>1. /\ call[w] # NoCall /\ call' = [call EXCEPT ![w] = NoCall]
        /\ UNCHANGED <<today, rows, charged, used>>
    BY <1>7 DEF Lose
  <2>2. used'[today] \in Nat /\ used'[today] >= used[today] - Claim(w)
    BY <1>2, <1>3, <2>1
  <2> QED
    BY <1>6, <2>1, <2>2
<1>8. ASSUME NEW w \in Workers, Release(w)
      PROVE  OverInv'
  <2>1. /\ call[w] # NoCall /\ call' = [call EXCEPT ![w] = NoCall]
        /\ UNCHANGED <<today, rows, charged>>
    BY <1>8 DEF Release, NoCall
  <2>2. used'[today] = IF today \in rows THEN Refunded(w, Claim(w)) ELSE used[today]
    BY <1>2, <1>8 DEF Release
  <2>3. Refunded(w, Claim(w)) \in Nat /\ Refunded(w, Claim(w)) >= used[today] - Claim(w)
    BY <1>2, <1>3, <2>1 DEF Refunded
  <2> QED
    BY <1>2, <1>6, <2>1, <2>2, <2>3
<1>9. CASE Midnight
  <2>1. /\ today' = today + 1 /\ today' \in Days /\ today' \notin rows
        /\ UNCHANGED <<rows, used, call, charged>>
    BY <1>2, <1>9, BudgetAssumption DEF Midnight, TypeOK, Days
  <2>2. RowsComeFirst' /\ TodaysBill'
    BY <2>1 DEF RowsComeFirst, TodaysBill
  <2>3. \A d \in Days : Outstanding(d)' = Outstanding(d)
    BY <2>1 DEF Outstanding, Reads, ClaimsOn, Claim
  <2>4. charged[today] + Outstanding(today) <= Limit + Slack
    <3>1. /\ Outstanding(today) \in Nat /\ Outstanding(today) <= InFlight
          /\ InFlight \in Nat /\ charged[today] \in Nat /\ used[today] \in Nat
      BY <1>2, ClaimsType, OutstandingInFlight, InFlightType
    <3>2. CASE today \in rows
      <4>1. charged[today] + InFlight <= used[today] + Slack /\ used[today] <= Limit
        BY <1>2, <3>2 DEF TodaysBill, CeilingHolds
      <4>2. Slack \in Int /\ Limit \in Int
        BY BudgetAssumption, FS_CardinalityType DEF Slack
      <4> QED
        BY <3>1, <4>1, <4>2
    <3>3. CASE today \notin rows
      <4>1. charged[today] = 0 /\ \A w \in Workers : ClaimsOn(today)[w] = 0
        BY <1>2, <3>3 DEF RowsComeFirst, ClaimsOn, Claim, NoCall
      <4>2. Outstanding(today) = 0
        BY <1>2, <4>1, ClaimsType, NoReads DEF Outstanding
      <4>3. \A d \in Days \ {today} : charged[d] + Outstanding(d) <= Limit + Slack
        BY DEF PastBill
      <4>4. today' # today
        BY <1>2, <2>1 DEF Days
      <4>5. today' \in Days \ {today} /\ charged[today'] \in Nat
            /\ Outstanding(today') \in Nat
        BY <1>2, <2>1, <4>4, ClaimsType
      <4>6. 0 <= Limit + Slack
        <5>1. Slack \in Int /\ Limit \in Int
          BY BudgetAssumption, FS_CardinalityType DEF Slack
        <5> QED
          BY <4>3, <4>5, <5>1
      <4> QED
        BY <4>1, <4>2, <4>6
    <3> QED
      BY <3>2, <3>3
  <2>5. PastBill'
    BY <2>1, <2>3, <2>4 DEF PastBill, Slack
  <2> QED
    BY <1>1, <2>2, <2>5
<1>10. CASE UNCHANGED vars
  <2>1. UNCHANGED <<today, rows, used, call, charged>>
    BY <1>10 DEF vars
  <2>2. UNCHANGED InFlight /\ \A d \in Days : Outstanding(d)' = Outstanding(d)
    BY <2>1 DEF InFlight, ClaimsInAll, Outstanding, Reads, ClaimsOn, Claim
  <2> QED
    BY <1>1, <2>1, <2>2 DEF RowsComeFirst, PastBill, TodaysBill, Slack
<1> QED
  BY <1>4, <1>5, <1>7, <1>8, <1>9, <1>10 DEF Next

\* Refunds that cross midnight make room for no more than a page for each
\* worker but one, on any day, however many nights a request is out.
THEOREM OvernightBillIsBounded ==
    ASSUME Workers # {}
    PROVE  Spec => []OverspendBounded
<1>1. ASSUME Init PROVE OverInv
  <2>1. TypeOK /\ CeilingHolds
    BY <1>1, TypeInit, CeilingInit
  <2>2. RowsComeFirst /\ TodaysBill
    BY <1>1 DEF Init, RowsComeFirst, TodaysBill
  <2>3. \A d \in Days : charged[d] = 0 /\ Outstanding(d) = 0
    BY <1>1, <2>1, ClaimsType, NoReads DEF Init, Outstanding
  <2>4. PastBill
    BY <2>3, SlackType, BudgetAssumption DEF PastBill
  <2> QED
    BY <2>1, <2>2, <2>4 DEF OverInv
<1>2. ASSUME OverInv PROVE OverspendBounded
  <2> SUFFICES ASSUME NEW d \in Days PROVE charged[d] <= Limit + Slack
    BY DEF OverspendBounded, Slack
  <2>1. /\ Slack \in Nat /\ Limit \in Nat /\ charged[d] \in Nat /\ used[d] \in Nat
        /\ Outstanding(d) \in Nat /\ InFlight \in Nat /\ used[d] <= Limit
    BY <1>2, SlackType, BudgetAssumption, ClaimsType, InFlightType
    DEF OverInv, TypeOK, CeilingHolds
  <2>2. CASE d # today
    <3>1. charged[d] + Outstanding(d) <= Limit + Slack
      BY <1>2, <2>2 DEF OverInv, PastBill
    <3> QED
      BY <2>1, <3>1
  <2>3. CASE d = today /\ d \in rows
    <3>1. charged[d] + InFlight <= used[d] + Slack
      BY <1>2, <2>3 DEF OverInv, TodaysBill
    <3> QED
      BY <2>1, <3>1
  <2>4. CASE d \notin rows
    BY <1>2, <2>1, <2>4 DEF OverInv, RowsComeFirst
  <2> QED
    BY <2>2, <2>3, <2>4
<1> QED
  BY <1>1, <1>2, OverNext, PTL DEF Spec
=============================================================================
