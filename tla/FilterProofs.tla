---------------------------- MODULE FilterProofs ----------------------------
(***************************************************************************)
(* Theorems about PostFilter: for any banding, threshold and capacity, and *)
(* after any sequence of posts, evictions and polls, the inverted index is *)
(* in step with the window, every answer is the one that a scan would      *)
(* give, and what is accepted is distinct.                                 *)
(***************************************************************************)
EXTENDS PostFilter, SetLemmas

Entry == [post : Nat, signature : Signatures, seq : Nat]

(* IndexMatchesWindow needs the types of the window, and no more.           *)

IndexInv ==
    /\ window \in Seq(Entry) /\ Len(window) <= Capacity
    /\ frontSeq \in Nat /\ nextSeq \in Nat
    /\ latest.post \in Nat
    /\ index = [k \in Keys |-> index[k]]
    /\ SlotsMatch
    /\ BucketsMatch

LEMMA IndexStart ==
    /\ Init => IndexInv
    /\ NewPoll => IndexInv'
<1>1. ASSUME window = <<>>, index = [k \in Keys |-> {}], frontSeq = 0,
             nextSeq = 0, latest = NoAnswer
      PROVE  IndexInv
  <2>1. /\ window \in Seq(Entry) /\ Len(window) = 0
        /\ Len(window) <= Capacity
    BY <1>1, FilterAssumption
  <2>2. SlotsMatch /\ BucketsMatch
    BY <1>1 DEF SlotsMatch, BucketsMatch
  <2> QED
    BY <1>1, <2>1, <2>2 DEF IndexInv, NoAnswer
<1>2. Init => IndexInv
  BY <1>1 DEF Init
<1>3. ASSUME NewPoll PROVE IndexInv'
  <2>1. /\ window' \in Seq(Entry) /\ Len(window') = 0
        /\ Len(window') <= Capacity
    BY <1>3, FilterAssumption DEF NewPoll
  <2>2. SlotsMatch' /\ BucketsMatch'
    BY <1>3 DEF NewPoll, SlotsMatch, BucketsMatch
  <2> QED
    BY <1>3, <2>1, <2>2 DEF IndexInv, NoAnswer, NewPoll
<1> QED
  BY <1>2, <1>3

\* The arrival numbers that a window has under a bucket key.
SeqsUnder(list, k) ==
    {list[i].seq : i \in {j \in DOMAIN list : k \in KeysOf(list[j].signature)}}

\* evict_front: what is left is shorter than the capacity, and its slots still
\* agree with its arrival numbers.
LEMMA SurvivorSlots ==
    ASSUME IndexInv
    PROVE  /\ Survivors \in Seq(Entry) /\ Len(Survivors) < Capacity
           /\ FrontAfter \in Nat /\ FrontAfter + Len(Survivors) = nextSeq
           /\ \A i \in 1..Len(Survivors) :
                 Survivors[i].seq = FrontAfter + i - 1
<1> USE DEF IndexInv, SlotsMatch
<1>1. CASE ~Full
  BY <1>1, FilterAssumption DEF Full, Survivors, FrontAfter
<1>2. CASE Full
  <2>1. Len(window) = Capacity /\ Len(window) \in Nat \ {0} /\ window # <<>>
    BY <1>2, FilterAssumption DEF Full
  <2>2. Survivors = Tail(window)
    BY <1>2 DEF Survivors
  <2>3. /\ Survivors \in Seq(Entry) /\ Len(Survivors) = Len(window) - 1
        /\ \A i \in 1..Len(Survivors) : Survivors[i] = window[i + 1]
    BY <2>1, <2>2
  <2>4. FrontAfter = frontSeq + 1
    BY <1>2, <2>1 DEF FrontAfter
  <2>5. ASSUME NEW i \in 1..Len(Survivors)
        PROVE  Survivors[i].seq = FrontAfter + i - 1
    <3>1. i + 1 \in DOMAIN window /\ i \in Nat
      BY <2>1, <2>3
    <3>2. window[i + 1].seq = frontSeq + (i + 1) - 1
      BY <3>1
    <3>3. Survivors[i].seq = window[i + 1].seq
      BY <2>3
    <3> QED
      BY <2>4, <3>1, <3>2, <3>3
  <2>6. FrontAfter + Len(Survivors) = nextSeq /\ FrontAfter \in Nat
    <3>1. frontSeq + Len(window) = nextSeq /\ frontSeq \in Nat
      OBVIOUS
    <3>2. Len(window) \in Nat
      BY <2>1
    <3>3. (frontSeq + 1) + (Len(window) - 1) = nextSeq
      BY <3>1, <3>2
    <3>4. FrontAfter + Len(Survivors) = nextSeq
      BY <2>3, <2>4, <3>3
    <3> QED
      BY <2>4, <3>1, <3>4
  <2> QED
    BY <2>1, <2>3, <2>5, <2>6
<1> QED
  BY <1>1, <1>2

\* evict_front: the buckets describe what is left.
LEMMA SurvivorBuckets ==
    ASSUME IndexInv, NEW k \in Keys
    PROVE  Unlinked(k) = SeqsUnder(Survivors, k)
<1> USE DEF IndexInv
<1>0. index[k] = SeqsUnder(window, k)
  BY DEF BucketsMatch, SeqsUnder
<1>1. CASE ~Full
  BY <1>0, <1>1 DEF Unlinked, Survivors
<1>2. CASE Full
  <2>1. Len(window) \in Nat \ {0} /\ window # <<>>
    BY <1>2, FilterAssumption DEF Full
  <2>2. /\ Survivors = Tail(window) /\ DOMAIN Survivors = 1..(Len(window) - 1)
        /\ \A i \in DOMAIN Survivors : Survivors[i] = window[i + 1]
        /\ Head(window) = window[1] /\ DOMAIN window = 1..Len(window)
    BY <1>2, <2>1 DEF Survivors
  <2>3. \A i \in DOMAIN window : window[i].seq = frontSeq + i - 1
    BY DEF SlotsMatch
  <2>4. ASSUME NEW x \in SeqsUnder(Survivors, k)
        PROVE  x \in index[k] /\ x # window[1].seq
    <3>1. PICK i \in DOMAIN Survivors :
              k \in KeysOf(Survivors[i].signature) /\ x = Survivors[i].seq
      BY <2>4 DEF SeqsUnder
    <3>2. i + 1 \in DOMAIN window /\ Survivors[i] = window[i + 1]
      BY <2>1, <2>2
    <3>3. x \in index[k]
      BY <1>0, <3>1, <3>2 DEF SeqsUnder
    <3>4. window[i + 1].seq = frontSeq + (i + 1) - 1
      BY <2>3, <3>2
    <3>5. 1 \in DOMAIN window /\ i \in 1..(Len(window) - 1)
      BY <2>1, <2>2
    <3>6. window[1].seq = frontSeq + 1 - 1
      BY <2>3, <3>5
    <3>7. x # window[1].seq
      <4>1. x = frontSeq + (i + 1) - 1
        BY <3>1, <3>2, <3>4
      <4>2. frontSeq \in Nat /\ i \in Nat \ {0}
        BY <2>1, <3>5
      <4>3. frontSeq + (i + 1) - 1 # frontSeq + 1 - 1
        BY <4>2
      <4> QED
        BY <3>6, <4>1, <4>3
    <3> QED
      BY <3>3, <3>7
  <2>5. ASSUME NEW x \in index[k],
               k \in KeysOf(window[1].signature) => x # window[1].seq
        PROVE  x \in SeqsUnder(Survivors, k)
    <3>1. PICK i \in DOMAIN window :
              k \in KeysOf(window[i].signature) /\ x = window[i].seq
      BY <1>0, <2>5 DEF SeqsUnder
    <3>2. i # 1
      BY <2>5, <3>1
    <3>3. i - 1 \in DOMAIN Survivors /\ Survivors[i - 1] = window[i]
      BY <2>1, <2>2, <3>2
    <3> QED
      BY <3>1, <3>3 DEF SeqsUnder
  <2>6. Unlinked(k) = {x \in index[k] :
                          k \in KeysOf(window[1].signature) => x # window[1].seq}
    BY <1>2, <2>2 DEF Unlinked
  <2> QED
    BY <2>4, <2>5, <2>6
<1> QED
  BY <1>1, <1>2

\* A post is pushed on the window and linked into its buckets.
LEMMA RememberKeepsIndex ==
    ASSUME IndexInv, NEW post \in Nat, NEW signature \in Signatures,
           Remember(post, signature), latest'.post \in Nat
    PROVE  IndexInv'
<1> DEFINE new == [post |-> post, signature |-> signature, seq |-> nextSeq]
           n == Len(Survivors)
<1>1. /\ window' = Append(Survivors, new) /\ frontSeq' = FrontAfter
      /\ nextSeq' = nextSeq + 1
      /\ index' = [k \in Keys |-> IF k \in KeysOf(signature)
                                  THEN Unlinked(k) \union {nextSeq}
                                  ELSE Unlinked(k)]
  BY DEF Remember
<1>2. /\ Survivors \in Seq(Entry) /\ n < Capacity /\ n \in Nat
      /\ FrontAfter \in Nat /\ FrontAfter + n = nextSeq
      /\ \A i \in 1..n : Survivors[i].seq = FrontAfter + i - 1
  BY SurvivorSlots
<1>3. new \in Entry /\ new.seq = nextSeq /\ new.signature = signature
      /\ nextSeq \in Nat
  BY DEF IndexInv, Entry
<1> HIDE DEF new
<1>4. /\ window' \in Seq(Entry) /\ Len(window') = n + 1 /\ window'[n + 1] = new
      /\ \A i \in 1..n : window'[i] = Survivors[i]
      /\ DOMAIN window' = 1..(n + 1) /\ DOMAIN Survivors = 1..n
  BY <1>1, <1>2, <1>3
<1>5. SlotsMatch'
  BY <1>1, <1>2, <1>3, <1>4 DEF SlotsMatch
<1>6. ASSUME NEW k \in Keys
      PROVE  index'[k] = SeqsUnder(window', k)
  <2>1. Unlinked(k) = SeqsUnder(Survivors, k)
    BY SurvivorBuckets
  <2>2. SeqsUnder(window', k) =
            IF k \in KeysOf(signature)
            THEN SeqsUnder(Survivors, k) \union {nextSeq}
            ELSE SeqsUnder(Survivors, k)
    <3> DEFINE Under == SeqsUnder(Survivors, k)
    <3>1. ASSUME NEW x \in SeqsUnder(window', k)
          PROVE  x \in Under \/ (k \in KeysOf(signature) /\ x = nextSeq)
      <4>1. PICK i \in 1..(n + 1) :
                k \in KeysOf(window'[i].signature) /\ x = window'[i].seq
        BY <1>4, <3>1 DEF SeqsUnder
      <4>2. CASE i = n + 1
        BY <1>3, <1>4, <4>1, <4>2
      <4>3. CASE i \in 1..n
        BY <1>4, <4>1, <4>3 DEF SeqsUnder
      <4> QED
        BY <1>2, <4>2, <4>3
    <3>2. ASSUME NEW x \in Under
          PROVE  x \in SeqsUnder(window', k)
      <4>1. PICK i \in 1..n :
                k \in KeysOf(Survivors[i].signature) /\ x = Survivors[i].seq
        BY <1>4, <3>2 DEF SeqsUnder
      <4>2. i \in DOMAIN window' /\ window'[i] = Survivors[i]
        BY <1>2, <1>4
      <4> QED
        BY <4>1, <4>2 DEF SeqsUnder
    <3>3. k \in KeysOf(signature) => nextSeq \in SeqsUnder(window', k)
      <4>1. n + 1 \in DOMAIN window'
        BY <1>2, <1>4
      <4> QED
        BY <1>3, <1>4, <4>1 DEF SeqsUnder
    <3> HIDE DEF Under
    <3> QED
      BY <3>1, <3>2, <3>3 DEF Under
  <2> QED
    BY <1>1, <2>1, <2>2
<1>7. BucketsMatch'
  BY <1>6 DEF BucketsMatch, SeqsUnder
<1>8. Len(window') <= Capacity
  BY <1>2, <1>4, FilterAssumption
<1>9. frontSeq' \in Nat /\ nextSeq' \in Nat
  BY <1>1, <1>2, <1>3
<1>10. index' = [k \in Keys |-> index'[k]]
  BY <1>1
<1> QED
  BY <1>4, <1>5, <1>7, <1>8, <1>9, <1>10 DEF IndexInv

LEMMA IndexNext == IndexInv /\ [Next]_vars => IndexInv'
<1> SUFFICES ASSUME IndexInv, [Next]_vars PROVE IndexInv'
  OBVIOUS
<1>1. CASE NewPoll
  BY <1>1, IndexStart
<1>2. ASSUME NEW suspect \in Suspicions, ApplyMutBlank(suspect)
      PROVE  IndexInv'
  BY <1>2 DEF ApplyMutBlank, IndexInv, SlotsMatch, BucketsMatch
<1>3. ASSUME NEW suspect \in Suspicions, NEW signature \in Signatures,
             ApplyMut(signature, suspect)
      PROVE  IndexInv'
  <2>1. latest.post + 1 \in Nat
    BY DEF IndexInv
  <2>2. Remember(latest.post + 1, signature)
    BY <1>3 DEF ApplyMut
  <2>3. latest'.post = latest.post + 1
    BY <1>3 DEF ApplyMut, Answer
  <2> QED
    BY <2>1, <2>2, <2>3, RememberKeepsIndex
<1>4. CASE UNCHANGED vars
  BY <1>4 DEF vars, IndexInv, SlotsMatch, BucketsMatch
<1> QED
  BY <1>1, <1>2, <1>3, <1>4 DEF Next

\* For any banding, threshold and capacity: the inverted index holds exactly the
\* posts of the window, each where its arrival number says, so that it never
\* grows beyond the window nor misses one of its posts.
THEOREM IndexStaysInStep == Spec => []IndexMatchesWindow
<1>1. IndexInv => IndexMatchesWindow
  BY DEF IndexInv, IndexMatchesWindow
<1> QED
  BY <1>1, IndexStart, IndexNext, PTL DEF Spec

-----------------------------------------------------------------------------
(* Agreement, and the best of the candidates.                              *)

Hashes == Bands * Rows

Cells == (1..Bands) \X (1..Rows)

Agreeing(left, right) == {p \in Cells : left[p[1]][p[2]] = right[p[1]][p[2]]}

LEMMA CellsAreFinite ==
    /\ IsFiniteSet(Cells) /\ Cardinality(Cells) = Hashes /\ Hashes \in Nat
    /\ IsFiniteSet(1..Bands) /\ Cardinality(1..Bands) = Bands
<1>1. /\ IsFiniteSet(1..Bands) /\ Cardinality(1..Bands) = Bands
      /\ IsFiniteSet(1..Rows) /\ Cardinality(1..Rows) = Rows
  BY FS_Interval, FilterAssumption
<1>2. IsFiniteSet(Cells) /\ Cardinality(Cells) = Hashes
  <2> DEFINE B == 1..Bands  R == 1..Rows
  <2> HIDE DEF B, R
  <2>1. IsFiniteSet(B) /\ IsFiniteSet(R)
    BY <1>1 DEF B, R
  <2>2. IsFiniteSet(B \X R) /\ Cardinality(B \X R) = Cardinality(B) * Cardinality(R)
    BY <2>1, FS_Product
  <2>3. B \X R = Cells
    BY DEF B, R, Cells
  <2>4. Cardinality(B) = Bands /\ Cardinality(R) = Rows
    BY <1>1 DEF B, R
  <2> QED
    BY <2>2, <2>3, <2>4 DEF Hashes
<1> QED
  BY <1>1, <1>2, FS_CardinalityType

LEMMA AgreementIsCount ==
    ASSUME NEW left, NEW right
    PROVE  /\ Agreement(left, right) = Cardinality(Agreeing(left, right))
           /\ Agreement(left, right) \in Nat /\ Agreement(left, right) <= Hashes
<1>1. IsFiniteSet(Agreeing(left, right)) /\ Cardinality(Agreeing(left, right)) <= Hashes
  BY CellsAreFinite, FS_Subset DEF Agreeing
<1>2. Agreement(left, right) = Cardinality(Agreeing(left, right))
  BY DEF Agreement, Agreeing, Cells
<1> QED
  BY <1>1, <1>2, FS_CardinalityType

LEMMA AgreementIsSymmetric ==
    \A left, right : Agreement(left, right) = Agreement(right, left)
<1>1. ASSUME NEW left, NEW right
      PROVE  Agreeing(left, right) = Agreeing(right, left)
  BY DEF Agreeing
<1> QED
  BY <1>1, AgreementIsCount

\* The index finds just the posts that share a band with the signature.
LEMMA IndexFindsComparable ==
    ASSUME IndexInv, NEW signature \in Signatures
    PROVE  Retrieved(signature) =
               {i \in DOMAIN window : Comparable(signature, window[i].signature)}
<1>1. KeysOf(signature) \subseteq Keys
  <2>1. signature \in [1..Bands -> [1..Rows -> Values]]
    BY FilterAssumption
  <2> QED
    BY <2>1 DEF KeysOf, Keys
<1>2. \A i \in DOMAIN window : window[i].seq = frontSeq + i - 1 /\ i \in Nat
  BY DEF IndexInv, SlotsMatch
<1>3. \A i, j \in DOMAIN window : i = window[j].seq - frontSeq + 1 <=> i = j
  BY <1>2 DEF IndexInv
<1>4. \A k \in KeysOf(signature) :
          index[k] = {window[j].seq : j \in {l \in DOMAIN window :
                                                k \in KeysOf(window[l].signature)}}
  BY <1>1 DEF IndexInv, BucketsMatch
<1>5. ASSUME NEW i \in Retrieved(signature)
      PROVE  i \in DOMAIN window /\ Comparable(signature, window[i].signature)
  <2>1. PICK k \in KeysOf(signature) : \E seq \in index[k] : i = seq - frontSeq + 1
    BY <1>5 DEF Retrieved, Candidates
  <2>2. PICK j \in DOMAIN window :
            k \in KeysOf(window[j].signature) /\ i = window[j].seq - frontSeq + 1
    BY <1>4, <2>1
  <2>3. i \in DOMAIN window /\ i = j
    BY <1>3, <1>5, <2>2 DEF Retrieved
  <2> QED
    BY <2>2, <2>3 DEF Comparable
<1>6. ASSUME NEW i \in DOMAIN window, Comparable(signature, window[i].signature)
      PROVE  i \in Retrieved(signature)
  <2>1. PICK k \in KeysOf(signature) : k \in KeysOf(window[i].signature)
    BY <1>6 DEF Comparable
  <2>2. window[i].seq \in Candidates(signature)
    BY <1>4, <2>1 DEF Candidates
  <2> QED
    BY <1>3, <2>2 DEF Retrieved
<1> QED
  BY <1>5, <1>6

LEMMA ScoresAreCounts ==
    ASSUME NEW signature, NEW i
    PROVE  Score(signature, i) \in Nat /\ Score(signature, i) <= Hashes
BY AgreementIsCount DEF Score

\* If any candidate reaches the threshold, one of them is the best: the first
\* of those with the highest score.
LEMMA BestExists ==
    ASSUME IndexInv, NEW signature \in Signatures, NEW first \in Retrieved(signature),
           Score(signature, first) >= Threshold
    PROVE  Bests(signature) # {}
<1> DEFINE lack(i) == Hashes - Score(signature, i)
           Lacks == {lack(i) : i \in Retrieved(signature)}
<1>1. Retrieved(signature) \in SUBSET Nat /\ Hashes \in Nat /\ Threshold \in Nat
  <2>1. DOMAIN window \subseteq Nat
    BY DEF IndexInv
  <2> QED
    BY <2>1, CellsAreFinite, FilterAssumption DEF Retrieved, Hashes
<1>2. \A i \in Retrieved(signature) : lack(i) \in Nat
  BY <1>1, ScoresAreCounts
<1>3. PICK best \in Lacks : \A l \in Lacks : best <= l
  <2>1. Lacks \in SUBSET Nat /\ Lacks # {}
    BY <1>2
  <2> HIDE DEF Lacks
  <2> QED
    BY <2>1, LeastExists
<1> DEFINE Top == {i \in Retrieved(signature) : lack(i) = best}
<1>4. PICK m \in Top : \A i \in Top : m <= i
  <2>1. Top \in SUBSET Nat /\ Top # {}
    BY <1>1, <1>3
  <2> HIDE DEF Top
  <2> QED
    BY <2>1, LeastExists
<1>5. \A j \in Retrieved(signature) : lack(m) <= lack(j)
  BY <1>3, <1>4
<1>6. \A j \in Retrieved(signature) :
          /\ Score(signature, j) <= Score(signature, m)
          /\ Score(signature, j) = Score(signature, m) => m <= j
  <2>1. ASSUME NEW j \in Retrieved(signature)
        PROVE  Score(signature, j) <= Score(signature, m)
    BY <1>1, <1>5, <2>1, ScoresAreCounts
  <2>2. ASSUME NEW j \in Retrieved(signature), Score(signature, j) = Score(signature, m)
        PROVE  m <= j
    BY <1>4, <2>2
  <2> QED
    BY <2>1, <2>2
<1>7. m \in Retrieved(signature) /\ Score(signature, m) >= Threshold
  BY <1>1, <1>4, <1>6, ScoresAreCounts
<1>8. \A j \in Retrieved(signature) :
          \/ Score(signature, j) < Score(signature, m)
          \/ Score(signature, j) = Score(signature, m) /\ m <= j
  BY <1>6, ScoresAreCounts
<1> QED
  BY <1>7, <1>8 DEF Bests

\* The candidates that reach the threshold are the posts that a scan of the
\* window finds alike, and the best of them the originals.
LEMMA BestsAreOriginals ==
    ASSUME IndexInv, NEW signature \in Signatures
    PROVE  /\ Bests(signature) \subseteq Promise!Originals(signature)
           /\ Bests(signature) = {} => Promise!Alike(signature) = {}
           /\ Bests(signature) \subseteq DOMAIN window
<1>1. /\ DOMAIN Remembered = DOMAIN window
      /\ \A i \in DOMAIN window : Remembered[i].signature = window[i].signature
  BY DEF Remembered
<1>2. Promise!Alike(signature) =
          {i \in Retrieved(signature) : Score(signature, i) >= Threshold}
  BY <1>1, IndexFindsComparable DEF Promise!Alike, Score
<1>3. Bests(signature) \subseteq Promise!Alike(signature)
  BY <1>2 DEF Bests
<1>4. ASSUME NEW i \in Bests(signature)
      PROVE  i \in Promise!Originals(signature)
  <2>1. /\ i \in Retrieved(signature) /\ i \in DOMAIN window
        /\ Remembered[i].signature = window[i].signature
    BY <1>1 DEF Bests, Retrieved
  <2>2. ASSUME NEW j \in Promise!Alike(signature) \ {i}
        PROVE  LET mine == Agreement(signature, Remembered[i].signature)
                   other == Agreement(signature, Remembered[j].signature)
               IN  mine > other \/ (mine = other /\ i < j)
    <3>1. /\ j \in Retrieved(signature) /\ j \in DOMAIN window /\ j # i
          /\ Remembered[j].signature = window[j].signature
      BY <1>1, <1>2 DEF Retrieved
    <3>2. i \in Nat /\ j \in Nat
      BY <2>1, <3>1 DEF IndexInv
    <3>3. \/ Score(signature, j) < Score(signature, i)
          \/ Score(signature, j) = Score(signature, i) /\ i <= j
      BY <1>4, <3>1 DEF Bests
    <3>4. /\ Score(signature, i) = Agreement(signature, Remembered[i].signature)
          /\ Score(signature, j) = Agreement(signature, Remembered[j].signature)
      BY <2>1, <3>1 DEF Score
    <3> QED
      BY <3>1, <3>2, <3>3, <3>4, ScoresAreCounts
  <2>3. Promise!IsOriginal(signature, i)
    BY <2>2 DEF Promise!IsOriginal
  <2> QED
    BY <1>3, <1>4, <2>3 DEF Promise!Originals
<1> QED
  BY <1>2, <1>4, BestExists DEF Bests, Retrieved

-----------------------------------------------------------------------------
(* The refinement.                                                         *)

Memory == [post : Nat, signature : Signatures]

\* What is remembered is a list as long as the window.
LEMMA RememberedIsList ==
    ASSUME IndexInv
    PROVE  /\ Remembered \in Seq(Memory) /\ Len(Remembered) = Len(window)
           /\ \A i \in 1..Len(window) :
                 Remembered[i] = [post |-> window[i].post, signature |-> window[i].signature]
<1>1. Len(window) \in Nat /\ DOMAIN window = 1..Len(window)
  BY DEF IndexInv
<1>2. \A i \in 1..Len(window) : window[i] \in Entry
  BY DEF IndexInv
<1>3. \A i \in 1..Len(window) :
          [post |-> window[i].post, signature |-> window[i].signature] \in Memory
  BY <1>2 DEF Entry, Memory
<1>4. Remembered \in [1..Len(window) -> Memory]
  BY <1>1, <1>3 DEF Remembered
<1> QED
  BY <1>1, <1>4 DEF Remembered

LEMMA TailAsFunction ==
    ASSUME NEW S, NEW list \in Seq(S), NEW n \in Nat, Len(list) = n + 1
    PROVE  Tail(list) = [i \in 1..n |-> list[i + 1]]
<1>1. /\ Tail(list) \in Seq(S) /\ Len(Tail(list)) = n
      /\ \A i \in 1..n : Tail(list)[i] = list[i + 1]
  OBVIOUS
<1> DEFINE rest == Tail(list)
<1> HIDE DEF rest
<1>2. rest \in Seq(S) /\ Len(rest) = n
  BY <1>1 DEF rest
<1>3. rest = [i \in 1..n |-> rest[i]]
  BY <1>2
<1> QED
  BY <1>1, <1>3 DEF rest

\* Eviction before the push leaves what forgetting after it does.
LEMMA WindowIsRecent ==
    ASSUME IndexInv, NEW post \in Nat, NEW signature \in Signatures,
           Remember(post, signature)
    PROVE  Remembered' = Promise!Recent(
               Append(Remembered, [post |-> post, signature |-> signature]))
<1> DEFINE new == [post |-> post, signature |-> signature, seq |-> nextSeq]
           note == [post |-> post, signature |-> signature]
           n == Len(window)
           noted == Append(Remembered, note)
           at(list, i) == [post |-> list[i].post, signature |-> list[i].signature]
<1>1. window' = Append(Survivors, new)
  BY DEF Remember
<1>2. /\ new \in Entry /\ note \in Memory /\ n \in Nat /\ n <= Capacity
      /\ window \in Seq(Entry) /\ Capacity \in Nat \ {0}
  BY FilterAssumption DEF Entry, Memory, IndexInv
<1>3. /\ new.post = post /\ new.signature = signature
  OBVIOUS
<1>4. Remembered' = [i \in DOMAIN window' |-> at(window', i)]
  BY DEF Remembered
<1> HIDE DEF new, note
<1>5. /\ noted \in Seq(Memory) /\ Len(noted) = n + 1 /\ noted[n + 1] = note
      /\ \A i \in 1..n : noted[i] = at(window, i)
  BY <1>2, RememberedIsList
<1>6. CASE ~Full
  <2>1. Survivors = window /\ n < Capacity
    BY <1>2, <1>6 DEF Full, Survivors
  <2>2. /\ DOMAIN window' = 1..(n + 1) /\ window'[n + 1] = new
        /\ \A i \in 1..n : window'[i] = window[i]
    BY <1>1, <1>2, <2>1
  <2>3. Promise!Recent(noted) = noted
    BY <1>2, <1>5, <2>1 DEF Promise!Recent
  <2>4. \A i \in 1..(n + 1) : at(window', i) = noted[i]
    <3>1. at(window', n + 1) = note
      BY <1>3, <2>2 DEF note
    <3>2. \A i \in 1..n : at(window', i) = noted[i]
      BY <1>5, <2>2
    <3>3. \A i \in 1..(n + 1) : i = n + 1 \/ i \in 1..n
      BY <1>2
    <3> HIDE DEF noted, at
    <3> QED
      BY <1>5, <3>1, <3>2, <3>3
  <2> HIDE DEF noted, at
  <2>5. noted = [i \in 1..(n + 1) |-> noted[i]]
    BY <1>2, <1>5
  <2>6. Remembered' = noted
    BY <1>4, <2>2, <2>4, <2>5
  <2> QED
    BY <2>3, <2>6 DEF noted, note
<1>7. CASE Full
  <2>1. Survivors = Tail(window) /\ n = Capacity
    BY <1>2, <1>7 DEF Full, Survivors
  <2>2. /\ DOMAIN window' = 1..n /\ window'[n] = new
        /\ \A i \in 1..(n - 1) : window'[i] = window[i + 1]
    BY <1>1, <1>2, <2>1
  <2>3. Promise!Recent(noted) = Tail(noted)
    BY <1>2, <1>5, <2>1 DEF Promise!Recent
  <2>4. \A i \in 1..n : at(window', i) = noted[i + 1]
    <3>1. at(window', n) = note
      BY <1>3, <2>2 DEF note
    <3>2. \A i \in 1..(n - 1) : at(window', i) = noted[i + 1]
      BY <1>2, <1>5, <2>2
    <3>3. \A i \in 1..n : i = n \/ i \in 1..(n - 1)
      BY <1>2
    <3> HIDE DEF noted, at
    <3> QED
      BY <1>5, <3>1, <3>2, <3>3
  <2> HIDE DEF noted, at
  <2>5. Tail(noted) = [i \in 1..n |-> noted[i + 1]]
    BY <1>2, <1>5, TailAsFunction
  <2>6. Remembered' = Tail(noted)
    BY <1>4, <2>2, <2>4, <2>5
  <2> QED
    BY <2>3, <2>6 DEF noted, note
<1> QED
  BY <1>6, <1>7 DEF note

\* apply_mut gives the answer that a scan gives.
LEMMA ApplyMutJudges ==
    ASSUME IndexInv, NEW suspect \in Suspicions, NEW signature \in Signatures,
           ApplyMut(signature, suspect)
    PROVE  Promise!Judge(latest.post + 1, signature, suspect)
<1> DEFINE post == latest.post + 1
<1>1. /\ latest' = Answer(post, signature, suspect)
      /\ Remember(post, signature) /\ post \in Nat
  BY DEF ApplyMut, IndexInv
<1>2. Remembered' = Promise!Recent(
          Append(Remembered, [post |-> post, signature |-> signature]))
  BY <1>1, WindowIsRecent
<1>3. CASE suspect # "accepted"
  <2>1. latest' = [post |-> post, verdict |-> suspect, original |-> None]
    BY <1>1, <1>3 DEF Answer
  <2> QED
    BY <1>2, <1>3, <2>1 DEF Promise!Judge
<1>4. CASE suspect = "accepted" /\ Bests(signature) = {}
  <2>1. latest' = [post |-> post, verdict |-> "accepted", original |-> None]
    BY <1>1, <1>4 DEF Answer
  <2>2. Promise!Alike(signature) = {}
    BY <1>4, BestsAreOriginals
  <2> QED
    BY <1>2, <1>4, <2>1, <2>2 DEF Promise!Judge
<1>5. CASE suspect = "accepted" /\ Bests(signature) # {}
  <2>1. PICK i \in Bests(signature) :
            latest' = [post |-> post, verdict |-> "duplicate", original |-> window[i].post]
    BY <1>1, <1>5 DEF Answer
  <2>2. i \in Promise!Originals(signature) /\ i \in DOMAIN window
    BY <2>1, BestsAreOriginals
  <2>3. Remembered[i].post = window[i].post
    BY <2>2 DEF Remembered
  <2> QED
    BY <1>2, <1>5, <2>1, <2>2, <2>3 DEF Promise!Judge
<1> QED
  BY <1>3, <1>4, <1>5

LEMMA StepImplementsWindow ==
    ASSUME IndexInv, [Next]_vars
    PROVE  [Promise!WindowNext]_<<Remembered, latest>>
<1>1. CASE NewPoll
  <2>1. Promise!Restart
    BY <1>1 DEF NewPoll, Promise!Restart, Remembered, NoAnswer
  <2> QED
    BY <2>1 DEF Promise!WindowNext
<1>2. ASSUME NEW suspect \in Suspicions, ApplyMutBlank(suspect)
      PROVE  Promise!WindowNext
  <2>1. Promise!JudgeBlank(latest.post + 1, suspect)
    BY <1>2 DEF ApplyMutBlank, Promise!JudgeBlank, Remembered
  <2> QED
    BY <2>1 DEF Promise!WindowNext, Suspicions
<1>3. ASSUME NEW suspect \in Suspicions, NEW signature \in Signatures,
             ApplyMut(signature, suspect)
      PROVE  Promise!WindowNext
  BY <1>3, ApplyMutJudges DEF Promise!WindowNext, Suspicions
<1>4. CASE UNCHANGED vars
  BY <1>4 DEF vars, Remembered
<1> QED
  BY <1>1, <1>2, <1>3, <1>4 DEF Next

\* The index is invisible: for any banding, threshold and capacity every answer
\* of the filter is the one that a scan of the last Capacity posts gives.
THEOREM FilterImplementsWindow == Spec => ImplementsWindow
<1>1. Init => Promise!Start
  BY DEF Init, Promise!Start, Remembered, NoAnswer
<1>2. IndexInv /\ [Next]_vars => [Promise!WindowNext]_<<Remembered, latest>>
  BY StepImplementsWindow
<1> QED
  BY <1>1, <1>2, IndexStart, IndexNext, PTL DEF Spec, ImplementsWindow, Promise!WindowSpec

-----------------------------------------------------------------------------
(* Types and answers.                                                      *)

\* A remembered post came before the next one, and an accepted one has an
\* arrival number that was given.
AnswersInv ==
    /\ latest \in [post : Nat, verdict : Suspicions \union {"duplicate", "none"},
                   original : Nat \union {None}]
    /\ latest.verdict = "duplicate" => latest.original \in 1..(latest.post - 1)
    /\ \A i \in DOMAIN window : window[i].post \in 1..latest.post
    /\ accepted \subseteq 0..(nextSeq - 1)

\* What is in the window after the next post: what survives, and that post.
LEMMA WindowAfter ==
    ASSUME IndexInv, NEW post \in Nat, NEW signature \in Signatures,
           Remember(post, signature)
    PROVE  /\ Len(Survivors) \in Nat /\ DOMAIN window' = 1..(Len(Survivors) + 1)
           /\ window'[Len(Survivors) + 1] =
                 [post |-> post, signature |-> signature, seq |-> nextSeq]
           /\ \A i \in 1..Len(Survivors) : window'[i] = Survivors[i]
           /\ \E shift \in {0, 1} : \A i \in 1..Len(Survivors) :
                 i + shift \in DOMAIN window /\ Survivors[i] = window[i + shift]
<1> DEFINE new == [post |-> post, signature |-> signature, seq |-> nextSeq]
<1>1. window' = Append(Survivors, new) /\ new \in Entry
  BY DEF Remember, IndexInv, Entry
<1>2. Survivors \in Seq(Entry)
  BY SurvivorSlots
<1> HIDE DEF new
<1>3. /\ Len(Survivors) \in Nat /\ DOMAIN window' = 1..(Len(Survivors) + 1)
      /\ window'[Len(Survivors) + 1] = new
      /\ \A i \in 1..Len(Survivors) : window'[i] = Survivors[i]
  BY <1>1, <1>2
<1>4. \E shift \in {0, 1} : \A i \in 1..Len(Survivors) :
          i + shift \in DOMAIN window /\ Survivors[i] = window[i + shift]
  <2>1. CASE Full
    <3>1. /\ Survivors = Tail(window) /\ window # <<>> /\ window \in Seq(Entry)
      BY <2>1, FilterAssumption DEF Full, Survivors, IndexInv
    <3>2. \A i \in 1..Len(Survivors) :
              i + 1 \in DOMAIN window /\ Survivors[i] = window[i + 1]
      BY <3>1
    <3> QED
      BY <3>2
  <2>2. CASE ~Full
    <3>1. Survivors = window /\ window \in Seq(Entry)
      BY <2>2 DEF Survivors, IndexInv
    <3>2. \A i \in 1..Len(Survivors) :
              i + 0 \in DOMAIN window /\ Survivors[i] = window[i + 0]
      BY <3>1
    <3> QED
      BY <3>2
  <2> QED
    BY <2>1, <2>2
<1> QED
  BY <1>3, <1>4 DEF new

LEMMA AnswersStart ==
    /\ Init => AnswersInv
    /\ NewPoll => AnswersInv'
<1>1. NoAnswer \in [post : Nat, verdict : Suspicions \union {"duplicate", "none"},
                    original : Nat \union {None}]
      /\ NoAnswer.verdict # "duplicate"
  BY DEF NoAnswer
<1> QED
  BY <1>1 DEF Init, NewPoll, AnswersInv

LEMMA ApplyMutAnswers ==
    ASSUME IndexInv, AnswersInv, NEW suspect \in Suspicions, NEW signature \in Signatures,
           ApplyMut(signature, suspect)
    PROVE  AnswersInv'
<1> DEFINE post == latest.post + 1
           n == Len(Survivors)
<1>1. /\ latest' = Answer(post, signature, suspect) /\ Remember(post, signature)
      /\ accepted' \subseteq accepted \union {nextSeq}
      /\ post \in Nat /\ nextSeq' = nextSeq + 1 /\ nextSeq \in Nat
  BY DEF ApplyMut, IndexInv, Remember
<1>2. /\ latest' \in [post : Nat, verdict : Suspicions \union {"duplicate", "none"},
                      original : Nat \union {None}]
      /\ latest'.verdict = "duplicate" => latest'.original \in 1..(latest'.post - 1)
      /\ latest'.post = post
  <2>1. CASE suspect = "accepted" /\ Bests(signature) # {}
    <3>1. PICK i \in Bests(signature) :
              latest' = [post |-> post, verdict |-> "duplicate", original |-> window[i].post]
      BY <1>1, <2>1 DEF Answer
    <3>2. window[i].post \in 1..(post - 1)
      BY <3>1, BestsAreOriginals DEF AnswersInv
    <3> QED
      BY <1>1, <3>1, <3>2
  <2>2. CASE ~(suspect = "accepted" /\ Bests(signature) # {})
    <3>1. latest' = [post |-> post, verdict |-> suspect, original |-> None]
      BY <1>1, <2>2 DEF Answer
    <3> QED
      BY <1>1, <3>1 DEF Suspicions
  <2> QED
    BY <2>1, <2>2
<1>3. ASSUME NEW i \in DOMAIN window'
      PROVE  window'[i].post \in 1..latest'.post
  <2>1. CASE i = n + 1
    <3>0. window'[n + 1] = [post |-> post, signature |-> signature, seq |-> nextSeq]
      BY <1>1, WindowAfter
    <3>1. window'[i].post = post
      BY <2>1, <3>0
    <3> QED
      BY <1>1, <1>2, <3>1 DEF IndexInv
  <2>2. CASE i \in 1..n
    <3>1. PICK j \in DOMAIN window : window'[i] = window[j]
      BY <1>1, <2>2, WindowAfter
    <3>2. window[j].post \in 1..latest.post /\ latest.post \in Nat
      BY DEF AnswersInv, IndexInv
    <3>3. window[j].post \in 1..(latest.post + 1)
      BY <3>2
    <3> QED
      BY <1>2, <3>1, <3>3
  <2>3. n \in Nat /\ i \in 1..(n + 1)
    BY <1>1, WindowAfter
  <2> QED
    BY <2>1, <2>2, <2>3
<1>4. accepted' \subseteq 0..(nextSeq' - 1)
  BY <1>1 DEF AnswersInv
<1> QED
  BY <1>2, <1>3, <1>4 DEF AnswersInv

LEMMA AnswersNext == IndexInv /\ AnswersInv /\ [Next]_vars => AnswersInv'
<1> SUFFICES ASSUME IndexInv, AnswersInv, [Next]_vars PROVE AnswersInv'
  OBVIOUS
<1>1. CASE NewPoll
  BY <1>1, AnswersStart
<1>2. ASSUME NEW suspect \in Suspicions, ApplyMutBlank(suspect)
      PROVE  AnswersInv'
  <2>1. /\ latest' = [post |-> latest.post + 1, verdict |-> suspect, original |-> None]
        /\ latest.post \in Nat
        /\ window' = window /\ accepted' = accepted /\ nextSeq' = nextSeq
    BY <1>2 DEF ApplyMutBlank, IndexInv
  <2>2. /\ latest' \in [post : Nat, verdict : Suspicions \union {"duplicate", "none"},
                        original : Nat \union {None}]
        /\ latest'.verdict # "duplicate" /\ latest'.post = latest.post + 1
    BY <2>1 DEF Suspicions
  <2>3. \A i \in DOMAIN window' : window'[i].post \in 1..latest'.post
    BY <2>1, <2>2 DEF AnswersInv
  <2> QED
    BY <2>1, <2>2, <2>3 DEF AnswersInv
<1>3. ASSUME NEW suspect \in Suspicions, NEW signature \in Signatures,
             ApplyMut(signature, suspect)
      PROVE  AnswersInv'
  BY <1>3, ApplyMutAnswers
<1>4. CASE UNCHANGED vars
  BY <1>4 DEF vars, AnswersInv
<1> QED
  BY <1>1, <1>2, <1>3, <1>4 DEF Next

LEMMA FilterInvAlways == Spec => [](IndexInv /\ AnswersInv)
<1>1. Init => IndexInv /\ AnswersInv
  BY IndexStart, AnswersStart
<1>2. IndexInv /\ AnswersInv /\ [Next]_vars => (IndexInv /\ AnswersInv)'
  BY IndexNext, AnswersNext
<1> QED
  BY <1>1, <1>2, PTL DEF Spec

\* The window never holds more than its capacity, and a duplicate names an
\* earlier post of its batch.
THEOREM FilterTypesAreKept == Spec => []FilterTypeOK
<1>1. ASSUME IndexInv, AnswersInv
      PROVE  FilterTypeOK
  <2>1. index \in [Keys -> SUBSET Nat]
    <3>0. \A i \in DOMAIN window : window[i] \in Entry
      BY <1>1 DEF IndexInv
    <3>1. \A i \in DOMAIN window : window[i].seq \in Nat
      BY <3>0 DEF Entry
    <3>2. \A k \in Keys : index[k] \in SUBSET Nat
      BY <1>1, <3>1 DEF IndexInv, BucketsMatch
    <3> QED
      BY <1>1, <3>2 DEF IndexInv
  <2> QED
    BY <1>1, <2>1 DEF FilterTypeOK, IndexInv, AnswersInv, Entry
<1> QED
  BY <1>1, FilterInvAlways, PTL

-----------------------------------------------------------------------------
(* What the banding cannot miss.                                           *)

Differing(left, right) == {p \in Cells : left[p[1]][p[2]] # right[p[1]][p[2]]}

LEMMA CellsAgreeOrDiffer ==
    ASSUME NEW left, NEW right
    PROVE  /\ IsFiniteSet(Differing(left, right))
           /\ Cardinality(Differing(left, right)) = Hashes - Agreement(left, right)
<1> DEFINE A == Agreeing(left, right)
           D == Differing(left, right)
<1>1. D = Cells \ A /\ Cells \intersect A = A
  BY DEF Agreeing, Differing
<1> HIDE DEF A, D
<1>2. IsFiniteSet(D)
  BY <1>1, CellsAreFinite, FS_Subset
<1>3. Cardinality(Cells \ A) = Cardinality(Cells) - Cardinality(Cells \intersect A)
  BY CellsAreFinite, FS_Difference
<1>4. Cardinality(D) = Hashes - Cardinality(A)
  BY <1>1, <1>3, CellsAreFinite
<1> QED
  BY <1>2, <1>4, AgreementIsCount DEF A, D

\* Signatures that share no bucket differ in every band, hence in as many hashes
\* as there are bands.
LEMMA MissedDiffer ==
    ASSUME NEW left \in Signatures, NEW right \in Signatures, ~Comparable(left, right)
    PROVE  Hashes - Agreement(left, right) >= Bands
<1> DEFINE D == Differing(left, right)
           cell(b) == CHOOSE r \in 1..Rows : left[b][r] # right[b][r]
           f == [b \in 1..Bands |-> <<b, cell(b)>>]
<1>1. /\ left \in [1..Bands -> [1..Rows -> Values]]
      /\ right \in [1..Bands -> [1..Rows -> Values]]
  BY FilterAssumption
<1>2. ASSUME NEW b \in 1..Bands
      PROVE  <<b, cell(b)>> \in D
  <2>1. left[b] # right[b]
    BY DEF Comparable, KeysOf
  <2>2. left[b] \in [1..Rows -> Values] /\ right[b] \in [1..Rows -> Values]
    BY <1>1
  <2>3. \E r \in 1..Rows : left[b][r] # right[b][r]
    <3>1. /\ left[b] = [r \in 1..Rows |-> left[b][r]]
          /\ right[b] = [r \in 1..Rows |-> right[b][r]]
      BY <2>2
    <3> QED
      BY <2>1, <3>1
  <2>4. cell(b) \in 1..Rows /\ left[b][cell(b)] # right[b][cell(b)]
    BY <2>3
  <2> HIDE DEF cell
  <2> QED
    BY <2>4 DEF Differing, Cells
<1> HIDE DEF cell, D
<1>3. f \in [1..Bands -> D]
  BY <1>2
<1>4. \A a, b \in 1..Bands : f[a] = f[b] => a = b
  OBVIOUS
<1> HIDE DEF f
<1>5. f \in Injection(1..Bands, D)
  BY <1>3, <1>4 DEF Injection, IsInjective
<1>6. Cardinality(1..Bands) <= Cardinality(D)
  BY <1>5, CellsAgreeOrDiffer, FS_Injection DEF D
<1> QED
  BY <1>6, CellsAreFinite, CellsAgreeOrDiffer DEF D

Distinct(left, right) ==
    \/ Agreement(left, right) < Threshold
    \/ Hashes - Agreement(left, right) >= Bands

\* A post is accepted only if it is distinct from every post of the window.
LEMMA AcceptedIsDistinct ==
    ASSUME IndexInv, NEW post, NEW suspect, NEW signature \in Signatures,
           Answer(post, signature, suspect).verdict = "accepted",
           NEW l \in DOMAIN window
    PROVE  Distinct(window[l].signature, signature)
<1>1. Bests(signature) = {}
  <2>1. CASE suspect = "accepted"
    BY <2>1 DEF Answer
  <2>2. CASE suspect # "accepted"
    BY <2>2 DEF Answer
  <2> QED
    BY <2>1, <2>2
<1>2. Promise!Alike(signature) = {}
  BY <1>1, BestsAreOriginals
<1>3. \/ ~Comparable(signature, window[l].signature)
      \/ ~(Agreement(signature, window[l].signature) >= Threshold)
  BY <1>2 DEF Promise!Alike, Remembered
<1>4. window[l].signature \in Signatures
  <2>1. window[l] \in Entry
    BY DEF IndexInv
  <2> QED
    BY <2>1 DEF Entry
<1>5. Agreement(signature, window[l].signature) = Agreement(window[l].signature, signature)
  BY AgreementIsSymmetric
<1>6. CASE ~Comparable(signature, window[l].signature)
  BY <1>4, <1>5, <1>6, MissedDiffer DEF Distinct
<1>7. CASE ~(Agreement(signature, window[l].signature) >= Threshold)
  <2>1. Threshold \in Int
    BY FilterAssumption DEF Hashes
  <2> QED
    BY <1>5, <1>7, <2>1, AgreementIsCount DEF Distinct
<1> QED
  BY <1>3, <1>6, <1>7

LEMMA ApplyMutDistinct ==
    ASSUME IndexInv, AnswersInv, AcceptedAreDistinct,
           NEW suspect \in Suspicions, NEW signature \in Signatures,
           ApplyMut(signature, suspect),
           NEW i \in DOMAIN window', NEW j \in DOMAIN window', i < j,
           window'[j].seq \in accepted'
    PROVE  Distinct(window'[i].signature, window'[j].signature)
<1> DEFINE post == latest.post + 1
           n == Len(Survivors)
           answer == Answer(post, signature, suspect)
<1>1. /\ Remember(post, signature) /\ post \in Nat /\ nextSeq \in Nat
      /\ accepted' = IF answer.verdict = "accepted"
                     THEN accepted \union {nextSeq} ELSE accepted
      /\ accepted \subseteq 0..(nextSeq - 1)
  BY DEF ApplyMut, IndexInv, AnswersInv
<1> HIDE DEF answer
<1>2. /\ n \in Nat /\ DOMAIN window' = 1..(n + 1)
      /\ window'[n + 1] = [post |-> post, signature |-> signature, seq |-> nextSeq]
      /\ \A k \in 1..n : window'[k] = Survivors[k]
  BY <1>1, WindowAfter
<1>3. PICK shift \in {0, 1} : \A k \in 1..n :
          k + shift \in DOMAIN window /\ Survivors[k] = window[k + shift]
  BY <1>1, WindowAfter
<1>4. i \in 1..n /\ i + shift \in DOMAIN window /\ window'[i] = window[i + shift]
  BY <1>2, <1>3
<1>5. CASE j = n + 1
  <2>1. window'[j].seq = nextSeq /\ window'[j].signature = signature
    BY <1>2, <1>5
  <2>2. answer.verdict = "accepted"
    BY <1>1, <2>1
  <2> QED
    BY <1>4, <2>1, <2>2, AcceptedIsDistinct DEF answer
<1>6. CASE j \in 1..n
  <2>1. j + shift \in DOMAIN window /\ window'[j] = window[j + shift]
    BY <1>2, <1>3, <1>6
  <2>2. window[j + shift].seq \in 0..(nextSeq - 1)
    <3>1. /\ frontSeq + Len(window) = nextSeq /\ DOMAIN window = 1..Len(window)
          /\ window[j + shift].seq = frontSeq + (j + shift) - 1
          /\ frontSeq \in Nat /\ Len(window) \in Nat
      BY <2>1 DEF IndexInv, SlotsMatch
    <3> QED
      BY <1>1, <2>1, <3>1
  <2>3. window[j + shift].seq \in accepted
    BY <1>1, <2>1, <2>2
  <2>4. i + shift < j + shift
    BY <1>3, <1>4, <1>6
  <2> QED
    BY <1>4, <2>1, <2>3, <2>4 DEF AcceptedAreDistinct, Distinct, Hashes
<1> QED
  BY <1>2, <1>5, <1>6

LEMMA DistinctNext ==
    IndexInv /\ AnswersInv /\ AcceptedAreDistinct /\ [Next]_vars => AcceptedAreDistinct'
<1> SUFFICES ASSUME IndexInv, AnswersInv, AcceptedAreDistinct, [Next]_vars
             PROVE  AcceptedAreDistinct'
  OBVIOUS
<1>1. CASE NewPoll
  BY <1>1 DEF NewPoll, AcceptedAreDistinct
<1>2. ASSUME NEW suspect \in Suspicions, ApplyMutBlank(suspect)
      PROVE  AcceptedAreDistinct'
  BY <1>2 DEF ApplyMutBlank, AcceptedAreDistinct
<1>3. ASSUME NEW suspect \in Suspicions, NEW signature \in Signatures,
             ApplyMut(signature, suspect)
      PROVE  AcceptedAreDistinct'
  BY <1>3, ApplyMutDistinct DEF AcceptedAreDistinct, Distinct, Hashes
<1>4. CASE UNCHANGED vars
  BY <1>4 DEF vars, AcceptedAreDistinct
<1> QED
  BY <1>1, <1>2, <1>3, <1>4 DEF Next

\* For any banding: two near-duplicates of which the later was accepted are never
\* in the window together, unless they differ in as many hashes as there are
\* bands, which is the least that the banding can miss.
THEOREM AcceptedPostsAreDistinct == Spec => []AcceptedAreDistinct
<1>1. Init => AcceptedAreDistinct
  BY DEF Init, AcceptedAreDistinct
<1> QED
  BY <1>1, FilterInvAlways, DistinctNext, PTL DEF Spec
=============================================================================
