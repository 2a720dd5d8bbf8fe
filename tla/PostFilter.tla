----------------------------- MODULE PostFilter -----------------------------
(***************************************************************************)
(* The ingest's post filter and its streaming near-duplicate detector:     *)
(* PostFilter.apply_mut around DuplicateDetector.check.  The detector      *)
(* keeps a bounded FIFO of signatures and an inverted index from band      *)
(* buckets to arrival numbers, so that a post is compared only with those  *)
(* sharing a bucket.  A poll of a market makes a filter of its own         *)
(* (main.rs) and feeds it the fetched posts one after the other.           *)
(*                                                                         *)
(* A signature is a band of rows for each band; a bucket key is the band   *)
(* number with its rows (the FNV hash is taken to be injective: a          *)
(* collision would only add a candidate, which the threshold then rejects).*)
(* Posts are named by their place in the batch.                            *)
(***************************************************************************)
EXTENDS Integers, Sequences, FiniteSets

CONSTANTS
    Bands, Rows,    \* num_bands, and rows_per_band
    Signatures,     \* the signatures that posts have
    Values,         \* the values of their hashes
    Threshold,      \* the duplicate threshold, in agreeing hashes
    Capacity,       \* window_capacity
    MaxPosts,       \* bound: posts fetched by one poll
    None

ASSUME FilterAssumption ==
    /\ Bands \in Nat \ {0} /\ Rows \in Nat \ {0}
    /\ Signatures \subseteq [1..Bands -> [1..Rows -> Values]]
    /\ Threshold \in 0..(Bands * Rows)
    /\ Capacity \in Nat \ {0} /\ MaxPosts \in Nat

VARIABLES
    window,     \* Seq of [post, signature, seq], oldest first
    index,      \* [Buckets -> SUBSET Nat] arrival numbers; {} is no entry
    frontSeq,   \* arrival number of the oldest entry
    nextSeq,    \* arrival number of the next one
    latest,     \* the last answer of apply_mut
    accepted    \* history: the arrival numbers of accepted posts

vars == <<window, index, frontSeq, nextSeq, latest, accepted>>

Keys == (1..Bands) \X [1..Rows -> Values]

KeysOf(signature) == {<<b, signature[b]>> : b \in 1..Bands}

\* similarity(): the number of hashes that agree, over all of them.
Agreement(left, right) ==
    Cardinality({p \in (1..Bands) \X (1..Rows) :
                    left[p[1]][p[2]] = right[p[1]][p[2]]})

NoAnswer == [post |-> 0, verdict |-> "none", original |-> None]

\* PostFilter::new
Init ==
    /\ window = <<>>
    /\ index = [k \in Keys |-> {}]
    /\ frontSeq = 0 /\ nextSeq = 0
    /\ latest = NoAnswer
    /\ accepted = {}

-----------------------------------------------------------------------------
(* DuplicateDetector.check: the verdict comes before anything is forgotten. *)

\* Mutant: only the primary bucket is looked up.
CandidatesPrimary(signature) == index[<<1, signature[1]>>]

Candidates(signature) == UNION {index[k] : k \in KeysOf(signature)}

\* The entries behind the candidates: slot = seq - front_seq, when in range.
Retrieved(signature) ==
    {i \in DOMAIN window :
        \E seq \in Candidates(signature) : i = seq - frontSeq + 1}

Score(signature, i) == Agreement(signature, window[i].signature)

\* Mutant: `>=` in place of `>`, so that the latest among equals wins.
BestsLatest(signature) ==
    {i \in Retrieved(signature) :
        /\ Score(signature, i) >= Threshold
        /\ \A j \in Retrieved(signature) :
              \/ Score(signature, j) < Score(signature, i)
              \/ Score(signature, j) = Score(signature, i) /\ j <= i}

\* The loop over the sorted candidates: a later one must score higher.
Bests(signature) ==
    {i \in Retrieved(signature) :
        /\ Score(signature, i) >= Threshold
        /\ \A j \in Retrieved(signature) :
              \/ Score(signature, j) < Score(signature, i)
              \/ Score(signature, j) = Score(signature, i) /\ i <= j}

\* Mutant: one post too many is remembered.
FullLate == Len(window) > Capacity

Full == Len(window) = Capacity

\* Mutant: eviction leaves the post's arrival number in its buckets.
UnlinkedNot(k) == index[k]

\* evict_front: the evicted post leaves every bucket it occupied.
Unlinked(k) ==
    IF Full /\ k \in KeysOf(Head(window).signature)
    THEN index[k] \ {Head(window).seq}
    ELSE index[k]

Survivors == IF Full THEN Tail(window) ELSE window

FrontAfter ==
    IF ~Full THEN frontSeq
    ELSE IF Len(window) > 1 THEN window[2].seq
    ELSE nextSeq

Remember(post, signature) ==
    /\ window' = Append(Survivors, [post |-> post, signature |-> signature,
                                    seq |-> nextSeq])
    /\ index' = [k \in Keys |->
                    IF k \in KeysOf(signature) THEN Unlinked(k) \union {nextSeq}
                                               ELSE Unlinked(k)]
    /\ frontSeq' = FrontAfter
    /\ nextSeq' = nextSeq + 1

-----------------------------------------------------------------------------
(* PostFilter.apply_mut.  `suspect` is what heuristic_reject says of the    *)
(* post: "rejected" as a bot or as low quality, or no objection.            *)

Suspicions == {"accepted", "rejected"}

Answer(post, signature, suspect) ==
    IF suspect = "accepted" /\ Bests(signature) # {}
    THEN [post |-> post, verdict |-> "duplicate",
          original |-> window[CHOOSE i \in Bests(signature) : TRUE].post]
    ELSE [post |-> post, verdict |-> suspect, original |-> None]

ApplyMut(signature, suspect) ==
    LET post == latest.post + 1
        answer == Answer(post, signature, suspect)
    IN /\ post <= MaxPosts
       /\ latest' = answer
       /\ Remember(post, signature)
       /\ accepted' = IF answer.verdict = "accepted"
                      THEN accepted \union {nextSeq} ELSE accepted

\* Text without a shingle has no signature: the detector is left alone.
ApplyMutBlank(suspect) ==
    LET post == latest.post + 1
    IN /\ post <= MaxPosts
       /\ latest' = [post |-> post, verdict |-> suspect, original |-> None]
       /\ UNCHANGED <<window, index, frontSeq, nextSeq, accepted>>

\* The next poll of the market starts with a new filter.
NewPoll ==
    /\ latest # NoAnswer
    /\ window' = <<>>
    /\ index' = [k \in Keys |-> {}]
    /\ frontSeq' = 0 /\ nextSeq' = 0
    /\ latest' = NoAnswer
    /\ accepted' = {}

Next ==
    \/ NewPoll
    \/ \E suspect \in Suspicions :
          \/ ApplyMutBlank(suspect)
          \/ \E signature \in Signatures : ApplyMut(signature, suspect)

Spec == Init /\ [][Next]_vars

-----------------------------------------------------------------------------
(* Properties.                                                             *)

\* The types; the window never holds more than its capacity, and a duplicate
\* names an earlier post of the batch.
FilterTypeOK ==
    /\ window \in Seq([post : Nat, signature : Signatures, seq : Nat])
    /\ Len(window) <= Capacity
    /\ index \in [Keys -> SUBSET Nat]
    /\ frontSeq \in Nat /\ nextSeq \in Nat
    /\ latest \in [post : Nat, verdict : Suspicions \union {"duplicate", "none"},
                   original : Nat \union {None}]
    /\ latest.verdict = "duplicate" => latest.original \in 1..(latest.post - 1)
    /\ accepted \subseteq 0..(nextSeq - 1)

\* Slots and arrival numbers agree: the window is the last arrivals in order, so
\* that `seq - front_seq` finds the entry that was indexed.
SlotsMatch ==
    /\ frontSeq + Len(window) = nextSeq
    /\ \A i \in DOMAIN window : window[i].seq = frontSeq + i - 1

\* Each bucket holds the arrival numbers of exactly the live posts with its key:
\* the index forgets a post when the window does, and not before (evict_front:
\* "Without the unlink the index would grow without bound").
BucketsMatch ==
    \A k \in Keys :
        index[k] = {window[i].seq : i \in {j \in DOMAIN window :
                                              k \in KeysOf(window[j].signature)}}

\* After any sequence of posts and evictions the window and the inverted index
\* describe the same posts.
IndexMatchesWindow == SlotsMatch /\ BucketsMatch

\* No two posts of the window are near-duplicates with the later one accepted,
\* unless they differ in as many hashes as there are bands: with fewer
\* differences some band is intact, and the banding cannot miss the pair.
AcceptedAreDistinct ==
    \A i, j \in DOMAIN window :
        LET agree == Agreement(window[i].signature, window[j].signature)
        IN i < j /\ window[j].seq \in accepted =>
               agree < Threshold \/ Bands * Rows - agree >= Bands

Remembered ==
    [i \in DOMAIN window |-> [post |-> window[i].post,
                              signature |-> window[i].signature]]

Comparable(left, right) == KeysOf(left) \intersect KeysOf(right) # {}

Promise == INSTANCE SlidingWindow WITH seen <- Remembered

\* The index is invisible: every answer is the one that a scan of the last
\* Capacity posts gives, accepted, duplicate or rejected, in every poll.
ImplementsWindow == Promise!WindowSpec
=============================================================================
