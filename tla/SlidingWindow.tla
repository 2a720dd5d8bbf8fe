--------------------------- MODULE SlidingWindow ---------------------------
(***************************************************************************)
(* What the duplicate filter promises: each post is compared with the last *)
(* Capacity posts, accepted or not, and is a duplicate of the one most     *)
(* like it, the earliest among equals.  There is no index here: the whole  *)
(* list is scanned.                                                        *)
(***************************************************************************)
EXTENDS Integers, Sequences

CONSTANTS
    Signatures,         \* the signatures of the posts
    Comparable(_, _),   \* signatures that the filter compares at all
    Agreement(_, _),    \* how alike two signatures are
    Threshold,          \* the agreement at which a post is a duplicate
    Capacity,           \* how many posts are remembered
    None                \* no original, no signature

VARIABLES
    seen,       \* the remembered posts, oldest first: [post, signature]
    latest      \* the last answer: [post, verdict, original]

Alike(signature) ==
    {i \in DOMAIN seen : /\ Comparable(signature, seen[i].signature)
                         /\ Agreement(signature, seen[i].signature) >= Threshold}

IsOriginal(signature, i) ==
    \A j \in Alike(signature) \ {i} :
        LET mine == Agreement(signature, seen[i].signature)
            other == Agreement(signature, seen[j].signature)
        IN mine > other \/ (mine = other /\ i < j)

Recent(list) ==
    IF Len(list) > Capacity THEN Tail(list) ELSE list

Originals(signature) == {i \in Alike(signature) : IsOriginal(signature, i)}

\* A post rejected on its fields keeps that verdict, and is remembered too.
Judge(post, signature, suspect) ==
    /\ \/ /\ suspect # "accepted"
          /\ latest' = [post |-> post, verdict |-> suspect, original |-> None]
       \/ /\ suspect = "accepted" /\ Alike(signature) = {}
          /\ latest' = [post |-> post, verdict |-> "accepted", original |-> None]
       \/ /\ suspect = "accepted"
          /\ \E i \in Originals(signature) :
                latest' = [post |-> post, verdict |-> "duplicate",
                           original |-> seen[i].post]
    /\ seen' = Recent(Append(seen, [post |-> post, signature |-> signature]))

\* Text without a signature is compared with nothing and not remembered.
JudgeBlank(post, suspect) ==
    /\ latest' = [post |-> post, verdict |-> suspect, original |-> None]
    /\ UNCHANGED seen

\* A poll starts with nothing remembered.
Start ==
    /\ seen = <<>>
    /\ latest = [post |-> 0, verdict |-> "none", original |-> None]

Restart == seen' = <<>> /\ latest' = [post |-> 0, verdict |-> "none", original |-> None]

WindowNext ==
    \/ Restart
    \/ \E suspect \in {"accepted", "rejected"} :
          \/ JudgeBlank(latest.post + 1, suspect)
          \/ \E signature \in Signatures :
                Judge(latest.post + 1, signature, suspect)

WindowSpec == Start /\ [][WindowNext]_<<seen, latest>>
=============================================================================
