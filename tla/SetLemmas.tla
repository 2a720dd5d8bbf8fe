----------------------------- MODULE SetLemmas -----------------------------
(***************************************************************************)
(* Facts about numbers and finite sets that several components' proofs     *)
(* rest on: least and greatest numbers, induction over finite sets, and    *)
(* the laws of SumFunctionOnSet.  That operator of the community modules   *)
(* takes the elements of a set in an order of its own; the laws say that   *)
(* the order does not matter.                                              *)
(***************************************************************************)
EXTENDS Integers, FiniteSets, FiniteSetsExt, FiniteSetTheorems,
        WellFoundedInduction, TLAPS

-----------------------------------------------------------------------------
(* Least and greatest numbers.                                             *)

\* Every set of numbers that is not empty has a least, and if it has a bound a
\* greatest.
Less == {p \in Nat \X Nat : p[1] < p[2]}

LEMMA LeastExists ==
    ASSUME NEW S \in SUBSET Nat, S # {}
    PROVE  \E m \in S : \A n \in S : m <= n
<1>1. IsWellFoundedOn(Less, Nat)
  BY NatLessThanWellFounded DEF OpToRel, Less
<1>2. PICK m \in S : \A n \in S : ~(<<n, m>> \in Less)
  BY <1>1, WFMin
<1>3. ASSUME NEW n \in S
      PROVE  m <= n
  <2>1. <<n, m>> \in Nat \X Nat /\ <<n, m>>[1] = n /\ <<n, m>>[2] = m
    OBVIOUS
  <2>2. ~(n < m)
    BY <1>2, <2>1 DEF Less
  <2> QED
    BY <2>2
<1> QED
  BY <1>3

LEMMA GreatestExists ==
    ASSUME NEW n \in Nat, NEW S \in SUBSET (0..n), S # {}
    PROVE  \E m \in S : \A k \in S : k <= m
<1> DEFINE T == {n - k : k \in S}
<1>1. T \in SUBSET Nat /\ T # {}
  <2>1. \A k \in S : n - k \in Nat
    OBVIOUS
  <2> QED
    BY <2>1
<1>2. PICK l \in T : \A k \in T : l <= k
  BY <1>1, LeastExists
<1>3. PICK m \in S : l = n - m
  BY <1>2
<1>4. ASSUME NEW k \in S
      PROVE  k <= m
  <2>1. l <= n - k
    BY <1>2
  <2> QED
    BY <1>3, <2>1
<1> QED
  BY <1>4

-----------------------------------------------------------------------------
(* Sums over finite sets.                                                  *)

\* A set of subsets of D that has the empty set, and with each set those with
\* one more element, has them all: induction over finite sets, for a property
\* that is stated as the set of those that have it.
LEMMA SubsetInduction ==
    ASSUME NEW D, IsFiniteSet(D), NEW Having \in SUBSET (SUBSET D),
           {} \in Having,
           \A S \in Having : \A x \in D \ S : S \union {x} \in Having
    PROVE  Having = SUBSET D
<1> DEFINE Lacking == (SUBSET D) \ Having
<1> SUFFICES ASSUME Lacking # {} PROVE FALSE
  OBVIOUS
<1>1. Lacking \subseteq FiniteSubsetsOf(D)
  BY FS_Subset DEF FiniteSubsetsOf
<1>2. PICK S \in Lacking : \A T \in Lacking : <<T, S>> \notin StrictSubsetOrdering(D)
  BY <1>1, FS_StrictSubsetOrderingWellFounded, WFMin
<1>3. PICK x \in S : TRUE
  OBVIOUS
<1>4. <<S \ {x}, S>> \in StrictSubsetOrdering(D)
  BY DEF StrictSubsetOrdering
<1>5. S \ {x} \in Having
  BY <1>2, <1>4
<1>6. (S \ {x}) \union {x} = S
  OBVIOUS
<1> QED
  BY <1>5, <1>6

\* g gives the sums of f over the subsets of D, whichever element is taken first.
Additive(f, D, g) ==
    /\ g[{}] = 0
    /\ \A S \in SUBSET D : \A x \in S : g[S] = f[x] + g[S \ {x}]

LEMMA AdditiveExists ==
    ASSUME NEW D, IsFiniteSet(D), NEW f \in [D -> Int]
    PROVE  \E g \in [SUBSET D -> Int] : Additive(f, D, g)
<1> DEFINE Having == {T \in SUBSET D : \E g \in [SUBSET T -> Int] : Additive(f, T, g)}
<1>1. {} \in Having
  <2> DEFINE g == [S \in SUBSET {} |-> 0]
  <2>1. g \in [SUBSET {} -> Int] /\ Additive(f, {}, g)
    BY DEF Additive
  <2> QED
    BY <2>1
<1>2. ASSUME NEW T \in Having, NEW x \in D \ T
      PROVE  T \union {x} \in Having
  <2>1. PICK g \in [SUBSET T -> Int] : Additive(f, T, g)
    OBVIOUS
  <2> DEFINE U == T \union {x}
             h == [S \in SUBSET U |-> IF x \in S THEN f[x] + g[S \ {x}] ELSE g[S]]
  <2>2. h \in [SUBSET U -> Int]
    <3>1. \A S \in SUBSET U : S \ {x} \in SUBSET T /\ (x \notin S => S \in SUBSET T)
      OBVIOUS
    <3>2. \A S \in SUBSET U : (IF x \in S THEN f[x] + g[S \ {x}] ELSE g[S]) \in Int
      BY <3>1
    <3> QED
      BY <3>2
  <2>3. h[{}] = 0
    BY <2>1 DEF Additive
  <2>4. ASSUME NEW S \in SUBSET U, NEW y \in S
        PROVE  h[S] = f[y] + h[S \ {y}]
    <3>1. S \ {y} \in SUBSET U
      OBVIOUS
    <3>2. CASE y = x
      BY <3>1, <3>2
    <3>3. CASE y # x /\ x \in S
      <4>1. S \ {x} \in SUBSET T /\ y \in S \ {x} /\ (S \ {x}) \ {y} \in SUBSET T
        BY <3>3
      <4>2. g[S \ {x}] = f[y] + g[(S \ {x}) \ {y}]
        BY <2>1, <4>1 DEF Additive
      <4>3. (S \ {x}) \ {y} = (S \ {y}) \ {x}
        OBVIOUS
      <4>4. h[S] = f[x] + (f[y] + g[(S \ {y}) \ {x}])
        BY <3>3, <4>2, <4>3
      <4>5. h[S \ {y}] = f[x] + g[(S \ {y}) \ {x}]
        BY <3>1, <3>3
      <4>6. f[x] \in Int /\ f[y] \in Int /\ g[(S \ {y}) \ {x}] \in Int
        BY <4>1, <4>3
      <4> HIDE DEF h
      <4> QED
        BY <4>4, <4>5, <4>6
    <3>4. CASE x \notin S
      <4>1. S \in SUBSET T /\ S \ {y} \in SUBSET T /\ x \notin S \ {y}
        BY <3>4
      <4>2. g[S] = f[y] + g[S \ {y}]
        BY <2>1, <4>1 DEF Additive
      <4> QED
        BY <3>1, <3>4, <4>2
    <3> QED
      BY <3>2, <3>3, <3>4
  <2> HIDE DEF h
  <2>5. Additive(f, U, h)
    BY <2>3, <2>4 DEF Additive
  <2> QED
    BY <2>2, <2>5
<1> HIDE DEF Having
<1>3. Having = SUBSET D
  <2>1. Having \in SUBSET (SUBSET D)
    BY DEF Having
  <2> QED
    BY <1>1, <1>2, <2>1, SubsetInduction
<1>4. D \in Having
  BY <1>3
<1> QED
  BY <1>4 DEF Having

Any(S) == CHOOSE x \in S : TRUE

\* How the fold computes it.
Unfolds(f, S, g) ==
    g = [T \in SUBSET S |-> IF T = {} THEN 0 ELSE f[Any(T)] + g[T \ {Any(T)}]]

LEMMA SumIsUnfolded ==
    ASSUME NEW f, NEW S
    PROVE  SumFunctionOnSet(f, S) = (CHOOSE g : Unfolds(f, S, g))[S]
BY DEF SumFunctionOnSet, FoldFunctionOnSet, MapThenFoldSet, Unfolds, Any

\* The fold computes the sum.
LEMMA SumIsAdditive ==
    ASSUME NEW D, IsFiniteSet(D), NEW f \in [D -> Int],
           NEW g \in [SUBSET D -> Int], Additive(f, D, g), NEW S \in SUBSET D
    PROVE  SumFunctionOnSet(f, S) = g[S]
<1> DEFINE h == CHOOSE k : Unfolds(f, S, k)
           r == [T \in SUBSET S |-> g[T]]
<1>1. ASSUME NEW T \in SUBSET S, T # {}
      PROVE  Any(T) \in T /\ T \ {Any(T)} \in SUBSET S
  BY <1>1 DEF Any
<1>2. Unfolds(f, S, r)
  <2>1. \A T \in SUBSET S :
            g[T] = IF T = {} THEN 0 ELSE f[Any(T)] + r[T \ {Any(T)}]
    BY <1>1 DEF Additive
  <2> HIDE DEF Additive
  <2> QED
    BY <2>1 DEF Unfolds
<1>3. Unfolds(f, S, h)
  BY <1>2
<1> HIDE DEF h
<1>4. h[{}] = 0 /\ \A T \in SUBSET S : T # {} => h[T] = f[Any(T)] + h[T \ {Any(T)}]
  BY <1>3 DEF Unfolds
<1> DEFINE Wrong == {T \in SUBSET S : h[T] # g[T]}
<1>5. Wrong = {}
  <2> SUFFICES ASSUME Wrong # {} PROVE FALSE
    OBVIOUS
  <2>1. IsFiniteSet(S) /\ Wrong \subseteq FiniteSubsetsOf(S)
    BY FS_Subset DEF FiniteSubsetsOf
  <2> HIDE DEF Wrong
  <2>2. PICK T \in Wrong : \A U \in Wrong : <<U, T>> \notin StrictSubsetOrdering(S)
    BY <2>1, FS_StrictSubsetOrderingWellFounded, WFMin
  <2>3. T \in SUBSET S /\ h[T] # g[T] /\ T # {}
    BY <1>4, <2>2 DEF Additive, Wrong
  <2>4. <<T \ {Any(T)}, T>> \in StrictSubsetOrdering(S)
    BY <1>1, <2>3 DEF StrictSubsetOrdering
  <2>5. h[T \ {Any(T)}] = g[T \ {Any(T)}]
    BY <1>1, <2>2, <2>3, <2>4 DEF Wrong
  <2>6. g[T] = f[Any(T)] + g[T \ {Any(T)}]
    BY <1>1, <2>3 DEF Additive
  <2> QED
    BY <1>4, <2>3, <2>5, <2>6
<1> QED
  BY <1>5, SumIsUnfolded DEF h

\* What a sum is, whichever element is taken first.
LEMMA SumLaws ==
    ASSUME NEW D, IsFiniteSet(D), NEW f \in [D -> Int]
    PROVE  /\ SumFunctionOnSet(f, {}) = 0
           /\ \A S \in SUBSET D :
                 /\ SumFunctionOnSet(f, S) \in Int
                 /\ \A x \in S :
                       SumFunctionOnSet(f, S) = f[x] + SumFunctionOnSet(f, S \ {x})
<1>1. PICK g \in [SUBSET D -> Int] : Additive(f, D, g)
  BY AdditiveExists
<1>2. \A S \in SUBSET D : SumFunctionOnSet(f, S) = g[S]
  BY <1>1, SumIsAdditive
<1>3. \A S \in SUBSET D : \A x \in S : S \ {x} \in SUBSET D
  OBVIOUS
<1> QED
  BY <1>1, <1>2, <1>3 DEF Additive

\* A sum is at most another one that is so term by term; and less, if it has a
\* term and each is less.
LEMMA SumGrows ==
    ASSUME NEW D, IsFiniteSet(D), NEW f \in [D -> Int], NEW g \in [D -> Int],
           \A x \in D : f[x] <= g[x]
    PROVE  /\ SumFunctionOnSet(f, D) <= SumFunctionOnSet(g, D)
           /\ (\A x \in D : f[x] < g[x]) /\ D # {} =>
                 SumFunctionOnSet(f, D) < SumFunctionOnSet(g, D)
<1> DEFINE Having == {S \in SUBSET D : SumFunctionOnSet(f, S) <= SumFunctionOnSet(g, S)}
<1>1. {} \in Having
  BY SumLaws
<1>2. ASSUME NEW S \in Having, NEW x \in D \ S
      PROVE  S \union {x} \in Having
  <2> DEFINE T == S \union {x}
  <2>1. T \in SUBSET D /\ x \in T /\ T \ {x} = S
    OBVIOUS
  <2>2. /\ SumFunctionOnSet(f, T) = f[x] + SumFunctionOnSet(f, S)
        /\ SumFunctionOnSet(g, T) = g[x] + SumFunctionOnSet(g, S)
    BY <2>1, SumLaws
  <2>3. /\ SumFunctionOnSet(f, S) \in Int /\ SumFunctionOnSet(g, S) \in Int
        /\ f[x] \in Int /\ g[x] \in Int /\ f[x] <= g[x]
        /\ SumFunctionOnSet(f, S) <= SumFunctionOnSet(g, S)
    BY SumLaws
  <2> QED
    BY <2>1, <2>2, <2>3
<1>3. Having = SUBSET D
  <2>1. Having \in SUBSET (SUBSET D)
    OBVIOUS
  <2> HIDE DEF Having
  <2> QED
    BY <1>1, <1>2, <2>1, SubsetInduction
<1>4. \A S \in SUBSET D : SumFunctionOnSet(f, S) <= SumFunctionOnSet(g, S)
  BY <1>3
<1>5. ASSUME NEW x \in D, f[x] < g[x]
      PROVE  SumFunctionOnSet(f, D) < SumFunctionOnSet(g, D)
  <2>1. D \in SUBSET D /\ D \ {x} \in SUBSET D
    OBVIOUS
  <2>2. /\ SumFunctionOnSet(f, D) = f[x] + SumFunctionOnSet(f, D \ {x})
        /\ SumFunctionOnSet(g, D) = g[x] + SumFunctionOnSet(g, D \ {x})
    BY <2>1, SumLaws
  <2>3. /\ SumFunctionOnSet(f, D \ {x}) \in Int /\ SumFunctionOnSet(g, D \ {x}) \in Int
        /\ f[x] \in Int /\ g[x] \in Int
    BY <2>1, SumLaws
  <2>4. SumFunctionOnSet(f, D \ {x}) <= SumFunctionOnSet(g, D \ {x})
    BY <1>4, <2>1
  <2> QED
    BY <1>5, <2>2, <2>3, <2>4
<1> QED
  BY <1>4, <1>5

\* The terms alone make the sum.
LEMMA SumsAgree ==
    ASSUME NEW D, IsFiniteSet(D), NEW f \in [D -> Int], NEW E, IsFiniteSet(E),
           NEW g \in [E -> Int], NEW S, S \subseteq D, S \subseteq E,
           \A x \in S : f[x] = g[x]
    PROVE  SumFunctionOnSet(f, S) = SumFunctionOnSet(g, S)
<1> DEFINE Having == {T \in SUBSET S : SumFunctionOnSet(f, T) = SumFunctionOnSet(g, T)}
<1>1. {} \in Having
  BY SumLaws
<1>2. ASSUME NEW T \in Having, NEW x \in S \ T
      PROVE  T \union {x} \in Having
  <2> DEFINE U == T \union {x}
  <2>1. /\ U \in SUBSET S /\ U \in SUBSET D /\ U \in SUBSET E /\ x \in U
        /\ U \ {x} = T
    OBVIOUS
  <2>2. /\ SumFunctionOnSet(f, U) = f[x] + SumFunctionOnSet(f, T)
        /\ SumFunctionOnSet(g, U) = g[x] + SumFunctionOnSet(g, T)
    BY <2>1, SumLaws
  <2> QED
    BY <2>1, <2>2
<1>3. Having = SUBSET S
  <2>1. Having \in SUBSET (SUBSET S) /\ IsFiniteSet(S)
    BY FS_Subset
  <2> HIDE DEF Having
  <2> QED
    BY <1>1, <1>2, <2>1, SubsetInduction
<1> QED
  BY <1>3

\* With one more term, the others as they were, a sum is greater by that term.
LEMMA SumWithOneMore ==
    ASSUME NEW D, IsFiniteSet(D), NEW f \in [D -> Int], NEW g \in [D -> Int],
           NEW S \in SUBSET D, NEW x \in D \ S, \A y \in S : f[y] = g[y]
    PROVE  SumFunctionOnSet(g, S \union {x}) = SumFunctionOnSet(f, S) + g[x]
<1>1. S \union {x} \in SUBSET D /\ (S \union {x}) \ {x} = S
  OBVIOUS
<1>2. SumFunctionOnSet(f, S) = SumFunctionOnSet(g, S)
  BY SumsAgree
<1>3. SumFunctionOnSet(f, S) \in Int /\ g[x] \in Int
  BY SumLaws
<1>4. SumFunctionOnSet(g, S \union {x}) = g[x] + SumFunctionOnSet(g, S)
  BY <1>1, SumLaws
<1> QED
  BY <1>2, <1>3, <1>4
=============================================================================
