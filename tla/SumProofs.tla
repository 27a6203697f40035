------------------------------ MODULE SumProofs ------------------------------
(***************************************************************************)
(* Induction on the natural numbers over a set instead of a predicate, and *)
(* by it what the recursive function of Sums computes.                     *)
(***************************************************************************)
EXTENDS Sums, TLAPS, SequenceTheorems, WellFoundedInduction

\* The order of the natural numbers, as a relation.
Smaller == {p \in Nat \X Nat : p[1] < p[2]}

\* A set of natural numbers that is not empty has a least element.
LEMMA LeastOf ==
  ASSUME NEW T \in SUBSET Nat, T # {}
  PROVE  \E x \in T : \A y \in T : x <= y
<1>1. IsWellFoundedOn(Smaller, Nat)
  BY NatLessThanWellFounded DEF OpToRel, Smaller
<1>2. PICK x \in T : \A y \in T : ~(<<y, x>> \in Smaller)
  BY <1>1, WFMin
<1>3. ASSUME NEW y \in T PROVE x <= y
  <2>1. x \in Nat /\ y \in Nat
    OBVIOUS
  <2>2. ~(<<y, x>> \in Smaller)
    BY <1>2
  <2>3. ~(y < x)
    BY <2>1, <2>2 DEF Smaller
  <2> QED BY <2>1, <2>3
<1> QED BY <1>3

\* A set that holds a number whenever it holds all smaller ones holds every
\* number up to m.
LEMMA UpTo ==
  ASSUME NEW m \in Nat, NEW P,
         \A n \in 0..m : (\A k \in 0..m : k < n => k \in P) => n \in P
  PROVE  \A n \in 0..m : n \in P
<1> DEFINE T == {n \in 0..m : n \notin P}
<1> SUFFICES ASSUME T # {} PROVE FALSE
  OBVIOUS
<1>1. T \in SUBSET Nat
  OBVIOUS
<1>2. PICK x \in T : \A y \in T : x <= y
  <2> HIDE DEF T
  <2> QED BY <1>1, LeastOf
<1>3. x \in 0..m /\ x \notin P
  OBVIOUS
<1>4. ASSUME NEW k \in 0..m, k < x PROVE k \in P
  BY <1>2, <1>3, <1>4
<1> QED BY <1>3, <1>4

\* The same with a base and a step.
LEMMA StepUpTo ==
  ASSUME NEW m \in Nat, NEW P, 0 \in P,
         \A n \in 1..m : n - 1 \in P => n \in P
  PROVE  \A n \in 0..m : n \in P
<1>1. ASSUME NEW n \in 0..m, \A k \in 0..m : k < n => k \in P
      PROVE  n \in P
  <2>1. CASE n = 0
    BY <2>1
  <2>2. CASE n # 0
    <3>1. n \in 1..m /\ n - 1 \in 0..m /\ n - 1 < n
      BY <2>2
    <3> QED BY <1>1, <3>1
  <2> QED BY <2>1, <2>2
<1> QED BY <1>1, UpTo

-----------------------------------------------------------------------------
\* g holds the sums of the first k elements, for k up to n.
PartialSums(g, num, l, n) ==
  g = [k \in 0..n |-> IF k = 0 THEN 0 ELSE g[k - 1] + num[l[k]]]

\* The sums exist: those of n - 1 elements are extended by one.
LEMMA SumsExist ==
  ASSUME NEW S, NEW num \in [S -> Nat], NEW l \in Seq(S)
  PROVE  \E g \in [0..Len(l) -> Nat] : PartialSums(g, num, l, Len(l))
<1> DEFINE P == {n \in 0..Len(l) : \E g \in [0..n -> Nat] : PartialSums(g, num, l, n)}
<1>1. 0 \in P
  <2> DEFINE g == [k \in 0..0 |-> 0]
  <2>1. g \in [0..0 -> Nat] /\ PartialSums(g, num, l, 0)
    BY DEF PartialSums
  <2> QED BY <2>1
<1>2. ASSUME NEW n \in 1..Len(l), n - 1 \in P PROVE n \in P
  <2>1. PICK h \in [0..n - 1 -> Nat] : PartialSums(h, num, l, n - 1)
    BY <1>2
  <2>2. num[l[n]] \in Nat
    OBVIOUS
  <2> DEFINE g == [k \in 0..n |-> IF k = n THEN h[n - 1] + num[l[n]] ELSE h[k]]
  <2>3. g \in [0..n -> Nat]
    BY <2>2
  <2>4. ASSUME NEW k \in 0..n
        PROVE  g[k] = IF k = 0 THEN 0 ELSE g[k - 1] + num[l[k]]
    <3>1. CASE k = n
      BY <3>1
    <3>2. CASE k # n
      <4>1. k \in 0..n - 1
        BY <3>2
      <4>2. h[k] = IF k = 0 THEN 0 ELSE h[k - 1] + num[l[k]]
        BY <2>1, <4>1 DEF PartialSums
      <4>3. k # 0 => k - 1 \in 0..n - 1 /\ k - 1 # n /\ k - 1 \in 0..n
        BY <4>1
      <4> QED BY <3>2, <4>2, <4>3
    <3> QED BY <3>1, <3>2
  <2>5. PartialSums(g, num, l, n)
    BY <2>3, <2>4 DEF PartialSums
  <2>6. n \in 0..Len(l)
    OBVIOUS
  <2> QED BY <2>3, <2>5, <2>6
<1>3. Len(l) \in Nat
  OBVIOUS
<1>4. Len(l) \in P
  <2> HIDE DEF P
  <2>1. \A n \in 0..Len(l) : n \in P
    BY <1>1, <1>2, <1>3, StepUpTo
  <2> QED BY <2>1, <1>3
<1> QED BY <1>4

\* SumOver is the last of the sums of the first elements.
LEMMA SumSteps ==
  ASSUME NEW S, NEW num \in [S -> Nat], NEW l \in Seq(S)
  PROVE  \E g \in [0..Len(l) -> Nat] :
           /\ g[0] = 0
           /\ \A k \in 1..Len(l) : g[k] = g[k - 1] + num[l[k]]
           /\ SumOver(num, l) = g[Len(l)]
<1> DEFINE g == CHOOSE g : PartialSums(g, num, l, Len(l))
<1>1. PICK h \in [0..Len(l) -> Nat] : PartialSums(h, num, l, Len(l))
  BY SumsExist
<1>2. PartialSums(g, num, l, Len(l))
  BY <1>1
<1>3. SumOver(num, l) = g[Len(l)]
  BY DEF SumOver, PartialSums
<1> HIDE DEF g
<1>4. Len(l) \in Nat
  OBVIOUS
<1>5. g[0] = 0 /\ \A k \in 1..Len(l) : g[k] = g[k - 1] + num[l[k]]
  BY <1>2, <1>4 DEF PartialSums
<1>6. \A k \in 1..Len(l) : num[l[k]] \in Nat
  OBVIOUS
<1> DEFINE P == {k \in 0..Len(l) : g[k] \in Nat}
<1>7. \A k \in 0..Len(l) : k \in P
  <2>1. 0 \in P
    BY <1>4, <1>5
  <2>2. ASSUME NEW n \in 1..Len(l), n - 1 \in P PROVE n \in P
    BY <1>4, <1>5, <1>6, <2>2
  <2> HIDE DEF P
  <2> QED BY <2>1, <2>2, <1>4, StepUpTo
<1>8. g \in [0..Len(l) -> Nat]
  <2>1. DOMAIN g = 0..Len(l) /\ g = [k \in 0..Len(l) |-> g[k]]
    BY <1>2 DEF PartialSums
  <2> QED BY <2>1, <1>7
<1> QED BY <1>3, <1>5, <1>8

\* A sum of natural numbers is one.
LEMMA SumNat ==
  ASSUME NEW S, NEW num \in [S -> Nat], NEW l \in Seq(S)
  PROVE  SumOver(num, l) \in Nat
<1>1. PICK g \in [0..Len(l) -> Nat] : SumOver(num, l) = g[Len(l)]
  BY SumSteps
<1>2. Len(l) \in 0..Len(l)
  OBVIOUS
<1> QED BY <1>1, <1>2

\* l holds its p-th element once, and more gives one more for it than num.
OneMore(S, num, more, l, p) ==
  /\ p \in 1..Len(l) /\ \A k \in 1..Len(l) : l[k] = l[p] => k = p
  /\ more[l[p]] = num[l[p]] + 1
  /\ \A c \in S : c # l[p] => more[c] = num[c]

\* One more for an element that l holds once is one more in the sum.
LEMMA SumBump ==
  ASSUME NEW S, NEW num \in [S -> Nat], NEW more \in [S -> Nat],
         NEW l \in Seq(S), NEW p, OneMore(S, num, more, l, p)
  PROVE  SumOver(more, l) = SumOver(num, l) + 1
<1>1. PICK g \in [0..Len(l) -> Nat] :
        /\ g[0] = 0
        /\ \A k \in 1..Len(l) : g[k] = g[k - 1] + num[l[k]]
        /\ SumOver(num, l) = g[Len(l)]
  BY SumSteps
<1>2. PICK h \in [0..Len(l) -> Nat] :
        /\ h[0] = 0
        /\ \A k \in 1..Len(l) : h[k] = h[k - 1] + more[l[k]]
        /\ SumOver(more, l) = h[Len(l)]
  BY SumSteps
<1>3. Len(l) \in Nat /\ p \in Nat /\ p > 0 /\ p <= Len(l)
  BY DEF OneMore
<1> DEFINE P == {k \in 0..Len(l) : h[k] = g[k] + (IF k < p THEN 0 ELSE 1)}
<1>4. 0 \in P
  BY <1>1, <1>2, <1>3
<1>5. ASSUME NEW n \in 1..Len(l), n - 1 \in P PROVE n \in P
  <2>1. /\ n - 1 \in 0..Len(l) /\ n \in 0..Len(l) /\ l[n] \in S
        /\ num[l[n]] \in Nat /\ more[l[n]] \in Nat /\ g[n - 1] \in Nat
    <3>1. n - 1 \in 0..Len(l) /\ n \in 0..Len(l) /\ l[n] \in S
      OBVIOUS
    <3> QED BY <3>1
  <2>2. h[n - 1] = g[n - 1] + (IF n - 1 < p THEN 0 ELSE 1)
    BY <1>5
  <2>3. h[n] = h[n - 1] + more[l[n]] /\ g[n] = g[n - 1] + num[l[n]]
    BY <1>1, <1>2
  <2>4. more[l[n]] = num[l[n]] + (IF n = p THEN 1 ELSE 0)
    BY <2>1 DEF OneMore
  <2> HIDE DEF P
  <2>5. h[n] = g[n] + (IF n < p THEN 0 ELSE 1)
    <3>1. n \in Int
      OBVIOUS
    <3>2. CASE n < p
      BY ONLY <1>3, <2>1, <2>2, <2>3, <2>4, <3>1, <3>2
    <3>3. CASE n = p
      BY ONLY <1>3, <2>1, <2>2, <2>3, <2>4, <3>1, <3>3
    <3>4. CASE n > p
      <4>1. ~(n - 1 < p) /\ ~(n < p) /\ n # p
        BY ONLY <1>3, <3>1, <3>4
      <4>2. h[n - 1] = g[n - 1] + 1 /\ more[l[n]] = num[l[n]]
        BY ONLY <2>1, <2>2, <2>4, <4>1
      <4>3. \A a, b \in Nat : (a + 1) + b = (a + b) + 1
        OBVIOUS
      <4>4. h[n] = g[n] + 1
        BY ONLY <2>1, <2>3, <4>2, <4>3
      <4> QED BY ONLY <4>1, <4>4
    <3> QED BY <1>3, <3>1, <3>2, <3>3, <3>4
  <2> QED BY <2>1, <2>5 DEF P
<1>6. Len(l) \in P
  <2> HIDE DEF P
  <2>1. \A k \in 0..Len(l) : k \in P
    BY <1>3, <1>4, <1>5, StepUpTo
  <2> QED BY <2>1, <1>3
<1> QED BY <1>1, <1>2, <1>3, <1>6

\* Nothing for every element is nothing in all.
LEMMA SumZero ==
  ASSUME NEW S, NEW num \in [S -> Nat], NEW l \in Seq(S),
         \A c \in S : num[c] = 0
  PROVE  SumOver(num, l) = 0
<1>1. PICK g \in [0..Len(l) -> Nat] :
        /\ g[0] = 0
        /\ \A k \in 1..Len(l) : g[k] = g[k - 1] + num[l[k]]
        /\ SumOver(num, l) = g[Len(l)]
  BY SumSteps
<1> DEFINE P == {k \in 0..Len(l) : g[k] = 0}
<1>2. Len(l) \in Nat
  OBVIOUS
<1>3. 0 \in P
  BY <1>1, <1>2
<1>4. ASSUME NEW n \in 1..Len(l), n - 1 \in P PROVE n \in P
  <2>1. l[n] \in S /\ n \in 0..Len(l)
    OBVIOUS
  <2>2. g[n - 1] = 0 /\ num[l[n]] = 0 /\ g[n] = g[n - 1] + num[l[n]]
    BY <1>1, <1>4, <2>1
  <2>3. g[n] = 0
    BY <2>2
  <2> QED BY <2>1, <2>3
<1>5. Len(l) \in P
  <2> HIDE DEF P
  <2>1. \A k \in 0..Len(l) : k \in P
    BY <1>2, <1>3, <1>4, StepUpTo
  <2> QED BY <2>1, <1>2
<1> QED BY <1>1, <1>5
=============================================================================
