---------------------------- MODULE SumTheorems ----------------------------
(***************************************************************************)
(* Sums of a function over a finite set, SumFunctionOnSet of the community *)
(* modules: its recursive definition has a solution, and what follows from *)
(* it for the books of a run.  The inductions are over the number of       *)
(* elements, by the least counterexample.                                  *)
(***************************************************************************)
EXTENDS Integers, FiniteSets, Functions, FiniteSetTheorems, WellFoundedInduction, TLAPS

(* Induction, without an operator as a parameter.                          *)
LEMMA LeastElement ==
  ASSUME NEW T \in SUBSET Nat, T # {}
  PROVE  \E m \in T : \A n \in T : m <= n
<1>1. PICK m \in T : \A n \in T : <<n, m>> \notin OpToRel(<, Nat)
  BY NatLessThanWellFounded, WFMin, Zenon
<1>2. \A n \in T : ~(n < m)
  BY <1>1 DEF OpToRel
<1>3. QED
  BY <1>2

(* Induction over the natural numbers, for a set of them.                  *)
LEMMA Induction ==
  ASSUME NEW T \in SUBSET Nat, 0 \in T, \A n \in T : n + 1 \in T
  PROVE  T = Nat
<1> SUFFICES ASSUME Nat \ T # {}
             PROVE  FALSE
  OBVIOUS
<1>1. PICK m \in Nat \ T : \A n \in Nat \ T : m <= n
  BY LeastElement
<1>2. m # 0 /\ m - 1 \in Nat
  BY <1>1
<1>3. m - 1 \in T
  BY <1>1, <1>2
<1>4. QED
  BY <1>1, <1>3

-----------------------------------------------------------------------------
(* g sums f over every subset of S, taking the elements in some order that *)
(* depends on the subset only.                                             *)
Pick(s) == CHOOSE x \in s : TRUE

SumsOf(f, S, g) == g = [s \in SUBSET S |-> IF s = {} THEN 0 ELSE f[Pick(s)] + g[s \ {Pick(s)}]]

(* As far as sets of at most n elements go.                                *)
SumsUpTo(n, f, S, g) ==
  \A s \in SUBSET S : Cardinality(s) <= n =>
    g[s] = IF s = {} THEN 0 ELSE f[Pick(s)] + g[s \ {Pick(s)}]

(* The element CHOOSE takes out makes the set smaller by one.              *)
LEMMA PickOne ==
  ASSUME NEW S, IsFiniteSet(S), NEW s \in SUBSET S, s # {}
  PROVE  /\ Pick(s) \in s /\ s \ {Pick(s)} \in SUBSET S
         /\ Cardinality(s) \in Nat /\ Cardinality(s \ {Pick(s)}) \in Nat
         /\ Cardinality(s) = Cardinality(s \ {Pick(s)}) + 1
<1>1. Pick(s) \in s
  BY DEF Pick
<1>2. IsFiniteSet(s)
  BY FS_Subset
<1>3. Cardinality(s \ {Pick(s)}) = Cardinality(s) - 1
  BY <1>1, <1>2, FS_RemoveElement
<1>4. Cardinality(s) \in Nat /\ Cardinality(s \ {Pick(s)}) \in Nat
  BY <1>2, FS_RemoveElement, FS_CardinalityType
<1>5. QED
  BY <1>1, <1>3, <1>4

(* There is a function that holds the sum over every subset.               *)
LEMMA SumsExist ==
  ASSUME NEW f, NEW S, IsFiniteSet(S)
  PROVE  \E g : SumsOf(f, S, g)
<1> DEFINE T == {n \in Nat : \E g : SumsUpTo(n, f, S, g)}
<1>1. 0 \in T
  <2>1. SumsUpTo(0, f, S, [s \in SUBSET S |-> 0])
    <3>1. ASSUME NEW s \in SUBSET S, Cardinality(s) <= 0, s # {}
          PROVE  FALSE
      <4>1. /\ Cardinality(s) \in Nat /\ Cardinality(s \ {Pick(s)}) \in Nat
            /\ Cardinality(s) = Cardinality(s \ {Pick(s)}) + 1
        BY <3>1, PickOne
      <4>2. QED
        BY <3>1, <4>1
    <3>2. QED
      BY <3>1 DEF SumsUpTo
  <2>2. QED
    BY <2>1
<1>2. ASSUME NEW n \in T
      PROVE  n + 1 \in T
  <2>1. PICK g : SumsUpTo(n, f, S, g)
    OBVIOUS
  <2> DEFINE h == [s \in SUBSET S |-> IF Cardinality(s) <= n THEN g[s]
                                      ELSE f[Pick(s)] + g[s \ {Pick(s)}]]
  <2>2. ASSUME NEW s \in SUBSET S, Cardinality(s) <= n + 1
        PROVE  h[s] = IF s = {} THEN 0 ELSE f[Pick(s)] + h[s \ {Pick(s)}]
    <3>1. CASE s = {}
      <4>1. Cardinality(s) <= n
        BY <3>1, FS_EmptySet
      <4>2. QED
        BY <2>1, <3>1, <4>1 DEF SumsUpTo
    <3>2. CASE s # {}
      <4>0. /\ s \ {Pick(s)} \in SUBSET S
            /\ Cardinality(s) \in Nat /\ Cardinality(s \ {Pick(s)}) \in Nat
            /\ Cardinality(s) = Cardinality(s \ {Pick(s)}) + 1
        BY <3>2, PickOne
      <4>1. s \ {Pick(s)} \in SUBSET S /\ Cardinality(s \ {Pick(s)}) <= n
        <5>1. n \in Nat
          OBVIOUS
        <5> HIDE DEF T
        <5>2. QED
          BY <2>2, <4>0, <5>1
      <4>2. h[s \ {Pick(s)}] = g[s \ {Pick(s)}]
        BY <4>1
      <4>3. h[s] = f[Pick(s)] + g[s \ {Pick(s)}]
        BY <2>1, <3>2 DEF SumsUpTo
      <4>4. QED
        BY <3>2, <4>2, <4>3
    <3>3. QED
      BY <3>1, <3>2
  <2> HIDE DEF h
  <2>3. SumsUpTo(n + 1, f, S, h)
    BY <2>2 DEF SumsUpTo
  <2>4. QED
    BY <2>3
<1> HIDE DEF T
<1>3. T = Nat
  <2>1. T \in SUBSET Nat
    BY DEF T
  <2>2. QED
    BY <1>1, <1>2, <2>1, Induction
<1>4. Cardinality(S) \in Nat
  BY FS_CardinalityType
<1>5. PICK g : SumsUpTo(Cardinality(S), f, S, g)
  BY <1>3, <1>4 DEF T
<1> DEFINE h == [s \in SUBSET S |-> g[s]]
<1>6. ASSUME NEW s \in SUBSET S
      PROVE  h[s] = IF s = {} THEN 0 ELSE f[Pick(s)] + h[s \ {Pick(s)}]
  <2>1. Cardinality(s) <= Cardinality(S)
    BY FS_Subset
  <2>2. s # {} => s \ {Pick(s)} \in SUBSET S
    BY PickOne
  <2>3. QED
    BY <1>5, <2>1, <2>2 DEF SumsUpTo
<1>7. SumsOf(f, S, h)
  <2>1. h = [s \in SUBSET S |-> h[s]]
    OBVIOUS
  <2> HIDE DEF h
  <2>2. QED
    BY <1>6, <2>1 DEF SumsOf
<1>8. QED
  BY <1>7

(* ... and the sum of the community modules is its value.                  *)
LEMMA SumIsSums ==
  ASSUME NEW f, NEW S, IsFiniteSet(S)
  PROVE  \E g : SumsOf(f, S, g) /\ SumFunctionOnSet(f, S) = g[S]
<1> DEFINE Unfolded(g) == g = [s \in SUBSET S |->
                     IF s = {} THEN 0
                     ELSE LET x == CHOOSE x \in s : TRUE IN f[x] + g[s \ {x}]]
<1> DEFINE iter == CHOOSE g : Unfolded(g)
<1>1. ASSUME NEW g
      PROVE  Unfolded(g) <=> SumsOf(f, S, g)
  BY DEF SumsOf, Pick
<1>2. SumFunctionOnSet(f, S) = iter[S]
  BY DEF SumFunctionOnSet, FoldFunctionOnSet, MapThenFoldSet
<1> HIDE DEF Unfolded
<1>3. Unfolded(iter)
  BY <1>1, SumsExist, Zenon
<1> HIDE DEF iter
<1>4. QED
  BY <1>1, <1>2, <1>3

(* What holds of the empty set, and of every set of which it holds without *)
(* the element picked, holds of every subset of a finite set.              *)
LEMMA SubsetInduction ==
  ASSUME NEW S, IsFiniteSet(S), NEW P, {} \in P,
         \A s \in SUBSET S : s # {} /\ s \ {Pick(s)} \in P => s \in P
  PROVE  SUBSET S \subseteq P
<1> DEFINE T == {n \in Nat : \A s \in SUBSET S : Cardinality(s) = n => s \in P}
<1>1. 0 \in T
  <2>1. ASSUME NEW s \in SUBSET S, Cardinality(s) = 0, s # {}
        PROVE  FALSE
    <3>1. /\ Cardinality(s \ {Pick(s)}) \in Nat
          /\ Cardinality(s) = Cardinality(s \ {Pick(s)}) + 1
      BY <2>1, PickOne
    <3>2. QED
      BY <2>1, <3>1
  <2>2. QED
    BY <2>1
<1>2. ASSUME NEW n \in T
      PROVE  n + 1 \in T
  <2>1. n \in Nat /\ \A s \in SUBSET S : Cardinality(s) = n => s \in P
    OBVIOUS
  <2>2. ASSUME NEW s \in SUBSET S, Cardinality(s) = n + 1
        PROVE  s \in P
    <3>1. CASE s = {}
      BY <3>1
    <3>2. CASE s # {}
      <4>1. /\ s \ {Pick(s)} \in SUBSET S /\ Cardinality(s \ {Pick(s)}) \in Nat
            /\ Cardinality(s) = Cardinality(s \ {Pick(s)}) + 1
        BY <3>2, PickOne
      <4> HIDE DEF T
      <4>2. Cardinality(s \ {Pick(s)}) = n
        BY <2>1, <2>2, <4>1
      <4>3. QED
        BY <2>1, <3>2, <4>1, <4>2
    <3>3. QED
      BY <3>1, <3>2
  <2>3. QED
    BY <2>1, <2>2
<1>3. T \in SUBSET Nat
  OBVIOUS
<1> HIDE DEF T
<1>4. T = Nat
  BY <1>1, <1>2, <1>3, Induction
<1>5. ASSUME NEW s \in SUBSET S
      PROVE  s \in P
  <2>1. Cardinality(s) \in T
    BY <1>4, FS_Subset, FS_CardinalityType
  <2>2. QED
    BY <2>1 DEF T
<1>6. QED
  BY <1>5

-----------------------------------------------------------------------------
(* A sum of numbers is a number.                                           *)
LEMMA SumNat ==
  ASSUME NEW S, IsFiniteSet(S), NEW f, \A x \in S : f[x] \in Nat
  PROVE  SumFunctionOnSet(f, S) \in Nat
<1>1. PICK g : SumsOf(f, S, g) /\ SumFunctionOnSet(f, S) = g[S]
  BY SumIsSums
<1> DEFINE P == {s \in SUBSET S : g[s] \in Nat}
<1>2. {} \in P
  BY <1>1 DEF SumsOf
<1>3. ASSUME NEW s \in SUBSET S, s # {}, s \ {Pick(s)} \in P
      PROVE  s \in P
  <2>1. g[s] = f[Pick(s)] + g[s \ {Pick(s)}]
    BY <1>1, <1>3 DEF SumsOf
  <2>2. f[Pick(s)] \in Nat
    BY <1>3, PickOne
  <2>3. QED
    BY <1>3, <2>1, <2>2
<1> HIDE DEF P
<1>4. S \in P
  BY <1>2, <1>3, SubsetInduction
<1>5. QED
  BY <1>1, <1>4 DEF P

(* A function that nowhere exceeds another has no greater sum.             *)
LEMMA SumMonotone ==
  ASSUME NEW S, IsFiniteSet(S), NEW f, NEW h,
         \A x \in S : f[x] \in Nat /\ h[x] \in Nat /\ f[x] <= h[x]
  PROVE  SumFunctionOnSet(f, S) <= SumFunctionOnSet(h, S)
<1>1. PICK g : SumsOf(f, S, g) /\ SumFunctionOnSet(f, S) = g[S]
  BY SumIsSums
<1>2. PICK k : SumsOf(h, S, k) /\ SumFunctionOnSet(h, S) = k[S]
  BY SumIsSums
<1> DEFINE P == {s \in SUBSET S : g[s] \in Nat /\ k[s] \in Nat /\ g[s] <= k[s]}
<1>3. {} \in P
  BY <1>1, <1>2 DEF SumsOf
<1>4. ASSUME NEW s \in SUBSET S, s # {}, s \ {Pick(s)} \in P
      PROVE  s \in P
  <2>1. /\ g[s] = f[Pick(s)] + g[s \ {Pick(s)}]
        /\ k[s] = h[Pick(s)] + k[s \ {Pick(s)}]
    BY <1>1, <1>2, <1>4 DEF SumsOf
  <2>2. Pick(s) \in S
    BY <1>4, PickOne
  <2>3. QED
    BY <1>4, <2>1, <2>2
<1> HIDE DEF P
<1>5. S \in P
  BY <1>3, <1>4, SubsetInduction
<1>6. QED
  BY <1>1, <1>2, <1>5 DEF P

(* Functions that agree on the set have the same sum.                      *)
LEMMA SumSame ==
  ASSUME NEW S, IsFiniteSet(S), NEW f, NEW h,
         \A x \in S : f[x] \in Nat /\ h[x] = f[x]
  PROVE  SumFunctionOnSet(h, S) = SumFunctionOnSet(f, S)
<1>1. /\ SumFunctionOnSet(h, S) <= SumFunctionOnSet(f, S)
      /\ SumFunctionOnSet(f, S) <= SumFunctionOnSet(h, S)
  BY SumMonotone
<1>2. SumFunctionOnSet(h, S) \in Nat /\ SumFunctionOnSet(f, S) \in Nat
  BY SumNat
<1>3. QED
  BY <1>1, <1>2

(* Where one element changes, the sum changes by as much.                  *)
LEMMA SumChange ==
  ASSUME NEW S, IsFiniteSet(S), NEW f, NEW h, NEW t \in S,
         \A x \in S : f[x] \in Nat /\ h[x] \in Nat,
         \A x \in S \ {t} : h[x] = f[x]
  PROVE  SumFunctionOnSet(h, S) = SumFunctionOnSet(f, S) - f[t] + h[t]
<1>1. PICK g : SumsOf(f, S, g) /\ SumFunctionOnSet(f, S) = g[S]
  BY SumIsSums
<1>2. PICK k : SumsOf(h, S, k) /\ SumFunctionOnSet(h, S) = k[S]
  BY SumIsSums
<1> DEFINE P == {s \in SUBSET S : /\ g[s] \in Nat /\ k[s] \in Nat
                                  /\ t \in s => k[s] = g[s] - f[t] + h[t]
                                  /\ t \notin s => k[s] = g[s]}
<1>3. {} \in P
  BY <1>1, <1>2 DEF SumsOf
<1>4. ASSUME NEW s \in SUBSET S, s # {}, s \ {Pick(s)} \in P
      PROVE  s \in P
  <2>1. /\ g[s] = f[Pick(s)] + g[s \ {Pick(s)}]
        /\ k[s] = h[Pick(s)] + k[s \ {Pick(s)}]
    BY <1>1, <1>2, <1>4 DEF SumsOf
  <2>2. Pick(s) \in s /\ Pick(s) \in S
    BY <1>4, PickOne
  <2>3. CASE Pick(s) = t
    BY <1>4, <2>1, <2>2, <2>3
  <2>4. CASE Pick(s) # t
    <3>1. h[Pick(s)] = f[Pick(s)] /\ (t \in s <=> t \in s \ {Pick(s)})
      BY <2>2, <2>4
    <3>2. QED
      BY <1>4, <2>1, <2>2, <3>1
  <2>5. QED
    BY <2>3, <2>4
<1> HIDE DEF P
<1>5. S \in P
  BY <1>3, <1>4, SubsetInduction
<1>6. QED
  BY <1>1, <1>2, <1>5 DEF P

(* A sum of zeros.                                                         *)
LEMMA SumZero ==
  ASSUME NEW S, IsFiniteSet(S), NEW f, \A x \in S : f[x] = 0
  PROVE  SumFunctionOnSet(f, S) = 0
<1>1. PICK g : SumsOf(f, S, g) /\ SumFunctionOnSet(f, S) = g[S]
  BY SumIsSums
<1> DEFINE P == {s \in SUBSET S : g[s] = 0}
<1>2. {} \in P
  BY <1>1 DEF SumsOf
<1>3. ASSUME NEW s \in SUBSET S, s # {}, s \ {Pick(s)} \in P
      PROVE  s \in P
  <2>1. g[s] = f[Pick(s)] + g[s \ {Pick(s)}]
    BY <1>1, <1>3 DEF SumsOf
  <2>2. f[Pick(s)] = 0
    BY <1>3, PickOne
  <2>3. QED
    BY <1>3, <2>1, <2>2
<1> HIDE DEF P
<1>4. S \in P
  BY <1>2, <1>3, SubsetInduction
<1>5. QED
  BY <1>1, <1>4 DEF P

(* At most c for each element of U, and nothing elsewhere.                 *)
LEMMA SumBound ==
  ASSUME NEW S, IsFiniteSet(S), NEW f, NEW U \in SUBSET S, NEW c \in Nat,
         \A x \in S : f[x] \in Nat /\ f[x] <= IF x \in U THEN c ELSE 0
  PROVE  SumFunctionOnSet(f, S) <= c * Cardinality(U)
<1>1. PICK g : SumsOf(f, S, g) /\ SumFunctionOnSet(f, S) = g[S]
  BY SumIsSums
<1> DEFINE P == {s \in SUBSET S : g[s] \in Nat /\ g[s] <= c * Cardinality(s \cap U)}
<1>2. {} \in P
  <2>1. g[{}] = 0
    BY <1>1 DEF SumsOf
  <2>2. Cardinality({} \cap U) = 0
    BY FS_EmptySet
  <2>3. QED
    BY <2>1, <2>2
<1>3. ASSUME NEW s \in SUBSET S, s # {}, s \ {Pick(s)} \in P
      PROVE  s \in P
  <2> DEFINE r == s \ {Pick(s)}
  <2>1. g[s] = f[Pick(s)] + g[r]
    BY <1>1, <1>3 DEF SumsOf
  <2>2. Pick(s) \in s /\ Pick(s) \in S
    BY <1>3, PickOne
  <2>3. g[r] \in Nat /\ g[r] <= c * Cardinality(r \cap U)
    BY <1>3
  <2>4. IsFiniteSet(r \cap U) /\ Cardinality(r \cap U) \in Nat
    BY FS_Subset, FS_CardinalityType
  <2>5. CASE Pick(s) \in U
    <3>1. s \cap U = (r \cap U) \cup {Pick(s)} /\ Pick(s) \notin r \cap U
      BY <2>2, <2>5
    <3>2. Cardinality(s \cap U) = Cardinality(r \cap U) + 1
      BY <2>4, <3>1, FS_AddElement
    <3>3. f[Pick(s)] \in Nat /\ f[Pick(s)] <= c
      BY <2>2, <2>5
    <3> HIDE DEF r
    <3>4. c * (Cardinality(r \cap U) + 1) = c * Cardinality(r \cap U) + c
      BY <2>4
    <3>5. c * Cardinality(r \cap U) \in Nat
      BY <2>4
    <3>6. g[s] \in Nat /\ g[s] <= c * Cardinality(s \cap U)
      BY <2>1, <2>3, <3>2, <3>3, <3>4, <3>5
    <3>7. QED
      BY <3>6
  <2>6. CASE Pick(s) \notin U
    <3>1. s \cap U = r \cap U
      BY <2>6
    <3>2. f[Pick(s)] = 0
      BY <2>2, <2>6
    <3> HIDE DEF r
    <3>3. g[s] = g[r]
      BY <2>1, <2>3, <3>2
    <3>4. QED
      BY <2>3, <3>1, <3>3
  <2>7. QED
    BY <2>5, <2>6
<1> HIDE DEF P
<1>4. S \in P
  BY <1>2, <1>3, SubsetInduction
<1>5. S \cap U = U
  OBVIOUS
<1>6. QED
  BY <1>1, <1>4, <1>5 DEF P
=============================================================================
