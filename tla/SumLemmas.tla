------------------------------ MODULE SumLemmas ------------------------------
(***************************************************************************)
(* Sums over finite sets.                                                  *)
(*                                                                         *)
(* MapThenSumSet of the community modules adds the elements up in the      *)
(* order CHOOSE gives.  Here a sum is the number of its units, the pairs   *)
(* of an element and one of the ones its value is made of: that number has *)
(* no order, and what is known of finite sets says how it grows.           *)
(* FoldedIsSum shows that the two agree.                                   *)
(***************************************************************************)
EXTENDS Integers, FiniteSets, FiniteSetsExt, FiniteSetTheorems, WellFoundedInduction, TLAPS

Units(f, S) == UNION {{x} \X (1 .. f[x]) : x \in S}

Sum(f, S) == Cardinality(Units(f, S))

\* What MapThenSumSet recurs on, for the values f.
Folded(f, S, g) ==
    g = [s \in SUBSET S |->
            IF s = {} THEN 0
            ELSE f[CHOOSE x \in s : TRUE] + g[s \ {CHOOSE x \in s : TRUE}]]

-----------------------------------------------------------------------------
\* Induction over the subsets of a finite set, said of a set of them: what holds
\* of a subset whenever it holds of all smaller ones holds of every subset.
LEMMA SubsetsFromSmaller ==
  ASSUME NEW S, IsFiniteSet(S), NEW T \in SUBSET (SUBSET S),
         \A A \in SUBSET S : (\A B \in SUBSET A : B # A => B \in T) => A \in T
  PROVE  T = SUBSET S
<1> DEFINE D == (SUBSET S) \ T
<1> SUFFICES ASSUME D # {}  PROVE  FALSE
  OBVIOUS
<1>1. D \subseteq FiniteSubsetsOf(S)
  BY FS_Subset DEF FiniteSubsetsOf
<1>2. \E A \in D : \A B \in D : ~(<<B, A>> \in StrictSubsetOrdering(S))
  <2> HIDE DEF D
  <2> QED
    BY <1>1, WFMin, FS_StrictSubsetOrderingWellFounded
<1>3. PICK A \in D : \A B \in D : ~(<<B, A>> \in StrictSubsetOrdering(S))
  BY <1>2
<1>4. \A B \in SUBSET A : B # A => B \in T
  BY <1>3 DEF StrictSubsetOrdering
<1> QED
  BY <1>3, <1>4

\* Induction over a finite set: what holds of the empty set, and with a set also of the
\* set with one element more, holds of the whole set.
LEMMA SubsetsByElements ==
  ASSUME NEW S, IsFiniteSet(S), NEW T \in SUBSET (SUBSET S),
         {} \in T, \A A \in T : \A x \in S \ A : A \cup {x} \in T
  PROVE  S \in T
<1>1. ASSUME NEW A \in SUBSET S, \A B \in SUBSET A : B # A => B \in T
      PROVE  A \in T
  <2>1. ASSUME NEW x \in A  PROVE  A \in T
    <3>1. A \ {x} \in T
      BY <1>1
    <3>2. (A \ {x}) \cup {x} = A /\ x \in S \ (A \ {x})
      OBVIOUS
    <3> QED
      BY <3>1, <3>2
  <2> QED
    BY <2>1
<1>2. T = SUBSET S
  BY <1>1, SubsetsFromSmaller
<1> QED
  BY <1>2

-----------------------------------------------------------------------------
\* The units of one element more.
LEMMA UnitsOfOneMore ==
  ASSUME NEW f, NEW S, NEW x, x \notin S, f[x] \in Nat, IsFiniteSet(Units(f, S))
  PROVE  /\ IsFiniteSet(Units(f, S \cup {x}))
         /\ Sum(f, S \cup {x}) = Sum(f, S) + f[x]
<1> DEFINE U == Units(f, S)
           V == {x} \X (1 .. f[x])
<1>1. Units(f, S \cup {x}) = U \cup V /\ U \cap V = {}
  BY DEF Units
<1>2. IsFiniteSet(V) /\ Cardinality(V) = f[x]
  <2>1. IsFiniteSet({x}) /\ Cardinality({x}) = 1
    BY FS_Singleton
  <2>2. IsFiniteSet(1 .. f[x]) /\ Cardinality(1 .. f[x]) = f[x]
    BY FS_Interval
  <2>3. IsFiniteSet(V) /\ Cardinality(V) = 1 * f[x]
    <3>1. \A A, B : IsFiniteSet(A) /\ IsFiniteSet(B) =>
             IsFiniteSet(A \X B) /\ Cardinality(A \X B) = Cardinality(A) * Cardinality(B)
      BY FS_Product
    <3> QED
      BY <2>1, <2>2, <3>1
  <2> QED
    BY <2>3
<1>3. /\ IsFiniteSet(U \cup V)
      /\ Cardinality(U \cup V) = Cardinality(U) + Cardinality(V)
  <2>0. IsFiniteSet(U)
    OBVIOUS
  <2> HIDE DEF U, V
  <2>1. /\ IsFiniteSet(U \cup V)
        /\ Cardinality(U \cup V) = Cardinality(U) + Cardinality(V) - Cardinality(U \cap V)
    BY <1>2, <2>0, FS_Union
  <2>2. Cardinality(U \cap V) = 0 /\ Cardinality(U) \in Nat /\ Cardinality(V) \in Nat
    BY <1>1, <1>2, <2>0, FS_EmptySet, FS_CardinalityType
  <2> QED
    BY <2>1, <2>2
<1> QED
  BY <1>1, <1>2, <1>3 DEF Sum

\* Nothing adds up to nothing.
LEMMA SumOfNone == ASSUME NEW f  PROVE  IsFiniteSet(Units(f, {})) /\ Sum(f, {}) = 0
<1>1. Units(f, {}) = {}
  BY DEF Units
<1> QED
  BY <1>1, FS_EmptySet DEF Sum

\* A finite set of natural numbers has a sum, and it is a natural number.
LEMMA SumTyped ==
  ASSUME NEW f, NEW S, IsFiniteSet(S), \A x \in S : f[x] \in Nat
  PROVE  IsFiniteSet(Units(f, S)) /\ Sum(f, S) \in Nat
<1> DEFINE T == {A \in SUBSET S : IsFiniteSet(Units(f, A))}
<1>1. {} \in T
  BY SumOfNone
<1>2. ASSUME NEW A \in T, NEW x \in S \ A  PROVE  A \cup {x} \in T
  BY UnitsOfOneMore
<1>3. S \in T
  <2> HIDE DEF T
  <2>1. T \in SUBSET (SUBSET S)
    BY DEF T
  <2> QED
    BY <1>1, <1>2, <2>1, SubsetsByElements
<1> QED
  BY <1>3, FS_CardinalityType DEF Sum

\* The sum with one element more.
LEMMA SumOfOneMore ==
  ASSUME NEW f, NEW S, IsFiniteSet(S), \A x \in S : f[x] \in Nat,
         NEW x, x \notin S, f[x] \in Nat
  PROVE  Sum(f, S \cup {x}) = Sum(f, S) + f[x]
BY SumTyped, UnitsOfOneMore

\* The sum with one element less.
LEMMA SumOfOneLess ==
  ASSUME NEW f, NEW S, IsFiniteSet(S), \A x \in S : f[x] \in Nat, NEW x \in S
  PROVE  Sum(f, S) = Sum(f, S \ {x}) + f[x]
<1>1. IsFiniteSet(S \ {x}) /\ (S \ {x}) \cup {x} = S
  BY FS_RemoveElement
<1> QED
  BY <1>1, SumOfOneMore

\* Values that agree on a set have the same sum.
LEMMA SumOfSame ==
  ASSUME NEW f, NEW g, NEW S, \A x \in S : f[x] = g[x]
  PROVE  Sum(f, S) = Sum(g, S)
<1>1. Units(f, S) = Units(g, S)
  BY DEF Units
<1> QED
  BY <1>1 DEF Sum

\* The sum of two sets without a common element.
LEMMA SumOfTwo ==
  ASSUME NEW f, NEW S, NEW R, IsFiniteSet(S), IsFiniteSet(R), S \cap R = {},
         \A x \in S \cup R : f[x] \in Nat
  PROVE  Sum(f, S \cup R) = Sum(f, S) + Sum(f, R)
<1> DEFINE T == {A \in SUBSET R : Sum(f, S \cup A) = Sum(f, S) + Sum(f, A)}
<1>1. {} \in T
  <2>1. Sum(f, {}) = 0 /\ Sum(f, S) \in Nat /\ S \cup {} = S
    BY SumOfNone, SumTyped
  <2> QED
    BY <2>1
<1>2. ASSUME NEW A \in T, NEW x \in R \ A  PROVE  A \cup {x} \in T
  <2>1. IsFiniteSet(A) /\ IsFiniteSet(S \cup A)
    BY FS_Subset, FS_Union
  <2>2. Sum(f, A \cup {x}) = Sum(f, A) + f[x]
    BY <2>1, SumOfOneMore
  <2>3. Sum(f, (S \cup A) \cup {x}) = Sum(f, S \cup A) + f[x]
    <3>1. x \notin S \cup A /\ \A y \in S \cup A : f[y] \in Nat
      OBVIOUS
    <3>2. f[x] \in Nat
      OBVIOUS
    <3> QED
      BY <2>1, <3>1, <3>2, SumOfOneMore
  <2>4. S \cup (A \cup {x}) = (S \cup A) \cup {x}
    OBVIOUS
  <2>5. Sum(f, S) \in Nat /\ Sum(f, A) \in Nat /\ f[x] \in Nat
    BY <2>1, SumTyped
  <2>6. Sum(f, S \cup A) = Sum(f, S) + Sum(f, A)
    OBVIOUS
  <2>7. Sum(f, S \cup (A \cup {x})) = Sum(f, S) + Sum(f, A \cup {x})
    <3>1. Sum(f, S \cup (A \cup {x})) = Sum(f, S \cup A) + f[x]
      BY <2>3, <2>4, Zenon
    <3> QED
      BY <2>2, <2>5, <2>6, <3>1
  <2> QED
    BY <2>7
<1>3. R \in T
  <2> HIDE DEF T
  <2>1. T \in SUBSET (SUBSET R)
    BY DEF T
  <2> QED
    BY <1>1, <1>2, <2>1, SubsetsByElements
<1> QED
  BY <1>3

\* A part of a set adds up to no more than the set, and the rest to the difference.
LEMMA SumOfPart ==
  ASSUME NEW f, NEW S, IsFiniteSet(S), \A x \in S : f[x] \in Nat, NEW R \in SUBSET S
  PROVE  /\ Sum(f, R) \in Nat /\ Sum(f, R) <= Sum(f, S)
         /\ Sum(f, S \ R) = Sum(f, S) - Sum(f, R)
<1>1. IsFiniteSet(R) /\ IsFiniteSet(S \ R) /\ R \cup (S \ R) = S
  BY FS_Subset
<1>2. Sum(f, R) \in Nat /\ Sum(f, S \ R) \in Nat
  BY <1>1, SumTyped
<1>3. Sum(f, R \cup (S \ R)) = Sum(f, R) + Sum(f, S \ R)
  BY <1>1, SumOfTwo
<1>4. Sum(f, R \cup (S \ R)) = Sum(f, S)
  BY <1>1, Zenon
<1> QED
  BY <1>2, <1>3, <1>4

\* What is summed up key by key, and then over the keys, is the sum of all.
LEMMA SumByKey ==
  ASSUME NEW f, NEW S, IsFiniteSet(S), \A x \in S : f[x] \in Nat,
         NEW K, IsFiniteSet(K), NEW key, \A x \in S : key[x] \in K,
         NEW part, \A k \in K : part[k] \in SUBSET S /\ \A x \in S : (x \in part[k] <=> key[x] = k),
         NEW h, \A k \in K : h[k] = Sum(f, part[k])
  PROVE  Sum(h, K) = Sum(f, S)
<1>0. ASSUME NEW k \in K  PROVE  part[k] = {x \in S : key[x] = k} /\ h[k] = Sum(f, part[k])
  OBVIOUS
<1> DEFINE With(A) == {x \in S : key[x] \in A}
           T == {A \in SUBSET K : Sum(h, A) = Sum(f, With(A))}
<1>1. {} \in T
  <2>1. With({}) = {}
    OBVIOUS
  <2>2. Sum(f, With({})) = 0
    BY <2>1, SumOfNone, Zenon
  <2> QED
    BY <2>2, SumOfNone
<1>2. ASSUME NEW k \in K  PROVE  h[k] \in Nat
  <2> DEFINE R == {x \in S : key[x] = k}
  <2>1. R \in SUBSET S
    OBVIOUS
  <2>2. h[k] = Sum(f, R)
    BY <1>0
  <2>3. Sum(f, R) \in Nat
    <3> HIDE DEF R
    <3> QED
      BY <2>1, SumOfPart
  <2> QED
    BY <2>2, <2>3
<1>3. ASSUME NEW A \in T, NEW k \in K \ A  PROVE  A \cup {k} \in T
  <2> DEFINE R == {x \in S : key[x] = k}
  <2>1. IsFiniteSet(A) /\ IsFiniteSet(With(A)) /\ IsFiniteSet(R)
    BY FS_Subset
  <2>2. Sum(h, A \cup {k}) = Sum(h, A) + h[k]
    <3>1. (\A y \in A : h[y] \in Nat) /\ h[k] \in Nat /\ k \notin A
      BY <1>2
    <3> QED
      BY <2>1, <3>1, SumOfOneMore
  <2>3. Sum(f, With(A) \cup R) = Sum(f, With(A)) + Sum(f, R)
    <3>1. With(A) \cap R = {} /\ \A x \in With(A) \cup R : f[x] \in Nat
      OBVIOUS
    <3> HIDE DEF With, R
    <3> QED
      BY <2>1, <3>1, SumOfTwo
  <2>4. With(A \cup {k}) = With(A) \cup R
    OBVIOUS
  <2>5. Sum(h, A) = Sum(f, With(A)) /\ h[k] = Sum(f, R)
    BY <1>0
  <2>6. Sum(h, A \cup {k}) = Sum(f, With(A \cup {k}))
    <3> HIDE DEF With, R
    <3> QED
      BY <2>2, <2>3, <2>4, <2>5
  <2> QED
    BY <2>6
<1>4. K \in T
  <2> HIDE DEF T
  <2>1. T \in SUBSET (SUBSET K)
    BY DEF T
  <2> QED
    BY <1>1, <1>3, <2>1, SubsetsByElements
<1>5. With(K) = S
  OBVIOUS
<1> HIDE DEF With
<1> QED
  BY <1>4, <1>5

\* Two pairs of values that are in balance at every element are in balance in sum.
LEMMA SumInBalance ==
  ASSUME NEW S, IsFiniteSet(S), NEW f, NEW g, NEW h, NEW k,
         \A x \in S : /\ f[x] \in Nat /\ g[x] \in Nat /\ h[x] \in Nat /\ k[x] \in Nat
                      /\ f[x] + g[x] = h[x] + k[x]
  PROVE  Sum(f, S) + Sum(g, S) = Sum(h, S) + Sum(k, S)
<1> DEFINE T == {A \in SUBSET S : Sum(f, A) + Sum(g, A) = Sum(h, A) + Sum(k, A)}
<1>1. {} \in T
  BY SumOfNone
<1>2. ASSUME NEW A \in T, NEW x \in S \ A  PROVE  A \cup {x} \in T
  <2>1. IsFiniteSet(A)
    BY FS_Subset
  <2>2. /\ Sum(f, A) \in Nat /\ Sum(g, A) \in Nat /\ Sum(h, A) \in Nat /\ Sum(k, A) \in Nat
    BY <2>1, SumTyped
  <2>3. Sum(f, A \cup {x}) = Sum(f, A) + f[x]
    BY <2>1, SumOfOneMore
  <2>4. Sum(g, A \cup {x}) = Sum(g, A) + g[x]
    BY <2>1, SumOfOneMore
  <2>5. Sum(h, A \cup {x}) = Sum(h, A) + h[x]
    BY <2>1, SumOfOneMore
  <2>6. Sum(k, A \cup {x}) = Sum(k, A) + k[x]
    BY <2>1, SumOfOneMore
  <2>7. Sum(f, A) + Sum(g, A) = Sum(h, A) + Sum(k, A)
    OBVIOUS
  <2>8. /\ f[x] \in Nat /\ g[x] \in Nat /\ h[x] \in Nat /\ k[x] \in Nat
        /\ f[x] + g[x] = h[x] + k[x]
    OBVIOUS
  <2>9. Sum(f, A \cup {x}) + Sum(g, A \cup {x}) = Sum(h, A \cup {x}) + Sum(k, A \cup {x})
    BY <2>2, <2>3, <2>4, <2>5, <2>6, <2>7, <2>8
  <2> QED
    BY <2>9
<1>3. S \in T
  <2> HIDE DEF T
  <2>1. T \in SUBSET (SUBSET S)
    BY DEF T
  <2> QED
    BY <1>1, <1>2, <2>1, SubsetsByElements
<1> QED
  BY <1>3

\* The sum of a value that is the same for all.
LEMMA SumOfEqual ==
  ASSUME NEW S, IsFiniteSet(S), NEW f, NEW c \in Nat, \A x \in S : f[x] = c
  PROVE  Sum(f, S) = c * Cardinality(S)
<1> DEFINE T == {A \in SUBSET S : Sum(f, A) = c * Cardinality(A)}
<1>1. {} \in T
  BY SumOfNone, FS_EmptySet
<1>2. ASSUME NEW A \in T, NEW x \in S \ A  PROVE  A \cup {x} \in T
  <2>1. IsFiniteSet(A)
    BY FS_Subset
  <2>2. Sum(f, A \cup {x}) = Sum(f, A) + c
    BY <2>1, SumOfOneMore
  <2>3. Cardinality(A) \in Nat /\ Cardinality(A \cup {x}) = Cardinality(A) + 1
    BY <2>1, FS_AddElement, FS_CardinalityType
  <2>4. \A n \in Nat : c * (n + 1) = c * n + c
    OBVIOUS
  <2>5. Sum(f, A) = c * Cardinality(A)
    OBVIOUS
  <2>6. Sum(f, A \cup {x}) = c * Cardinality(A \cup {x})
    BY <2>2, <2>3, <2>4, <2>5
  <2> QED
    BY <2>6
<1>3. S \in T
  <2> HIDE DEF T
  <2>1. T \in SUBSET (SUBSET S)
    BY DEF T
  <2> QED
    BY <1>1, <1>2, <2>1, SubsetsByElements
<1> QED
  BY <1>3

-----------------------------------------------------------------------------
\* A function that recurs as MapThenSumSet does is the sum of every subset.
LEMMA FoldedIsSum ==
  ASSUME NEW f, NEW S, IsFiniteSet(S), \A x \in S : f[x] \in Nat,
         NEW g, Folded(f, S, g)
  PROVE  \A s \in SUBSET S : g[s] = Sum(f, s)
<1> DEFINE T == {s \in SUBSET S : g[s] = Sum(f, s)}
<1>1. ASSUME NEW A \in SUBSET S, \A B \in SUBSET A : B # A => B \in T
      PROVE  A \in T
  <2>1. CASE A = {}
    BY <2>1, SumOfNone DEF Folded
  <2>2. CASE A # {}
    <3> DEFINE x == CHOOSE y \in A : TRUE
    <3>1. x \in A
      BY <2>2
    <3>2. g[A] = f[x] + g[A \ {x}]
      BY <2>2 DEF Folded
    <3>3. g[A \ {x}] = Sum(f, A \ {x})
      BY <1>1, <3>1
    <3>4. Sum(f, A) = Sum(f, A \ {x}) + f[x]
      <4> HIDE DEF x
      <4>1. IsFiniteSet(A)
        BY FS_Subset
      <4> QED
        BY <3>1, <4>1, SumOfOneLess
    <3>5. Sum(f, A \ {x}) \in Nat /\ f[x] \in Nat
      <4> HIDE DEF x
      <4> QED
        BY <3>1, SumOfPart
    <3>6. g[A] = Sum(f, A)
      <4> HIDE DEF x
      <4> QED
        BY <3>2, <3>3, <3>4, <3>5
    <3> QED
      BY <3>6
  <2> QED
    BY <2>1, <2>2
<1>2. T = SUBSET S
  <2> HIDE DEF T
  <2>1. T \in SUBSET (SUBSET S)
    BY DEF T
  <2> QED
    BY <1>1, <2>1, SubsetsFromSmaller
<1> QED
  BY <1>2

\* There is such a function.
LEMMA FoldedExists ==
  ASSUME NEW f, NEW S, IsFiniteSet(S), \A x \in S : f[x] \in Nat
  PROVE  \E g : Folded(f, S, g)
<1> DEFINE g == [s \in SUBSET S |-> Sum(f, s)]
<1>1. ASSUME NEW A \in SUBSET S, A # {}
      PROVE  Sum(f, A) = f[CHOOSE x \in A : TRUE] + g[A \ {CHOOSE x \in A : TRUE}]
  <2> DEFINE x == CHOOSE y \in A : TRUE
  <2>1. x \in A
    BY <1>1
  <2> HIDE DEF x
  <2>2. IsFiniteSet(A)
    BY FS_Subset
  <2>3. Sum(f, A) = Sum(f, A \ {x}) + f[x]
    BY <2>1, <2>2, SumOfOneLess
  <2>4. Sum(f, A \ {x}) \in Nat /\ f[x] \in Nat
    BY <2>1, SumOfPart
  <2>5. g[A \ {x}] = Sum(f, A \ {x})
    OBVIOUS
  <2>6. Sum(f, A) = f[x] + g[A \ {x}]
    <3> HIDE DEF g
    <3> QED
      BY <2>3, <2>4, <2>5
  <2> QED
    BY <2>6 DEF x
<1>2. Sum(f, {}) = 0
  BY SumOfNone
<1>3. Folded(f, S, g)
  BY <1>1, <1>2 DEF Folded
<1> QED
  BY <1>3
=============================================================================
