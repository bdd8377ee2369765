------------------------------ MODULE FoldProofs ------------------------------
(***************************************************************************)
(* What the folds of the community modules compute, for sets of any size.  *)
(* The library's induction theorems take an operator as a parameter, which *)
(* no prover here can instantiate.  The induction is done with a set       *)
(* instead: the sizes at which a claim fails have a least element, by the  *)
(* theorem that < is well founded, and it is none.                         *)
(***************************************************************************)
EXTENDS Integers, FiniteSetsExt, Functions, WellFoundedInduction, FiniteSetTheorems, TLAPS

\* A non-empty set of natural numbers has a least element.
LEMMA LeastNatural ==
  ASSUME NEW T, T \subseteq Nat, T # {}
  PROVE  \E x \in T : \A y \in T : x <= y
<1> DEFINE R == OpToRel(<, Nat)
<1>1. IsWellFoundedOn(R, Nat)
  BY NatLessThanWellFounded
<1>2. \A x, y \in Nat : x < y => <<x, y>> \in R
  BY Zenon DEF OpToRel
<1> HIDE DEF R
<1>3. PICK x \in T : \A y \in T : ~ (<<y, x>> \in R)
  BY <1>1, WFMin
<1>4. ASSUME NEW y \in T PROVE x <= y
  <2>1. x \in Nat /\ y \in Nat
    OBVIOUS
  <2>2. ~ (y < x)
    BY <1>2, <1>3, <2>1
  <2> QED
    BY <2>1, <2>2, SMT
<1> QED
  BY <1>4

\* A non-empty set of numbers up to n has a largest element.
LEMMA MaxOfSome ==
  ASSUME NEW n \in Nat, NEW s \in SUBSET (1 .. n), s # {}
  PROVE  Max(s) \in s /\ \A y \in s : Max(s) >= y
<1> DEFINE T == {n - x : x \in s}
<1>1. \A x \in s : x \in Nat /\ x <= n /\ n - x \in Nat
  OBVIOUS
<1>2. T \subseteq Nat /\ T # {}
  BY <1>1
<1>3. PICK m \in T : \A k \in T : m <= k
  <2> HIDE DEF T
  <2> QED
    BY <1>2, LeastNatural
<1>4. PICK x \in s : m = n - x
  OBVIOUS
<1>5. \A y \in s : x >= y
  <2> TAKE y \in s
  <2>1. n - x <= n - y
    BY <1>3, <1>4
  <2> QED
    BY <1>1, <2>1
<1>6. \E z \in s : \A y \in s : z >= y
  BY <1>5
<1> QED
  BY <1>6 DEF Max

\* A fold over 1 .. i takes i last, after those up to i - 1.
LEMMA MaxOfFirst ==
  ASSUME NEW i \in Nat, i > 0
  PROVE  /\ Max(1 .. i) = i /\ 1 .. i # {} /\ (1 .. i) \ {Max(1 .. i)} = 1 .. i - 1
<1>1. i \in 1 .. i /\ 1 .. i # {}
  OBVIOUS
<1> DEFINE s == 1 .. i
<1>2. Max(s) \in s /\ \A y \in s : Max(s) >= y
  BY <1>1, MaxOfSome
<1>3. Max(s) = i
  <2> DEFINE m == Max(s)
  <2>1. m \in 1 .. i /\ m >= i
    BY <1>1, <1>2
  <2> HIDE DEF m
  <2>2. m = i
    BY <2>1
  <2> QED
    BY <2>2 DEF m
<1>4. (1 .. i) \ {i} = 1 .. i - 1
  OBVIOUS
<1> QED
  BY <1>1, <1>3, <1>4

\* A set of sizes that has 0, and with each size the next one, has all of them.
LEMMA AllSizes ==
  ASSUME NEW T, 0 \in T, \A n \in Nat : n \in T => n + 1 \in T
  PROVE  Nat \subseteq T
<1> DEFINE Out == Nat \ T
<1>1. ASSUME Out # {} PROVE FALSE
  <2>1. PICK n \in Out : \A m \in Out : n <= m
    BY <1>1, LeastNatural
  <2>2. n \in Nat /\ n # 0 /\ n \notin T
    OBVIOUS
  <2>3. n - 1 \in Nat /\ (n - 1) + 1 = n /\ ~ (n <= n - 1)
    BY <2>2, SMT
  <2>4. n - 1 \in T
    BY <2>1, <2>3
  <2> QED
    BY <2>2, <2>3, <2>4
<1> QED
  BY <1>1

\* A set less one of its elements.
LEMMA OneLess ==
  ASSUME NEW s, IsFiniteSet(s), NEW x \in s
  PROVE  /\ IsFiniteSet(s \ {x})
         /\ Cardinality(s) \in Nat /\ Cardinality(s \ {x}) \in Nat
         /\ Cardinality(s \ {x}) = Cardinality(s) - 1
BY FS_RemoveElement, FS_CardinalityType

-------------------------------------------------------------------------------
(* Recursion over the subsets of a finite set. *)

\* g[s] is got from base by way of op, the element first[s] being the last to come in.
Chooses(first, S) == \A s \in SUBSET S : s # {} => first[s] \in s

Recursion(g, S, base, op, first) ==
  \A s \in SUBSET S :
    g[s] = IF s = {} THEN base ELSE op[<<first[s], g[s \ {first[s]}]>>]

\* A function that is defined on the subsets of S by taking away elements, in the
\* order in which "first" chooses them, exists.
LEMMA RecursionExists ==
  ASSUME NEW S, IsFiniteSet(S), NEW V, NEW base \in V, NEW op \in [S \X V -> V],
         NEW first, Chooses(first, S)
  PROVE  \E g \in [SUBSET S -> V] : Recursion(g, S, base, op, first)
<1> DEFINE Upto(n) == \E g \in [SUBSET S -> V] : \A s \in SUBSET S :
             Cardinality(s) <= n =>
               g[s] = IF s = {} THEN base ELSE op[<<first[s], g[s \ {first[s]}]>>]
           Sizes == {n \in Nat : Upto(n)}
<1> USE DEF Chooses
<1>0. \A s \in SUBSET S : IsFiniteSet(s) /\ Cardinality(s) \in Nat
                          /\ Cardinality(s) <= Cardinality(S)
  BY FS_Subset, FS_CardinalityType
<1>1. 0 \in Sizes
  <2> DEFINE g == [s \in SUBSET S |-> base]
  <2>1. g \in [SUBSET S -> V]
    OBVIOUS
  <2>2. \A s \in SUBSET S : Cardinality(s) <= 0 => s = {}
    BY <1>0, FS_EmptySet
  <2>3. \A s \in SUBSET S : s = {} => g[s] = base
    OBVIOUS
  <2> HIDE DEF g
  <2> QED
    BY <2>1, <2>2, <2>3
<1>2. ASSUME NEW n \in Nat, n \in Sizes PROVE n + 1 \in Sizes
  <2>1. PICK g \in [SUBSET S -> V] : \A s \in SUBSET S :
             Cardinality(s) <= n =>
               g[s] = IF s = {} THEN base ELSE op[<<first[s], g[s \ {first[s]}]>>]
    BY <1>2
  <2> DEFINE h == [s \in SUBSET S |->
                     IF s = {} THEN base ELSE op[<<first[s], g[s \ {first[s]}]>>]]
  <2>2. \A s \in SUBSET S : s # {} =>
          first[s] \in S /\ s \ {first[s]} \in SUBSET S
    OBVIOUS
  <2>3. h \in [SUBSET S -> V]
    BY <2>2
  <2>4. \A s \in SUBSET S :
          h[s] = IF s = {} THEN base ELSE op[<<first[s], g[s \ {first[s]}]>>]
    OBVIOUS
  <2> HIDE DEF h
  <2>5. ASSUME NEW s \in SUBSET S, Cardinality(s) <= n + 1, s # {}
        PROVE  h[s \ {first[s]}] = g[s \ {first[s]}]
    <3> DEFINE r == s \ {first[s]}
    <3>1. first[s] \in s /\ r \in SUBSET S /\ IsFiniteSet(s)
      BY <1>0, <2>5
    <3>2. Cardinality(r) = Cardinality(s) - 1 /\ Cardinality(s) \in Nat
      BY <3>1, OneLess
    <3>3. Cardinality(r) <= n
      BY <2>5, <3>2
    <3> HIDE DEF r
    <3>4. h[r] = g[r]
      BY <2>1, <2>4, <3>1, <3>3
    <3> QED
      BY <3>4 DEF r
  <2>6. \A s \in SUBSET S : Cardinality(s) <= n + 1 =>
          h[s] = IF s = {} THEN base ELSE op[<<first[s], h[s \ {first[s]}]>>]
    BY <2>4, <2>5
  <2>7. Upto(n + 1)
    BY <2>3, <2>6
  <2> QED
    BY <2>7
<1>3. Cardinality(S) \in Nat
  BY FS_CardinalityType
<1> HIDE DEF Upto
<1>4. Cardinality(S) \in Sizes
  <2> HIDE DEF Sizes
  <2>1. Nat \subseteq Sizes
    BY <1>1, <1>2, AllSizes
  <2> QED
    BY <1>3, <2>1
<1>5. Upto(Cardinality(S))
  BY <1>4
<1> QED
  BY <1>0, <1>5 DEF Upto, Recursion

-------------------------------------------------------------------------------
(* SumFunctionOnSet *)

\* g is the sum of f over each subset of S.
SumsOver(g, f, S) ==
  \A s \in SUBSET S : g[s] =
    IF s = {} THEN 0 ELSE f[CHOOSE x \in s : TRUE] + g[s \ {CHOOSE x \in s : TRUE}]

\* The sum of a function over a finite set, by way of such a g.
LEMMA SumIsDefined ==
  ASSUME NEW f, NEW S, IsFiniteSet(S), \A x \in S : f[x] \in Nat
  PROVE  \E g : SumsOver(g, f, S) /\ SumFunctionOnSet(f, S) = g[S]
<1> DEFINE first == [s \in SUBSET S |-> CHOOSE x \in s : TRUE]
           op == [p \in S \X Nat |-> f[p[1]] + p[2]]
           Eq(g) == g = [s \in SUBSET S |->
             IF s = {} THEN 0
             ELSE f[CHOOSE x \in s : TRUE] + g[s \ {CHOOSE x \in s : TRUE}]]
<1>1. op \in [S \X Nat -> Nat]
  <2>1. \A p \in S \X Nat : f[p[1]] + p[2] \in Nat
    BY SMT
  <2> QED
    BY <2>1
<1>2. \A s \in SUBSET S : first[s] = CHOOSE x \in s : TRUE
  OBVIOUS
<1>3. \A s \in SUBSET S : s # {} => first[s] \in s
  BY <1>2
<1>4. \A x \in S, n \in Nat : op[<<x, n>>] = f[x] + n
  OBVIOUS
<1> HIDE DEF op, first
<1>5. PICK g \in [SUBSET S -> Nat] : \A s \in SUBSET S :
           g[s] = IF s = {} THEN 0 ELSE op[<<first[s], g[s \ {first[s]}]>>]
  <2> DEFINE V == Nat
             base == 0
  <2>1. base \in V /\ op \in [S \X V -> V]
    BY <1>1
  <2> HIDE DEF V, base
  <2>2. Chooses(first, S)
    BY <1>3 DEF Chooses
  <2>3. \E g \in [SUBSET S -> V] : Recursion(g, S, base, op, first)
    BY <2>1, <2>2, RecursionExists
  <2> QED
    BY <2>3 DEF V, base, Recursion
<1>6. \A s \in SUBSET S : s # {} =>
        op[<<first[s], g[s \ {first[s]}]>>] = f[first[s]] + g[s \ {first[s]}]
  <2> TAKE s \in SUBSET S
  <2> HAVE s # {}
  <2>1. first[s] \in S /\ s \ {first[s]} \in SUBSET S
    BY <1>3
  <2>2. g[s \ {first[s]}] \in Nat
    BY <2>1
  <2> QED
    BY <1>4, <2>1, <2>2
<1>7. \A s \in SUBSET S : g[s] =
        IF s = {} THEN 0
        ELSE f[CHOOSE x \in s : TRUE] + g[s \ {CHOOSE x \in s : TRUE}]
  BY <1>2, <1>5, <1>6
<1>8. Eq(g)
  BY <1>7
<1>9. SumFunctionOnSet(f, S) = (CHOOSE h : Eq(h))[S]
  BY DEF SumFunctionOnSet, FoldFunctionOnSet, MapThenFoldSet
<1> DEFINE h == CHOOSE h : Eq(h)
<1>10. Eq(h)
  BY <1>8
<1>11. SumsOver(h, f, S)
  BY <1>10 DEF SumsOver
<1> QED
  BY <1>9, <1>11

\* Two of them agree on what they have in common.
LEMMA SumsAgree ==
  ASSUME NEW f, NEW S, NEW T, IsFiniteSet(S), T \subseteq S,
         NEW g, SumsOver(g, f, S), NEW h, SumsOver(h, f, T)
  PROVE  \A s \in SUBSET T : g[s] = h[s]
<1> DEFINE Sizes == {n \in Nat : \A s \in SUBSET T : Cardinality(s) = n => g[s] = h[s]}
<1>0. \A s \in SUBSET T : s \in SUBSET S /\ IsFiniteSet(s) /\ Cardinality(s) \in Nat
  BY FS_Subset, FS_CardinalityType
<1>1. 0 \in Sizes
  <2>1. \A s \in SUBSET T : Cardinality(s) = 0 => s = {}
    BY <1>0, FS_EmptySet
  <2> QED
    BY <2>1 DEF SumsOver
<1>2. ASSUME NEW n \in Nat, n \in Sizes PROVE n + 1 \in Sizes
  <2>1. ASSUME NEW s \in SUBSET T, Cardinality(s) = n + 1 PROVE g[s] = h[s]
    <3> DEFINE x == CHOOSE x \in s : TRUE
               r == s \ {x}
    <3>1. s # {}
      BY <2>1, FS_EmptySet
    <3>2. x \in s
      BY <3>1
    <3> HIDE DEF x
    <3>3. Cardinality(r) = n /\ r \in SUBSET T
      <4>1. Cardinality(r) = Cardinality(s) - 1
        BY <1>0, <3>2, OneLess
      <4> QED
        BY <2>1, <4>1
    <3>4. g[r] = h[r]
      BY <1>2, <3>3
    <3>5. g[s] = f[x] + g[r] /\ h[s] = f[x] + h[r]
      BY <1>0, <3>1 DEF SumsOver, x
    <3> QED
      BY <3>4, <3>5
  <2> QED
    BY <2>1
<1> HIDE DEF Sizes
<1>3. Nat \subseteq Sizes
  BY <1>1, <1>2, AllSizes
<1> QED
  BY <1>0, <1>3 DEF Sizes

\* The equations of the sum: nothing for no element, and the chosen element's value
\* more than the sum without it.
LEMMA SumEquations ==
  ASSUME NEW f, NEW S, IsFiniteSet(S), \A x \in S : f[x] \in Nat
  PROVE  LET x == CHOOSE x \in S : TRUE IN
         SumFunctionOnSet(f, S) =
           IF S = {} THEN 0 ELSE f[x] + SumFunctionOnSet(f, S \ {x})
<1>1. PICK g : SumsOver(g, f, S) /\ SumFunctionOnSet(f, S) = g[S]
  BY SumIsDefined
<1> DEFINE x == CHOOSE x \in S : TRUE
           R == S \ {x}
<1>2. IsFiniteSet(R) /\ R \subseteq S /\ \A y \in R : f[y] \in Nat
  BY FS_Subset
<1>3. PICK h : SumsOver(h, f, R) /\ SumFunctionOnSet(f, R) = h[R]
  <2> HIDE DEF R
  <2> QED
    BY <1>2, SumIsDefined
<1>4. g[R] = h[R]
  <2> HIDE DEF R
  <2> QED
    BY <1>1, <1>2, <1>3, SumsAgree
<1>5. g[S] = IF S = {} THEN 0 ELSE f[x] + g[R]
  BY <1>1 DEF SumsOver
<1> QED
  BY <1>1, <1>3, <1>4, <1>5

\* A sum of natural numbers is one.
LEMMA SumIsNatural ==
  ASSUME NEW f, NEW S, IsFiniteSet(S), \A x \in S : f[x] \in Nat
  PROVE  SumFunctionOnSet(f, S) \in Nat
<1> DEFINE Sum(s) == SumFunctionOnSet(f, s)
           Sizes == {n \in Nat : \A s \in SUBSET S : Cardinality(s) = n => Sum(s) \in Nat}
<1>0. \A s \in SUBSET S : IsFiniteSet(s) /\ Cardinality(s) \in Nat /\ \A x \in s : f[x] \in Nat
  BY FS_Subset, FS_CardinalityType
<1>1. 0 \in Sizes
  <2>1. ASSUME NEW s \in SUBSET S, Cardinality(s) = 0 PROVE Sum(s) \in Nat
    <3>1. s = {} /\ IsFiniteSet(s)
      BY <1>0, <2>1, FS_EmptySet
    <3>2. Sum(s) = 0
      BY <3>1, SumEquations
    <3> QED
      BY <3>2
  <2> QED
    BY <2>1
<1>2. ASSUME NEW n \in Nat, n \in Sizes PROVE n + 1 \in Sizes
  <2>1. ASSUME NEW s \in SUBSET S, Cardinality(s) = n + 1 PROVE Sum(s) \in Nat
    <3> DEFINE x == CHOOSE x \in s : TRUE
    <3>1. s # {}
      BY <2>1, FS_EmptySet
    <3>2. x \in s
      BY <3>1
    <3>3. Sum(s) = f[x] + Sum(s \ {x})
      BY <1>0, <3>1, SumEquations
    <3> HIDE DEF x
    <3>4. Cardinality(s \ {x}) = Cardinality(s) - 1
      BY <1>0, <3>2, OneLess
    <3>5. Cardinality(s \ {x}) = n
      BY <2>1, <3>4
    <3>6. Sum(s \ {x}) \in Nat
      BY <1>2, <3>5
    <3>7. f[x] \in Nat
      BY <1>0, <3>2
    <3> QED
      BY <3>3, <3>6, <3>7
  <2> QED
    BY <2>1
<1> HIDE DEF Sizes
<1>3. Nat \subseteq Sizes
  BY <1>1, <1>2, AllSizes
<1> QED
  BY <1>0, <1>3 DEF Sizes

\* The order in which the elements are added up does not matter: any of them may be
\* taken last.
LEMMA SumTakes ==
  ASSUME NEW f, NEW S, IsFiniteSet(S), \A x \in S : f[x] \in Nat, NEW y \in S
  PROVE  SumFunctionOnSet(f, S) = f[y] + SumFunctionOnSet(f, S \ {y})
<1> DEFINE Sum(s) == SumFunctionOnSet(f, s)
           Sizes == {n \in Nat : \A s \in SUBSET S : Cardinality(s) = n =>
                       \A z \in s : Sum(s) = f[z] + Sum(s \ {z})}
<1>0. \A s \in SUBSET S : /\ IsFiniteSet(s) /\ Cardinality(s) \in Nat
                          /\ \A x \in s : f[x] \in Nat
  BY FS_Subset, FS_CardinalityType
<1>1. 0 \in Sizes
  BY <1>0, FS_EmptySet
<1>2. ASSUME NEW n \in Nat, n \in Sizes PROVE n + 1 \in Sizes
  <2>1. ASSUME NEW s \in SUBSET S, Cardinality(s) = n + 1, NEW z \in s
        PROVE  Sum(s) = f[z] + Sum(s \ {z})
    <3> DEFINE x == CHOOSE x \in s : TRUE
    <3>1. x \in s
      OBVIOUS
    <3>2. Sum(s) = f[x] + Sum(s \ {x})
      BY <1>0, SumEquations
    <3> HIDE DEF x
    <3>3. CASE z = x
      BY <3>2, <3>3
    <3>4. CASE z # x
      <4>1. Cardinality(s \ {x}) = n /\ Cardinality(s \ {z}) = n
        <5>1. /\ Cardinality(s \ {x}) = Cardinality(s) - 1
              /\ Cardinality(s \ {z}) = Cardinality(s) - 1
          BY <1>0, <3>1, OneLess
        <5> QED
          BY <2>1, <5>1
      <4>2. /\ z \in s \ {x} /\ x \in s \ {z}
            /\ s \ {x} \in SUBSET S /\ s \ {z} \in SUBSET S
        BY <3>1, <3>4
      <4>3. /\ Sum(s \ {x}) = f[z] + Sum((s \ {x}) \ {z})
            /\ Sum(s \ {z}) = f[x] + Sum((s \ {z}) \ {x})
        BY <1>2, <4>1, <4>2
      <4>4. (s \ {x}) \ {z} = (s \ {z}) \ {x}
        OBVIOUS
      <4>5. f[x] \in Nat /\ f[z] \in Nat
        BY <1>0, <3>1
      <4> DEFINE R == (s \ {x}) \ {z}
      <4>6. Sum(R) \in Nat
        <5>1. R \in SUBSET S
          BY <4>2
        <5> HIDE DEF R
        <5> QED
          BY <1>0, <5>1, SumIsNatural
      <4>7. Sum(s \ {x}) = f[z] + Sum(R) /\ Sum(s \ {z}) = f[x] + Sum(R)
        BY <4>3, <4>4
      <4> HIDE DEF R, Sum
      <4> QED
        BY <3>2, <4>5, <4>6, <4>7
    <3> QED
      BY <3>3, <3>4
  <2> QED
    BY <2>1
<1> HIDE DEF Sizes
<1>3. Nat \subseteq Sizes
  BY <1>1, <1>2, AllSizes
<1>4. S \in SUBSET S
  OBVIOUS
<1> QED
  BY <1>0, <1>3, <1>4 DEF Sizes

\* Of two functions that are ordered on a set, so are the sums, which are equal only if
\* the functions agree on the set.
LEMMA SumOrdered ==
  ASSUME NEW S, IsFiniteSet(S), NEW f, NEW g,
         \A x \in S : f[x] \in Nat /\ g[x] \in Nat /\ f[x] <= g[x]
  PROVE  /\ SumFunctionOnSet(f, S) <= SumFunctionOnSet(g, S)
         /\ SumFunctionOnSet(f, S) = SumFunctionOnSet(g, S) <=> \A x \in S : f[x] = g[x]
<1> DEFINE F(s) == SumFunctionOnSet(f, s)
           G(s) == SumFunctionOnSet(g, s)
           Right(s) == F(s) <= G(s) /\ (F(s) = G(s) <=> \A x \in s : f[x] = g[x])
           Sizes == {n \in Nat : \A s \in SUBSET S : Cardinality(s) = n => Right(s)}
<1>0. \A s \in SUBSET S : /\ IsFiniteSet(s) /\ Cardinality(s) \in Nat
                          /\ \A x \in s : f[x] \in Nat /\ g[x] \in Nat
  BY FS_Subset, FS_CardinalityType
<1>1. \A s \in SUBSET S : F(s) \in Nat /\ G(s) \in Nat
  BY <1>0, SumIsNatural
<1>2. 0 \in Sizes
  <2>1. ASSUME NEW s \in SUBSET S, Cardinality(s) = 0 PROVE Right(s)
    <3>1. s = {} /\ IsFiniteSet(s)
      BY <1>0, <2>1, FS_EmptySet
    <3>2. F(s) = 0 /\ G(s) = 0
      BY <3>1, SumEquations
    <3> QED
      BY <3>1, <3>2
  <2> QED
    BY <2>1
<1>3. ASSUME NEW n \in Nat, n \in Sizes PROVE n + 1 \in Sizes
  <2>1. ASSUME NEW s \in SUBSET S, Cardinality(s) = n + 1 PROVE Right(s)
    <3>1. s # {}
      BY <2>1, FS_EmptySet
    <3>2. PICK x \in s : TRUE
      BY <3>1
    <3> DEFINE r == s \ {x}
    <3>3. r \in SUBSET S /\ s = r \cup {x}
      BY <3>2
    <3>4. Cardinality(r) = n
      <4>1. Cardinality(s \ {x}) = Cardinality(s) - 1
        BY <1>0, <3>2, OneLess
      <4> QED
        BY <2>1, <4>1
    <3>5. /\ F(s) = f[x] + F(r) /\ G(s) = g[x] + G(r)
          /\ f[x] \in Nat /\ g[x] \in Nat /\ f[x] <= g[x]
      BY <1>0, <3>2, SumTakes
    <3> HIDE DEF r
    <3>6. Right(r)
      BY <1>3, <3>3, <3>4
    <3>7. F(r) \in Nat /\ G(r) \in Nat
      BY <1>1, <3>3
    <3> HIDE DEF F, G
    <3>8. F(s) <= G(s) /\ (F(s) = G(s) <=> F(r) = G(r) /\ f[x] = g[x])
      BY <3>5, <3>6, <3>7
    <3>9. (\A y \in s : f[y] = g[y]) <=> (\A y \in r : f[y] = g[y]) /\ f[x] = g[x]
      BY <3>3
    <3> QED
      BY <3>6, <3>8, <3>9
  <2> QED
    BY <2>1
<1> HIDE DEF Sizes
<1>4. Nat \subseteq Sizes
  BY <1>2, <1>3, AllSizes
<1>5. S \in SUBSET S
  OBVIOUS
<1>6. Right(S)
  <2> HIDE DEF Right
  <2> QED
    BY <1>0, <1>4, <1>5 DEF Sizes
<1> QED
  BY <1>6

\* Functions that agree on a set have the same sum over it.
LEMMA SumAgrees ==
  ASSUME NEW S, IsFiniteSet(S), NEW f, NEW g, \A x \in S : f[x] \in Nat /\ f[x] = g[x]
  PROVE  SumFunctionOnSet(f, S) = SumFunctionOnSet(g, S)
<1>1. \A x \in S : f[x] \in Nat /\ g[x] \in Nat /\ f[x] <= g[x]
  OBVIOUS
<1> QED
  BY <1>1, SumOrdered

\* Part of a set has part of the sum, and all of it exactly when only zeros are missing.
LEMMA SumOfPart ==
  ASSUME NEW f, NEW S, IsFiniteSet(S), \A x \in S : f[x] \in Nat, NEW T \in SUBSET S
  PROVE  /\ SumFunctionOnSet(f, T) <= SumFunctionOnSet(f, S)
         /\ SumFunctionOnSet(f, T) = SumFunctionOnSet(f, S) <=> \A x \in S \ T : f[x] = 0
<1> DEFINE Sum(s) == SumFunctionOnSet(f, s)
           Right(s) == /\ Sum(T) <= Sum(s)
                       /\ Sum(T) = Sum(s) <=> \A x \in s \ T : f[x] = 0
           Sizes == {n \in Nat : \A s \in SUBSET S :
                       T \subseteq s /\ Cardinality(s \ T) = n => Right(s)}
<1>0. \A s \in SUBSET S : /\ IsFiniteSet(s) /\ Cardinality(s) \in Nat
                          /\ \A x \in s : f[x] \in Nat
  BY FS_Subset, FS_CardinalityType
<1>1. \A s \in SUBSET S : Sum(s) \in Nat
  BY <1>0, SumIsNatural
<1>2. 0 \in Sizes
  <2>1. ASSUME NEW s \in SUBSET S, T \subseteq s, Cardinality(s \ T) = 0 PROVE Right(s)
    <3>1. s \ T \in SUBSET S
      OBVIOUS
    <3>2. s \ T = {}
      BY <1>0, <2>1, <3>1, FS_EmptySet
    <3>3. s = T
      BY <2>1, <3>2
    <3> QED
      BY <1>1, <3>2, <3>3
  <2> QED
    BY <2>1
<1>3. ASSUME NEW n \in Nat, n \in Sizes PROVE n + 1 \in Sizes
  <2>1. ASSUME NEW s \in SUBSET S, T \subseteq s, Cardinality(s \ T) = n + 1 PROVE Right(s)
    <3>0. s \ T \in SUBSET S
      OBVIOUS
    <3>1. s \ T # {}
      BY <2>1, FS_EmptySet
    <3>2. PICK x \in s \ T : TRUE
      BY <3>1
    <3> DEFINE r == s \ {x}
    <3>3. r \in SUBSET S /\ T \subseteq r /\ r \ T = (s \ T) \ {x}
      BY <2>1, <3>2
    <3>4. Cardinality(r \ T) = n
      <4>1. Cardinality((s \ T) \ {x}) = Cardinality(s \ T) - 1
        BY <1>0, <3>0, <3>2, OneLess
      <4> QED
        BY <2>1, <3>3, <4>1
    <3>5. Sum(s) = f[x] + Sum(r) /\ f[x] \in Nat
      BY <1>0, <3>2, SumTakes
    <3>6. s \ T = (r \ T) \cup {x}
      BY <3>2
    <3> HIDE DEF r
    <3>7. Right(r)
      BY <1>3, <3>3, <3>4
    <3>8. Sum(T) \in Nat /\ Sum(r) \in Nat
      BY <1>1, <3>3
    <3>9. \A y \in r \ T : f[y] \in Nat
      BY <1>0, <3>3
    <3> HIDE DEF Sum
    <3>10. Sum(T) <= Sum(s)
      BY <3>5, <3>7, <3>8
    <3>11. Sum(T) = Sum(s) <=> Sum(T) = Sum(r) /\ f[x] = 0
      BY <3>5, <3>7, <3>8
    <3>12. (\A y \in s \ T : f[y] = 0) <=> (\A y \in r \ T : f[y] = 0) /\ f[x] = 0
      BY <3>6
    <3> QED
      BY <3>7, <3>10, <3>11, <3>12
  <2> QED
    BY <2>1
<1> HIDE DEF Sizes
<1>4. Nat \subseteq Sizes
  BY <1>2, <1>3, AllSizes
<1>5. S \in SUBSET S /\ T \subseteq S /\ S \ T \in SUBSET S
  OBVIOUS
<1>6. Right(S)
  <2> HIDE DEF Right
  <2> QED
    BY <1>0, <1>4, <1>5 DEF Sizes
<1> QED
  BY <1>6
===============================================================================
