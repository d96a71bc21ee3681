--------------------------- MODULE CentMathProofs ----------------------------
(* What CentMath's sums and the split of an amount come to, for any number  *)
(* of summands: the facts the proofs about the audits of money rest on.     *)
EXTENDS CentMath, FiniteSetTheorems, TLAPS

------------------------------------------------------------------------------
(* Induction, over a set in place of a predicate.                           *)

(* A set of numbers that is not empty has a least one.                      *)
LEMMA Least ==
  ASSUME NEW T \in SUBSET Nat, T # {}
  PROVE  \E n \in T : \A m \in T : n <= m
<1>1. PICK n \in T : \A m \in T : <<m, n>> \notin OpToRel(<, Nat)
  BY NatLessThanWellFounded, WFMin
<1>2. ASSUME NEW m \in T PROVE n <= m
  <2>1. ~(m < n)
    BY <1>1 DEF OpToRel
  <2> QED
    BY <2>1
<1> QED
  BY <1>2

(* A set that has zero and with every number the next one has them all.     *)
LEMMA Counting ==
  ASSUME NEW T, 0 \in T, \A n \in Nat : n \in T => n + 1 \in T
  PROVE  Nat \subseteq T
<1>1. SUFFICES ASSUME Nat \ T # {} PROVE FALSE
  OBVIOUS
<1>2. PICK n \in Nat \ T : \A m \in Nat \ T : n <= m
  BY <1>1, Least
<1>3. n # 0 /\ n - 1 \in Nat /\ n - 1 \notin Nat \ T
  BY <1>2
<1> QED
  BY <1>2, <1>3

(* A set has all parts of a finite set if it has the empty one, and every   *)
(* part of which it has those that lack one element.                        *)
LEMMA Growing ==
  ASSUME NEW D, IsFiniteSet(D), NEW T, {} \in T,
         \A S \in SUBSET D : S # {} /\ (\A x \in S : S \ {x} \in T) => S \in T
  PROVE  SUBSET D \subseteq T
<1> DEFINE N == {n \in Nat : \A S \in SUBSET D : Cardinality(S) = n => S \in T}
<1>1. \A S \in SUBSET D : IsFiniteSet(S) /\ Cardinality(S) \in Nat
  BY FS_Subset, FS_CardinalityType
<1>2. 0 \in N
  BY <1>1, FS_EmptySet
<1>3. ASSUME NEW n \in Nat, n \in N PROVE n + 1 \in N
  <2>1. SUFFICES ASSUME NEW S \in SUBSET D, Cardinality(S) = n + 1 PROVE S \in T
    OBVIOUS
  <2>2. S # {}
    <3>1. Cardinality({}) = 0 /\ n + 1 # 0
      BY FS_EmptySet
    <3> QED
      BY <2>1, <3>1
  <2>3. ASSUME NEW x \in S PROVE S \ {x} \in T
    <3>1. S \ {x} \in SUBSET D /\ Cardinality(S \ {x}) = n
      BY <1>1, <2>1, FS_RemoveElement
    <3> QED
      BY <1>3, <3>1
  <2> QED
    BY <2>2, <2>3
<1> HIDE DEF N
<1>4. Nat \subseteq N
  BY <1>2, <1>3, Counting
<1> QED
  BY <1>1, <1>4 DEF N

------------------------------------------------------------------------------
(* Sums.                                                                    *)

Some(S) == CHOOSE x \in S : TRUE

\* The fold of + over the parts of D.
Adds(f, D, sum) ==
  sum = [S \in SUBSET D |-> IF S = {} THEN 0 ELSE f[Some(S)] + sum[S \ {Some(S)}]]

Sum(f, D) == CHOOSE sum : Adds(f, D, sum)

LEMMA TotalIsSum ==
  ASSUME NEW f
  PROVE  Total(f) = Sum(f, DOMAIN f)[DOMAIN f]
  BY DEF Total, FoldFunction, FoldFunctionOnSet, MapThenFoldSet, Sum, Adds, Some

(* The recursion of a fold has a solution when there is an end to it.       *)
LEMMA SumExists ==
  ASSUME NEW f, NEW D, IsFiniteSet(D)
  PROVE  \E sum : Adds(f, D, sum)
<1> DEFINE Small(n) == {S \in SUBSET D : Cardinality(S) <= n}
           Solves(sum, n) ==
             sum = [S \in Small(n) |-> IF S = {} THEN 0 ELSE f[Some(S)] + sum[S \ {Some(S)}]]
           N == {n \in Nat : \E sum : Solves(sum, n)}
<1>1. \A S \in SUBSET D : IsFiniteSet(S) /\ Cardinality(S) \in Nat
  BY FS_Subset, FS_CardinalityType
<1>2. ASSUME NEW n \in Nat, NEW S \in Small(n + 1), S # {}
      PROVE  S \ {Some(S)} \in Small(n)
  <2>1. Some(S) \in S
    BY <1>2 DEF Some
  <2>2. Cardinality(S \ {Some(S)}) = Cardinality(S) - 1
    BY <2>1, <1>1, FS_RemoveElement
  <2>3. Cardinality(S) \in Nat /\ Cardinality(S) <= n + 1
    BY <1>1
  <2> QED
    BY <2>2, <2>3
<1>3. 0 \in N
  <2>1. Small(0) = {{}}
    BY <1>1, FS_EmptySet
  <2>2. Solves([S \in Small(0) |-> 0], 0)
    BY <2>1
  <2> QED
    BY <2>2
<1>4. ASSUME NEW n \in Nat, n \in N PROVE n + 1 \in N
  <2>1. PICK sum : Solves(sum, n)
    BY <1>4
  <2> DEFINE more == [S \in Small(n + 1) |->
                        IF S = {} THEN 0 ELSE f[Some(S)] + sum[S \ {Some(S)}]]
  <2>2. Small(n) \subseteq Small(n + 1)
    BY <1>1
  <2>3. \A S \in Small(n) : more[S] = sum[S]
    BY <2>1, <2>2
  <2>4. \A S \in Small(n + 1) :
          S # {} => sum[S \ {Some(S)}] = more[S \ {Some(S)}]
    <3> HIDE DEF more
    <3> QED
      BY <1>2, <2>3
  <2>5. more = [S \in Small(n + 1) |->
                  IF S = {} THEN 0 ELSE f[Some(S)] + more[S \ {Some(S)}]]
    BY <2>4
  <2> HIDE DEF more
  <2>6. Solves(more, n + 1)
    BY <2>5
  <2>7. n + 1 \in Nat
    OBVIOUS
  <2> HIDE DEF Solves
  <2> QED
    BY <2>6, <2>7
<1> HIDE DEF N
<1>5. Cardinality(D) \in N
  BY <1>1, <1>3, <1>4, Counting
<1>6. PICK sum : Solves(sum, Cardinality(D))
  BY <1>5 DEF N
<1>7. Small(Cardinality(D)) = SUBSET D
  BY <1>1, FS_Subset
<1> QED
  BY <1>6, <1>7 DEF Adds

LEMMA SumUnfolds ==
  ASSUME NEW f, NEW D, IsFiniteSet(D)
  PROVE  /\ Sum(f, D)[{}] = 0
         /\ \A S \in SUBSET D : S # {} =>
              /\ Some(S) \in S
              /\ Sum(f, D)[S] = f[Some(S)] + Sum(f, D)[S \ {Some(S)}]
<1>1. Adds(f, D, Sum(f, D))
  BY SumExists DEF Sum
<1>2. \A S : S # {} => Some(S) \in S
  BY DEF Some
<1> QED
  BY <1>1, <1>2 DEF Adds

(* A sum is of what the function is on the part summed over.                *)
LEMMA SumAgrees ==
  ASSUME NEW f, NEW D, IsFiniteSet(D), NEW g, NEW E, IsFiniteSet(E),
         E \subseteq D, \A x \in E : f[x] = g[x]
  PROVE  \A S \in SUBSET E : Sum(f, D)[S] = Sum(g, E)[S]
<1> DEFINE T == {S \in SUBSET E : Sum(f, D)[S] = Sum(g, E)[S]}
<1>1. {} \in T
  BY SumUnfolds
<1>2. ASSUME NEW S \in SUBSET E, S # {}, \A x \in S : S \ {x} \in T
      PROVE  S \in T
  <2>1. Some(S) \in S /\ Sum(g, E)[S] = g[Some(S)] + Sum(g, E)[S \ {Some(S)}]
    BY <1>2, SumUnfolds
  <2>2. Sum(f, D)[S] = f[Some(S)] + Sum(f, D)[S \ {Some(S)}]
    BY <1>2, SumUnfolds
  <2>3. Sum(f, D)[S \ {Some(S)}] = Sum(g, E)[S \ {Some(S)}] /\ f[Some(S)] = g[Some(S)]
    BY <1>2, <2>1
  <2> QED
    BY <2>1, <2>2, <2>3
<1> HIDE DEF T
<1>3. SUBSET E \subseteq T
  BY <1>1, <1>2, Growing
<1> QED
  BY <1>3 DEF T

(* Sums of integers are integers.                                           *)
LEMMA SumOfInts ==
  ASSUME NEW f, NEW D, IsFiniteSet(D), \A x \in D : f[x] \in Int
  PROVE  \A S \in SUBSET D : Sum(f, D)[S] \in Int
<1> DEFINE T == {S \in SUBSET D : Sum(f, D)[S] \in Int}
<1>1. {} \in T
  BY SumUnfolds
<1>2. ASSUME NEW S \in SUBSET D, S # {}, \A x \in S : S \ {x} \in T
      PROVE  S \in T
  <2>1. PICK y \in S : Sum(f, D)[S] = f[y] + Sum(f, D)[S \ {y}]
    <3>1. Some(S) \in S /\ Sum(f, D)[S] = f[Some(S)] + Sum(f, D)[S \ {Some(S)}]
      BY <1>2, SumUnfolds
    <3> QED
      BY <3>1
  <2>2. f[y] \in Int /\ Sum(f, D)[S \ {y}] \in Int
    BY <1>2
  <2> QED
    BY <2>1, <2>2
<1> HIDE DEF T
<1>3. SUBSET D \subseteq T
  BY <1>1, <1>2, Growing
<1> QED
  BY <1>3 DEF T

(* Any summand may be taken first.                                          *)
LEMMA SumAnyFirst ==
  ASSUME NEW f, NEW D, IsFiniteSet(D), \A x \in D : f[x] \in Int
  PROVE  \A S \in SUBSET D : \A x \in S : Sum(f, D)[S] = f[x] + Sum(f, D)[S \ {x}]
<1> DEFINE T == {S \in SUBSET D : \A x \in S : Sum(f, D)[S] = f[x] + Sum(f, D)[S \ {x}]}
<1>1. {} \in T
  OBVIOUS
<1>2. ASSUME NEW S \in SUBSET D, S # {}, \A x \in S : S \ {x} \in T
      PROVE  S \in T
  <2>1. PICK y \in S : Sum(f, D)[S] = f[y] + Sum(f, D)[S \ {y}]
    <3>1. Some(S) \in S /\ Sum(f, D)[S] = f[Some(S)] + Sum(f, D)[S \ {Some(S)}]
      BY <1>2, SumUnfolds
    <3> QED
      BY <3>1
  <2>2. ASSUME NEW x \in S, x # y PROVE Sum(f, D)[S] = f[x] + Sum(f, D)[S \ {x}]
    <3>1. Sum(f, D)[S \ {y}] = f[x] + Sum(f, D)[(S \ {y}) \ {x}]
      BY <1>2, <2>2
    <3>2. Sum(f, D)[S \ {x}] = f[y] + Sum(f, D)[(S \ {x}) \ {y}]
      BY <1>2, <2>2
    <3>3. (S \ {y}) \ {x} = (S \ {x}) \ {y} /\ (S \ {y}) \ {x} \in SUBSET D
      OBVIOUS
    <3>4. f[x] \in Int /\ f[y] \in Int /\ Sum(f, D)[(S \ {y}) \ {x}] \in Int
      BY <3>3, SumOfInts
    <3>5. Sum(f, D)[S \ {x}] = f[y] + Sum(f, D)[(S \ {y}) \ {x}]
      BY <3>2, <3>3
    <3> HIDE DEF T
    <3> QED
      BY <2>1, <3>1, <3>4, <3>5
  <2> QED
    BY <2>1, <2>2
<1> HIDE DEF T
<1>3. SUBSET D \subseteq T
  BY <1>1, <1>2, Growing
<1> QED
  BY <1>3 DEF T

------------------------------------------------------------------------------
(* Totals, over the whole of a function and over a part of its domain.      *)

\* What Total is called with: numbers, finitely many.
Summable(f) == IsFiniteSet(DOMAIN f) /\ \A x \in DOMAIN f : f[x] \in Int

Over(f, S) == Sum(f, DOMAIN f)[S]

LEMMA OverAll ==
  ASSUME NEW f
  PROVE  Total(f) = Over(f, DOMAIN f)
  BY TotalIsSum DEF Over

LEMMA OverNone ==
  ASSUME NEW f, Summable(f)
  PROVE  Over(f, {}) = 0
  BY SumUnfolds DEF Over, Summable

LEMMA OverInt ==
  ASSUME NEW f, Summable(f), NEW S \in SUBSET DOMAIN f
  PROVE  Over(f, S) \in Int
  BY SumOfInts DEF Over, Summable

(* A total over a part is one summand and the total over the others.        *)
LEMMA OverMore ==
  ASSUME NEW f, Summable(f)
  PROVE  \A S \in SUBSET DOMAIN f : \A x \in S :
           /\ f[x] \in Int /\ Over(f, S \ {x}) \in Int
           /\ Over(f, S) = f[x] + Over(f, S \ {x})
<1> SUFFICES ASSUME NEW S \in SUBSET DOMAIN f, NEW x \in S
             PROVE  /\ f[x] \in Int /\ Over(f, S \ {x}) \in Int
                    /\ Over(f, S) = f[x] + Over(f, S \ {x})
  OBVIOUS
<1>1. S \ {x} \in SUBSET DOMAIN f
  OBVIOUS
<1>2. f[x] \in Int
  BY DEF Summable
<1>3. Over(f, S) = f[x] + Over(f, S \ {x})
  BY SumAnyFirst DEF Over, Summable
<1> QED
  BY <1>1, <1>2, <1>3, OverInt

LEMMA OverOne ==
  ASSUME NEW f, Summable(f), NEW x \in DOMAIN f
  PROVE  Over(f, {x}) = f[x]
<1>1. {x} \in SUBSET DOMAIN f /\ x \in {x} /\ {x} \ {x} = {}
  OBVIOUS
<1>2. Over(f, {x}) = f[x] + Over(f, {x} \ {x}) /\ f[x] \in Int
  BY <1>1, OverMore
<1>3. Over(f, {x} \ {x}) = 0
  BY <1>1, OverNone
<1> QED
  BY <1>2, <1>3

(* What a function is elsewhere does not count.                             *)
LEMMA OverSame ==
  ASSUME NEW f, Summable(f), NEW g, Summable(g),
         NEW S, S \subseteq DOMAIN f, S \subseteq DOMAIN g, \A x \in S : f[x] = g[x]
  PROVE  Over(f, S) = Over(g, S)
<1> DEFINE h == [x \in S |-> f[x]]
<1>1. IsFiniteSet(S) /\ IsFiniteSet(DOMAIN f) /\ IsFiniteSet(DOMAIN g)
  BY FS_Subset DEF Summable
<1>2. \A x \in S : f[x] = h[x] /\ g[x] = h[x]
  OBVIOUS
<1>3. S \in SUBSET S
  OBVIOUS
<1> HIDE DEF h
<1>4. Sum(f, DOMAIN f)[S] = Sum(h, S)[S]
  BY <1>1, <1>2, <1>3, SumAgrees
<1>5. Sum(g, DOMAIN g)[S] = Sum(h, S)[S]
  BY <1>1, <1>2, <1>3, SumAgrees
<1> QED
  BY <1>4, <1>5 DEF Over

LEMMA TotalOfNone ==
  ASSUME NEW f, DOMAIN f = {}
  PROVE  Total(f) = 0
  BY TotalIsSum, SumUnfolds, FS_EmptySet

LEMMA TotalIsInt ==
  ASSUME NEW f, Summable(f)
  PROVE  Total(f) \in Int
  BY OverAll, OverInt

(* A total is a summand and the total of the others.                        *)
LEMMA TotalWithout ==
  ASSUME NEW f, Summable(f), NEW x \in DOMAIN f, NEW g, DOMAIN g = DOMAIN f \ {x},
         \A y \in DOMAIN g : g[y] = f[y]
  PROVE  Summable(g) /\ Total(g) \in Int /\ Total(f) = f[x] + Total(g)
<1>1. Summable(g)
  BY FS_RemoveElement DEF Summable
<1>2. Over(f, DOMAIN f \ {x}) = Over(g, DOMAIN f \ {x})
  BY <1>1, OverSame
<1>3. DOMAIN f \in SUBSET DOMAIN f
  OBVIOUS
<1>4. Over(f, DOMAIN f) = f[x] + Over(f, DOMAIN f \ {x})
  BY <1>3, OverMore
<1> QED
  BY <1>1, <1>2, <1>4, OverAll, TotalIsInt

(* A changed summand changes a total by as much.                            *)
LEMMA TotalChanged ==
  ASSUME NEW f, Summable(f), NEW x \in DOMAIN f, NEW n \in Int,
         NEW g, DOMAIN g = DOMAIN f, g[x] = n, \A y \in DOMAIN f \ {x} : g[y] = f[y]
  PROVE  Summable(g) /\ Total(g) = Total(f) - f[x] + n
<1> DEFINE h == [y \in DOMAIN f \ {x} |-> f[y]]
<1>1. Summable(g)
  BY DEF Summable
<1>2. DOMAIN h = DOMAIN f \ {x} /\ \A y \in DOMAIN h : h[y] = f[y] /\ h[y] = g[y]
  OBVIOUS
<1> HIDE DEF h
<1>3. Total(h) \in Int /\ Total(f) = f[x] + Total(h)
  BY <1>2, TotalWithout
<1>4. Total(g) = n + Total(h)
  <2>1. x \in DOMAIN g /\ DOMAIN h = DOMAIN g \ {x} /\ \A y \in DOMAIN h : h[y] = g[y]
    BY <1>2
  <2> QED
    BY <1>1, <2>1, TotalWithout
<1>5. f[x] \in Int
  BY DEF Summable
<1> QED
  BY <1>1, <1>3, <1>4, <1>5

(* Totals compare as their summands do.                                     *)
LEMMA OverMonotone ==
  ASSUME NEW f, Summable(f), NEW g, Summable(g), DOMAIN g = DOMAIN f,
         \A x \in DOMAIN f : f[x] <= g[x]
  PROVE  \A S \in SUBSET DOMAIN f : Over(f, S) <= Over(g, S)
<1> DEFINE T == {S \in SUBSET DOMAIN f : Over(f, S) <= Over(g, S)}
<1>1. {} \in T
  BY OverNone
<1>2. ASSUME NEW S \in SUBSET DOMAIN f, S # {}, \A x \in S : S \ {x} \in T
      PROVE  S \in T
  <2>1. PICK x \in S : S \ {x} \in T
    BY <1>2
  <2>2. Over(f, S) = f[x] + Over(f, S \ {x}) /\ f[x] \in Int /\ Over(f, S \ {x}) \in Int
    BY OverMore
  <2>3. Over(g, S) = g[x] + Over(g, S \ {x}) /\ g[x] \in Int /\ Over(g, S \ {x}) \in Int
    <3>1. S \in SUBSET DOMAIN g
      OBVIOUS
    <3> QED
      BY <3>1, OverMore
  <2>4. f[x] <= g[x] /\ Over(f, S \ {x}) <= Over(g, S \ {x})
    BY <2>1
  <2>5. Over(f, S) <= Over(g, S)
    BY <2>2, <2>3, <2>4
  <2> QED
    BY <2>5
<1> HIDE DEF T
<1>3. IsFiniteSet(DOMAIN f)
  BY DEF Summable
<1>4. SUBSET DOMAIN f \subseteq T
  BY <1>1, <1>2, <1>3, Growing, Zenon
<1> QED
  BY <1>4 DEF T

LEMMA OverPlus ==
  ASSUME NEW f, Summable(f), NEW g, Summable(g), DOMAIN g = DOMAIN f,
         NEW h, Summable(h), DOMAIN h = DOMAIN f, \A x \in DOMAIN f : h[x] = f[x] + g[x]
  PROVE  \A S \in SUBSET DOMAIN f : Over(h, S) = Over(f, S) + Over(g, S)
<1> DEFINE T == {S \in SUBSET DOMAIN f : Over(h, S) = Over(f, S) + Over(g, S)}
<1>1. {} \in T
  BY OverNone
<1>2. ASSUME NEW S \in SUBSET DOMAIN f, S # {}, \A x \in S : S \ {x} \in T
      PROVE  S \in T
  <2>1. PICK x \in S : S \ {x} \in T
    BY <1>2
  <2>2. Over(f, S) = f[x] + Over(f, S \ {x}) /\ f[x] \in Int /\ Over(f, S \ {x}) \in Int
    BY OverMore
  <2>3. Over(g, S) = g[x] + Over(g, S \ {x}) /\ g[x] \in Int /\ Over(g, S \ {x}) \in Int
    BY OverMore
  <2>4. Over(h, S) = h[x] + Over(h, S \ {x})
    BY OverMore
  <2>5. h[x] = f[x] + g[x] /\ Over(h, S \ {x}) = Over(f, S \ {x}) + Over(g, S \ {x})
    BY <2>1
  <2>6. Over(h, S) = Over(f, S) + Over(g, S)
    BY <2>2, <2>3, <2>4, <2>5
  <2> QED
    BY <2>6
<1> HIDE DEF T
<1>3. IsFiniteSet(DOMAIN f)
  BY DEF Summable
<1>4. SUBSET DOMAIN f \subseteq T
  BY <1>1, <1>2, <1>3, Growing, Zenon
<1> QED
  BY <1>4 DEF T

LEMMA Distributes ==
  \A a, b, c \in Int : a * (b + c) = a * b + a * c
  OBVIOUS

LEMMA OverTimes ==
  ASSUME NEW f, Summable(f), NEW n \in Int,
         NEW g, Summable(g), DOMAIN g = DOMAIN f, \A x \in DOMAIN f : g[x] = n * f[x]
  PROVE  \A S \in SUBSET DOMAIN f : Over(g, S) = n * Over(f, S)
<1> DEFINE T == {S \in SUBSET DOMAIN f : Over(g, S) = n * Over(f, S)}
<1>1. {} \in T
  BY OverNone
<1>2. ASSUME NEW S \in SUBSET DOMAIN f, S # {}, \A x \in S : S \ {x} \in T
      PROVE  S \in T
  <2>1. PICK x \in S : S \ {x} \in T
    BY <1>2
  <2>2. Over(f, S) = f[x] + Over(f, S \ {x}) /\ f[x] \in Int /\ Over(f, S \ {x}) \in Int
    BY OverMore
  <2>3. Over(g, S) = g[x] + Over(g, S \ {x})
    BY OverMore
  <2>4. g[x] = n * f[x] /\ Over(g, S \ {x}) = n * Over(f, S \ {x})
    BY <2>1
  <2>5. Over(g, S) = n * Over(f, S)
    BY <2>2, <2>3, <2>4, Distributes
  <2> QED
    BY <2>5
<1> HIDE DEF T
<1>3. IsFiniteSet(DOMAIN f)
  BY DEF Summable
<1>4. SUBSET DOMAIN f \subseteq T
  BY <1>1, <1>2, <1>3, Growing, Zenon
<1> QED
  BY <1>4 DEF T

(* A part of a total without negative summands is at most the total.        *)
LEMMA OverPart ==
  ASSUME NEW f, Summable(f), \A x \in DOMAIN f : f[x] >= 0
  PROVE  \A S \in SUBSET DOMAIN f : \A R \in SUBSET S : Over(f, R) <= Over(f, S)
<1> DEFINE T == {S \in SUBSET DOMAIN f : \A R \in SUBSET S : Over(f, R) <= Over(f, S)}
<1>1. {} \in T
  BY OverNone
<1>2. ASSUME NEW S \in SUBSET DOMAIN f, S # {}, \A x \in S : S \ {x} \in T
      PROVE  S \in T
  <2>1. SUFFICES ASSUME NEW R \in SUBSET S PROVE Over(f, R) <= Over(f, S)
    OBVIOUS
  <2>2. CASE R = S
    BY <2>2, OverInt
  <2>3. CASE R # S
    <3>1. PICK x \in S : x \notin R
      BY <2>3
    <3>2. R \in SUBSET (S \ {x}) /\ R \in SUBSET DOMAIN f
      BY <3>1
    <3>3. Over(f, R) <= Over(f, S \ {x}) /\ Over(f, R) \in Int
      BY <1>2, <3>2, OverInt
    <3>4. Over(f, S) = f[x] + Over(f, S \ {x}) /\ f[x] \in Int /\ Over(f, S \ {x}) \in Int
      BY OverMore
    <3>5. f[x] >= 0
      OBVIOUS
    <3> QED
      BY <3>3, <3>4, <3>5
  <2> QED
    BY <2>2, <2>3
<1> HIDE DEF T
<1>3. IsFiniteSet(DOMAIN f)
  BY DEF Summable
<1>4. \A S \in SUBSET DOMAIN f : S # {} /\ (\A x \in S : S \ {x} \in T) => S \in T
  BY <1>2, Zenon
<1>5. SUBSET DOMAIN f \subseteq T
  BY ONLY <1>1, <1>3, <1>4, Growing, Zenon
<1> QED
  BY <1>5 DEF T

(* Summands of at most n come to at most n for each.                        *)
LEMMA OverAtMost ==
  ASSUME NEW f, Summable(f), NEW n \in Int, \A x \in DOMAIN f : f[x] <= n
  PROVE  \A S \in SUBSET DOMAIN f :
           IsFiniteSet(S) /\ Cardinality(S) \in Nat /\ Over(f, S) <= n * Cardinality(S)
<1> DEFINE T == {S \in SUBSET DOMAIN f : Over(f, S) <= n * Cardinality(S)}
<1>1. \A S \in SUBSET DOMAIN f : IsFiniteSet(S) /\ Cardinality(S) \in Nat
  BY FS_Subset, FS_CardinalityType DEF Summable
<1>2. {} \in T
  BY OverNone, FS_EmptySet
<1>3. ASSUME NEW S \in SUBSET DOMAIN f, S # {}, \A x \in S : S \ {x} \in T
      PROVE  S \in T
  <2>1. PICK x \in S : S \ {x} \in T
    BY <1>3
  <2>2. Over(f, S) = f[x] + Over(f, S \ {x}) /\ f[x] \in Int /\ Over(f, S \ {x}) \in Int
    BY OverMore
  <2>3. Cardinality(S \ {x}) = Cardinality(S) - 1 /\ Cardinality(S) \in Nat
    BY <1>1, FS_RemoveElement
  <2>4. f[x] <= n /\ Over(f, S \ {x}) <= n * (Cardinality(S) - 1)
    BY <2>1, <2>3
  <2>5. n * (Cardinality(S) - 1) = n * Cardinality(S) - n
    BY <2>3
  <2>6. n * Cardinality(S) \in Int
    BY <2>3
  <2>7. Over(f, S) <= n * Cardinality(S)
    <3> DEFINE all == n * Cardinality(S)
    <3>1. all \in Int /\ Over(f, S \ {x}) <= all - n
      BY <2>4, <2>5, <2>6
    <3> HIDE DEF all
    <3>2. Over(f, S) <= all
      BY <2>2, <2>4, <3>1
    <3> QED
      BY <3>2 DEF all
  <2> QED
    BY <2>7
<1> HIDE DEF T
<1>4. IsFiniteSet(DOMAIN f)
  BY DEF Summable
<1>5. SUBSET DOMAIN f \subseteq T
  BY <1>2, <1>3, <1>4, Growing
<1> QED
  BY <1>1, <1>5 DEF T

(* A total does not depend on the order of the summands.                    *)
LEMMA TotalPermuted ==
  ASSUME NEW f, Summable(f), NEW g, Summable(g), NEW p \in [DOMAIN g -> DOMAIN f],
         \A x, y \in DOMAIN g : p[x] = p[y] => x = y,
         \A y \in DOMAIN f : \E x \in DOMAIN g : p[x] = y,
         \A x \in DOMAIN g : g[x] = f[p[x]]
  PROVE  Total(g) = Total(f)
<1> DEFINE Image(S) == {p[x] : x \in S}
           T == {S \in SUBSET DOMAIN g : Over(g, S) = Over(f, Image(S))}
<1>1. {} \in T
  <2>1. Image({}) = {}
    OBVIOUS
  <2> QED
    BY <2>1, OverNone
<1>2. ASSUME NEW S \in SUBSET DOMAIN g, S # {}, \A x \in S : S \ {x} \in T
      PROVE  S \in T
  <2>1. PICK x \in S : S \ {x} \in T
    BY <1>2
  <2>2. Image(S \ {x}) = Image(S) \ {p[x]} /\ p[x] \in Image(S) /\ Image(S) \in SUBSET DOMAIN f
    OBVIOUS
  <2>3. Over(g, S) = g[x] + Over(g, S \ {x})
    BY OverMore
  <2> HIDE DEF Image
  <2>4. Over(f, Image(S)) = f[p[x]] + Over(f, Image(S) \ {p[x]})
    BY <2>2, OverMore
  <2>5. Over(g, S \ {x}) = Over(f, Image(S) \ {p[x]}) /\ g[x] = f[p[x]]
    BY <2>1, <2>2
  <2> QED
    BY <2>3, <2>4, <2>5
<1> HIDE DEF T
<1>3. IsFiniteSet(DOMAIN g)
  BY DEF Summable
<1>4. SUBSET DOMAIN g \subseteq T
  BY <1>1, <1>2, <1>3, Growing, Zenon
<1>5. Image(DOMAIN g) = DOMAIN f
  OBVIOUS
<1> QED
  BY <1>4, <1>5, OverAll DEF T

------------------------------------------------------------------------------
(* Division.                                                                *)

LEMMA DivBounds ==
  ASSUME NEW a \in Int, NEW b \in Nat \ {0}
  PROVE  a \div b \in Int /\ b * (a \div b) <= a /\ a < b * (a \div b) + b
  OBVIOUS

LEMMA TimesMono ==
  \A a, b, c \in Int : c >= 0 /\ a <= b => c * a <= c * b
  OBVIOUS

LEMMA TimesCancel ==
  \A a, b, c \in Int : c >= 1 /\ c * a < c * b => a < b
  OBVIOUS

LEMMA TimesCommutes ==
  \A a, b \in Int : a * b = b * a /\ a * b \in Int
  OBVIOUS

(* Where a quotient lies.                                                   *)
LEMMA QuotientBounds ==
  ASSUME NEW a \in Int, NEW b \in Nat \ {0}
  PROVE  /\ Quotient(a, b) \in Int
         /\ a >= 0 => /\ 0 <= Quotient(a, b)
                      /\ b * Quotient(a, b) <= a /\ a < b * Quotient(a, b) + b
         /\ Quotient(-a, b) = -Quotient(a, b)
<1>1. ASSUME NEW c \in Int, c >= 0
      PROVE  Quotient(c, b) \in Int /\ 0 <= Quotient(c, b)
             /\ b * Quotient(c, b) <= c /\ c < b * Quotient(c, b) + b
  <2>1. Quotient(c, b) = c \div b
    BY <1>1 DEF Quotient
  <2>2. /\ c \div b \in Int /\ b * (c \div b) <= c /\ c < b * (c \div b) + b
    BY DivBounds
  <2>3. 0 <= c \div b
    <3>1. SUFFICES ASSUME c \div b <= -1 PROVE FALSE
      BY <2>2
    <3>2. b * (c \div b) <= b * (-1)
      BY <2>2, <3>1, TimesMono
    <3> QED
      BY <1>1, <2>2, <3>2
  <2> QED
    BY <2>1, <2>2, <2>3
<1>2. Quotient(-a, b) = -Quotient(a, b)
  <2>1. CASE a > 0
    BY <2>1 DEF Quotient
  <2>2. CASE a < 0
    <3>1. Quotient(-a, b) = (-a) \div b /\ Quotient(a, b) = -((-a) \div b)
      BY <2>2 DEF Quotient
    <3>2. (-a) \div b \in Int
      BY DivBounds
    <3> QED
      BY <3>1, <3>2
  <2>3. CASE a = 0
    <3>1. Quotient(0, b) \in Int /\ 0 <= Quotient(0, b) /\ b * Quotient(0, b) <= 0
      BY <1>1
    <3>2. Quotient(0, b) = 0
      <4>1. SUFFICES ASSUME Quotient(0, b) >= 1 PROVE FALSE
        BY <3>1
      <4>2. b * 1 <= b * Quotient(0, b)
        BY <3>1, <4>1, TimesMono
      <4> QED
        BY <3>1, <4>2
    <3> QED
      BY <2>3, <3>2
  <2> QED
    BY <2>1, <2>2, <2>3
<1>3. Quotient(a, b) \in Int
  <2>1. CASE a >= 0
    BY <1>1, <2>1
  <2>2. CASE a < 0
    <3>1. Quotient(-a, b) \in Int
      BY <1>1, <2>2
    <3>2. Quotient(a, b) = -Quotient(-a, b)
      BY <2>2 DEF Quotient
    <3> QED
      BY <3>1, <3>2
  <2> QED
    BY <2>1, <2>2
<1> QED
  BY <1>1, <1>2, <1>3

------------------------------------------------------------------------------
(* Slices of an amount.                                                     *)

Slices(gross, shares) == [j \in DOMAIN shares |-> Slice(gross, shares[j])]

\* Shares that are the parts of a whole.
IsWhole(shares) ==
  Summable(shares) /\ (\A j \in DOMAIN shares : shares[j] >= 0) /\ Total(shares) = Scale

LEMMA SliceBounds ==
  ASSUME NEW g \in Int, NEW s \in Int
  PROVE  /\ Slice(g, s) \in Int
         /\ g >= 0 /\ s >= 0 => /\ 0 <= Slice(g, s)
                                /\ Scale * Slice(g, s) <= g * s
                                /\ g * s < Scale * Slice(g, s) + Scale
         /\ Slice(-g, s) = -Slice(g, s)
<1>1. g * s \in Int /\ (-g) * s = -(g * s) /\ Scale \in Nat \ {0}
  BY ScaleAssumption
<1>2. g >= 0 /\ s >= 0 => g * s >= 0
  <2>1. g >= 0 /\ s >= 0 => g * 0 <= g * s
    BY TimesMono
  <2> QED
    BY <1>1, <2>1
<1> DEFINE gs == g * s
<1>3. /\ Quotient(gs, Scale) \in Int
      /\ gs >= 0 => /\ 0 <= Quotient(gs, Scale)
                    /\ Scale * Quotient(gs, Scale) <= gs
                    /\ gs < Scale * Quotient(gs, Scale) + Scale
      /\ Quotient(-gs, Scale) = -Quotient(gs, Scale)
  <2> HIDE DEF gs
  <2>1. gs \in Int
    BY <1>1 DEF gs
  <2> QED
    BY <1>1, <2>1, QuotientBounds
<1>4. Slice(g, s) = Quotient(gs, Scale) /\ Slice(-g, s) = Quotient(-gs, Scale)
  BY <1>1 DEF Slice
<1> HIDE DEF gs
<1>5. g >= 0 /\ s >= 0 => gs >= 0
  BY <1>2 DEF gs
<1>6. gs = g * s
  BY DEF gs
<1> QED
  BY <1>3, <1>4, <1>5, <1>6

LEMMA SlicesSummable ==
  ASSUME NEW g \in Int, NEW shares, Summable(shares)
  PROVE  /\ DOMAIN Slices(g, shares) = DOMAIN shares
         /\ Summable(Slices(g, shares))
         /\ \A j \in DOMAIN shares : Slices(g, shares)[j] = Slice(g, shares[j])
  BY SliceBounds DEF Summable, Slices

(* The slices of an amount that is not negative do not exceed it.           *)
LEMMA SlicesUpTo ==
  ASSUME NEW g \in Nat, NEW shares, IsWhole(shares), NEW S \in SUBSET DOMAIN shares
  PROVE  0 <= Over(Slices(g, shares), S) /\ Over(Slices(g, shares), S) <= g
<1> DEFINE slices == Slices(g, shares)
           scaled == [j \in DOMAIN shares |-> Scale * slices[j]]
           exact == [j \in DOMAIN shares |-> g * shares[j]]
           D == DOMAIN shares
<1>1. Summable(shares) /\ Scale \in Int /\ Scale >= 1
  BY ScaleAssumption DEF IsWhole
<1>2. DOMAIN slices = D /\ Summable(slices)
  BY <1>1, SlicesSummable
<1>3. \A j \in D : /\ slices[j] \in Int /\ shares[j] \in Int /\ shares[j] >= 0
                   /\ slices[j] >= 0 /\ Scale * slices[j] <= g * shares[j]
  <2> SUFFICES ASSUME NEW j \in D
               PROVE  /\ slices[j] \in Int /\ shares[j] \in Int /\ shares[j] >= 0
                      /\ slices[j] >= 0 /\ Scale * slices[j] <= g * shares[j]
    OBVIOUS
  <2>1. shares[j] \in Int /\ shares[j] >= 0
    BY DEF IsWhole, Summable
  <2>2. slices[j] = Slice(g, shares[j])
    BY <1>1, SlicesSummable
  <2>3. /\ Slice(g, shares[j]) \in Int /\ 0 <= Slice(g, shares[j])
        /\ Scale * Slice(g, shares[j]) <= g * shares[j]
    <3> HIDE DEF slices, scaled, exact, D
    <3>1. g \in Int /\ g >= 0
      OBVIOUS
    <3> QED
      BY <2>1, <3>1, SliceBounds
  <2> HIDE DEF slices
  <2> QED
    BY <2>1, <2>2, <2>3
<1> HIDE DEF slices
<1>4. IsFiniteSet(D)
  BY <1>1 DEF Summable
<1>5. Summable(scaled) /\ Summable(exact)
  <2>1. \A j \in D : Scale * slices[j] \in Int /\ g * shares[j] \in Int
    BY <1>1, <1>3, TimesCommutes
  <2> QED
    BY <1>4, <2>1 DEF Summable
<1>6. /\ DOMAIN scaled = D /\ DOMAIN exact = D
      /\ \A j \in D : /\ scaled[j] = Scale * slices[j] /\ exact[j] = g * shares[j]
                      /\ scaled[j] <= exact[j]
  BY <1>3
<1> HIDE DEF scaled, exact
<1>7. D \in SUBSET D
  OBVIOUS
<1>8. Over(scaled, D) <= Over(exact, D)
  BY <1>5, <1>6, <1>7, OverMonotone
<1>9. Over(scaled, D) = Scale * Over(slices, D)
  BY <1>1, <1>2, <1>5, <1>6, <1>7, OverTimes
<1>10. Over(exact, D) = g * Over(shares, D)
  BY <1>1, <1>5, <1>6, <1>7, OverTimes
<1>11. Over(shares, D) = Scale
  BY OverAll DEF IsWhole
<1>12. Over(slices, D) <= g
  <2>1. Scale * Over(slices, D) <= Scale * g /\ Over(slices, D) \in Int
    BY <1>1, <1>2, <1>7, <1>8, <1>9, <1>10, <1>11, TimesCommutes, OverInt
  <2>2. ~(Scale * g < Scale * Over(slices, D))
    BY <1>1, <2>1, TimesCommutes
  <2> QED
    BY <1>1, <2>1, <2>2, TimesCancel
<1>13. {} \in SUBSET S /\ S \in SUBSET D /\ {} \in SUBSET D
  OBVIOUS
<1>14. \A R \in SUBSET D : \A Q \in SUBSET R : Over(slices, Q) <= Over(slices, R)
  BY <1>2, <1>3, OverPart
<1>15. 0 <= Over(slices, S)
  BY <1>2, <1>13, <1>14, OverNone
<1>16. Over(slices, S) <= Over(slices, D)
  BY <1>7, <1>14
<1>17. Over(slices, S) \in Int /\ Over(slices, D) \in Int
  BY <1>2, <1>7, OverInt
<1> QED
  BY <1>12, <1>15, <1>16, <1>17 DEF slices

\* Between nothing and the whole, whichever sign that has.
Within(n, whole) ==
  n \in Int /\ (whole >= 0 => 0 <= n /\ n <= whole) /\ (whole <= 0 => whole <= n /\ n <= 0)

(* The slices of an amount stay within it, some of them as well as all.     *)
LEMMA SlicesWithin ==
  ASSUME NEW g \in Int, NEW shares, IsWhole(shares), NEW S \in SUBSET DOMAIN shares
  PROVE  Within(Over(Slices(g, shares), S), g)
<1> DEFINE slices == Slices(g, shares)
           mirror == Slices(-g, shares)
<1>1. Summable(shares) /\ g \in Int /\ -g \in Int
  BY DEF IsWhole
<1>2. DOMAIN slices = DOMAIN shares /\ Summable(slices)
  BY <1>1, SlicesSummable
<1>3. DOMAIN mirror = DOMAIN shares /\ Summable(mirror)
  BY <1>1, SlicesSummable
<1>4. \A j \in DOMAIN shares : mirror[j] = (-1) * slices[j]
  <2> SUFFICES ASSUME NEW j \in DOMAIN shares PROVE mirror[j] = (-1) * slices[j]
    OBVIOUS
  <2>1. slices[j] = Slice(g, shares[j]) /\ mirror[j] = Slice(-g, shares[j])
    BY <1>1, SlicesSummable
  <2>2. shares[j] \in Int
    BY <1>1 DEF Summable
  <2>3. Slice(g, shares[j]) \in Int /\ Slice(-g, shares[j]) = -Slice(g, shares[j])
    BY <2>2, SliceBounds
  <2> HIDE DEF slices, mirror
  <2> QED
    BY <2>1, <2>3
<1> HIDE DEF slices, mirror
<1>5. -1 \in Int /\ S \in SUBSET DOMAIN slices /\ Over(slices, S) \in Int
  BY <1>2, OverInt
<1>6. Over(mirror, S) = (-1) * Over(slices, S)
  BY <1>2, <1>3, <1>4, <1>5, OverTimes
<1>7. g >= 0 => 0 <= Over(slices, S) /\ Over(slices, S) <= g
  BY SlicesUpTo DEF slices
<1>8. g <= 0 => 0 <= Over(mirror, S) /\ Over(mirror, S) <= -g
  <2>1. g <= 0 => -g \in Nat
    BY <1>1
  <2> QED
    BY <2>1, SlicesUpTo DEF mirror
<1> QED
  BY <1>1, <1>5, <1>6, <1>7, <1>8 DEF Within, slices

(* What the slices lack of the amount is less than a cent per line.  The    *)
(* lines but one are short of their exact shares by that much.              *)
LEMMA SlicesShort ==
  ASSUME NEW g \in Nat, NEW shares, IsWhole(shares), NEW t \in DOMAIN shares
  PROVE  LET slices == Slices(g, shares)
             lead == (slices[t] + g - Total(slices)) * Scale - g * shares[t]
         IN  /\ Total(slices) \in Int /\ Cardinality(DOMAIN shares) \in Nat \ {0}
             /\ 0 <= lead /\ lead <= (Scale - 1) * (Cardinality(DOMAIN shares) - 1)
<1> DEFINE slices == Slices(g, shares)
           D == DOMAIN shares
           scaled == [j \in D |-> Scale * slices[j]]
           exact == [j \in D |-> g * shares[j]]
           short == [j \in D |-> g * shares[j] - Scale * slices[j]]
           lead == (slices[t] + g - Total(slices)) * Scale - g * shares[t]
           others == D \ {t}
<1>1. Summable(shares) /\ Scale \in Int /\ Scale >= 1 /\ g \in Int
  BY ScaleAssumption DEF IsWhole
<1>2. DOMAIN slices = D /\ Summable(slices)
  BY <1>1, SlicesSummable
<1>3. ASSUME NEW j \in D
      PROVE  /\ slices[j] \in Int /\ shares[j] \in Int
             /\ Scale * slices[j] \in Int /\ g * shares[j] \in Int
             /\ 0 <= g * shares[j] - Scale * slices[j]
             /\ g * shares[j] - Scale * slices[j] <= Scale - 1
  <2>1. shares[j] \in Int /\ shares[j] >= 0
    BY DEF IsWhole, Summable
  <2>2. slices[j] = Slice(g, shares[j])
    BY <1>1, SlicesSummable
  <2>3. /\ Slice(g, shares[j]) \in Int /\ Scale * Slice(g, shares[j]) <= g * shares[j]
        /\ g * shares[j] < Scale * Slice(g, shares[j]) + Scale
    <3> HIDE DEF slices, scaled, exact, short, lead, others, D
    <3>1. g \in Int /\ g >= 0
      OBVIOUS
    <3> QED
      BY <2>1, <3>1, SliceBounds
  <2>4. Scale * Slice(g, shares[j]) \in Int /\ g * shares[j] \in Int
    BY <1>1, <2>1, <2>3, TimesCommutes
  <2> HIDE DEF slices
  <2> QED
    BY <1>1, <2>1, <2>2, <2>3, <2>4
<1> HIDE DEF slices
<1>4. IsFiniteSet(D)
  BY <1>1 DEF Summable
<1>5. Summable(scaled) /\ Summable(exact) /\ Summable(short)
  BY <1>3, <1>4 DEF Summable
<1>6. /\ DOMAIN scaled = D /\ DOMAIN exact = D /\ DOMAIN short = D
      /\ \A j \in D : /\ scaled[j] = Scale * slices[j] /\ exact[j] = g * shares[j]
                      /\ short[j] \in Int /\ scaled[j] \in Int /\ exact[j] \in Int
                      /\ 0 <= short[j] /\ short[j] <= Scale - 1
                      /\ short[j] = g * shares[j] - Scale * slices[j]
                      /\ exact[j] = scaled[j] + short[j]
  BY <1>3
<1> HIDE DEF scaled, exact, short
<1>7. D \in SUBSET D /\ others \in SUBSET D /\ {} \in SUBSET others
  OBVIOUS
<1> HIDE DEF lead
<1>8. DOMAIN scaled = D /\ \A j \in D : scaled[j] = Scale * slices[j]
  BY <1>6
<1>9. DOMAIN exact = D /\ \A j \in D : exact[j] = g * shares[j]
  BY <1>6
<1>10. DOMAIN short = D /\ (\A j \in D : exact[j] = scaled[j] + short[j])
  BY <1>6
<1>11. \A j \in D : short[j] >= 0 /\ short[j] <= Scale - 1
  BY <1>6
<1>12. Over(exact, D) = Over(scaled, D) + Over(short, D)
  BY <1>5, <1>8, <1>9, <1>10, <1>7, OverPlus
<1>13. Over(scaled, D) = Scale * Over(slices, D)
  BY <1>1, <1>2, <1>5, <1>8, <1>7, OverTimes
<1>14. Over(exact, D) = g * Over(shares, D)
  BY <1>1, <1>5, <1>9, <1>7, OverTimes
<1>15. Over(shares, D) = Scale
  BY OverAll DEF IsWhole
<1>16. Over(short, D) = short[t] + Over(short, others) /\ Over(short, others) \in Int
  BY <1>5, <1>10, <1>7, OverMore
<1>17. Over(short, others) >= 0
  <2>1. Over(short, {}) <= Over(short, others)
    BY <1>5, <1>10, <1>11, <1>7, OverPart
  <2> QED
    BY <1>5, <2>1, OverNone
<1>18. Over(short, others) <= (Scale - 1) * Cardinality(others)
  BY <1>1, <1>5, <1>10, <1>11, <1>7, OverAtMost
<1>19. Cardinality(others) = Cardinality(D) - 1 /\ Cardinality(D) \in Nat \ {0}
  <2>1. Cardinality(D) \in Nat /\ Cardinality(others) = Cardinality(D) - 1
    BY <1>4, FS_CardinalityType, FS_RemoveElement
  <2>2. Cardinality(others) \in Nat
    BY <1>4, <1>7, FS_Subset, FS_CardinalityType
  <2> QED
    BY <2>1, <2>2
<1>20. Total(slices) = Over(slices, D) /\ Over(slices, D) \in Int
  BY <1>2, <1>7, OverAll, OverInt
<1>21. lead = Over(short, others)
  <2> DEFINE total == Over(slices, D)
             slice == slices[t]
             share == shares[t]
  <2>1. total \in Int /\ slice \in Int /\ share \in Int
    BY <1>3, <1>20
  <2>2. g * Scale = Scale * total + (g * share - Scale * slice) + Over(short, others)
    BY <1>1, <1>6, <1>12, <1>13, <1>14, <1>15, <1>16, <1>20, TimesCommutes
  <2>3. lead = (slice + g - total) * Scale - g * share
    BY <1>20 DEF lead
  <2> HIDE DEF total, slice, share
  <2>4. lead = slice * Scale + g * Scale - total * Scale - g * share
    BY <1>1, <2>1, <2>3
  <2> QED
    BY <1>1, <1>16, <2>1, <2>2, <2>4
<1> QED
  BY <1>17, <1>18, <1>19, <1>20, <1>21 DEF slices, lead

------------------------------------------------------------------------------
(* The line that takes the remainder.                                       *)

\* Shares and roles of lines at the positions D.
Ranked(D, shares, roles) ==
  IsFiniteSet(D) /\ D \subseteq Int /\ shares \in [D -> Int] /\ roles \in [D -> Int]

\* Line t keeps the remainder against line j.
Keeps(shares, roles, t, j) ==
  Outranks(shares, roles, t, j) \/ (~Outranks(shares, roles, j, t) /\ t < j)

Leader(D, shares, roles, t) == t \in D /\ \A j \in D \ {t} : Keeps(shares, roles, t, j)

LEMMA KeepsOrders ==
  ASSUME NEW D, NEW shares, NEW roles, Ranked(D, shares, roles),
         NEW a \in D, NEW b \in D
  PROVE  /\ a # b => Keeps(shares, roles, a, b) \/ Keeps(shares, roles, b, a)
         /\ a # b => ~(Keeps(shares, roles, a, b) /\ Keeps(shares, roles, b, a))
         /\ \A c \in D : Keeps(shares, roles, a, b) /\ Keeps(shares, roles, b, c)
                              => Keeps(shares, roles, a, c)
<1>1. \A d \in D : shares[d] \in Int /\ roles[d] \in Int /\ d \in Int
  BY DEF Ranked
<1> QED
  BY <1>1 DEF Keeps, Outranks

(* There is one, and CHOOSE finds it.                                       *)
LEMMA LeaderUnique ==
  ASSUME NEW D, NEW shares, NEW roles, Ranked(D, shares, roles),
         NEW t, Leader(D, shares, roles, t)
  PROVE  t = Residual(shares, roles)
<1>1. DOMAIN shares = D
  BY DEF Ranked
<1> DEFINE Best(u) == \A j \in DOMAIN shares \ {u} :
             Outranks(shares, roles, u, j) \/ (~Outranks(shares, roles, j, u) /\ u < j)
<1>2. \A u \in DOMAIN shares : Best(u) <=> Leader(D, shares, roles, u)
  BY <1>1 DEF Leader, Keeps
<1>3. ASSUME NEW u \in D, Leader(D, shares, roles, u) PROVE u = t
  <2>1. t \in D /\ (u # t => Keeps(shares, roles, u, t) /\ Keeps(shares, roles, t, u))
    BY <1>3 DEF Leader
  <2> QED
    BY <2>1, KeepsOrders
<1>4. Residual(shares, roles) = CHOOSE u \in DOMAIN shares : Best(u)
  BY DEF Residual
<1> HIDE DEF Best
<1>5. t \in DOMAIN shares /\ Best(t)
  BY <1>1, <1>2 DEF Leader
<1>6. Residual(shares, roles) \in DOMAIN shares /\ Best(Residual(shares, roles))
  BY <1>4, <1>5
<1> QED
  BY <1>1, <1>2, <1>3, <1>6

LEMMA ResidualLeads ==
  ASSUME NEW D, NEW shares, NEW roles, Ranked(D, shares, roles), D # {}
  PROVE  Leader(D, shares, roles, Residual(shares, roles))
<1> DEFINE Led(S) == \E t \in S : \A j \in S \ {t} : Keeps(shares, roles, t, j)
           T == {S \in SUBSET D : S # {} => Led(S)}
<1>1. {} \in T
  OBVIOUS
<1>2. ASSUME NEW S \in SUBSET D, S # {}, \A x \in S : S \ {x} \in T PROVE S \in T
  <2>1. PICK x \in S : S \ {x} \in T
    BY <1>2
  <2>2. CASE S \ {x} = {}
    BY <2>2
  <2>3. CASE S \ {x} # {}
    <3>1. PICK t \in S \ {x} : \A j \in (S \ {x}) \ {t} : Keeps(shares, roles, t, j)
      BY <2>1, <2>3
    <3>2. CASE Keeps(shares, roles, t, x)
      BY <3>1, <3>2
    <3>3. CASE ~Keeps(shares, roles, t, x)
      <4>1. Keeps(shares, roles, x, t)
        BY <3>1, <3>3, KeepsOrders
      <4>2. ASSUME NEW j \in S \ {x} PROVE Keeps(shares, roles, x, j)
        <5>1. j = t \/ Keeps(shares, roles, t, j)
          BY <3>1
        <5>2. j \in D /\ t \in D /\ x \in D
          OBVIOUS
        <5> HIDE DEF T
        <5> QED
          BY <4>1, <5>1, <5>2, KeepsOrders
      <4> QED
        BY <4>2
    <3> QED
      BY <3>2, <3>3
  <2> QED
    BY <2>2, <2>3
<1> HIDE DEF Led
<1>3. IsFiniteSet(D) /\ D \in SUBSET D
  BY DEF Ranked
<1>4. SUBSET D \subseteq T
  <2> HIDE DEF T
  <2> QED
    BY <1>1, <1>2, <1>3, Growing, Zenon
<1>5. Led(D)
  BY <1>3, <1>4
<1>6. PICK t : Leader(D, shares, roles, t)
  BY <1>5 DEF Led, Leader
<1> QED
  BY <1>6, LeaderUnique

------------------------------------------------------------------------------
(* The split.                                                               *)

LEMMA RankedSummable ==
  ASSUME NEW D, NEW shares, NEW roles, Ranked(D, shares, roles)
  PROVE  Summable(shares) /\ DOMAIN shares = D
<1>1. DOMAIN shares = D /\ \A j \in D : shares[j] \in Int
  BY DEF Ranked
<1> QED
  BY <1>1 DEF Summable, Ranked

(* Not a cent is created or lost, for any shares.                           *)
LEMMA SplitSums ==
  ASSUME NEW D, NEW shares, NEW roles, Ranked(D, shares, roles), D # {}, NEW g \in Int
  PROVE  /\ Residual(shares, roles) \in D
         /\ SplitCents(g, shares, roles) \in [D -> Int]
         /\ Summable(SplitCents(g, shares, roles))
         /\ Total(SplitCents(g, shares, roles)) = g
<1> DEFINE slices == [j \in DOMAIN shares |-> Slice(g, shares[j])]
           t == Residual(shares, roles)
           split == [slices EXCEPT ![t] = @ + g - Total(slices)]
<1>1. Summable(shares) /\ DOMAIN shares = D
  BY RankedSummable
<1>2. slices = Slices(g, shares)
  BY DEF Slices
<1>3. Summable(slices) /\ DOMAIN slices = D
  BY <1>1, <1>2, SlicesSummable
<1>4. t \in D
  BY ResidualLeads DEF Leader
<1>5. SplitCents(g, shares, roles) = split
  BY <1>1, <1>4 DEF SplitCents
<1> HIDE DEF slices, t
<1>6. Total(slices) \in Int /\ slices[t] \in Int
  BY <1>3, <1>4, TotalIsInt DEF Summable
<1>7. /\ DOMAIN split = DOMAIN slices /\ split[t] = slices[t] + g - Total(slices)
      /\ \A y \in DOMAIN slices \ {t} : split[y] = slices[y]
  BY <1>3, <1>4
<1> HIDE DEF split
<1>8. slices[t] + g - Total(slices) \in Int
  BY <1>6
<1>9. Summable(split) /\ Total(split) = Total(slices) - slices[t] + (slices[t] + g - Total(slices))
  BY <1>3, <1>4, <1>7, <1>8, TotalChanged
<1>10. Total(split) = g
  BY <1>6, <1>9
<1>11. split \in [D -> Int]
  <2>1. split = [y \in DOMAIN split |-> split[y]]
    BY <1>5 DEF split
  <2>2. \A y \in D : split[y] \in Int
    BY <1>3, <1>7, <1>9 DEF Summable
  <2> QED
    BY <1>3, <1>7, <2>1, <2>2
<1> QED
  BY <1>4, <1>5, <1>9, <1>10, <1>11 DEF t

\* The positions E matched one to one with the positions D.
Matches(p, E, D) ==
  /\ p \in [E -> D]
  /\ \A a, b \in E : p[a] = p[b] => a = b
  /\ \A b \in D : \E a \in E : p[a] = b

(* Lines that do not tie get the same wherever they stand.                  *)
LEMMA SplitMatched ==
  ASSUME NEW D, NEW shares, NEW roles, Ranked(D, shares, roles), D # {}, NEW g \in Int,
         \A a, b \in D : shares[a] = shares[b] /\ roles[a] = roles[b] => a = b,
         NEW E, NEW shares2, NEW roles2, Ranked(E, shares2, roles2),
         NEW p, Matches(p, E, D),
         \A j \in E : shares2[j] = shares[p[j]] /\ roles2[j] = roles[p[j]]
  PROVE  SplitCents(g, shares2, roles2) = [j \in E |-> SplitCents(g, shares, roles)[p[j]]]
<1> DEFINE slices == [j \in DOMAIN shares |-> Slice(g, shares[j])]
           slices2 == [j \in DOMAIN shares2 |-> Slice(g, shares2[j])]
           t == Residual(shares, roles)
           t2 == Residual(shares2, roles2)
<1>1. E # {}
  BY DEF Matches
<1>2. Summable(shares) /\ Summable(shares2) /\ DOMAIN shares = D /\ DOMAIN shares2 = E
  BY RankedSummable
<1>3. /\ Summable(slices) /\ DOMAIN slices = D
      /\ Summable(slices2) /\ DOMAIN slices2 = E
  <2>1. slices = Slices(g, shares) /\ slices2 = Slices(g, shares2)
    BY DEF Slices
  <2> HIDE DEF slices, slices2
  <2>2. Summable(slices) /\ DOMAIN slices = D
    BY <1>2, <2>1, SlicesSummable
  <2>3. Summable(slices2) /\ DOMAIN slices2 = E
    BY <1>2, <2>1, SlicesSummable
  <2> QED
    BY <2>2, <2>3
<1>4. \A j \in E : p[j] \in D /\ slices2[j] = slices[p[j]]
  BY <1>2 DEF Matches
<1>5. Total(slices2) = Total(slices)
  <2>1. p \in [DOMAIN slices2 -> DOMAIN slices]
    BY <1>3 DEF Matches
  <2> HIDE DEF slices, slices2
  <2>2. \A a, b \in DOMAIN slices2 : p[a] = p[b] => a = b
    BY <1>3 DEF Matches
  <2>3. \A b \in DOMAIN slices : \E a \in DOMAIN slices2 : p[a] = b
    BY <1>3 DEF Matches
  <2>4. \A a \in DOMAIN slices2 : slices2[a] = slices[p[a]]
    BY <1>3, <1>4
  <2> QED
    BY ONLY <1>3, <2>1, <2>2, <2>3, <2>4, TotalPermuted
<1>6. Leader(D, shares, roles, t) /\ Leader(E, shares2, roles2, t2)
  BY <1>1, ResidualLeads
<1>7. t2 \in E /\ p[t2] \in D
  BY <1>4, <1>6 DEF Leader
<1>8. p[t2] = t
  <2>1. SUFFICES Leader(D, shares, roles, p[t2])
    BY <2>1, LeaderUnique
  <2>2. SUFFICES ASSUME NEW j \in D, j # p[t2] PROVE Keeps(shares, roles, p[t2], j)
    BY <1>7 DEF Leader
  <2>3. PICK i \in E : p[i] = j
    BY DEF Matches
  <2>4. Keeps(shares2, roles2, t2, i)
    BY <1>6, <2>2, <2>3 DEF Leader
  <2>5. /\ shares2[t2] = shares[p[t2]] /\ roles2[t2] = roles[p[t2]]
        /\ shares2[i] = shares[j] /\ roles2[i] = roles[j]
    BY <1>7, <2>3
  <2>6. shares[p[t2]] # shares[j] \/ roles[p[t2]] # roles[j]
    BY <1>7, <2>2
  <2>7. /\ shares[p[t2]] \in Int /\ shares[j] \in Int
        /\ roles[p[t2]] \in Int /\ roles[j] \in Int
    BY <1>7 DEF Ranked
  <2> HIDE DEF t2
  <2>8. CASE shares[p[t2]] # shares[j]
    BY <2>4, <2>5, <2>7, <2>8 DEF Keeps, Outranks
  <2>9. CASE roles[p[t2]] # roles[j]
    BY <2>4, <2>5, <2>7, <2>9 DEF Keeps, Outranks
  <2> QED
    BY <2>6, <2>8, <2>9
<1> HIDE DEF slices, slices2, t, t2
<1>9. SplitCents(g, shares, roles) = [slices EXCEPT ![t] = @ + g - Total(slices)]
  BY <1>2, <1>7 DEF SplitCents, slices, t
<1>10. SplitCents(g, shares2, roles2) = [slices2 EXCEPT ![t2] = @ + g - Total(slices2)]
  BY <1>2, <1>7 DEF SplitCents, slices2, t2
<1>11. \A j \in E : p[j] = t <=> j = t2
  BY <1>7, <1>8 DEF Matches
<1> DEFINE here == [slices EXCEPT ![t] = @ + g - Total(slices)]
           there == [slices2 EXCEPT ![t2] = @ + g - Total(slices2)]
<1>12. DOMAIN there = E /\ there = [j \in E |-> there[j]]
  BY <1>3
<1>13. ASSUME NEW j \in E PROVE there[j] = here[p[j]]
  <2>1. CASE j = t2
    BY <1>3, <1>4, <1>5, <1>7, <1>8, <2>1
  <2>2. CASE j # t2
    BY <1>3, <1>4, <1>11, <2>2
  <2> QED
    BY <2>1, <2>2
<1> HIDE DEF here, there
<1>14. there = [j \in E |-> here[p[j]]]
  BY <1>12, <1>13
<1> QED
  BY <1>9, <1>10, <1>14 DEF here, there

------------------------------------------------------------------------------
(* Texts.                                                                   *)

DecimalText == Int \cup {BadDecimal}

LEMMA DivExact ==
  ASSUME NEW n \in Int, NEW b \in Nat \ {0}
  PROVE  (n * b) \div b = n
<1> DEFINE q == (n * b) \div b
<1>1. n * b \in Int /\ b * n = n * b
  OBVIOUS
<1>2. q \in Int /\ b * q <= n * b /\ n * b < b * q + b
  BY <1>1, DivBounds
<1>3. b * (q + 1) = b * q + b
  BY <1>2, Distributes
<1> HIDE DEF q
<1>4. b * n < b * (q + 1) /\ b * q < b * (n + 1)
  <2>1. b * (n + 1) = b * n + b
    BY Distributes
  <2> QED
    BY <1>1, <1>2, <1>3, <2>1
<1>5. n < q + 1 /\ q < n + 1
  BY <1>2, <1>4, TimesCancel
<1> QED
  BY <1>2, <1>5 DEF q

(* A text without excess digits is read as the number it was made from.     *)
LEMMA ParseOfText ==
  ASSUME NEW n \in Int
  PROVE  Text(n) \in Int /\ Text(n) # BadDecimal /\ Parse(Text(n)) = n
<1>1. Finer \in Nat \ {0} /\ n * Finer \in Int /\ -(n * Finer) = (-n) * Finer
  BY ScaleAssumption
<1>2. Text(n) \in Int /\ Text(n) # BadDecimal
  BY <1>1, ScaleAssumption DEF Text
<1>3. (n * Finer) \div Finer = n /\ ((-n) * Finer) \div Finer = -n
  BY <1>1, DivExact
<1> QED
  BY <1>1, <1>2, <1>3 DEF Parse, Quotient, Text

LEMMA ParseInt ==
  ASSUME NEW t \in DecimalText, t # BadDecimal
  PROVE  t \in Int /\ Parse(t) \in Int
  BY QuotientBounds, ScaleAssumption DEF DecimalText, Parse

------------------------------------------------------------------------------
(* Groups.                                                                  *)

\* The arguments to which a key is given.
Keyed(f, key, group) == {x \in DOMAIN f : key[x] = group}

(* A total over two parts is the sum of the totals over each.               *)
LEMMA OverUnion ==
  ASSUME NEW f, Summable(f), NEW A \in SUBSET DOMAIN f, NEW B \in SUBSET DOMAIN f,
         A \cap B = {}
  PROVE  Over(f, A \cup B) = Over(f, A) + Over(f, B)
<1> DEFINE T == {S \in SUBSET B : Over(f, A \cup S) = Over(f, A) + Over(f, S)}
<1>1. {} \in T
  <2>1. A \cup {} = A /\ Over(f, {}) = 0 /\ Over(f, A) \in Int
    BY OverNone, OverInt
  <2> QED
    BY <2>1
<1>2. ASSUME NEW S \in SUBSET B, S # {}, \A x \in S : S \ {x} \in T PROVE S \in T
  <2>1. PICK x \in S : Over(f, A \cup (S \ {x})) = Over(f, A) + Over(f, S \ {x})
    BY <1>2
  <2>2. A \cup S \in SUBSET DOMAIN f /\ S \in SUBSET DOMAIN f /\ x \in A \cup S
        /\ (A \cup S) \ {x} = A \cup (S \ {x})
    OBVIOUS
  <2>3. Over(f, A \cup S) = f[x] + Over(f, A \cup (S \ {x}))
    BY <2>2, OverMore
  <2>4. Over(f, S) = f[x] + Over(f, S \ {x}) /\ Over(f, S \ {x}) \in Int /\ f[x] \in Int
    BY <2>2, OverMore
  <2>5. Over(f, A) \in Int
    BY OverInt
  <2> QED
    BY <2>1, <2>3, <2>4, <2>5
<1> HIDE DEF T
<1>3. IsFiniteSet(B)
  BY FS_Subset DEF Summable
<1>4. SUBSET B \subseteq T
  BY <1>1, <1>2, <1>3, Growing, Zenon
<1> QED
  BY <1>4 DEF T

LEMMA TotalOver ==
  ASSUME NEW f, Summable(f), NEW S \in SUBSET DOMAIN f
  PROVE  /\ Summable([x \in S |-> f[x]])
         /\ Total([x \in S |-> f[x]]) = Over(f, S)
<1> DEFINE g == [x \in S |-> f[x]]
<1>1. DOMAIN g = S /\ \A x \in S : g[x] = f[x]
  OBVIOUS
<1>2. Summable(g)
  BY FS_Subset DEF Summable
<1> HIDE DEF g
<1>3. Total(g) = Over(g, S) /\ Over(g, S) = Over(f, S)
  BY <1>1, <1>2, OverAll, OverSame
<1> QED
  BY <1>2, <1>3 DEF g

(* A total is the total of the totals of its groups.                        *)
LEMMA TotalGrouped ==
  ASSUME NEW f, Summable(f), NEW M, IsFiniteSet(M), NEW key \in [DOMAIN f -> M],
         NEW h, DOMAIN h = M,
         \A m \in M : h[m] = Total([x \in Keyed(f, key, m) |-> f[x]])
  PROVE  Total(h) = Total(f)
<1> DEFINE Of(N) == {x \in DOMAIN f : key[x] \in N}
           T == {N \in SUBSET M : Over(h, N) = Over(f, Of(N))}
<1>1. ASSUME NEW m \in M PROVE h[m] = Over(f, Keyed(f, key, m)) /\ h[m] \in Int
  <2>1. Keyed(f, key, m) \in SUBSET DOMAIN f
    BY DEF Keyed
  <2>2. /\ Total([x \in Keyed(f, key, m) |-> f[x]]) = Over(f, Keyed(f, key, m))
        /\ Over(f, Keyed(f, key, m)) \in Int
    BY <2>1, TotalOver, OverInt
  <2> QED
    BY <2>2
<1>2. Summable(h)
  BY <1>1 DEF Summable
<1>3. {} \in T
  <2>1. Of({}) = {}
    OBVIOUS
  <2> QED
    BY <1>2, <2>1, OverNone
<1>4. ASSUME NEW N \in SUBSET M, N # {}, \A m \in N : N \ {m} \in T PROVE N \in T
  <2>1. PICK m \in N : Over(h, N \ {m}) = Over(f, Of(N \ {m}))
    BY <1>4
  <2>2. Over(h, N) = h[m] + Over(h, N \ {m}) /\ Over(h, N \ {m}) \in Int /\ h[m] \in Int
    <3>1. N \in SUBSET DOMAIN h
      OBVIOUS
    <3> QED
      BY <1>2, <3>1, OverMore
  <2>3. /\ Of(N \ {m}) \in SUBSET DOMAIN f /\ Keyed(f, key, m) \in SUBSET DOMAIN f
        /\ Of(N \ {m}) \cap Keyed(f, key, m) = {}
        /\ Of(N) = Of(N \ {m}) \cup Keyed(f, key, m)
    BY DEF Keyed
  <2> HIDE DEF Of
  <2>4. Over(f, Of(N)) = Over(f, Of(N \ {m})) + Over(f, Keyed(f, key, m))
    BY <2>3, OverUnion
  <2>5. h[m] = Over(f, Keyed(f, key, m))
    BY <1>1
  <2> QED
    BY <2>1, <2>2, <2>4, <2>5
<1> HIDE DEF T
<1>5. SUBSET M \subseteq T
  BY <1>3, <1>4, Growing, Zenon
<1>6. M \in T
  BY <1>5
<1>7. Of(M) = DOMAIN f
  OBVIOUS
<1> HIDE DEF Of
<1> QED
  BY <1>6, <1>7, OverAll DEF T

------------------------------------------------------------------------------
(* Lists.                                                                   *)

LEMMA SequenceOf ==
  ASSUME NEW X, NEW list \in Seq(X)
  PROVE  /\ Len(list) \in Nat /\ DOMAIN list = 1..Len(list)
         /\ \A k \in DOMAIN list : list[k] \in X
  OBVIOUS
==============================================================================
