----------------------------- MODULE FoldLemmas -----------------------------
(* Induction and folds, for the proofs of the other modules.  A property to   *)
(* be proved by induction is given as the set of what has it.  A fold over a  *)
(* finite set is a function on its subsets; here are its existence, and the   *)
(* laws of sums.                                                              *)
EXTENDS Naturals, FiniteSetsExt, FiniteSetTheorems, WellFoundedInduction, TLAPS

-----------------------------------------------------------------------------
(* Induction.                                                                 *)

\* Every set of natural numbers that is not empty has a least one.
LEMMA LeastNumber ==
  ASSUME NEW T, T \subseteq Nat, T # {}
  PROVE  \E n \in T : \A m \in T : n <= m
<1> DEFINE R == {p \in Nat \X Nat : p[1] < p[2]}
<1>1. IsWellFoundedOn(R, Nat)
  BY NatLessThanWellFounded DEF OpToRel
<1> HIDE DEF R
<1>2. PICK n \in T : \A m \in T : ~(<<m, n>> \in R)
  BY <1>1, WFMin
<1>3. \A m \in T : ~(m < n)
  BY <1>2 DEF R
<1> QED
  BY <1>3

\* What holds of 0 and passes from each number to the next holds of all.
LEMMA Induction ==
  ASSUME NEW G, 0 \in G, \A n \in Nat : n \in G => n + 1 \in G
  PROVE  Nat \subseteq G
<1> SUFFICES ASSUME Nat \ G # {} PROVE FALSE
  OBVIOUS
<1>1. PICK n \in Nat \ G : \A m \in Nat \ G : n <= m
  BY LeastNumber
<1>2. n - 1 \in Nat /\ n - 1 \in G
  BY <1>1
<1> QED
  BY <1>1, <1>2

\* A property passes from the subsets without one of its elements to a set.
Inductive(S, G) == \A T \in SUBSET S : (\A x \in T : T \ {x} \in G) => T \in G

LEMMA SubsetInduction ==
  ASSUME NEW S, IsFiniteSet(S), NEW G, Inductive(S, G)
  PROVE  SUBSET S \subseteq G
<1> DEFINE Sizes == {n \in Nat : \A T \in SUBSET S : Cardinality(T) = n => T \in G}
<1>1. 0 \in Sizes
  BY FS_Subset, FS_EmptySet DEF Inductive
<1>2. ASSUME NEW n \in Nat, n \in Sizes
      PROVE  n + 1 \in Sizes
  <2> SUFFICES ASSUME NEW T \in SUBSET S, Cardinality(T) = n + 1
               PROVE  T \in G
    OBVIOUS
  <2>1. ASSUME NEW x \in T
        PROVE  T \ {x} \in G
    <3>1. IsFiniteSet(T)
      BY FS_Subset
    <3>2. Cardinality(T \ {x}) = Cardinality(T) - 1
      BY <2>1, <3>1, FS_RemoveElement
    <3> QED
      BY <1>2, <3>2
  <2> QED
    BY <2>1 DEF Inductive
<1> HIDE DEF Sizes
<1>3. Nat \subseteq Sizes
  BY <1>1, <1>2, Induction
<1>4. ASSUME NEW T \in SUBSET S
      PROVE  T \in G
  <2>1. Cardinality(T) \in Nat
    BY FS_Subset, FS_CardinalityType
  <2> QED
    BY <1>3, <2>1 DEF Sizes
<1> QED
  BY <1>4

\* A finite set of natural numbers that is not empty has a greatest one.
LEMMA GreatestNumber ==
  ASSUME NEW T, T \subseteq Nat, IsFiniteSet(T), T # {}
  PROVE  \E n \in T : \A m \in T : m <= n
<1> DEFINE G == {U \in SUBSET T : U # {} => \E n \in U : \A m \in U : m <= n}
<1>1. ASSUME NEW U \in SUBSET T, \A x \in U : U \ {x} \in G
      PROVE  U \in G
  <2> SUFFICES ASSUME U # {} PROVE \E n \in U : \A m \in U : m <= n
    OBVIOUS
  <2>1. PICK x \in U : TRUE
    OBVIOUS
  <2>2. CASE U \ {x} = {}
    BY <2>1, <2>2
  <2>3. CASE U \ {x} # {}
    <3>1. PICK n \in U \ {x} : \A m \in U \ {x} : m <= n
      BY <1>1, <2>1, <2>3
    <3>2. CASE x <= n
      BY <3>1, <3>2
    <3>3. CASE ~(x <= n)
      <4>1. x \in Nat /\ n \in Nat /\ n <= x
        BY <2>1, <3>1, <3>3
      <4>2. \A m \in U : m <= x
        BY <3>1, <4>1
      <4> QED
        BY <2>1, <4>2
    <3> QED
      BY <3>2, <3>3
  <2> QED
    BY <2>2, <2>3
<1> HIDE DEF G
<1>2. Inductive(T, G)
  BY <1>1 DEF Inductive
<1>3. SUBSET T \subseteq G
  BY <1>2, SubsetInduction
<1>4. T \in G
  BY <1>3
<1> QED
  BY <1>4 DEF G

\* Max of a finite set of numbers is its greatest element.
LEMMA MaxOf ==
  ASSUME NEW T, T \subseteq Nat, IsFiniteSet(T), T # {}
  PROVE  Max(T) \in T /\ \A m \in T : m <= Max(T)
<1>1. \E n \in T : \A m \in T : m <= n
  BY GreatestNumber
<1>2. \E n \in T : \A m \in T : n >= m
  BY <1>1
<1>3. Max(T) \in T /\ \A m \in T : Max(T) >= m
  BY <1>2 DEF Max
<1> QED
  BY <1>3

LEMMA ImageIsFinite ==
  ASSUME NEW S, IsFiniteSet(S), NEW f
  PROVE  IsFiniteSet({f[x] : x \in S})
<1> DEFINE T == {f[x] : x \in S}
           g == [x \in S |-> f[x]]
<1>1. g \in Surjection(S, T)
  BY DEF Surjection
<1> HIDE DEF g, T
<1>2. IsFiniteSet(T)
  BY <1>1, FS_Surjection
<1> QED
  BY <1>2 DEF T

-----------------------------------------------------------------------------
(* Folds.                                                                     *)

\* What a fold computes for each subset of S: pick[T] is the element of T it
\* takes first, and step[<<x, a>>] what it makes of x and of a, its value for the rest.
IsFold(g, S, base, pick, step) ==
  g = [T \in SUBSET S |-> IF T = {} THEN base
                          ELSE step[<<pick[T], g[T \ {pick[T]}]>>]]

LEMMA FoldExists ==
  ASSUME NEW S, IsFiniteSet(S), NEW A, NEW base \in A, NEW step \in [S \X A -> A],
         NEW pick, \A T \in SUBSET S : T # {} => pick[T] \in T
  PROVE  \E g \in [SUBSET S -> A] : IsFold(g, S, base, pick, step)
<1> DEFINE Small(n) == {T \in SUBSET S : Cardinality(T) < n}
           Next(g, T) == IF T = {} THEN base ELSE step[<<pick[T], g[T \ {pick[T]}]>>]
           Sizes == {n \in Nat : \E g \in [Small(n) -> A] : \A T \in Small(n) : g[T] = Next(g, T)}
<1>1. \A T \in SUBSET S : IsFiniteSet(T) /\ Cardinality(T) \in Nat
  BY FS_Subset, FS_CardinalityType
<1>2. 0 \in Sizes
  <2>1. Small(0) = {}
    BY <1>1
  <2>2. [T \in Small(0) |-> base] \in [Small(0) -> A]
    OBVIOUS
  <2> QED
    BY <2>1, <2>2
<1>3. ASSUME NEW n \in Nat, n \in Sizes
      PROVE  n + 1 \in Sizes
  <2>1. PICK g \in [Small(n) -> A] : \A T \in Small(n) : g[T] = Next(g, T)
    BY <1>3
  <2> DEFINE h == [T \in Small(n + 1) |-> Next(g, T)]
  <2>2. ASSUME NEW T \in Small(n + 1), T # {}
        PROVE  /\ pick[T] \in T /\ pick[T] \in S
               /\ T \ {pick[T]} \in Small(n)
               /\ T \ {pick[T]} \in Small(n + 1)
    <3>1. pick[T] \in T
      BY <2>2
    <3>2. Cardinality(T \ {pick[T]}) = Cardinality(T) - 1
      BY <1>1, <3>1, FS_RemoveElement
    <3>3. T \ {pick[T]} \in SUBSET S
      OBVIOUS
    <3>4. Cardinality(T) \in Nat /\ Cardinality(T) < n + 1
      BY <1>1
    <3>5. Cardinality(T \ {pick[T]}) < n /\ Cardinality(T \ {pick[T]}) < n + 1
      BY <3>2, <3>4
    <3> QED
      BY <3>1, <3>3, <3>5
  <2>3. h \in [Small(n + 1) -> A]
    <3> SUFFICES ASSUME NEW T \in Small(n + 1)
                 PROVE  Next(g, T) \in A
      OBVIOUS
    <3>1. CASE T = {}
      BY <3>1
    <3>2. CASE T # {}
      <4>1. g[T \ {pick[T]}] \in A /\ pick[T] \in S
        BY <2>2, <3>2
      <4>2. <<pick[T], g[T \ {pick[T]}]>> \in S \X A
        BY <4>1
      <4> QED
        BY <3>2, <4>2
    <3> QED
      BY <3>1, <3>2
  <2>4. ASSUME NEW T \in Small(n + 1)
        PROVE  h[T] = Next(h, T)
    <3>1. h[T] = Next(g, T)
      OBVIOUS
    <3>2. CASE T = {}
      BY <3>1, <3>2
    <3>3. CASE T # {}
      <4>1. h[T \ {pick[T]}] = Next(g, T \ {pick[T]})
        BY <2>2, <3>3
      <4>2. g[T \ {pick[T]}] = Next(g, T \ {pick[T]})
        BY <2>1, <2>2, <3>3
      <4> HIDE DEF h
      <4> QED
        BY <3>1, <3>3, <4>1, <4>2
    <3> QED
      BY <3>2, <3>3
  <2>5. \A T \in Small(n + 1) : h[T] = Next(h, T)
    BY <2>4
  <2> HIDE DEF h, Next, Small
  <2>6. \E f \in [Small(n + 1) -> A] : \A T \in Small(n + 1) : f[T] = Next(f, T)
    BY <2>3, <2>5
  <2> QED
    BY <2>6
<1> HIDE DEF Sizes
<1>4. Cardinality(S) + 1 \in Sizes
  BY <1>1, <1>2, <1>3, Induction
<1>5. Small(Cardinality(S) + 1) = SUBSET S
  <2>1. ASSUME NEW T \in SUBSET S
        PROVE  Cardinality(T) < Cardinality(S) + 1
    BY <1>1, FS_Subset
  <2> QED
    BY <2>1
<1> HIDE DEF Small
<1>6. PICK g \in [SUBSET S -> A] : \A T \in SUBSET S : g[T] = Next(g, T)
  BY <1>4, <1>5 DEF Sizes
<1>7. g = [T \in SUBSET S |-> Next(g, T)]
  BY <1>6
<1> QED
  BY <1>7 DEF IsFold

\* A fold along a sequence of N elements, from the first to the last.
AlongSequence(g, N, base, step) ==
  g = [T \in SUBSET (1 .. N) |-> IF T = {} THEN base ELSE step[<<Max(T), g[T \ {Max(T)}]>>]]

\* The greatest of some positions, and of the first k + 1.
LEMMA MaxOfPositions ==
  ASSUME NEW N \in Nat
  PROVE  /\ \A T \in SUBSET (1 .. N) : T # {} => Max(T) \in T
         /\ \A k \in 0 .. N - 1 : /\ Max(1 .. k + 1) = k + 1
                                  /\ (1 .. k + 1) \ {k + 1} = 1 .. k
<1>1. ASSUME NEW T \in SUBSET (1 .. N), T # {}
      PROVE  Max(T) \in T /\ \A m \in T : m <= Max(T)
  <2>1. IsFiniteSet(1 .. N)
    BY FS_Interval
  <2>2. IsFiniteSet(T)
    BY <2>1, FS_Subset
  <2>3. T \subseteq Nat
    OBVIOUS
  <2> QED
    BY <1>1, <2>2, <2>3, MaxOf
<1>2. ASSUME NEW k \in 0 .. N - 1
      PROVE  Max(1 .. k + 1) = k + 1
  <2>1. 1 .. k + 1 \in SUBSET (1 .. N) /\ k + 1 \in 1 .. k + 1
    OBVIOUS
  <2>2. Max(1 .. k + 1) \in 1 .. k + 1 /\ \A m \in 1 .. k + 1 : m <= Max(1 .. k + 1)
    BY <1>1, <2>1
  <2> QED
    BY <2>1, <2>2
<1> QED
  BY <1>1, <1>2

\* There is such a fold.
LEMMA SequenceFoldExists ==
  ASSUME NEW N \in Nat, NEW A, NEW base \in A, NEW step \in [(1 .. N) \X A -> A]
  PROVE  \E g \in [SUBSET (1 .. N) -> A] : AlongSequence(g, N, base, step)
<1> DEFINE S == 1 .. N
           pick == [T \in SUBSET S |-> Max(T)]
<1>1. IsFiniteSet(S)
  BY FS_Interval
<1>2. \A T \in SUBSET S : pick[T] = Max(T)
  OBVIOUS
<1>3. \A T \in SUBSET S : T # {} => pick[T] \in T
  BY <1>2, MaxOfPositions
<1> HIDE DEF pick
<1>4. PICK g \in [SUBSET S -> A] : IsFold(g, S, base, pick, step)
  <2> HIDE DEF S
  <2> QED
    BY <1>1, <1>3, FoldExists DEF S
<1>5. AlongSequence(g, N, base, step)
  BY <1>2, <1>4 DEF IsFold, AlongSequence
<1> QED
  BY <1>5

-----------------------------------------------------------------------------
(* Sums.                                                                      *)

\* Of every subset T of S, the sum of w over T.
IsSum(g, S, w) ==
  g = [T \in SUBSET S |-> IF T = {} THEN 0
                          ELSE w[CHOOSE x \in T : TRUE] + g[T \ {CHOOSE x \in T : TRUE}]]

Sum(S, w) == (CHOOSE g : IsSum(g, S, w))[S]

LEMMA SumExists ==
  ASSUME NEW S, IsFiniteSet(S), NEW w, \A x \in S : w[x] \in Nat
  PROVE  \E g \in [SUBSET S -> Nat] : IsSum(g, S, w)
<1> DEFINE pick == [T \in SUBSET S |-> CHOOSE x \in T : TRUE]
           step == [p \in S \X Nat |-> w[p[1]] + p[2]]
<1>1. \A T \in SUBSET S : T # {} => pick[T] \in T
  OBVIOUS
<1>2. step \in [S \X Nat -> Nat]
  OBVIOUS
<1>3. \A T \in SUBSET S : pick[T] = CHOOSE x \in T : TRUE
  OBVIOUS
<1>4. \A x \in S, n \in Nat : step[<<x, n>>] = w[x] + n
  OBVIOUS
<1> HIDE DEF pick, step
<1>5. PICK g \in [SUBSET S -> Nat] : IsFold(g, S, 0, pick, step)
  BY <1>1, <1>2, FoldExists
<1>6. ASSUME NEW T \in SUBSET S
      PROVE  g[T] = IF T = {} THEN 0
                    ELSE w[CHOOSE x \in T : TRUE] + g[T \ {CHOOSE x \in T : TRUE}]
  <2>1. g[T] = IF T = {} THEN 0 ELSE step[<<pick[T], g[T \ {pick[T]}]>>]
    BY <1>5 DEF IsFold
  <2>2. CASE T = {}
    BY <2>1, <2>2
  <2>3. CASE T # {}
    <3>1. pick[T] \in S /\ g[T \ {pick[T]}] \in Nat
      BY <1>1, <2>3
    <3>2. g[T] = w[pick[T]] + g[T \ {pick[T]}]
      BY <1>4, <2>1, <2>3, <3>1
    <3> QED
      BY <1>3, <2>3, <3>2
  <2> QED
    BY <2>2, <2>3
<1>7. g = [T \in SUBSET S |-> g[T]]
  OBVIOUS
<1> QED
  BY <1>6, <1>7 DEF IsSum

\* A sum depends on what is summed only.
LEMMA SumsAgree ==
  ASSUME NEW S, IsFiniteSet(S), NEW w, NEW g, IsSum(g, S, w),
         NEW R, NEW v, NEW h, IsSum(h, R, v), S \subseteq R, \A x \in S : w[x] = v[x]
  PROVE  \A T \in SUBSET S : g[T] = h[T]
<1> DEFINE G == {T \in SUBSET S : g[T] = h[T]}
<1>1. ASSUME NEW T \in SUBSET S, \A x \in T : T \ {x} \in G
      PROVE  T \in G
  <2> DEFINE x == CHOOSE y \in T : TRUE
  <2>1. /\ g[T] = IF T = {} THEN 0 ELSE w[x] + g[T \ {x}]
        /\ h[T] = IF T = {} THEN 0 ELSE v[x] + h[T \ {x}]
    BY DEF IsSum
  <2>2. CASE T = {}
    BY <2>1, <2>2
  <2>3. CASE T # {}
    <3>1. x \in T
      BY <2>3
    <3> HIDE DEF x
    <3> QED
      BY <1>1, <2>1, <2>3, <3>1
  <2> QED
    BY <2>2, <2>3
<1> HIDE DEF G
<1>2. Inductive(S, G)
  BY <1>1 DEF Inductive
<1>3. SUBSET S \subseteq G
  BY <1>2, SubsetInduction
<1> QED
  BY <1>3 DEF G

TakesAny(g, S, w) == \A T \in SUBSET S : \A y \in T : g[T] = w[y] + g[T \ {y}]

\* The order in which the elements are taken makes no difference.
LEMMA SumTakesAny ==
  ASSUME NEW S, NEW w, NEW g, IsSum(g, S, w), g \in [SUBSET S -> Nat],
         IsFiniteSet(S), \A x \in S : w[x] \in Nat
  PROVE  TakesAny(g, S, w)
<1> DEFINE G == {T \in SUBSET S : \A y \in T : g[T] = w[y] + g[T \ {y}]}
<1>1. ASSUME NEW T \in SUBSET S, \A x \in T : T \ {x} \in G
      PROVE  T \in G
  <2> SUFFICES ASSUME NEW y \in T
               PROVE  g[T] = w[y] + g[T \ {y}]
    OBVIOUS
  <2>1. PICK x \in T : g[T] = w[x] + g[T \ {x}]
    <3>1. g[T] = w[CHOOSE x \in T : TRUE] + g[T \ {CHOOSE x \in T : TRUE}]
      BY DEF IsSum
    <3> QED
      BY <3>1
  <2>2. CASE x = y
    BY <2>1, <2>2
  <2>3. CASE x # y
    <3>1. g[T \ {x}] = w[y] + g[(T \ {x}) \ {y}]
      BY <1>1, <2>3
    <3>2. g[T \ {y}] = w[x] + g[(T \ {y}) \ {x}]
      BY <1>1, <2>3
    <3>3. (T \ {x}) \ {y} = (T \ {y}) \ {x} /\ (T \ {x}) \ {y} \in SUBSET S
      OBVIOUS
    <3>4. w[x] \in Nat /\ w[y] \in Nat /\ g[(T \ {x}) \ {y}] \in Nat
      BY <3>3
    <3>5. g[T] = w[x] + (w[y] + g[(T \ {x}) \ {y}])
      BY <2>1, <3>1
    <3>6. g[T \ {y}] = w[x] + g[(T \ {x}) \ {y}]
      BY <3>2, <3>3
    <3>7. \A a, b, n \in Nat : a + (b + n) = b + (a + n)
      OBVIOUS
    <3>8. w[x] + (w[y] + g[(T \ {x}) \ {y}]) = w[y] + (w[x] + g[(T \ {x}) \ {y}])
      BY <3>4, <3>7
    <3> QED
      BY <3>5, <3>6, <3>8
  <2> QED
    BY <2>2, <2>3
<1> HIDE DEF G
<1>2. Inductive(S, G)
  BY <1>1 DEF Inductive
<1>3. SUBSET S \subseteq G
  BY <1>2, SubsetInduction
<1>4. ASSUME NEW T \in SUBSET S
      PROVE  \A y \in T : g[T] = w[y] + g[T \ {y}]
  BY <1>3 DEF G
<1> QED
  BY <1>4 DEF TakesAny

\* Whatever satisfies the equation of the sum gives it.
LEMMA SumIs ==
  ASSUME NEW S, IsFiniteSet(S), NEW w, \A x \in S : w[x] \in Nat,
         NEW R, S \subseteq R, NEW h, IsSum(h, R, w)
  PROVE  h[S] = Sum(S, w)
<1> DEFINE g == CHOOSE f : IsSum(f, S, w)
<1>1. IsSum(g, S, w)
  BY SumExists
<1> HIDE DEF g
<1>2. g[S] = h[S]
  BY <1>1, SumsAgree
<1> QED
  BY <1>2 DEF Sum, g

LEMMA SumLaws ==
  ASSUME NEW S, IsFiniteSet(S), NEW w, \A x \in S : w[x] \in Nat
  PROVE  /\ Sum(S, w) \in Nat
         /\ S = {} => Sum(S, w) = 0
         /\ \A x \in S : Sum(S, w) = w[x] + Sum(S \ {x}, w)
         /\ \A v : (\A x \in S : v[x] = w[x]) => Sum(S, v) = Sum(S, w)
<1>1. PICK g : g \in [SUBSET S -> Nat] /\ IsSum(g, S, w)
  BY SumExists
<1>2. \A T \in SUBSET S : g[T] = Sum(T, w)
  <2> SUFFICES ASSUME NEW T \in SUBSET S
               PROVE  g[T] = Sum(T, w)
    OBVIOUS
  <2>1. IsFiniteSet(T)
    BY FS_Subset
  <2> QED
    BY <1>1, <2>1, SumIs
<1>3. g[{}] = 0
  BY <1>1 DEF IsSum
<1>4. \A x \in S : g[S] = w[x] + g[S \ {x}]
  <2>1. TakesAny(g, S, w)
    BY <1>1, SumTakesAny
  <2>2. S \in SUBSET S
    OBVIOUS
  <2> QED
    BY <2>1, <2>2 DEF TakesAny
<1>5. ASSUME NEW v, \A x \in S : v[x] = w[x]
      PROVE  Sum(S, v) = Sum(S, w)
  <2>1. \A x \in S : v[x] \in Nat
    BY <1>5
  <2>2. PICK h \in [SUBSET S -> Nat] : IsSum(h, S, v)
    BY <2>1, SumExists
  <2>3. g[S] = h[S]
    BY <1>1, <1>5, <2>2, SumsAgree
  <2>4. h[S] = Sum(S, v)
    BY <2>1, <2>2, SumIs
  <2> QED
    BY <1>2, <2>3, <2>4
<1>6. S \in SUBSET S /\ {} \in SUBSET S
  OBVIOUS
<1>7. \A x \in S : S \ {x} \in SUBSET S
  OBVIOUS
<1> QED
  BY <1>1, <1>2, <1>3, <1>4, <1>5, <1>6, <1>7

\* The sum over some of the elements, and over the others.
LEMMA SumSplits ==
  ASSUME NEW S, IsFiniteSet(S), NEW w, \A x \in S : w[x] \in Nat, NEW P \in SUBSET S
  PROVE  Sum(S, w) = Sum(P, w) + Sum(S \ P, w)
<1> DEFINE G == {T \in SUBSET P : Sum(S, w) = Sum(T, w) + Sum(S \ T, w)}
<1>1. IsFiniteSet(P)
  BY FS_Subset
<1>2. \A T \in SUBSET S : IsFiniteSet(T) /\ (\A x \in T : w[x] \in Nat) /\ Sum(T, w) \in Nat
  BY FS_Subset, SumLaws
<1>3. ASSUME NEW T \in SUBSET P, \A x \in T : T \ {x} \in G
      PROVE  T \in G
  <2>1. CASE T = {}
    <3>1. Sum(T, w) = 0
      BY <1>2, <2>1, SumLaws
    <3>2. S \ T = S
      BY <2>1
    <3>3. Sum(S, w) \in Nat
      BY <1>2
    <3>4. Sum(S, w) = Sum(T, w) + Sum(S \ T, w)
      BY <3>1, <3>2, <3>3
    <3> QED
      BY <3>4
  <2>2. CASE T # {}
    <3>1. PICK x \in T : TRUE
      BY <2>2
    <3>2. Sum(S, w) = Sum(T \ {x}, w) + Sum(S \ (T \ {x}), w)
      BY <1>3
    <3> DEFINE rest == S \ (T \ {x})
    <3>3. rest \in SUBSET S /\ x \in rest /\ rest \ {x} = S \ T
      OBVIOUS
    <3>4. Sum(rest, w) = w[x] + Sum(rest \ {x}, w)
      <4> HIDE DEF rest
      <4> QED
        BY <1>2, <3>3, SumLaws
    <3>5. Sum(T, w) = w[x] + Sum(T \ {x}, w)
      BY <1>2, SumLaws
    <3>6. Sum(T \ {x}, w) \in Nat /\ Sum(S \ T, w) \in Nat /\ w[x] \in Nat
      BY <1>2
    <3> QED
      BY <3>2, <3>3, <3>4, <3>5, <3>6
  <2> QED
    BY <2>1, <2>2
<1> HIDE DEF G
<1>4. Inductive(P, G)
  BY <1>3 DEF Inductive
<1>5. SUBSET P \subseteq G
  BY <1>1, <1>4, SubsetInduction
<1> QED
  BY <1>5 DEF G
=============================================================================
