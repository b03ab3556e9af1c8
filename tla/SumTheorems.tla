----------------------------- MODULE SumTheorems -----------------------------
(***************************************************************************)
(* What sums over finite sets obey.  SumFunctionOnSet folds in an order    *)
(* nobody knows; these facts do not depend on it.  The induction theorems  *)
(* of the library take a predicate; FiniteInduction takes the set of those *)
(* sets that satisfy it, which a prover can be given.                      *)
(***************************************************************************)
EXTENDS Integers, Functions, FiniteSetTheorems, NaturalsInduction, WellFoundedInduction, TLAPS

\* A set of numbers that is not empty has a least one.
LEMMA Least ==
  ASSUME NEW S \in SUBSET Nat, S # {}
  PROVE  \E m \in S : \A k \in S : m <= k
  <1> DEFINE R == {p \in Nat \X Nat : p[1] < p[2]}
  <1>1. IsWellFoundedOn(R, Nat)
    BY NatLessThanWellFounded DEF OpToRel
  <1>2. \E x \in S : \A y \in S : ~(<<y, x>> \in R)
    BY <1>1, WFMin
  <1>3. \A x, y \in Nat : y < x => <<y, x>> \in R
    OBVIOUS
  <1> HIDE DEF R
  <1>4. PICK x \in S : \A y \in S : ~(<<y, x>> \in R)
    BY ONLY <1>2, Zenon
  <1>5. ASSUME NEW k \in S PROVE x <= k
    <2>1. x \in Nat /\ k \in Nat /\ ~(k < x)
      BY <1>3, <1>4
    <2> QED
      BY ONLY <2>1
  <1> QED
    BY <1>5

\* Induction over the numbers.
LEMMA NumberInduction ==
  ASSUME NEW Good, 0 \in Good, \A n \in Nat : n \in Good => n + 1 \in Good
  PROVE  \A n \in Nat : n \in Good
  <1> DEFINE Bad == {n \in Nat : n \notin Good}
  <1> SUFFICES ASSUME Bad # {} PROVE FALSE
    OBVIOUS
  <1>1. PICK m \in Bad : \A k \in Bad : m <= k
    BY Least
  <1>2. m \in Nat /\ m # 0
    OBVIOUS
  <1>3. m - 1 \in Nat /\ m - 1 \notin Bad
    BY <1>1, <1>2
  <1>4. (m - 1) + 1 \in Good
    BY <1>3
  <1> QED
    BY <1>2, <1>4

\* Induction over the subsets of a finite set.
LEMMA FiniteInduction ==
  ASSUME NEW U, IsFiniteSet(U), NEW Good, {} \in Good,
         \A S \in SUBSET U, x \in U : S \in Good /\ x \notin S => S \cup {x} \in Good
  PROVE  \A S \in SUBSET U : S \in Good
  <1> DEFINE Sizes == {n \in Nat : \A S \in SUBSET U : Cardinality(S) = n => S \in Good}
  <1>1. \A S \in SUBSET U : IsFiniteSet(S) /\ Cardinality(S) \in Nat
    BY FS_Subset, FS_CardinalityType
  <1>2. 0 \in Sizes
    BY <1>1, FS_EmptySet
  <1>3. ASSUME NEW n \in Nat, n \in Sizes PROVE n + 1 \in Sizes
    <2> SUFFICES ASSUME NEW S \in SUBSET U, Cardinality(S) = n + 1 PROVE S \in Good
      OBVIOUS
    <2>1. PICK x \in S : TRUE
      BY FS_EmptySet
    <2>2. Cardinality(S \ {x}) = n /\ S \ {x} \in SUBSET U
      <3>1. IsFiniteSet(S) /\ x \in S
        BY <1>1, <2>1
      <3>2. Cardinality(S \ {x}) = Cardinality(S) - 1
        BY <3>1, FS_RemoveElement
      <3> QED
        BY <1>3, <3>2
    <2>3. S \ {x} \in Good /\ x \in U /\ x \notin S \ {x}
      BY <1>3, <2>2
    <2>4. (S \ {x}) \cup {x} \in Good
      BY <2>2, <2>3
    <2>5. (S \ {x}) \cup {x} = S
      OBVIOUS
    <2> QED
      BY <2>4, <2>5
  <1> HIDE DEF Sizes
  <1>4. \A n \in Nat : n \in Sizes
    BY <1>2, <1>3, NumberInduction
  <1> QED
    BY <1>1, <1>4 DEF Sizes

-----------------------------------------------------------------------------
(* The recursion of the fold. *)

Pick(s) == CHOOSE x \in s : TRUE

\* What the fold's recursive function is to satisfy
Unfolds(g, f, U) ==
    g = [s \in SUBSET U |-> IF s = {} THEN 0 ELSE f[Pick(s)] + g[s \ {Pick(s)}]]

\* SumFunctionOnSet is the value of such a function: it takes the terms one by one.
LEMMA SumIs ==
  ASSUME NEW f, NEW U
  PROVE  SumFunctionOnSet(f, U) = (CHOOSE g : Unfolds(g, f, U))[U]
  BY Zenon DEF SumFunctionOnSet, FoldFunctionOnSet, MapThenFoldSet, Unfolds, Pick

\* There is such a function: it exists on the subsets of up to n elements.
LEMMA FoldExists ==
  ASSUME NEW f, NEW U, IsFiniteSet(U), \A x \in U : f[x] \in Int
  PROVE  \E g \in [SUBSET U -> Int] : Unfolds(g, f, U)
  <1> DEFINE Small(n) == {s \in SUBSET U : Cardinality(s) <= n}
             Next(g, s) == IF s = {} THEN 0 ELSE f[Pick(s)] + g[s \ {Pick(s)}]
             Sizes == {n \in Nat : \E g \in [Small(n) -> Int] : \A s \in Small(n) : g[s] = Next(g, s)}
  <1>1. \A s \in SUBSET U : IsFiniteSet(s) /\ Cardinality(s) \in Nat
    BY FS_Subset, FS_CardinalityType
  <1>2. \A s \in SUBSET U : s # {} => /\ Pick(s) \in s /\ s \ {Pick(s)} \in SUBSET U
                                      /\ Cardinality(s \ {Pick(s)}) = Cardinality(s) - 1
    <2> SUFFICES ASSUME NEW s \in SUBSET U, s # {}
                 PROVE  /\ Pick(s) \in s /\ s \ {Pick(s)} \in SUBSET U
                        /\ Cardinality(s \ {Pick(s)}) = Cardinality(s) - 1
      OBVIOUS
    <2>1. Pick(s) \in s
      BY DEF Pick
    <2> QED
      BY <1>1, <2>1, FS_RemoveElement
  <1>3. 0 \in Sizes
    <2>1. \A s \in Small(0) : s = {}
      BY <1>1, FS_EmptySet
    <2>2. [s \in Small(0) |-> 0] \in [Small(0) -> Int]
      OBVIOUS
    <2> QED
      BY <2>1, <2>2
  <1>4. ASSUME NEW n \in Nat, n \in Sizes PROVE n + 1 \in Sizes
    <2>1. PICK g \in [Small(n) -> Int] : \A s \in Small(n) : g[s] = Next(g, s)
      BY <1>4
    <2> DEFINE h == [s \in Small(n + 1) |-> IF s \in Small(n) THEN g[s] ELSE Next(g, s)]
    <2>2. ASSUME NEW s \in Small(n + 1), s # {} PROVE Pick(s) \in U /\ s \ {Pick(s)} \in Small(n)
      BY <1>1, <1>2, <2>2
    <2>3. Small(n) \subseteq Small(n + 1)
      BY <1>1
    <2>4. ASSUME NEW s \in Small(n + 1) PROVE h[s] \in Int /\ h[s] = Next(h, s)
      <3>1. CASE s = {}
        <4>1. s \in Small(n) \/ s \notin Small(n)
          OBVIOUS
        <4> QED
          BY <2>1, <3>1
      <3>2. CASE s # {}
        <4>1. s \ {Pick(s)} \in Small(n) /\ Pick(s) \in U
          BY <2>2, <3>2
        <4>2. h[s \ {Pick(s)}] = g[s \ {Pick(s)}]
          BY <2>3, <4>1
        <4>3. h[s] = f[Pick(s)] + g[s \ {Pick(s)}]
          BY <2>1, <3>2
        <4>4. f[Pick(s)] \in Int /\ g[s \ {Pick(s)}] \in Int
          BY <2>1, <4>1
        <4> QED
          BY <3>2, <4>2, <4>3, <4>4
      <3> QED
        BY <3>1, <3>2
    <2>5. h \in [Small(n + 1) -> Int]
      BY <2>4
    <2>6. \E k \in [Small(n + 1) -> Int] : \A s \in Small(n + 1) : k[s] = Next(k, s)
      <3> HIDE DEF h, Small, Next
      <3> QED
        BY <2>4, <2>5
    <2>7. n + 1 \in Nat
      OBVIOUS
    <2> QED
      <3> HIDE DEF h, Small, Next
      <3> QED
        BY ONLY <2>6, <2>7, Zenon
  <1>5. Cardinality(U) \in Sizes
    <2> HIDE DEF Sizes
    <2> QED
      BY <1>1, <1>3, <1>4, NumberInduction
  <1>6. Small(Cardinality(U)) = SUBSET U
    BY FS_Subset
  <1>7. PICK g \in [SUBSET U -> Int] : \A s \in SUBSET U : g[s] = Next(g, s)
    BY <1>5, <1>6
  <1>8. g = [s \in SUBSET U |-> Next(g, s)]
    BY <1>7
  <1> QED
    BY <1>7, <1>8 DEF Unfolds

\* Two such functions agree on the sets they have in common.
LEMMA FoldUnique ==
  ASSUME NEW f, NEW U, NEW V, IsFiniteSet(U), V \subseteq U, NEW g, NEW h,
         Unfolds(g, f, U), Unfolds(h, f, V)
  PROVE  \A s \in SUBSET V : g[s] = h[s]
  <1> DEFINE Same == {s \in SUBSET V : g[s] = h[s]}
             Sizes == {n \in Nat : \A s \in SUBSET V : Cardinality(s) = n => g[s] = h[s]}
  <1>1. \A s \in SUBSET V : IsFiniteSet(s) /\ Cardinality(s) \in Nat
    BY FS_Subset, FS_CardinalityType
  <1>2. \A s \in SUBSET V : /\ g[s] = IF s = {} THEN 0 ELSE f[Pick(s)] + g[s \ {Pick(s)}]
                            /\ h[s] = IF s = {} THEN 0 ELSE f[Pick(s)] + h[s \ {Pick(s)}]
    <2> SUFFICES ASSUME NEW s \in SUBSET V
                 PROVE  /\ g[s] = IF s = {} THEN 0 ELSE f[Pick(s)] + g[s \ {Pick(s)}]
                        /\ h[s] = IF s = {} THEN 0 ELSE f[Pick(s)] + h[s \ {Pick(s)}]
      OBVIOUS
    <2>1. s \in SUBSET U
      OBVIOUS
    <2>2. g[s] = IF s = {} THEN 0 ELSE f[Pick(s)] + g[s \ {Pick(s)}]
      BY <2>1, Zenon DEF Unfolds
    <2>3. h[s] = IF s = {} THEN 0 ELSE f[Pick(s)] + h[s \ {Pick(s)}]
      BY Zenon DEF Unfolds
    <2> QED
      BY <2>2, <2>3
  <1>3. 0 \in Sizes
    BY <1>1, <1>2, FS_EmptySet
  <1>4. ASSUME NEW n \in Nat, n \in Sizes PROVE n + 1 \in Sizes
    <2> SUFFICES ASSUME NEW s \in SUBSET V, Cardinality(s) = n + 1 PROVE g[s] = h[s]
      OBVIOUS
    <2>1. s # {}
      BY FS_EmptySet
    <2>2. Pick(s) \in s
      BY <2>1 DEF Pick
    <2>3. Cardinality(s \ {Pick(s)}) = Cardinality(s) - 1
      BY <1>1, <2>2, FS_RemoveElement
    <2>4. g[s \ {Pick(s)}] = h[s \ {Pick(s)}]
      BY <1>4, <2>3
    <2> QED
      BY <1>2, <2>1, <2>4
  <1> HIDE DEF Sizes
  <1>5. \A n \in Nat : n \in Sizes
    BY <1>3, <1>4, NumberInduction
  <1> QED
    BY <1>1, <1>5 DEF Sizes

\* The sums of the subsets of a set are the values of one function.
LEMMA SumsOfSubsets ==
  ASSUME NEW f, NEW U, IsFiniteSet(U), \A x \in U : f[x] \in Int
  PROVE  \E g \in [SUBSET U -> Int] :
            /\ Unfolds(g, f, U)
            /\ \A S \in SUBSET U : SumFunctionOnSet(f, S) = g[S]
  <1>1. PICK g \in [SUBSET U -> Int] : Unfolds(g, f, U)
    BY FoldExists
  <1>2. ASSUME NEW S \in SUBSET U PROVE SumFunctionOnSet(f, S) = g[S]
    <2>1. IsFiniteSet(S) /\ \A x \in S : f[x] \in Int
      BY FS_Subset
    <2>2. \E h : Unfolds(h, f, S)
      BY <2>1, FoldExists
    <2>3. PICK h : h = CHOOSE k : Unfolds(k, f, S)
      OBVIOUS
    <2>4. Unfolds(h, f, S)
      BY <2>2, <2>3, Zenon
    <2>5. g[S] = h[S]
      BY <1>1, <2>4, FoldUnique
    <2>6. SumFunctionOnSet(f, S) = h[S]
      BY <2>3, SumIs, Zenon
    <2> QED
      BY <2>5, <2>6
  <1> QED
    BY <1>1, <1>2

-----------------------------------------------------------------------------
(* What a sum is, whatever the order. *)

\* A sum of integers is an integer; of nothing, it is 0.
THEOREM SumType ==
  ASSUME NEW f, NEW S, IsFiniteSet(S), \A x \in S : f[x] \in Int
  PROVE  SumFunctionOnSet(f, S) \in Int
  <1>1. PICK g \in [SUBSET S -> Int] : /\ Unfolds(g, f, S)
                                       /\ \A T \in SUBSET S : SumFunctionOnSet(f, T) = g[T]
    BY SumsOfSubsets
  <1> QED
    BY <1>1

\* Nothing sums to 0.
THEOREM SumEmpty == \A f : SumFunctionOnSet(f, {}) = 0
  <1> SUFFICES ASSUME NEW f PROVE SumFunctionOnSet(f, {}) = 0
    OBVIOUS
  <1>1. IsFiniteSet({}) /\ \A x \in {} : f[x] \in Int
    BY FS_EmptySet
  <1>2. PICK g \in [SUBSET {} -> Int] : /\ Unfolds(g, f, {})
                                        /\ \A T \in SUBSET {} : SumFunctionOnSet(f, T) = g[T]
    BY <1>1, SumsOfSubsets
  <1>3. g[{}] = 0
    <2>1. {} \in SUBSET {}
      OBVIOUS
    <2>2. g[{}] = IF {} = {} THEN 0 ELSE f[Pick({})] + g[{} \ {Pick({})}]
      BY <1>2, <2>1, Zenon DEF Unfolds
    <2> QED
      BY <2>2
  <1> QED
    BY <1>2, <1>3

\* Any element may be counted first.
THEOREM SumRemove ==
  ASSUME NEW f, NEW S, IsFiniteSet(S), \A x \in S : f[x] \in Int, NEW y \in S
  PROVE  SumFunctionOnSet(f, S) = f[y] + SumFunctionOnSet(f, S \ {y})
  <1>1. PICK g \in [SUBSET S -> Int] : /\ Unfolds(g, f, S)
                                       /\ \A T \in SUBSET S : SumFunctionOnSet(f, T) = g[T]
    BY SumsOfSubsets
  <1>2. \A T \in SUBSET S : IsFiniteSet(T) /\ Cardinality(T) \in Nat
    BY FS_Subset, FS_CardinalityType
  <1>3. ASSUME NEW T \in SUBSET S, T # {}
        PROVE  Pick(T) \in T /\ g[T] = f[Pick(T)] + g[T \ {Pick(T)}]
    <2>1. Pick(T) \in T
      BY <1>3 DEF Pick
    <2>2. g[T] = IF T = {} THEN 0 ELSE f[Pick(T)] + g[T \ {Pick(T)}]
      BY <1>1, Zenon DEF Unfolds
    <2> QED
      BY <1>3, <2>1, <2>2
  <1> DEFINE Sizes == {n \in Nat : \A T \in SUBSET S : Cardinality(T) = n =>
                                     \A x \in T : g[T] = f[x] + g[T \ {x}]}
  <1>4. 0 \in Sizes
    BY <1>2, FS_EmptySet
  <1>5. ASSUME NEW n \in Nat, n \in Sizes PROVE n + 1 \in Sizes
    <2> SUFFICES ASSUME NEW T \in SUBSET S, Cardinality(T) = n + 1, NEW x \in T
                 PROVE  g[T] = f[x] + g[T \ {x}]
      OBVIOUS
    <2>1. PICK p \in T : g[T] = f[p] + g[T \ {p}]
      BY <1>3
    <2>2. CASE x = p
      BY <2>1, <2>2
    <2>3. CASE x # p
      <3>1. /\ Cardinality(T \ {p}) = n /\ Cardinality(T \ {x}) = n
        <4>1. IsFiniteSet(T)
          BY <1>2
        <4>2. Cardinality(T \ {p}) = Cardinality(T) - 1 /\ Cardinality(T \ {x}) = Cardinality(T) - 1
          BY <4>1, FS_RemoveElement
        <4> QED
          BY <4>2
      <3>2. g[T \ {p}] = f[x] + g[(T \ {p}) \ {x}]
        BY <1>5, <2>3, <3>1
      <3>3. g[T \ {x}] = f[p] + g[(T \ {x}) \ {p}]
        BY <1>5, <2>3, <3>1
      <3>4. (T \ {p}) \ {x} = (T \ {x}) \ {p}
        OBVIOUS
      <3>5. f[x] \in Int /\ f[p] \in Int /\ g[(T \ {x}) \ {p}] \in Int
        BY <1>1
      <3>6. PICK rest \in Int : rest = g[(T \ {x}) \ {p}]
        BY <3>5
      <3>7. g[T] = f[p] + (f[x] + rest) /\ g[T \ {x}] = f[p] + rest
        BY <2>1, <3>2, <3>3, <3>4, <3>6
      <3> QED
        BY ONLY <3>5, <3>6, <3>7
    <2> QED
      BY <2>2, <2>3
  <1> HIDE DEF Sizes
  <1>6. \A n \in Nat : n \in Sizes
    BY <1>4, <1>5, NumberInduction
  <1>7. g[S] = f[y] + g[S \ {y}]
    BY <1>2, <1>6 DEF Sizes
  <1> QED
    BY <1>1, <1>7

\* One more element.
LEMMA SumAdd ==
  ASSUME NEW f, NEW S, IsFiniteSet(S), NEW y, y \notin S, \A x \in S \cup {y} : f[x] \in Int
  PROVE  SumFunctionOnSet(f, S \cup {y}) = f[y] + SumFunctionOnSet(f, S)
  <1>1. IsFiniteSet(S \cup {y})
    BY FS_AddElement
  <1>2. (S \cup {y}) \ {y} = S
    OBVIOUS
  <1>3. SumFunctionOnSet(f, S \cup {y}) = f[y] + SumFunctionOnSet(f, (S \cup {y}) \ {y})
    BY <1>1, SumRemove
  <1> QED
    BY <1>2, <1>3

\* One element sums to its own term.
THEOREM SumSingle ==
  ASSUME NEW f, NEW y, f[y] \in Int
  PROVE  SumFunctionOnSet(f, {y}) = f[y]
  <1>1. IsFiniteSet({})
    BY FS_EmptySet
  <1>2. SumFunctionOnSet(f, {} \cup {y}) = f[y] + SumFunctionOnSet(f, {})
    BY <1>1, SumAdd
  <1>3. {} \cup {y} = {y}
    OBVIOUS
  <1>4. SumFunctionOnSet(f, {}) = 0
    BY SumEmpty
  <1> QED
    BY <1>2, <1>3, <1>4

-----------------------------------------------------------------------------
(* Sums compared and combined, by induction over the set. *)

\* A linear combination, term by term.
THEOREM SumLinear ==
  ASSUME NEW S, IsFiniteSet(S), NEW f, NEW h, NEW k, NEW a \in Int, NEW b \in Int,
         \A x \in S : f[x] \in Int /\ h[x] \in Int /\ k[x] = a * f[x] + b * h[x]
  PROVE  SumFunctionOnSet(k, S) = a * SumFunctionOnSet(f, S) + b * SumFunctionOnSet(h, S)
  <1> DEFINE Good == {T \in SUBSET S : SumFunctionOnSet(k, T) = a * SumFunctionOnSet(f, T)
                                                                + b * SumFunctionOnSet(h, T)}
  <1>1. \A x \in S : k[x] \in Int
    OBVIOUS
  <1>2. {} \in Good
    BY SumEmpty
  <1>3. ASSUME NEW T \in SUBSET S, NEW y \in S, T \in Good, y \notin T
        PROVE  T \cup {y} \in Good
    <2>1. IsFiniteSet(T)
      BY FS_Subset
    <2>2. PICK sf \in Int : sf = SumFunctionOnSet(f, T)
      BY <2>1, SumType
    <2>3. PICK sh \in Int : sh = SumFunctionOnSet(h, T)
      BY <2>1, SumType
    <2>4. PICK p \in Int, q \in Int : p = f[y] /\ q = h[y] /\ k[y] = a * p + b * q
      OBVIOUS
    <2>5. SumFunctionOnSet(k, T) = a * sf + b * sh
      BY <1>3, <2>2, <2>3
    <2>6. /\ SumFunctionOnSet(f, T \cup {y}) = p + sf
          /\ SumFunctionOnSet(h, T \cup {y}) = q + sh
          /\ SumFunctionOnSet(k, T \cup {y}) = (a * p + b * q) + (a * sf + b * sh)
      <3>1. \A x \in T \cup {y} : f[x] \in Int /\ h[x] \in Int /\ k[x] \in Int
        BY <1>1
      <3>2. SumFunctionOnSet(f, T \cup {y}) = f[y] + SumFunctionOnSet(f, T)
        BY <1>3, <2>1, <3>1, SumAdd
      <3>3. SumFunctionOnSet(h, T \cup {y}) = h[y] + SumFunctionOnSet(h, T)
        BY <1>3, <2>1, <3>1, SumAdd
      <3>4. SumFunctionOnSet(k, T \cup {y}) = k[y] + SumFunctionOnSet(k, T)
        BY <1>3, <2>1, <3>1, SumAdd
      <3> QED
        BY <2>2, <2>3, <2>4, <2>5, <3>2, <3>3, <3>4
    <2>7. (a * p + b * q) + (a * sf + b * sh) = a * (p + sf) + b * (q + sh)
      BY ONLY <2>2, <2>3, <2>4
    <2> QED
      BY <2>6, <2>7
  <1> HIDE DEF Good
  <1>4. \A T \in SUBSET S : T \in Good
    BY <1>2, <1>3, FiniteInduction
  <1>5. S \in Good
    BY <1>4
  <1> QED
    BY <1>5 DEF Good

\* A sum of multiples is the multiple of the sum.
THEOREM SumScaled ==
  ASSUME NEW S, IsFiniteSet(S), NEW f, NEW h, NEW a \in Int,
         \A x \in S : f[x] \in Int /\ h[x] = a * f[x]
  PROVE  SumFunctionOnSet(h, S) = a * SumFunctionOnSet(f, S)
  <1>1. PICK z \in Int : z = 0
    OBVIOUS
  <1>2. \A x \in S : f[x] \in Int /\ f[x] \in Int /\ h[x] = a * f[x] + z * f[x]
    <2> TAKE x \in S
    <2>1. PICK y \in Int : y = f[x]
      OBVIOUS
    <2>2. a * y \in Int /\ z * y = 0
      BY <1>1
    <2> QED
      BY <2>1, <2>2
  <1>3. PICK s \in Int : s = SumFunctionOnSet(f, S)
    BY SumType
  <1>4. SumFunctionOnSet(h, S) = a * SumFunctionOnSet(f, S) + z * SumFunctionOnSet(f, S)
    BY <1>2, SumLinear
  <1>5. a * s \in Int /\ z * s = 0
    BY <1>1
  <1> QED
    BY <1>3, <1>4, <1>5

\* Term by term no more.
THEOREM SumBounded ==
  ASSUME NEW S, IsFiniteSet(S), NEW f, NEW h,
         \A x \in S : f[x] \in Int /\ h[x] \in Int /\ f[x] <= h[x]
  PROVE  SumFunctionOnSet(f, S) <= SumFunctionOnSet(h, S)
  <1> DEFINE Good == {T \in SUBSET S : SumFunctionOnSet(f, T) <= SumFunctionOnSet(h, T)}
  <1>1. {} \in Good
    BY SumEmpty
  <1>2. ASSUME NEW T \in SUBSET S, NEW y \in S, T \in Good, y \notin T
        PROVE  T \cup {y} \in Good
    <2>1. IsFiniteSet(T)
      BY FS_Subset
    <2>2. SumFunctionOnSet(f, T) \in Int /\ SumFunctionOnSet(h, T) \in Int
      BY <2>1, SumType
    <2>3. /\ SumFunctionOnSet(f, T \cup {y}) = f[y] + SumFunctionOnSet(f, T)
          /\ SumFunctionOnSet(h, T \cup {y}) = h[y] + SumFunctionOnSet(h, T)
      <3>1. \A x \in T \cup {y} : f[x] \in Int /\ h[x] \in Int
        OBVIOUS
      <3> QED
        BY <1>2, <2>1, <3>1, SumAdd
    <2> QED
      BY <1>2, <2>2, <2>3
  <1> HIDE DEF Good
  <1>3. S \in Good
    BY <1>1, <1>2, FiniteInduction
  <1> QED
    BY <1>3 DEF Good

\* One amount each.
THEOREM SumConstant ==
  ASSUME NEW S, IsFiniteSet(S), NEW f, NEW c \in Int, \A x \in S : f[x] = c
  PROVE  SumFunctionOnSet(f, S) = Cardinality(S) * c
  <1> DEFINE Good == {T \in SUBSET S : SumFunctionOnSet(f, T) = Cardinality(T) * c}
  <1>1. {} \in Good
    BY SumEmpty, FS_EmptySet
  <1>2. ASSUME NEW T \in SUBSET S, NEW y \in S, T \in Good, y \notin T
        PROVE  T \cup {y} \in Good
    <2>1. IsFiniteSet(T) /\ Cardinality(T) \in Nat
      BY FS_Subset, FS_CardinalityType
    <2>2. Cardinality(T \cup {y}) = Cardinality(T) + 1
      BY <1>2, <2>1, FS_AddElement
    <2>3. SumFunctionOnSet(f, T \cup {y}) = f[y] + SumFunctionOnSet(f, T)
      BY <1>2, <2>1, SumAdd
    <2>4. PICK n \in Nat : n = Cardinality(T)
      BY <2>1
    <2>5. c + n * c = (n + 1) * c
      BY ONLY <2>4, c \in Int
    <2>6. SumFunctionOnSet(f, T \cup {y}) = c + n * c
      BY <1>2, <2>3, <2>4
    <2> QED
      BY <2>2, <2>4, <2>5, <2>6
  <1> HIDE DEF Good
  <1>3. S \in Good
    BY <1>1, <1>2, FiniteInduction
  <1> QED
    BY <1>3 DEF Good

\* The terms decide.
THEOREM SumSame ==
  ASSUME NEW S, IsFiniteSet(S), NEW f, NEW h, \A x \in S : f[x] \in Int /\ h[x] = f[x]
  PROVE  SumFunctionOnSet(h, S) = SumFunctionOnSet(f, S)
  <1>1. \A x \in S : f[x] \in Int /\ h[x] \in Int /\ f[x] <= h[x] /\ h[x] <= f[x]
    OBVIOUS
  <1>2. SumFunctionOnSet(f, S) <= SumFunctionOnSet(h, S) /\ SumFunctionOnSet(h, S) <= SumFunctionOnSet(f, S)
    BY <1>1, SumBounded
  <1>3. SumFunctionOnSet(f, S) \in Int /\ SumFunctionOnSet(h, S) \in Int
    BY <1>1, SumType
  <1> QED
    BY <1>2, <1>3

\* Two parts.
THEOREM SumDisjoint ==
  ASSUME NEW A, NEW B, IsFiniteSet(A), IsFiniteSet(B), A \cap B = {},
         NEW f, \A x \in A \cup B : f[x] \in Int
  PROVE  SumFunctionOnSet(f, A \cup B) = SumFunctionOnSet(f, A) + SumFunctionOnSet(f, B)
  <1> DEFINE Good == {T \in SUBSET B : SumFunctionOnSet(f, A \cup T)
                                         = SumFunctionOnSet(f, A) + SumFunctionOnSet(f, T)}
  <1>1. {} \in Good
    <2>1. A \cup {} = A
      OBVIOUS
    <2>2. SumFunctionOnSet(f, A) \in Int
      BY SumType
    <2> QED
      BY <2>1, <2>2, SumEmpty
  <1>2. ASSUME NEW T \in SUBSET B, NEW y \in B, T \in Good, y \notin T
        PROVE  T \cup {y} \in Good
    <2>1. IsFiniteSet(T) /\ IsFiniteSet(A \cup T)
      BY FS_Subset, FS_Union
    <2>2. y \notin A \cup T /\ (A \cup T) \cup {y} = A \cup (T \cup {y})
      BY <1>2
    <2>3. SumFunctionOnSet(f, (A \cup T) \cup {y}) = f[y] + SumFunctionOnSet(f, A \cup T)
      BY <2>1, <2>2, SumAdd
    <2>4. SumFunctionOnSet(f, T \cup {y}) = f[y] + SumFunctionOnSet(f, T)
      BY <1>2, <2>1, SumAdd
    <2>5. SumFunctionOnSet(f, A) \in Int /\ SumFunctionOnSet(f, T) \in Int /\ f[y] \in Int
      BY <2>1, SumType
    <2>6. SumFunctionOnSet(f, A \cup T) = SumFunctionOnSet(f, A) + SumFunctionOnSet(f, T)
      BY <1>2
    <2>7. SumFunctionOnSet(f, A \cup (T \cup {y}))
            = SumFunctionOnSet(f, A) + SumFunctionOnSet(f, T \cup {y})
      <3>1. SumFunctionOnSet(f, A \cup (T \cup {y})) = f[y] + SumFunctionOnSet(f, A \cup T)
        BY <2>2, <2>3
      <3>2. PICK a \in Int, t \in Int, n \in Int :
                  a = SumFunctionOnSet(f, A) /\ t = SumFunctionOnSet(f, T) /\ n = f[y]
        BY <2>5
      <3>3. SumFunctionOnSet(f, A \cup (T \cup {y})) = n + (a + t)
        BY <2>6, <3>1, <3>2
      <3>4. SumFunctionOnSet(f, A) + SumFunctionOnSet(f, T \cup {y}) = a + (n + t)
        BY <2>4, <3>2
      <3>5. n + (a + t) = a + (n + t)
        BY ONLY <3>2
      <3> QED
        BY ONLY <3>3, <3>4, <3>5
    <2> QED
      BY <2>7
  <1> HIDE DEF Good
  <1>3. B \in Good
    BY <1>1, <1>2, FiniteInduction
  <1> QED
    BY <1>3 DEF Good

\* As many parts as there are keys.
THEOREM SumByKey ==
  ASSUME NEW S, IsFiniteSet(S), NEW K, IsFiniteSet(K), NEW key, \A x \in S : key[x] \in K,
         NEW part, \A k \in K : part[k] \subseteq S, \A k \in K : \A x \in S : x \in part[k] <=> key[x] = k,
         NEW f, \A x \in S : f[x] \in Int,
         NEW h, \A k \in K : h[k] = SumFunctionOnSet(f, part[k])
  PROVE  SumFunctionOnSet(h, K) = SumFunctionOnSet(f, S)
  <1> DEFINE Part(J) == {x \in S : key[x] \in J}
             Good == {J \in SUBSET K : SumFunctionOnSet(h, J) = SumFunctionOnSet(f, Part(J))}
  <1>1. \A k \in K : h[k] \in Int
    <2> TAKE k \in K
    <2>1. IsFiniteSet(part[k]) /\ \A x \in part[k] : f[x] \in Int
      BY FS_Subset
    <2> QED
      BY <2>1, SumType
  <1>2. {} \in Good
    <2>1. Part({}) = {}
      OBVIOUS
    <2> QED
      BY <2>1, SumEmpty
  <1>3. ASSUME NEW J \in SUBSET K, NEW k \in K, J \in Good, k \notin J
        PROVE  J \cup {k} \in Good
    <2> DEFINE New == part[k]
    <2>1. Part(J \cup {k}) = Part(J) \cup New /\ Part(J) \cap New = {}
      BY <1>3
    <2>2. IsFiniteSet(Part(J)) /\ IsFiniteSet(New) /\ IsFiniteSet(J)
      BY FS_Subset
    <2>3. \A x \in Part(J) \cup New : f[x] \in Int
      OBVIOUS
    <2>4. SumFunctionOnSet(f, Part(J) \cup New) = SumFunctionOnSet(f, Part(J)) + SumFunctionOnSet(f, New)
      <3> HIDE DEF Part, New
      <3> QED
        BY <2>1, <2>2, <2>3, SumDisjoint
    <2>5. SumFunctionOnSet(h, J \cup {k}) = h[k] + SumFunctionOnSet(h, J)
      BY <1>1, <1>3, <2>2, SumAdd
    <2>6. SumFunctionOnSet(h, J) \in Int /\ h[k] \in Int
      BY <1>1, <2>2, SumType
    <2>7. SumFunctionOnSet(h, J) = SumFunctionOnSet(f, Part(J)) /\ h[k] = SumFunctionOnSet(f, New)
      BY <1>3
    <2>8. SumFunctionOnSet(h, J \cup {k}) = SumFunctionOnSet(f, Part(J \cup {k}))
      <3> HIDE DEF Part, New
      <3>1. SumFunctionOnSet(f, Part(J \cup {k})) = SumFunctionOnSet(f, Part(J)) + SumFunctionOnSet(f, New)
        BY <2>1, <2>4
      <3> QED
        BY ONLY <2>5, <2>6, <2>7, <3>1
    <2> QED
      BY <2>8
  <1>4. K \in Good
    <2> HIDE DEF Good
    <2> QED
      BY ONLY <1>2, <1>3, IsFiniteSet(K), FiniteInduction
  <1>5. Part(K) = S
    OBVIOUS
  <1> QED
    BY <1>4, <1>5
=============================================================================
