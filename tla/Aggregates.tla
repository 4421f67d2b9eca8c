----------------------------- MODULE Aggregates -----------------------------
(***************************************************************************)
(* Greatest and least elements of finite sets of numbers and sums over     *)
(* them: what SELECT max(...), ORDER BY created_at and the averages of a   *)
(* summary rest on. Lemmas only.                                           *)
(***************************************************************************)
EXTENDS Integers, FiniteSets, FiniteSetsExt, Functions, FiniteSetTheorems, WellFoundedInduction, TLAPS

\* A set of natural numbers that is not empty has a least element.
LEMMA NatMin ==
    ASSUME NEW S, S \subseteq Nat, S # {}
    PROVE  \E m \in S : \A x \in S : m <= x
<1> DEFINE R == OpToRel(<, Nat)
<1>1. IsWellFoundedOn(R, Nat)
  BY NatLessThanWellFounded
<1>2. \A x, y \in Nat : y < x => <<y, x>> \in R
  BY DEF OpToRel
<1> HIDE DEF R
<1>3. PICK m \in S : \A y \in S : ~ (<<y, m>> \in R)
  BY <1>1, WFMin
<1>4. ASSUME NEW x \in S PROVE m <= x
  <2>1. x \in Nat /\ m \in Nat
    OBVIOUS
  <2>2. ~(x < m)
    BY <1>2, <1>3, <2>1
  <2> QED
    BY <2>1, <2>2
<1> QED
  BY <1>4

\* A bounded one has a greatest element, which Max returns.
LEMMA BoundedMax ==
    ASSUME NEW n \in Nat, NEW S, S \subseteq 0 .. n, S # {}
    PROVE  Max(S) \in S /\ \A x \in S : x <= Max(S)
<1> DEFINE T == {n - x : x \in S}
<1>1. \A x \in S : x \in Nat /\ n - x \in Nat
  OBVIOUS
<1>2. T \subseteq Nat /\ T # {}
  BY <1>1
<1>3. PICK m \in T : \A x \in T : m <= x
  BY <1>2, NatMin
<1>4. PICK k \in S : m = n - k
  BY <1>3
<1>5. ASSUME NEW x \in S PROVE k >= x
  <2>1. n - k <= n - x
    BY <1>3, <1>4
  <2> QED
    BY <2>1, <1>1
<1> QED
  BY <1>1, <1>5 DEF Max

\* A finite set of natural numbers is bounded: a smallest finite set without a
\* bound would lose one element and have one.
LEMMA FiniteBound ==
    ASSUME NEW S, S \subseteq Nat, IsFiniteSet(S)
    PROVE  \E n \in Nat : \A x \in S : x <= n
<1> DEFINE R == StrictSubsetOrdering(Nat)
           F == FiniteSubsetsOf(Nat)
           Bad == {U \in F : \A n \in Nat : \E x \in U : ~(x <= n)}
<1>1. IsWellFoundedOn(R, F)
  BY FS_StrictSubsetOrderingWellFounded
<1>2. \A U : U \in F <=> U \subseteq Nat /\ IsFiniteSet(U)
  BY DEF FiniteSubsetsOf
<1>3. \A U, V \in F : V \subseteq U /\ V # U => <<V, U>> \in R
  BY <1>2 DEF StrictSubsetOrdering
<1> HIDE DEF R, F
<1>4. Bad = {}
  <2> SUFFICES ASSUME Bad # {} PROVE FALSE
    OBVIOUS
  <2>1. PICK U \in Bad : \A V \in Bad : ~ (<<V, U>> \in R)
    <3>1. Bad \subseteq F
      OBVIOUS
    <3> HIDE DEF Bad
    <3> QED
      BY <1>1, <3>1, WFMin
  <2>2. U \subseteq Nat /\ IsFiniteSet(U) /\ \A n \in Nat : \E x \in U : ~(x <= n)
    BY <1>2
  <2>3. PICK a \in U : TRUE
    BY <2>2
  <2> DEFINE V == U \ {a}
  <2>4. IsFiniteSet(V)
    BY <2>2, FS_RemoveElement
  <2>5. V \in F /\ V \subseteq U /\ V # U
    BY <1>2, <2>2, <2>3, <2>4
  <2>6. V \notin Bad
    BY <1>3, <2>1, <2>5
  <2>7. PICK n \in Nat : \A x \in V : x <= n
    BY <2>5, <2>6
  <2>8. \A x \in U : x <= n + a
    BY <2>2, <2>3, <2>7
  <2>9. n + a \in Nat
    BY <2>2, <2>3
  <2> QED
    BY <2>2, <2>8, <2>9
<1>5. S \in F /\ S \notin Bad
  BY <1>2, <1>4
<1>6. ~ \A n \in Nat : \E x \in S : ~(x <= n)
  BY <1>5
<1> QED
  BY <1>6

\* Max of a finite set of natural numbers with 0: func.max(...) or 0.
LEMMA FiniteMax ==
    ASSUME NEW S, S \subseteq Nat, IsFiniteSet(S)
    PROVE  /\ Max({0} \cup S) \in Nat
           /\ \A x \in S : x <= Max({0} \cup S)
<1>1. PICK n \in Nat : \A x \in S : x <= n
  BY FiniteBound
<1>2. {0} \cup S \subseteq 0 .. n
  BY <1>1
<1> DEFINE T == {0} \cup S
<1>3. T # {} /\ T \subseteq Nat /\ S \subseteq T
  OBVIOUS
<1> HIDE DEF T
<1>4. Max(T) \in T /\ \A x \in T : x <= Max(T)
  BY <1>2, <1>3, BoundedMax DEF T
<1>5. Max(T) \in Nat /\ \A x \in S : x <= Max(T)
  BY <1>3, <1>4
<1> QED
  BY <1>5 DEF T

\* The greatest element of a finite set of integers.
LEMMA IntMax ==
    ASSUME NEW S, S \subseteq Int, IsFiniteSet(S), S # {}
    PROVE  Max(S) \in S /\ \A x \in S : x <= Max(S)
<1> DEFINE R == StrictSubsetOrdering(Int)
           F == FiniteSubsetsOf(Int)
           Bad == {U \in F : U # {} /\ \A m \in U : \E x \in U : ~(x <= m)}
<1>1. IsWellFoundedOn(R, F)
  BY FS_StrictSubsetOrderingWellFounded
<1>2. \A U : U \in F <=> U \subseteq Int /\ IsFiniteSet(U)
  BY DEF FiniteSubsetsOf
<1>3. \A U, V \in F : V \subseteq U /\ V # U => <<V, U>> \in R
  BY <1>2 DEF StrictSubsetOrdering
<1> HIDE DEF R, F
<1>4. Bad = {}
  <2> SUFFICES ASSUME Bad # {} PROVE FALSE
    OBVIOUS
  <2>1. PICK U \in Bad : \A V \in Bad : ~ (<<V, U>> \in R)
    <3>1. Bad \subseteq F
      OBVIOUS
    <3> HIDE DEF Bad
    <3> QED
      BY <1>1, <3>1, WFMin
  <2>2. U \subseteq Int /\ IsFiniteSet(U) /\ U # {} /\ \A m \in U : \E x \in U : ~(x <= m)
    BY <1>2
  <2>3. PICK a \in U : TRUE
    BY <2>2
  <2> DEFINE V == U \ {a}
  <2>4. V \in F /\ V \subseteq U /\ V # U
    BY <1>2, <2>2, <2>3, FS_RemoveElement
  <2>5. V \notin Bad
    BY <1>3, <2>1, <2>4
  <2>6. V # {}
    BY <2>2
  <2>7. PICK m \in V : \A x \in V : x <= m
    BY <2>4, <2>5, <2>6
  <2>8. a \in Int /\ m \in Int /\ m \in U
    BY <2>2, <2>7
  <2>9. \E k \in U : \A x \in U : x <= k
    <3>1. CASE a <= m
      BY <2>7, <2>8, <3>1
    <3>2. CASE m <= a
      BY <2>2, <2>3, <2>7, <2>8, <3>2
    <3> QED
      BY <2>8, <3>1, <3>2
  <2> QED
    BY <2>2, <2>9
<1>5. S \in F /\ S \notin Bad
  BY <1>2, <1>4
<1>6. \E m \in S : \A x \in S : x <= m
  BY <1>5
<1>7. \E m \in S : \A x \in S : m >= x
  BY <1>6
<1> QED
  BY <1>7 DEF Max

\* The least one is the greatest of the negated numbers.
LEMMA IntMin ==
    ASSUME NEW S, S \subseteq Int, IsFiniteSet(S), S # {}
    PROVE  Min(S) \in S /\ \A x \in S : Min(S) <= x
<1> DEFINE T == {-x : x \in S}
           f == [x \in S |-> -x]
<1>1. IsFiniteSet(T)
  <2>1. f \in Surjection(S, T)
    BY DEF Surjection
  <2> QED
    BY <2>1, FS_Surjection
<1>2. T \subseteq Int /\ T # {}
  OBVIOUS
<1>3. PICK m \in T : \A x \in T : x <= m
  <2> HIDE DEF T
  <2> QED
    BY <1>1, <1>2, IntMax
<1>4. PICK k \in S : m = -k
  BY <1>3
<1>5. ASSUME NEW x \in S PROVE k <= x
  <2>1. -x <= -k
    BY <1>3, <1>4
  <2> QED
    BY <2>1
<1> QED
  BY <1>5 DEF Min

\* Numbers with fewer than b greater ones beside them are at most b.
LEMMA LastOnes ==
    ASSUME NEW S, S \subseteq Nat, IsFiniteSet(S), NEW b \in Nat,
           NEW T \in SUBSET S, \A i \in T : Cardinality({h \in S : h > i}) < b
    PROVE  IsFiniteSet(T) /\ Cardinality(T) \in Nat /\ Cardinality(T) <= b
<1>1. IsFiniteSet(T) /\ Cardinality(T) \in Nat
  BY FS_Subset, FS_CardinalityType
<1>2. CASE T = {}
  BY <1>2, FS_EmptySet
<1>3. CASE T # {}
  <2>1. PICK m \in T : \A x \in T : m <= x
    BY <1>3, NatMin
  <2> DEFINE after == {h \in S : h > m}
  <2>2. after \in SUBSET S
    OBVIOUS
  <2>3. Cardinality(after) < b
    BY <2>1
  <2>4. T \subseteq after \cup {m}
    <3> SUFFICES ASSUME NEW x \in T, x # m PROVE x \in after
      OBVIOUS
    <3>1. x \in Nat /\ m \in Nat /\ m <= x
      BY <2>1
    <3>2. x > m
      BY <3>1
    <3> QED
      BY <3>2
  <2>5. m \notin after
    BY <2>1
  <2> HIDE DEF after
  <2>6. IsFiniteSet(after) /\ Cardinality(after) \in Nat
    BY <2>2, FS_Subset, FS_CardinalityType
  <2>7. IsFiniteSet(after \cup {m}) /\ Cardinality(after \cup {m}) = Cardinality(after) + 1
    BY <2>5, <2>6, FS_AddElement
  <2>8. Cardinality(T) <= Cardinality(after) + 1
    BY <2>4, <2>7, FS_Subset
  <2> QED
    BY <1>1, <2>3, <2>6, <2>8
<1> QED
  BY <1>2, <1>3

-----------------------------------------------------------------------------
(* Sums. Induction over the parts of a set is stated for a set of parts: an  *)
(* induction theorem with a predicate would take an operator as a parameter. *)

Chosen(T) == CHOOSE x \in T : TRUE

SizedParts(S, n) == {T \in SUBSET S : Cardinality(T) <= n}

\* What a sum over some of the sets is: the recursion of SumFunction.
IsSum(sum, f, Sets) ==
    sum = [T \in Sets |-> IF T = {} THEN 0 ELSE f[Chosen(T)] + sum[T \ {Chosen(T)}]]

\* The same, value by value.
AddsUp(sum, f, S) ==
    /\ sum[{}] = 0
    /\ \A T \in SUBSET S : T # {} => sum[T] = f[Chosen(T)] + sum[T \ {Chosen(T)}]

\* Up to any size, the recursion that defines a sum has a solution: the solution
\* for the next size is its right-hand side.
LEMMA SumUpTo ==
    ASSUME NEW S, IsFiniteSet(S), NEW f, NEW n \in Nat
    PROVE  \E sum : IsSum(sum, f, SizedParts(S, n))
<1> DEFINE Level(k) == SizedParts(S, k)
           Solves(sum, k) == IsSum(sum, f, Level(k))
           Bad == {k \in Nat : ~ \E sum : Solves(sum, k)}
<1> USE DEF SizedParts, IsSum
<1>1. \A T \in SUBSET S : T # {} => Chosen(T) \in T
  BY DEF Chosen
<1>2. \A T \in SUBSET S : /\ IsFiniteSet(T) /\ Cardinality(T) \in Nat
                          /\ T # {} => Cardinality(T \ {Chosen(T)}) = Cardinality(T) - 1
                          /\ Cardinality(T) = 0 => T = {}
  BY <1>1, FS_Subset, FS_CardinalityType, FS_RemoveElement, FS_EmptySet
<1>3. ASSUME NEW k \in Nat, k = 0 PROVE \E sum : Solves(sum, k)
  <2> DEFINE s == [T \in Level(k) |-> 0]
  <2>1. ASSUME NEW T \in Level(k) PROVE T = {}
    <3>1. T \in SUBSET S /\ Cardinality(T) <= 0
      BY <1>3
    <3>2. Cardinality(T) \in Nat /\ (Cardinality(T) = 0 => T = {})
      BY <1>2, <3>1
    <3> QED
      BY <3>1, <3>2
  <2>2. Solves(s, k)
    BY <2>1
  <2> QED
    BY <2>2
<1>4. ASSUME NEW k \in Nat, NEW sum, Solves(sum, k)
      PROVE  \E s : Solves(s, k + 1)
  <2> DEFINE Step(T) == IF T = {} THEN 0 ELSE f[Chosen(T)] + sum[T \ {Chosen(T)}]
             s == [T \in Level(k + 1) |-> Step(T)]
  <2>1. ASSUME NEW T \in Level(k) PROVE T \in Level(k + 1) /\ sum[T] = Step(T)
    <3>1. T \in SUBSET S /\ Cardinality(T) <= k
      OBVIOUS
    <3>2. Cardinality(T) \in Nat
      BY <1>2, <3>1
    <3>3. Cardinality(T) <= k + 1
      BY <3>1, <3>2
    <3>4. T \in Level(k + 1)
      BY <3>1, <3>3
    <3>5. sum[T] = Step(T)
      BY <1>4
    <3> QED
      BY <3>4, <3>5
  <2>2. \A T \in Level(k) : s[T] = sum[T]
    BY <2>1
  <2>3. \A T \in Level(k + 1) : T # {} => T \ {Chosen(T)} \in Level(k)
    BY <1>2
  <2>4. \A T \in Level(k + 1) : s[T] = IF T = {} THEN 0 ELSE f[Chosen(T)] + s[T \ {Chosen(T)}]
    <3> SUFFICES ASSUME NEW T \in Level(k + 1)
                 PROVE  s[T] = IF T = {} THEN 0 ELSE f[Chosen(T)] + s[T \ {Chosen(T)}]
      OBVIOUS
    <3>1. s[T] = Step(T)
      OBVIOUS
    <3> HIDE DEF s, Level
    <3> QED
      BY <2>2, <2>3, <3>1
  <2>5. s = [T \in Level(k + 1) |-> IF T = {} THEN 0 ELSE f[Chosen(T)] + s[T \ {Chosen(T)}]]
    <3>1. s = [T \in Level(k + 1) |-> s[T]]
      OBVIOUS
    <3> HIDE DEF s, Level
    <3> QED
      BY <2>4, <3>1
  <2> QED
    BY <2>5
<1> HIDE DEF Solves, Level
<1>5. Bad = {}
  <2> SUFFICES ASSUME Bad # {} PROVE FALSE
    OBVIOUS
  <2>1. Bad \subseteq Nat
    OBVIOUS
  <2>2. PICK m \in Bad : \A k \in Bad : m <= k
    BY <2>1, NatMin
  <2>3. m # 0
    BY <1>3, <2>2
  <2>4. m - 1 \in Nat /\ m - 1 \notin Bad
    BY <2>1, <2>2, <2>3
  <2>5. PICK sum : Solves(sum, m - 1)
    BY <2>4
  <2>6. \E s : Solves(s, (m - 1) + 1)
    BY <1>4, <2>4, <2>5
  <2>7. (m - 1) + 1 = m
    BY <2>1, <2>2
  <2> QED
    BY <2>2, <2>6, <2>7
<1>6. \E sum : Solves(sum, n)
  BY <1>5
<1> HIDE DEF SizedParts, IsSum
<1> QED
  BY <1>6 DEF Solves, Level

\* SumFunction adds up the values one by one, in the order in which CHOOSE takes
\* them from the domain.
LEMMA SumSteps ==
    ASSUME NEW S, IsFiniteSet(S), NEW f \in [S -> Int]
    PROVE  \E sum : SumFunction(f) = sum[S] /\ AddsUp(sum, f, S)
<1> DEFINE Solves(sum) == IsSum(sum, f, SUBSET S)
<1>0. DOMAIN f = S
  OBVIOUS
<1>1. \E sum : Solves(sum)
  <2> DEFINE n == Cardinality(S)
  <2>1. n \in Nat
    BY FS_CardinalityType
  <2>2. SizedParts(S, n) = SUBSET S
    BY FS_Subset DEF SizedParts
  <2> HIDE DEF n
  <2>3. \E sum : IsSum(sum, f, SizedParts(S, n))
    BY <2>1, SumUpTo
  <2> QED
    BY <2>2, <2>3
<1> DEFINE s == CHOOSE sum : Solves(sum)
<1>2. Solves(s)
  BY <1>1
<1>3. SumFunction(f) = s[S]
  BY <1>0 DEF IsSum, SumFunction, SumFunctionOnSet, FoldFunctionOnSet, MapThenFoldSet, Chosen
<1> HIDE DEF s
<1>4. \A T \in SUBSET S :
        s[T] = IF T = {} THEN 0 ELSE f[Chosen(T)] + s[T \ {Chosen(T)}]
  BY <1>2 DEF IsSum
<1>5. {} \in SUBSET S
  OBVIOUS
<1>6. AddsUp(s, f, S)
  BY <1>4, <1>5 DEF AddsUp
<1> QED
  BY <1>3, <1>6

\* Induction along that order: a set of parts of S that has {} and every part whose
\* remainder it has, has S.
LEMMA ChosenInduction ==
    ASSUME NEW S, IsFiniteSet(S), NEW Q, {} \in Q,
           \A T \in SUBSET S : T # {} /\ T \ {Chosen(T)} \in Q => T \in Q
    PROVE  S \in Q
<1> DEFINE R == StrictSubsetOrdering(S)
           F == FiniteSubsetsOf(S)
           Bad == {U \in F : U \notin Q}
<1>1. IsWellFoundedOn(R, F)
  BY FS_StrictSubsetOrderingWellFounded
<1>2. \A U : U \in F <=> U \subseteq S /\ IsFiniteSet(U)
  BY DEF FiniteSubsetsOf
<1>3. \A U, V \in F : V \subseteq U /\ V # U => <<V, U>> \in R
  BY <1>2 DEF StrictSubsetOrdering
<1> HIDE DEF R, F
<1>4. Bad = {}
  <2> SUFFICES ASSUME Bad # {} PROVE FALSE
    OBVIOUS
  <2>1. PICK U \in Bad : \A V \in Bad : ~ (<<V, U>> \in R)
    <3>1. Bad \subseteq F
      OBVIOUS
    <3> HIDE DEF Bad
    <3> QED
      BY <1>1, <3>1, WFMin
  <2>2. U \subseteq S /\ IsFiniteSet(U) /\ U # {}
    BY <1>2
  <2>3. Chosen(U) \in U
    BY <2>2 DEF Chosen
  <2>4. U \ {Chosen(U)} \in F
    BY <1>2, <2>2, FS_RemoveElement
  <2>5. U \ {Chosen(U)} \notin Bad
    BY <1>3, <2>1, <2>3, <2>4
  <2> QED
    BY <2>2, <2>4, <2>5
<1> QED
  BY <1>2, <1>4

\* The size of a part grows by one with its chosen element.
LEMMA ChosenSize ==
    ASSUME NEW S, IsFiniteSet(S), NEW T \in SUBSET S, T # {}
    PROVE  /\ Chosen(T) \in T /\ Chosen(T) \in S
           /\ T \ {Chosen(T)} \in SUBSET S
           /\ Cardinality(T) \in Nat \ {0}
           /\ Cardinality(T \ {Chosen(T)}) \in Nat
           /\ Cardinality(T) = Cardinality(T \ {Chosen(T)}) + 1
<1>1. Chosen(T) \in T
  BY DEF Chosen
<1>2. IsFiniteSet(T) /\ Cardinality(T) \in Nat
  BY FS_Subset, FS_CardinalityType
<1>3. /\ IsFiniteSet(T \ {Chosen(T)}) /\ Cardinality(T \ {Chosen(T)}) \in Nat
      /\ Cardinality(T \ {Chosen(T)}) = Cardinality(T) - 1
  BY <1>1, <1>2, FS_RemoveElement, FS_CardinalityType
<1> QED
  BY <1>1, <1>2, <1>3

\* A sum of integers is an integer.
LEMMA SumInt ==
    ASSUME NEW S, IsFiniteSet(S), NEW f \in [S -> Int]
    PROVE  SumFunction(f) \in Int
<1>1. PICK sum : SumFunction(f) = sum[S] /\ AddsUp(sum, f, S)
  BY SumSteps
<1> DEFINE Q == {T \in SUBSET S : sum[T] \in Int}
<1>2. {} \in Q
  BY <1>1 DEF AddsUp
<1>3. ASSUME NEW T \in SUBSET S, T # {}, T \ {Chosen(T)} \in Q
      PROVE  T \in Q
  <2>1. sum[T] = f[Chosen(T)] + sum[T \ {Chosen(T)}]
    BY <1>1, <1>3 DEF AddsUp
  <2>2. f[Chosen(T)] \in Int /\ sum[T \ {Chosen(T)}] \in Int
    BY <1>3, ChosenSize
  <2>3. sum[T] \in Int
    BY <2>1, <2>2
  <2> QED
    BY <2>3
<1>4. \A T \in SUBSET S : T # {} /\ T \ {Chosen(T)} \in Q => T \in Q
  BY <1>3
<1> HIDE DEF Q
<1>5. S \in Q
  BY <1>2, <1>4, ChosenInduction
<1> QED
  BY <1>1, <1>5 DEF Q

\* It is between n times a lower and n times an upper bound of them.
LEMMA SumBetween ==
    ASSUME NEW S, IsFiniteSet(S), NEW f \in [S -> Int], NEW lo \in Int, NEW hi \in Int,
           \A x \in S : lo <= f[x] /\ f[x] <= hi
    PROVE  /\ lo * Cardinality(S) <= SumFunction(f)
           /\ SumFunction(f) <= hi * Cardinality(S)
<1>1. PICK sum : SumFunction(f) = sum[S] /\ AddsUp(sum, f, S)
  BY SumSteps
<1> DEFINE Q == {T \in SUBSET S : /\ sum[T] \in Int
                                  /\ lo * Cardinality(T) <= sum[T]
                                  /\ sum[T] <= hi * Cardinality(T)}
<1>2. {} \in Q
  BY <1>1, FS_EmptySet DEF AddsUp
<1>3. ASSUME NEW T \in SUBSET S, T # {}, T \ {Chosen(T)} \in Q
      PROVE  T \in Q
  <2> DEFINE x == Chosen(T)
             U == T \ {x}
             n == Cardinality(U)
             m == Cardinality(T)
  <2>1. x \in S /\ n \in Nat /\ m = n + 1
    BY <1>3, ChosenSize
  <2>2. sum[U] \in Int /\ lo * n <= sum[U] /\ sum[U] <= hi * n
    BY <1>3
  <2>3. sum[T] = f[x] + sum[U]
    BY <1>1, <1>3 DEF AddsUp
  <2>4. f[x] \in Int /\ lo <= f[x] /\ f[x] <= hi
    BY <2>1
  <2> HIDE DEF x, U, n, m
  <2>5. lo * m = lo * n + lo /\ hi * m = hi * n + hi /\ lo * n \in Int /\ hi * n \in Int
    BY <2>1
  <2>6. sum[T] \in Int /\ lo * m <= sum[T] /\ sum[T] <= hi * m
    BY <2>2, <2>3, <2>4, <2>5
  <2> QED
    BY <2>6 DEF m
<1>4. \A T \in SUBSET S : T # {} /\ T \ {Chosen(T)} \in Q => T \in Q
  BY <1>3
<1> HIDE DEF Q
<1>5. S \in Q
  BY <1>2, <1>4, ChosenInduction
<1> QED
  BY <1>1, <1>5 DEF Q

\* One step of the inequality: with s*s <= n*q for n terms, it holds for one more.
LEMMA SquareStep ==
    ASSUME NEW n \in Nat, NEW s \in Int, NEW q \in Nat, NEW a \in Int, NEW b \in Int,
           s * s <= n * q, a * a <= b
    PROVE  (a + s) * (a + s) <= (n + 1) * (b + q)
<1>1. (a + s) * (a + s) = a * a + 2 * (s * a) + s * s
  OBVIOUS
<1>2. (n + 1) * (b + q) = n * b + n * q + b + q
  OBVIOUS
<1> DEFINE x == n * b + q - 2 * (s * a)
<1>3. x \in Int
  OBVIOUS
<1>4. x >= 0
  <2>1. CASE n = 0
    <3>1. s * s <= 0
      BY <2>1
    <3>2. s = 0
      BY <3>1
    <3> QED
      BY <2>1, <3>2
  <2>2. CASE n # 0
    <3>1. n * x = n * (n * b) + n * q - 2 * (n * (s * a))
      OBVIOUS
    <3>2. (n * a - s) * (n * a - s) = n * (n * (a * a)) - 2 * (n * (s * a)) + s * s
      OBVIOUS
    <3>3. (n * a - s) * (n * a - s) >= 0
      <4>1. \A z \in Int : z * z >= 0
        OBVIOUS
      <4>2. n * a - s \in Int
        OBVIOUS
      <4> QED
        BY <4>1, <4>2
    <3>4. n * (n * (a * a)) <= n * (n * b)
      <4>1. \A y, z \in Int : y <= z => n * y <= n * z
        OBVIOUS
      <4>2. a * a \in Int /\ n * (a * a) \in Int /\ n * b \in Int
        OBVIOUS
      <4>3. n * (a * a) <= n * b
        BY <4>1, <4>2
      <4> QED
        BY <4>1, <4>2, <4>3
    <3>5. n * x >= 0
      <4> DEFINE p == n * (n * b)
                 r == n * q
                 c == n * (s * a)
                 e == n * (n * (a * a))
                 ss == s * s
                 sq == (n * a - s) * (n * a - s)
      <4>1. p \in Int /\ r \in Int /\ c \in Int /\ e \in Int /\ ss \in Int
        OBVIOUS
      <4>2. n * x = p + r - 2 * c /\ sq = e - 2 * c + ss /\ sq >= 0 /\ e <= p /\ ss <= r
        BY <3>1, <3>2, <3>3, <3>4
      <4> HIDE DEF p, r, c, e, ss, sq, x
      <4> QED
        BY <4>1, <4>2
    <3> HIDE DEF x
    <3>6. \A z \in Int : z < 0 => n * z < 0
      BY <2>2
    <3> QED
      BY <1>3, <3>5, <3>6
  <2> QED
    BY <2>1, <2>2
<1>5. a * a + 2 * (s * a) + s * s <= n * b + n * q + b + q
  <2> DEFINE aa == a * a
             sa == s * a
             ss == s * s
             nb == n * b
             nq == n * q
  <2>1. aa \in Int /\ sa \in Int /\ ss \in Int /\ nb \in Int /\ nq \in Int
    OBVIOUS
  <2>2. aa <= b /\ ss <= nq /\ nb + q - 2 * sa >= 0
    BY <1>4
  <2> HIDE DEF aa, sa, ss, nb, nq
  <2>3. aa + 2 * sa + ss <= nb + nq + b + q
    BY <2>1, <2>2
  <2> QED
    BY <2>3 DEF aa, sa, ss, nb, nq
<1> QED
  BY <1>1, <1>2, <1>5

\* Cauchy and Schwarz: where the square of every value is at most another one, the
\* square of their sum is at most n times the sum of the others.
LEMMA SquareOfSum ==
    ASSUME NEW S, IsFiniteSet(S), NEW f \in [S -> Int], NEW g \in [S -> Int], NEW k \in Int,
           \A x \in S : f[x] * f[x] <= g[x] * k
    PROVE  SumFunction(f) * SumFunction(f) <= Cardinality(S) * (SumFunction(g) * k)
<1>1. PICK sf : SumFunction(f) = sf[S] /\ AddsUp(sf, f, S)
  BY SumSteps
<1>2. PICK sg : SumFunction(g) = sg[S] /\ AddsUp(sg, g, S)
  BY SumSteps
<1> DEFINE Q == {T \in SUBSET S : /\ sf[T] \in Int
                                  /\ sg[T] \in Int
                                  /\ sg[T] * k \in Nat
                                  /\ sf[T] * sf[T] <= Cardinality(T) * (sg[T] * k)}
<1>3. {} \in Q
  BY <1>1, <1>2, FS_EmptySet DEF AddsUp
<1>4. ASSUME NEW T \in SUBSET S, T # {}, T \ {Chosen(T)} \in Q
      PROVE  T \in Q
  <2> DEFINE x == Chosen(T)
             U == T \ {x}
             n == Cardinality(U)
             m == Cardinality(T)
             a == f[x]
             b == g[x]
             s == sf[U]
             q == sg[U]
  <2>1. x \in S /\ n \in Nat /\ m = n + 1
    BY <1>4, ChosenSize
  <2>2. s \in Int /\ q \in Int /\ q * k \in Nat /\ s * s <= n * (q * k)
    BY <1>4
  <2>3. sf[T] = a + s /\ sg[T] = b + q
    BY <1>1, <1>2, <1>4 DEF AddsUp
  <2>4. a \in Int /\ b \in Int /\ a * a <= b * k
    BY <2>1
  <2> HIDE DEF x, U, n, m, a, b, s, q
  <2>5. sf[T] \in Int /\ sg[T] \in Int /\ b * k \in Int
    BY <2>2, <2>3, <2>4
  <2>6. sg[T] * k = b * k + q * k
    BY <2>2, <2>3, <2>4
  <2>7. b * k >= 0
    <3>1. \A z \in Int : z * z >= 0
      OBVIOUS
    <3>2. a * a >= 0 /\ a * a \in Int
      BY <2>4, <3>1
    <3> QED
      BY <2>4, <2>5, <3>2
  <2>8. sg[T] * k \in Nat
    BY <2>2, <2>5, <2>6, <2>7
  <2>9. (a + s) * (a + s) <= (n + 1) * (b * k + q * k)
    BY <2>1, <2>2, <2>4, <2>5, SquareStep
  <2> QED
    BY <2>1, <2>3, <2>5, <2>6, <2>8, <2>9 DEF m
<1>5. \A T \in SUBSET S : T # {} /\ T \ {Chosen(T)} \in Q => T \in Q
  BY <1>4
<1> HIDE DEF Q
<1>6. S \in Q
  BY <1>3, <1>5, ChosenInduction
<1> QED
  BY <1>1, <1>2, <1>6 DEF Q

Square(x) == x * x
Expansion(n, t, count, squares, sum) == n * n * squares - 2 * n * t * sum + count * t * t

\* The squared deviations from a value t of n times the values, summed up.
LEMMA SumOfDeviations ==
    ASSUME NEW S, IsFiniteSet(S), NEW f \in [S -> Int], NEW n \in Int, NEW t \in Int
    PROVE  SumFunction([x \in S |-> Square(n * f[x] - t)])
             = Expansion(n, t, Cardinality(S), SumFunction([x \in S |-> Square(f[x])]),
                         SumFunction(f))
<1> DEFINE squares == [x \in S |-> Square(f[x])]
           d == [x \in S |-> Square(n * f[x] - t)]
<1>0. /\ squares \in [S -> Int] /\ \A x \in S : squares[x] = Square(f[x])
      /\ d \in [S -> Int] /\ \A x \in S : d[x] = Square(n * f[x] - t)
  BY DEF Square
<1> HIDE DEF squares, d
<1>1. PICK sf : SumFunction(f) = sf[S] /\ AddsUp(sf, f, S)
  BY SumSteps
<1>2. PICK sq : SumFunction(squares) = sq[S] /\ AddsUp(sq, squares, S)
  BY <1>0, SumSteps
<1>3. PICK sd : SumFunction(d) = sd[S] /\ AddsUp(sd, d, S)
  BY <1>0, SumSteps
<1> DEFINE Q == {T \in SUBSET S :
                   /\ sf[T] \in Int /\ sq[T] \in Int /\ sd[T] \in Int
                   /\ sd[T] = n * n * sq[T] - 2 * n * t * sf[T] + Cardinality(T) * t * t}
<1>4. {} \in Q
  BY <1>1, <1>2, <1>3, FS_EmptySet DEF AddsUp
<1>5. ASSUME NEW T \in SUBSET S, T # {}, T \ {Chosen(T)} \in Q
      PROVE  T \in Q
  <2> DEFINE x == Chosen(T)
             U == T \ {x}
             c == Cardinality(U)
             m == Cardinality(T)
             a == f[x]
             s == sf[U]
             q == sq[U]
             e == sd[U]
  <2>1. x \in S /\ c \in Nat /\ m = c + 1
    BY <1>5, ChosenSize
  <2>2. s \in Int /\ q \in Int /\ e \in Int /\ e = n * n * q - 2 * n * t * s + c * t * t
    BY <1>5
  <2>3. a \in Int /\ squares[x] = a * a /\ d[x] = (n * a - t) * (n * a - t)
    BY <1>0, <2>1 DEF Square
  <2>4. sf[T] = a + s /\ sq[T] = a * a + q /\ sd[T] = (n * a - t) * (n * a - t) + e
    BY <1>1, <1>2, <1>3, <1>5, <2>3 DEF AddsUp
  <2> HIDE DEF x, U, c, m, a, s, q, e
  <2>5. sf[T] \in Int /\ sq[T] \in Int /\ sd[T] \in Int
    BY <2>2, <2>3, <2>4
  <2>6. (n * a - t) * (n * a - t) + (n * n * q - 2 * n * t * s + c * t * t)
          = n * n * (a * a + q) - 2 * n * t * (a + s) + (c + 1) * t * t
    BY <2>1, <2>2, <2>3
  <2>7. sd[T] = n * n * sq[T] - 2 * n * t * sf[T] + m * t * t
    BY <2>1, <2>2, <2>4, <2>6
  <2> QED
    BY <2>5, <2>7 DEF m
<1>6. \A T \in SUBSET S : T # {} /\ T \ {Chosen(T)} \in Q => T \in Q
  BY <1>5
<1> HIDE DEF Q
<1>7. S \in Q
  BY <1>4, <1>6, ChosenInduction
<1> QED
  BY <1>1, <1>2, <1>3, <1>7 DEF Q, Expansion, squares, d

=============================================================================
