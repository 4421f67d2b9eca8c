------------------------ MODULE TrainingMetricsProofs ------------------------
(***************************************************************************)
(* Proofs about TrainingMetrics for any tables, runs and limits: what the  *)
(* upload's validation promises to a training that reads the file later,   *)
(* and that the summary of the metrics agrees with itself.                 *)
(***************************************************************************)
EXTENDS TrainingMetrics, Aggregates

Files == [table : Tables \cup {NoTable}, checked : BOOLEAN]
Results == {NoMetrics} \cup HeavyMetrics \cup {Baseline(t) : t \in Tables}
Places == {"idle", "created", "trained", "stored", "done",
           "unreadable", "unfit", "notJson", "abandoned"}

TypeOK ==
    /\ latest \in Files
    /\ runs \in [Runs -> [status : {"none", "PROCESSING", "SUCCESS"}, metrics : Results]]
    /\ training \in [Runs -> [at : Places, file : Files, result : Results]]

\* What was checked once is still what is read: the mark goes with its table.
Checked(f) == f.checked => f.table \in Tables /\ Accepts(f.table)
CheckedInv ==
    /\ Checked(latest)
    /\ \A r \in Runs : Checked(training[r].file)
    /\ \A r \in Runs : training[r].at = "created" => training[r].result = NoMetrics

InductiveInv == TypeOK /\ CheckedInv

-----------------------------------------------------------------------------
(* Tables *)

\* The target is a column of the header.
LEMMA TargetIsColumn ==
    ASSUME NEW t \in Tables, t.header # <<>>
    PROVE  Target(t) \in DOMAIN t.header
<1>1. t.header \in Seq(STRING) /\ Len(t.header) \in Nat \ {0}
  BY MetricsAssumed DEF MetricsAssumption, IsTable
<1>2. DOMAIN t.header = 1 .. Len(t.header)
  BY <1>1
<1>3. CASE Present(t) = {}
  BY <1>1, <1>2, <1>3 DEF Target
<1>4. CASE Present(t) # {}
  <2>1. Present(t) \subseteq Nat
    BY DEF Present, Candidates
  <2>2. Min(Present(t)) \in Present(t)
    BY <1>4, <2>1, NatMin DEF Min
  <2> DEFINE C == Columns(t, Candidates[Min(Present(t))])
  <2>3. C # {}
    BY <2>2 DEF Present
  <2>4. C \subseteq DOMAIN t.header
    BY DEF Columns
  <2>5. C \subseteq Nat
    BY <1>2, <2>4
  <2> HIDE DEF C
  <2>6. Min(C) \in C
    BY <2>3, <2>5, NatMin DEF Min
  <2>7. Target(t) = Min(C)
    BY <1>4 DEF Target, C
  <2> QED
    BY <2>4, <2>6, <2>7
<1> QED
  BY <1>3, <1>4

\* An accepted table has a header and data.
LEMMA AcceptedIsReadable ==
    ASSUME NEW t \in Tables, Accepts(t)
    PROVE  Readable(t)
<1>1. t.header \in Seq(STRING)
  BY MetricsAssumed DEF MetricsAssumption, IsTable
<1>2. Named(t) # {}
  BY FS_EmptySet DEF Accepts
<1>3. t.header # <<>>
  <2>1. PICK c \in DOMAIN t.header : TRUE
    BY <1>2 DEF Named
  <2>2. DOMAIN t.header = 1 .. Len(t.header)
    BY <1>1
  <2>3. Len(t.header) # 0
    BY <1>1, <2>1, <2>2
  <2> QED
    BY <2>3
<1> QED
  BY <1>3 DEF Accepts, Readable

\* It has a named column besides its target.
LEMMA AcceptedHasColumn ==
    ASSUME NEW t \in Tables, Accepts(t)
    PROVE  \E c \in DOMAIN t.header : c # Target(t)
<1>1. SUFFICES ASSUME \A c \in DOMAIN t.header : c = Target(t)
               PROVE  FALSE
  OBVIOUS
<1>2. Named(t) \subseteq {Target(t)}
  BY <1>1 DEF Named
<1>3. IsFiniteSet({Target(t)}) /\ Cardinality({Target(t)}) = 1
  BY FS_Singleton
<1>4. Cardinality(Named(t)) <= 1 /\ Cardinality(Named(t)) \in Nat
  BY <1>2, <1>3, FS_Subset, FS_CardinalityType
<1> QED
  BY <1>4 DEF Accepts

\* A product grows with its second factor.
LEMMA Monotone ==
    ASSUME NEW x \in Nat, NEW y \in Int, NEW z \in Int, y <= z
    PROVE  x * y <= x * z
OBVIOUS

\* Nothing overflows where n numbers are between -b and b, and n times the square of
\* 2b is a float: their sum is at most n*b, a deviation from their mean 2b.
LEMMA ModerateErrors ==
    ASSUME NEW S, IsFiniteSet(S), S # {}, NEW Y \in [S -> Int], NEW b \in Nat,
           Cardinality(S) * (2 * b) * (2 * b) <= MaxFloat,
           \A i \in S : Y[i] \in -b .. b
    PROVE  ~MeanOverflows(Y) /\ ~SquareOverflows(Y) /\ ~SumOverflows(Y)
<1> DEFINE n == Cardinality(S)
           total == SumFunction(Y)
           Q == [i \in S |-> Y[i] * Y[i]]
           squares == SumFunction(Q)
           D == Deviations(Y)
           M == MaxFloat
<1>1. DOMAIN Y = S /\ n \in Nat \ {0} /\ M \in Nat
  BY FS_CardinalityType, FS_EmptySet, MetricsAssumed DEF MetricsAssumption
<1>2. n * (2 * b) * (2 * b) <= M /\ \A i \in S : Y[i] \in Int /\ -b <= Y[i] /\ Y[i] <= b
  OBVIOUS
<1>3. D = [i \in S |-> IF n * Y[i] >= total THEN n * Y[i] - total ELSE total - n * Y[i]]
  BY <1>1 DEF Deviations
<1>4. total \in Int /\ (-b) * n <= total /\ total <= b * n
  BY <1>2, SumInt, SumBetween
<1>5. \A T \in SUBSET S :
        LET part == SumFunction([i \in T |-> Y[i]])
        IN  part \in Int /\ (-b) * n <= part /\ part <= b * n
  <2> SUFFICES ASSUME NEW T \in SUBSET S
               PROVE  LET part == SumFunction([i \in T |-> Y[i]])
                      IN  part \in Int /\ (-b) * n <= part /\ part <= b * n
    OBVIOUS
  <2> DEFINE f == [i \in T |-> Y[i]]
             part == SumFunction(f)
             m == Cardinality(T)
  <2>1. IsFiniteSet(T) /\ m \in Nat /\ m <= n
    BY FS_Subset, FS_CardinalityType
  <2>2. f \in [T -> Int] /\ \A i \in T : -b <= f[i] /\ f[i] <= b
    BY <1>2
  <2> HIDE DEF f, n
  <2>3. part \in Int /\ (-b) * m <= part /\ part <= b * m
    BY <2>1, <2>2, SumInt, SumBetween
  <2>4. b * m <= b * n
    BY <1>1, <2>1, Monotone
  <2>5. (-b) * n <= (-b) * m
    BY <1>1, <2>1, <2>4
  <2> HIDE DEF part, m
  <2>6. (-b) * m \in Int /\ (-b) * n \in Int /\ b * m \in Int /\ b * n \in Int
    BY <1>1, <2>1
  <2>7. (-b) * n <= part /\ part <= b * n
    BY <1>1, <2>1, <2>3, <2>4, <2>5, <2>6
  <2> QED
    BY <2>3, <2>7 DEF part, f
<1> HIDE DEF n, total, D, M, Q, squares
<1>6. 2 * (b * n) <= M /\ b * n <= M /\ b * n \in Nat
  <2>1. b <= b * b
    OBVIOUS
  <2>2. n * b <= n * (b * b) /\ n * b \in Nat /\ n * (b * b) \in Nat
    BY <1>1, <2>1, Monotone
  <2>3. n * (2 * b) * (2 * b) = 4 * (n * (b * b)) /\ b * n = n * b
    BY <1>1
  <2> QED
    BY <1>1, <1>2, <2>2, <2>3
<1>7. ~MeanOverflows(Y)
  <2>1. ASSUME NEW k \in S
        PROVE  SumFunction([i \in {j \in S : j <= k} |-> Y[i]]) \in -M .. M
    <3> DEFINE part == SumFunction([i \in {j \in S : j <= k} |-> Y[i]])
    <3>1. {j \in S : j <= k} \in SUBSET S
      OBVIOUS
    <3>2. part \in Int /\ (-b) * n <= part /\ part <= b * n
      BY <1>5, <3>1
    <3>3. (-b) * n = -(b * n)
      BY <1>1
    <3> HIDE DEF part
    <3>4. part \in -M .. M
      BY <1>1, <1>6, <3>2, <3>3
    <3> QED
      BY <3>4 DEF part
  <2> QED
    BY <1>1, <2>1 DEF MeanOverflows, M
<1>8. D \in [S -> Int] /\ \A i \in S : 0 <= D[i] /\ D[i] <= 2 * (b * n)
  <2>1. ASSUME NEW i \in S
        PROVE  /\ n * Y[i] - total \in Int /\ total - n * Y[i] \in Int
               /\ n * Y[i] - total <= 2 * (b * n) /\ total - n * Y[i] <= 2 * (b * n)
    <3>1. n * Y[i] <= n * b /\ n * (-b) <= n * Y[i] /\ n * Y[i] \in Int
      BY <1>1, <1>2, Monotone
    <3>2. n * b = b * n /\ n * (-b) = -(b * n) /\ (-b) * n = -(b * n)
      BY <1>1
    <3> DEFINE x == n * Y[i]
               c == b * n
    <3>3. x \in Int /\ total \in Int /\ c \in Nat
      BY <1>4, <1>6, <3>1
    <3>4. x <= c /\ -c <= x /\ -c <= total /\ total <= c
      BY <1>4, <3>1, <3>2
    <3> HIDE DEF x, c
    <3>5. x - total \in Int /\ total - x \in Int /\ x - total <= 2 * c /\ total - x <= 2 * c
      BY <3>3, <3>4
    <3> QED
      BY <3>5 DEF x, c
  <2>2. \A i \in S : D[i] = IF n * Y[i] >= total THEN n * Y[i] - total ELSE total - n * Y[i]
    BY <1>3
  <2>3. ASSUME NEW i \in S PROVE D[i] \in Int /\ 0 <= D[i] /\ D[i] <= 2 * (b * n)
    <3> DEFINE x == n * Y[i]
    <3>1. x \in Int /\ total \in Int
      BY <1>1, <1>2, <1>4
    <3>2. D[i] = IF x >= total THEN x - total ELSE total - x
      BY <2>2
    <3>3. x - total <= 2 * (b * n) /\ total - x <= 2 * (b * n)
      BY <2>1
    <3> HIDE DEF x
    <3> QED
      BY <3>1, <3>2, <3>3
  <2> QED
    BY <1>3, <2>3
<1>9. ~SquareOverflows(Y)
  <2>1. ASSUME NEW i \in S PROVE D[i] * D[i] <= n * n * M
    <3> DEFINE c == 2 * (b * n)
    <3>1. D[i] \in Nat /\ c \in Nat /\ D[i] <= c
      BY <1>1, <1>8
    <3>2. D[i] * D[i] <= D[i] * c /\ D[i] * c = c * D[i] /\ c * D[i] <= c * c
      <4> HIDE DEF c
      <4> QED
        BY <3>1, Monotone
    <3>3. c * c = n * (n * (2 * b) * (2 * b))
      BY <1>1
    <3>4. n * (2 * b) * (2 * b) \in Int
      BY <1>1
    <3>5. n * (n * (2 * b) * (2 * b)) <= n * M
      BY <1>1, <1>2, <3>4, Monotone
    <3>6. M <= n * M
      BY <1>1
    <3>7. n * M \in Int /\ n * (n * M) = n * n * M /\ n * M <= n * (n * M)
      BY <1>1, <3>6, Monotone
    <3>8. D[i] * D[i] \in Int /\ D[i] * c \in Int /\ c * c \in Int /\ n * n * M \in Int
      BY <1>1, <3>1
    <3> HIDE DEF c
    <3> QED
      BY <3>2, <3>3, <3>5, <3>7, <3>8
  <2>2. \A i \in S : ~(D[i] * D[i] > n * n * M)
    <3> SUFFICES ASSUME NEW i \in S PROVE ~(D[i] * D[i] > n * n * M)
      OBVIOUS
    <3>1. D[i] * D[i] \in Int /\ n * n * M \in Int
      BY <1>1, <1>8
    <3> QED
      BY <2>1, <3>1
  <2> QED
    BY <1>1, <2>2 DEF SquareOverflows, n, D, M
<1>10. SumFunction(D) <= n * M /\ SumFunction(D) \in Int
  <2>1. 2 * (b * n) \in Int /\ 0 \in Int
    BY <1>1
  <2>2. SumFunction(D) \in Int /\ SumFunction(D) <= 2 * (b * n) * n
    BY <1>8, <2>1, SumInt, SumBetween DEF n
  <2>3. n * (2 * (b * n)) <= n * M
    BY <1>1, <1>6, <2>1, Monotone
  <2>4. 2 * (b * n) * n = n * (2 * (b * n)) /\ n * M \in Int /\ 2 * (b * n) * n \in Int
    BY <1>1
  <2> QED
    BY <2>2, <2>3, <2>4
<1>11. Variation(Y) <= n * M /\ Variation(Y) \in Int
  <2>1. Variation(Y) = n * squares - total * total
    BY <1>1 DEF Variation, n, total, squares, Q
  <2>2. Q \in [S -> Int] /\ \A i \in S : 0 <= Q[i] /\ Q[i] <= b * b
    <3>1. ASSUME NEW i \in S PROVE Y[i] * Y[i] \in Int /\ 0 <= Y[i] * Y[i] /\ Y[i] * Y[i] <= b * b
      BY <1>2
    <3> QED
      BY <3>1 DEF Q
  <2>3. squares \in Int /\ squares <= b * b * n
    BY <2>2, SumInt, SumBetween DEF squares, n
  <2>4. b * b * n <= M /\ b * b * n \in Int
    <3>1. n * (2 * b) * (2 * b) = 4 * (b * b * n) /\ b * b * n \in Nat
      BY <1>1
    <3> QED
      BY <1>1, <1>2, <3>1
  <2>5. n * squares <= n * M /\ n * squares \in Int /\ n * M \in Int
    BY <1>1, <2>3, <2>4, Monotone
  <2>6. total * total \in Int /\ total * total >= 0
    BY <1>4
  <2> QED
    BY <2>1, <2>5, <2>6
<1>12. ~SumOverflows(Y)
  <2>1. n * M \in Int
    BY <1>1
  <2>2. ~(Variation(Y) > n * M) /\ ~(SumFunction(D) > n * M)
    BY <1>10, <1>11, <2>1
  <2> QED
    BY <1>1, <2>2 DEF SumOverflows, n, D, M
<1> QED
  BY <1>7, <1>9, <1>12

\* The data rows of a table are finitely many.
LEMMA FiniteRows ==
    ASSUME NEW t \in Tables
    PROVE  IsFiniteSet(DataRows(t))
<1>1. t.rows \in Seq(Seq(Cells))
  BY MetricsAssumed DEF MetricsAssumption, IsTable
<1>2. DOMAIN t.rows = 1 .. Len(t.rows) /\ Len(t.rows) \in Nat
  BY <1>1
<1>3. DataRows(t) \in SUBSET (1 .. Len(t.rows))
  BY <1>2 DEF DataRows
<1>4. IsFiniteSet(1 .. Len(t.rows))
  BY <1>2, FS_Interval
<1> QED
  BY <1>3, <1>4, FS_Subset

\* The target of a full table of numbers has a number in every row.
LEMMA NumbersOfTarget ==
    ASSUME NEW t \in Tables, \A i \in DataRows(t) : t.rows[i][Target(t)] \in Numerals
    PROVE  Numbers(t) \in [DataRows(t) -> Int] /\ AllFinite(t)
<1>1. \A c \in Numerals : Value[c] \in Int
  BY MetricsAssumed DEF MetricsAssumption
<1>2. \A i \in DataRows(t) : Labels(t)[i] \in Numerals
  BY DEF Labels
<1> QED
  BY <1>1, <1>2 DEF Numbers, AllFinite

\* An accepted full table of numbers with a moderate target can be trained on, and
\* the metrics are finite.
LEMMA AcceptedIsTrainable ==
    ASSUME NEW t \in Tables, Accepts(t), Regular(t), Moderate(t)
    PROVE  Trainable(t) /\ Baseline(t).finite
<1>1. Readable(t)
  BY AcceptedIsReadable
<1>2. t.header \in Seq(STRING) /\ t.rows \in Seq(Seq(Cells))
  BY MetricsAssumed DEF MetricsAssumption, IsTable
<1>3. \A i \in DataRows(t) : DOMAIN t.rows[i] = DOMAIN t.header
  <2> SUFFICES ASSUME NEW i \in DataRows(t)
               PROVE  DOMAIN t.rows[i] = DOMAIN t.header
    OBVIOUS
  <2>1. t.rows[i] \in Seq(Cells)
    <3>1. i \in DOMAIN t.rows
      BY DEF DataRows
    <3>2. DOMAIN t.rows = 1 .. Len(t.rows)
      BY <1>2
    <3> QED
      BY <1>2, <3>1, <3>2
  <2>2. Len(t.rows[i]) = Len(t.header)
    BY DEF Regular
  <2> QED
    BY <1>2, <2>1, <2>2
<1>4. PICK c \in DOMAIN t.header : c # Target(t)
  BY AcceptedHasColumn
<1>5. c \in Features(t)
  BY <1>3, <1>4 DEF Features, Regular, Parses
<1>6. Target(t) \in DOMAIN t.header
  BY <1>1, TargetIsColumn DEF Readable
<1>7. \A i \in DataRows(t) : t.rows[i][Target(t)] \in Numerals
  BY <1>3, <1>6 DEF Regular
<1>8. Numbers(t) \in [DataRows(t) -> Int] /\ AllFinite(t)
  BY <1>7, NumbersOfTarget
<1>9. /\ ~MeanOverflows(Numbers(t)) /\ ~SquareOverflows(Numbers(t))
      /\ ~SumOverflows(Numbers(t))
  <2>1. MaxFloat \in Nat
    BY MetricsAssumed DEF MetricsAssumption
  <2>2. PICK b \in 0 .. MaxFloat :
          /\ Cardinality(DataRows(t)) * (2 * b) * (2 * b) <= MaxFloat
          /\ \A i \in DataRows(t) : Numbers(t)[i] \in -b .. b
    BY DEF Moderate
  <2>3. b \in Nat
    BY <2>1
  <2>4. DataRows(t) # {} /\ IsFiniteSet(DataRows(t))
    BY <1>1, FiniteRows DEF Readable
  <2> QED
    BY <1>8, <2>2, <2>3, <2>4, ModerateErrors
<1>10. Trainable(t)
  BY <1>1, <1>3, <1>5, <1>6, <1>9 DEF Trainable
<1>11. FiniteErrors(t)
  BY <1>8, <1>9 DEF FiniteErrors
<1> QED
  BY <1>10, <1>11 DEF Baseline

-----------------------------------------------------------------------------
(* Metrics *)

\* A multiple is divided without a rest.
LEMMA ExactQuotient ==
    ASSUME NEW a \in Int, NEW b \in Nat \ {0}
    PROVE  (a * b) \div b = a
OBVIOUS

\* The errors of the mean as a prediction, without rounding: integers, and the
\* absolute one is no larger than the root of the squared one.
LEMMA ErrorsOfMean ==
    ASSUME NEW S, IsFiniteSet(S), S # {}, NEW Y \in [S -> Int],
           NEW k \in Nat, Scale = k * Cardinality(S) * Cardinality(S)
    PROVE  /\ SquaredError(Y) \in Int /\ AbsoluteError(Y) \in Int
           /\ AbsoluteError(Y) * AbsoluteError(Y) <= SquaredError(Y) * Scale
<1> DEFINE n == Cardinality(S)
           total == SumFunction(Y)
           Q == [i \in S |-> Square(Y[i])]
           squares == SumFunction(Q)
           D == Deviations(Y)
           E == [i \in S |-> Square(n * Y[i] - total)]
           sum == SumFunction(D)
           var == n * squares - total * total
<1>1. DOMAIN Y = S /\ n \in Nat \ {0}
  BY FS_CardinalityType, FS_EmptySet
<1>2. total \in Int
  BY SumInt
<1>3. Q \in [S -> Int] /\ \A i \in S : Q[i] = Y[i] * Y[i]
  BY DEF Square
<1>4. squares \in Int
  <2> HIDE DEF Q
  <2> QED
    BY <1>3, SumInt
<1>5. D = [i \in S |-> IF n * Y[i] >= total THEN n * Y[i] - total ELSE total - n * Y[i]]
  BY <1>1 DEF Deviations
<1> HIDE DEF n, total, D
<1>6. E \in [S -> Int] /\ \A i \in S : E[i] = (n * Y[i] - total) * (n * Y[i] - total)
  BY <1>1, <1>2 DEF Square
<1>7. D \in [S -> Int] /\ \A i \in S : D[i] * D[i] <= E[i] * 1
  <2>1. \A i \in S : n * Y[i] - total \in Int /\ total - n * Y[i] \in Int
    BY <1>1, <1>2
  <2>2. D \in [S -> Int]
    BY <1>5, <2>1
  <2>3. ASSUME NEW i \in S PROVE D[i] * D[i] <= E[i] * 1
    <3> DEFINE a == n * Y[i] - total
    <3>1. a \in Int
      BY <2>1
    <3>2. total - n * Y[i] = -a
      BY <1>1, <1>2
    <3>3. E[i] = a * a
      BY <1>6
    <3>4. D[i] = a \/ D[i] = -a
      BY <1>5, <3>2
    <3> HIDE DEF a, E
    <3>5. (-a) * (-a) = a * a /\ a * a \in Int
      BY <3>1
    <3>6. D[i] * D[i] = a * a
      BY <3>4, <3>5
    <3> QED
      BY <3>3, <3>5, <3>6
  <2> QED
    BY <2>2, <2>3
<1> HIDE DEF Q, E, squares, sum
<1>8. sum \in Int
  BY <1>7, SumInt DEF sum
<1>9. SumFunction(E) = n * n * squares - 2 * n * total * total + n * total * total
  <2>1. n \in Int /\ total \in Int
    BY <1>1, <1>2
  <2>2. SumFunction(E) = Expansion(n, total, Cardinality(S), SumFunction(Q), SumFunction(Y))
    BY <2>1, SumOfDeviations DEF E, Q
  <2> QED
    BY <2>2 DEF Expansion, n, squares, total
<1>10. SumFunction(E) = n * var
  BY <1>1, <1>2, <1>4, <1>9
<1>11. sum * sum <= n * (n * var)
  <2>1. SumFunction(E) \in Int
    BY <1>6, SumInt
  <2>2. sum * sum <= n * (SumFunction(E) * 1)
    BY <1>6, <1>7, SquareOfSum DEF n, sum
  <2> QED
    BY <1>10, <2>1, <2>2
<1>12. var \in Int
  BY <1>1, <1>2, <1>4
<1>13. SquaredError(Y) = k * var
  <2>1. SquaredError(Y) = (var * Scale) \div (n * n)
    BY <1>1 DEF SquaredError, Variation, n, total, squares, Q, Square
  <2>2. var * Scale = (k * var) * (n * n) /\ k * var \in Int /\ n * n \in Nat \ {0}
    BY <1>1, <1>12 DEF n
  <2> QED
    BY <2>1, <2>2, ExactQuotient
<1>14. AbsoluteError(Y) = k * sum
  <2>1. AbsoluteError(Y) = (sum * Scale) \div (n * n)
    BY <1>1 DEF AbsoluteError, n, sum, D
  <2>2. sum * Scale = (k * sum) * (n * n) /\ k * sum \in Int /\ n * n \in Nat \ {0}
    BY <1>1, <1>8 DEF n
  <2> QED
    BY <2>1, <2>2, ExactQuotient
<1>15. (k * sum) * (k * sum) <= (k * var) * Scale
  <2>1. (k * sum) * (k * sum) = (k * k) * (sum * sum)
    BY <1>8
  <2>2. (k * var) * Scale = (k * k) * (n * (n * var))
    BY <1>1, <1>12 DEF n
  <2>3. \A x, y, z \in Int : x >= 0 /\ y <= z => x * y <= x * z
    OBVIOUS
  <2>4. k * k \in Nat /\ sum * sum \in Int /\ n * (n * var) \in Int
    BY <1>1, <1>8, <1>12
  <2> HIDE DEF var
  <2>5. (k * k) * (sum * sum) <= (k * k) * (n * (n * var))
    BY <1>11, <2>3, <2>4
  <2> QED
    BY <2>1, <2>2, <2>5
<1> QED
  BY <1>8, <1>12, <1>13, <1>14, <1>15

\* The baseline of a table, unless its errors are not finite, is what the libraries
\* would report of it.
LEMMA BaselineIsReport ==
    ASSUME NEW t \in Tables, Trainable(t), Baseline(t).finite
    PROVE  IsReport(Baseline(t))
<1> DEFINE S == DataRows(t)
           Y == Labels(t)
           n == Cardinality(S)
<1>1. S # {} /\ IsFiniteSet(S)
  BY FiniteRows DEF Trainable, Readable
<1>0. DOMAIN Y = S
  BY DEF Labels
<1>2. n \in Nat \ {0}
  BY <1>1, FS_CardinalityType, FS_EmptySet
<1>3. Scale \in Nat \ {0}
  BY MetricsAssumed DEF MetricsAssumption
<1>4. PICK k \in Nat : Scale = k * n * n
  <2>1. IsExact(t)
    BY MetricsAssumed DEF MetricsAssumption
  <2>2. 0 .. Scale \subseteq Nat
    BY <1>3
  <2> QED
    BY <1>1, <2>1, <2>2 DEF IsExact
<1>5. Nothing \in [Measures -> SUBSET Int] /\ \A m \in Measures : Nothing[m] = {}
  BY DEF Nothing
<1>6. CASE ~Regresses(t)
  <2>1. Baseline(t) = [task |-> "classification", finite |-> TRUE,
                       values |-> [Nothing EXCEPT !["accuracy"] = {Accuracy(Y)}]]
    BY <1>6 DEF Baseline
  <2>2. Accuracy(Y) \in Int
    <3> DEFINE Sizes == {Cardinality({i \in S : Y[i] = v}) : v \in Range(Y)}
    <3>1. Sizes \subseteq 0 .. n
      <4>1. ASSUME NEW v PROVE Cardinality({i \in S : Y[i] = v}) \in 0 .. n
        <5> DEFINE T == {i \in S : Y[i] = v}
        <5>1. T \in SUBSET S
          OBVIOUS
        <5> HIDE DEF T, S, Y
        <5>2. IsFiniteSet(T) /\ Cardinality(T) <= n /\ Cardinality(T) \in Nat
          BY <1>1, <5>1, FS_Subset, FS_CardinalityType
        <5>3. Cardinality(T) \in 0 .. n
          BY <1>2, <5>2
        <5> QED
          BY <5>3 DEF T
      <4> QED
        BY <4>1
    <3>2. Sizes # {}
      <4>1. PICK i \in S : TRUE
        BY <1>1
      <4>2. Y[i] \in Range(Y)
        BY <1>0 DEF Range
      <4> QED
        BY <4>2
    <3>3. Accuracy(Y) = (Max(Sizes) * Scale) \div n
      BY <1>0 DEF Accuracy
    <3> HIDE DEF Sizes, n
    <3>4. Max(Sizes) \in Sizes
      <4> HIDE DEF S, Y
      <4> QED
        BY <1>2, <3>1, <3>2, BoundedMax
    <3>5. Max(Sizes) * Scale \in Nat
      <4>1. Max(Sizes) \in Nat
        <5>1. 0 .. n \subseteq Nat
          BY <1>2
        <5> QED
          BY <3>1, <3>4, <5>1
      <4> QED
        BY <1>3, <4>1
    <3>6. \A x \in Nat : x \div n \in Int
      BY <1>2
    <3> QED
      BY <3>3, <3>5, <3>6
  <2> HIDE DEF Y
  <2>3. /\ Baseline(t).task = "classification" /\ Baseline(t).finite
        /\ Baseline(t).values \in [Measures -> SUBSET Int]
        /\ \A m \in Measures : Baseline(t).values[m] = IF m = "accuracy" THEN {Accuracy(Y)} ELSE {}
    BY <1>5, <2>1, <2>2 DEF Measures
  <2> QED
    BY <2>3 DEF IsReport, Measures
<1>7. CASE Regresses(t)
  <2>1. FiniteErrors(t)
    BY <1>7 DEF Baseline
  <2>2. Baseline(t) = [task |-> "regression", finite |-> TRUE,
                       values |-> [Nothing EXCEPT !["r2"] = {0}, !["mse"] = {SquaredError(Numbers(t))},
                                                  !["mae"] = {AbsoluteError(Numbers(t))}]]
    BY <1>7, <2>1 DEF Baseline
  <2>3. Numbers(t) \in [S -> Int]
    <3>1. \A i \in S : t.rows[i][Target(t)] \in Numerals
      BY <2>1 DEF FiniteErrors, AllFinite, Labels
    <3> QED
      BY <3>1, NumbersOfTarget
  <2> HIDE DEF Y, S
  <2>4. /\ SquaredError(Numbers(t)) \in Int /\ AbsoluteError(Numbers(t)) \in Int
        /\ AbsoluteError(Numbers(t)) * AbsoluteError(Numbers(t)) <= SquaredError(Numbers(t)) * Scale
    BY <1>1, <1>4, <2>3, ErrorsOfMean
  <2> HIDE DEF n
  <2>5. /\ Baseline(t).task = "regression" /\ Baseline(t).finite
        /\ Baseline(t).values \in [Measures -> SUBSET Int]
        /\ \A m \in Measures : Baseline(t).values[m] =
             CASE m = "r2" -> {0} [] m = "mse" -> {SquaredError(Numbers(t))}
               [] m = "mae" -> {AbsoluteError(Numbers(t))} [] OTHER -> {}
    BY <1>5, <2>2, <2>4 DEF Measures
  <2> DEFINE a == AbsoluteError(Numbers(t))
             b == SquaredError(Numbers(t))
             m == Baseline(t)
  <2>6. /\ m.task = "regression" /\ m.finite /\ m.values \in [Measures -> SUBSET Int]
        /\ m.values["accuracy"] = {} /\ m.values["precision"] = {}
        /\ m.values["recall"] = {} /\ m.values["f1"] = {}
        /\ m.values["r2"] = {0} /\ m.values["mse"] = {b} /\ m.values["mae"] = {a}
        /\ a * a <= b * Scale
    BY <2>4, <2>5 DEF Measures
  <2> HIDE DEF a, b, m
  <2>7. IsReport(m)
    BY <2>6 DEF IsReport, Measures
  <2> QED
    BY <2>7 DEF m
<1> QED
  BY <1>6, <1>7

-----------------------------------------------------------------------------
(* The invariant *)

\* The types, with the results that runs may have.
LEMMA ResultTypes ==
    NoMetrics \in Results /\ NoFile \in Files /\ NoRun.metrics \in Results
BY DEF Results, Files, NoFile, NoRun

LEMMA InitInductive == Init => InductiveInv
<1> SUFFICES ASSUME Init
             PROVE  InductiveInv
  OBVIOUS
<1>1. TypeOK
  BY ResultTypes DEF Init, TypeOK, Idle, NoRun, Places
<1>2. CheckedInv
  BY DEF Init, CheckedInv, Checked, NoFile, Idle
<1> QED
  BY <1>1, <1>2 DEF InductiveInv

\* A step of run_for_job writes its own record, with a file that is the same or
\* none.
LEMMA TrainingKeeps ==
    ASSUME InductiveInv, NEW r \in Runs, UNCHANGED latest,
           NEW e \in [at : Places, file : Files, result : Results],
           e.file \in {NoFile, training[r].file, latest},
           e.at = "created" => e.result = NoMetrics,
           training' = [training EXCEPT ![r] = e],
           runs' \in [Runs -> [status : {"none", "PROCESSING", "SUCCESS"}, metrics : Results]]
    PROVE  InductiveInv'
<1>1. TypeOK'
  BY DEF InductiveInv, TypeOK
<1>2. Checked(e.file)
  BY DEF InductiveInv, CheckedInv, Checked, NoFile
<1>3. \A q \in Runs : training'[q] = IF q = r THEN e ELSE training[q]
  BY DEF InductiveInv, TypeOK
<1>4. \A q \in Runs : Checked(training'[q].file)
  BY <1>2, <1>3 DEF InductiveInv, CheckedInv
<1>5. \A q \in Runs : training'[q].at = "created" => training'[q].result = NoMetrics
  BY <1>3 DEF InductiveInv, CheckedInv
<1>6. CheckedInv'
  BY <1>4, <1>5 DEF InductiveInv, CheckedInv, Checked
<1> QED
  BY <1>1, <1>6 DEF InductiveInv

LEMMA NextInductive == InductiveInv /\ [Next]_vars => InductiveInv'
<1> SUFFICES ASSUME InductiveInv, [Next]_vars
             PROVE  InductiveInv'
  OBVIOUS
<1> DEFINE Rec == [at : Places, file : Files, result : Results]
<1>0. /\ latest \in Files
      /\ \A r \in Runs : training[r] \in Rec
      /\ runs \in [Runs -> [status : {"none", "PROCESSING", "SUCCESS"}, metrics : Results]]
  BY DEF InductiveInv, TypeOK
<1>1. ASSUME NEW t \in Tables, UploadDataset(t) \/ UploadFile(t)
      PROVE  InductiveInv'
  <2>1. TypeOK'
    <3>1. \A b \in BOOLEAN : [table |-> t, checked |-> b] \in Files
      BY DEF Files
    <3>2. \E b \in BOOLEAN : latest' = [table |-> t, checked |-> b]
      BY <1>1 DEF UploadDataset, UploadFile
    <3>3. latest' \in Files
      BY <3>1, <3>2
    <3>4. UNCHANGED <<runs, training>>
      BY <1>1 DEF UploadDataset, UploadFile
    <3> QED
      BY <3>3, <3>4 DEF InductiveInv, TypeOK
  <2>2. CheckedInv'
    BY <1>1 DEF InductiveInv, CheckedInv, Checked, UploadDataset, UploadFile
  <2> QED
    BY <2>1, <2>2 DEF InductiveInv
<1>2. ASSUME NEW r \in Runs, CreateRun(r)
      PROVE  InductiveInv'
  <2> DEFINE e == [Idle EXCEPT !.at = "created", !.file = latest]
  <2>1. e \in Rec /\ e.file = latest /\ e.result = NoMetrics
    BY <1>0, ResultTypes DEF Idle, Places
  <2>2. training' = [training EXCEPT ![r] = e] /\ UNCHANGED latest
    BY <1>2 DEF CreateRun
  <2>3. runs' \in [Runs -> [status : {"none", "PROCESSING", "SUCCESS"}, metrics : Results]]
    BY <1>0, <1>2 DEF CreateRun
  <2> HIDE DEF e
  <2> QED
    BY <2>1, <2>2, <2>3, TrainingKeeps
<1>3. ASSUME NEW r \in Runs, NEW m \in Results, Trained(r, m), UNCHANGED <<latest, runs>>
      PROVE  InductiveInv'
  <2> DEFINE e == [Idle EXCEPT !.at = "trained", !.result = m]
  <2>1. e \in Rec /\ e.file = NoFile /\ e.at = "trained"
    BY <1>3, ResultTypes DEF Idle, Places
  <2>2. training' = [training EXCEPT ![r] = e]
    BY <1>3 DEF Trained
  <2> HIDE DEF e
  <2> QED
    BY <1>0, <1>3, <2>1, <2>2, TrainingKeeps
<1>4. ASSUME NEW r \in Runs, NEW place \in Places, Goto(r, place), UNCHANGED latest,
             runs' \in [Runs -> [status : {"none", "PROCESSING", "SUCCESS"}, metrics : Results]]
      PROVE  InductiveInv'
  <2> DEFINE e == [Idle EXCEPT !.at = place]
  <2>1. e \in Rec /\ e.file = NoFile /\ e.result = NoMetrics
    BY ResultTypes DEF Idle
  <2>2. training' = [training EXCEPT ![r] = e]
    BY <1>4 DEF Goto
  <2> HIDE DEF e
  <2> QED
    BY <1>4, <2>1, <2>2, TrainingKeeps
<1>5. ASSUME NEW r \in Runs, TrainHeavy(r) PROVE InductiveInv'
  BY <1>3, <1>5 DEF TrainHeavy, Results
<1>6. ASSUME NEW r \in Runs, TrainLight(r) PROVE InductiveInv'
  <2>1. training[r].file.table \in Tables
    BY <1>0, <1>6 DEF TrainLight, Trainable, Readable, Files, NoTable
  <2>2. Baseline(training[r].file.table) \in Results
    BY <2>1 DEF Results
  <2> QED
    BY <1>3, <1>6, <2>2 DEF TrainLight
<1>7. ASSUME NEW r \in Runs, Refuse(r) PROVE InductiveInv'
  BY <1>0, <1>4, <1>7 DEF Refuse, Places
<1>8. ASSUME NEW r \in Runs, StoreArtifact(r) PROVE InductiveInv'
  <2>1. CASE training[r].result.finite
    <3> DEFINE e == [training[r] EXCEPT !.at = "stored"]
    <3>1. e \in Rec /\ e.file = training[r].file /\ e.at = "stored"
      BY <1>0 DEF Places
    <3>2. training' = [training EXCEPT ![r] = e]
      BY <1>8, <2>1 DEF StoreArtifact
    <3> HIDE DEF e
    <3> QED
      BY <1>0, <1>8, <3>1, <3>2, TrainingKeeps DEF StoreArtifact
  <2>2. CASE ~training[r].result.finite
    BY <1>0, <1>4, <1>8, <2>2 DEF StoreArtifact, Goto, Places
  <2> QED
    BY <2>1, <2>2
<1>9. ASSUME NEW r \in Runs, FinishRun(r) PROVE InductiveInv'
  <2>1. [status |-> "SUCCESS", metrics |-> training[r].result]
          \in [status : {"none", "PROCESSING", "SUCCESS"}, metrics : Results]
    BY <1>0
  <2>2. runs' \in [Runs -> [status : {"none", "PROCESSING", "SUCCESS"}, metrics : Results]]
    BY <1>0, <1>9, <2>1 DEF FinishRun
  <2> QED
    BY <1>4, <1>9, <2>2 DEF FinishRun, Places
<1>10. ASSUME NEW r \in Runs, Abandon(r) PROVE InductiveInv'
  BY <1>0, <1>4, <1>10 DEF Abandon, Places
<1>11. ASSUME NEW r \in Runs, DeleteRun(r) PROVE InductiveInv'
  <2>1. NoRun \in [status : {"none", "PROCESSING", "SUCCESS"}, metrics : Results]
    BY ResultTypes DEF NoRun
  <2>2. TypeOK'
    BY <1>11, <2>1 DEF DeleteRun, InductiveInv, TypeOK
  <2>3. CheckedInv'
    BY <1>11 DEF DeleteRun, InductiveInv, CheckedInv, Checked
  <2> QED
    BY <2>2, <2>3 DEF InductiveInv
<1>12. CASE UNCHANGED vars
  BY <1>12 DEF vars, InductiveInv, TypeOK, CheckedInv, Checked
<1> QED
  BY <1>1, <1>2, <1>5, <1>6, <1>7, <1>8, <1>9, <1>10, <1>11, <1>12 DEF Next

\* Every run keeps its types, and a file that was checked when it was stored is
\* an accepted table when a training reads it.
THEOREM Inductive == Spec => []InductiveInv
<1> QED
  BY InitInductive, NextInductive, PTL DEF Spec

-----------------------------------------------------------------------------
(* The theorem *)

\* A step of another run or of a request leaves a training where it is.
LEMMA StepsOfOthers ==
    ASSUME InductiveInv, [Next]_vars, NEW r \in Runs, training[r].at = "created",
           ~(TrainHeavy(r) \/ TrainLight(r) \/ Refuse(r) \/ Abandon(r))
    PROVE  training'[r] = training[r]
BY DEF InductiveInv, TypeOK, vars, Next, UploadDataset, UploadFile, CreateRun, TrainHeavy,
       TrainLight, Refuse, StoreArtifact, FinishRun, Abandon, DeleteRun, Goto, Trained

LEMMA OneStep ==
    ASSUME InductiveInv, [Next]_vars, NEW r \in Runs, training[r].at = "created",
           training[r].file.checked
    PROVE  /\ training'[r].at # "unreadable"
           /\ Regular(training[r].file.table) /\ Moderate(training[r].file.table)
                => /\ training'[r].at # "unfit"
                   /\ training'[r].result.finite \/ training'[r].result \in HeavyMetrics
<1> DEFINE t == training[r].file.table
<1>0. DOMAIN training = Runs
  BY DEF InductiveInv, TypeOK
<1>1. t \in Tables /\ Accepts(t)
  BY DEF InductiveInv, CheckedInv, Checked
<1>2. Readable(t)
  BY <1>1, AcceptedIsReadable
<1>3. Regular(t) /\ Moderate(t) => Trainable(t) /\ Baseline(t).finite
  BY <1>1, AcceptedIsTrainable
<1> HIDE DEF t
<1>4. NoMetrics.finite
  BY DEF NoMetrics
<1>5. CASE TrainHeavy(r)
  <2>1. PICK m \in HeavyMetrics : Trained(r, m)
    BY <1>5 DEF TrainHeavy
  <2> QED
    BY <1>0, <2>1 DEF Trained, Idle
<1>6. CASE TrainLight(r)
  BY <1>0, <1>3, <1>6 DEF TrainLight, Trained, Idle, t
<1>7. CASE Refuse(r)
  BY <1>0, <1>2, <1>3, <1>4, <1>7 DEF Refuse, Goto, Idle, t
<1>8. CASE Abandon(r)
  BY <1>0, <1>4, <1>8 DEF Abandon, Goto, Idle
<1>9. CASE ~(TrainHeavy(r) \/ TrainLight(r) \/ Refuse(r) \/ Abandon(r))
  <2>1. training'[r] = training[r]
    BY <1>9, StepsOfOthers
  <2>2. training[r].result = NoMetrics
    BY DEF InductiveInv, CheckedInv
  <2> QED
    BY <1>4, <2>1, <2>2
<1> QED
  BY <1>5, <1>6, <1>7, <1>8, <1>9 DEF t

\* A training of a file that upload_dataset accepted finds a header and data,
\* and with a full table of numbers and a moderate target it comes to metrics that
\* a row can keep or to a report of the libraries, for any tables over any numbers,
\* any range of floats, limits of the validation, and number of trainings.
THEOREM AcceptedTrains == Spec => AcceptedDataTrains
<1>1. InductiveInv /\ [Next]_vars
        => [\A r \in Runs :
              training[r].at = "created" /\ training[r].file.checked
                => /\ training'[r].at # "unreadable"
                   /\ Regular(training[r].file.table) /\ Moderate(training[r].file.table)
                        => /\ training'[r].at # "unfit"
                           /\ training'[r].result.finite
                                \/ training'[r].result \in HeavyMetrics]_vars
  BY OneStep
<1> QED
  BY <1>1, Inductive, PTL DEF Spec, AcceptedDataTrains

-----------------------------------------------------------------------------
(* Reports *)

\* A run that succeeded has a whole report, any other row has no metrics, a training
\* that got as far as storing its artifact has a report to store, and finitely many
\* trainings were started.
ReportsInv ==
    /\ \A r \in Runs :
         /\ training[r].at \in {"trained", "stored"} /\ training[r].result.finite
              => IsReport(training[r].result)
         /\ training[r].at = "stored" => training[r].result.finite
         /\ training[r].at = "idle" => runs[r].status = "none"
         /\ IF runs[r].status = "SUCCESS" THEN IsReport(runs[r].metrics)
                                          ELSE runs[r].metrics = NoMetrics
    /\ IsFiniteSet({r \in Runs : training[r].at # "idle"})

LEMMA InitReports == Init => ReportsInv
<1> SUFFICES ASSUME Init
             PROVE  ReportsInv
  OBVIOUS
<1>1. {r \in Runs : training[r].at # "idle"} = {}
  BY DEF Init, Idle
<1>2. IsFiniteSet({r \in Runs : training[r].at # "idle"})
  BY <1>1, FS_EmptySet
<1> QED
  BY <1>2 DEF Init, ReportsInv, Idle, NoRun

\* What a step does to the record and the row of its run is all that matters, and
\* no more than that run is started.
LEMMA ReportsKeep ==
    ASSUME TypeOK, ReportsInv, NEW r \in Runs, NEW e, NEW row,
           training' = [training EXCEPT ![r] = e], runs' = [runs EXCEPT ![r] = row],
           e.at \in {"trained", "stored"} /\ e.result.finite => IsReport(e.result),
           e.at = "stored" => e.result.finite,
           e.at # "idle",
           IF row.status = "SUCCESS" THEN IsReport(row.metrics) ELSE row.metrics = NoMetrics
    PROVE  ReportsInv'
<1>1. \A q \in Runs : /\ training'[q] = IF q = r THEN e ELSE training[q]
                      /\ runs'[q] = IF q = r THEN row ELSE runs[q]
  BY DEF TypeOK
<1> DEFINE Started == {q \in Runs : training[q].at # "idle"}
<1>2. {q \in Runs : training'[q].at # "idle"} \subseteq Started \cup {r}
  BY <1>1
<1>3. IsFiniteSet(Started \cup {r})
  BY FS_AddElement DEF ReportsInv
<1>4. IsFiniteSet({q \in Runs : training'[q].at # "idle"})
  BY <1>2, <1>3, FS_Subset
<1>5. ASSUME NEW q \in Runs
      PROVE  /\ training'[q].at \in {"trained", "stored"} /\ training'[q].result.finite
                  => IsReport(training'[q].result)
             /\ training'[q].at = "stored" => training'[q].result.finite
             /\ training'[q].at = "idle" => runs'[q].status = "none"
             /\ IF runs'[q].status = "SUCCESS" THEN IsReport(runs'[q].metrics)
                                               ELSE runs'[q].metrics = NoMetrics
  <2>1. CASE q = r
    BY <1>1, <2>1
  <2>2. CASE q # r
    BY <1>1, <2>2 DEF ReportsInv
  <2> QED
    BY <2>1, <2>2
<1> QED
  BY <1>4, <1>5 DEF ReportsInv

LEMMA NextReports == InductiveInv /\ ReportsInv /\ [Next]_vars => ReportsInv'
<1> SUFFICES ASSUME InductiveInv, ReportsInv, [Next]_vars
             PROVE  ReportsInv'
  OBVIOUS
<1>0. TypeOK /\ TypeOK'
  BY NextInductive DEF InductiveInv
<1>1. CASE UNCHANGED vars \/ \E t \in Tables : UploadDataset(t) \/ UploadFile(t)
  BY <1>1 DEF vars, UploadDataset, UploadFile, ReportsInv
<1>2. ASSUME NEW r \in Runs, NEW e, training' = [training EXCEPT ![r] = e],
             e.at # "idle", UNCHANGED runs, training[r].at # "idle",
             e.at \in {"trained", "stored"} /\ e.result.finite => IsReport(e.result),
             e.at = "stored" => e.result.finite
      PROVE  ReportsInv'
  <2>1. runs' = [runs EXCEPT ![r] = runs[r]]
    BY <1>0, <1>2 DEF TypeOK
  <2>2. IF runs[r].status = "SUCCESS" THEN IsReport(runs[r].metrics)
                                      ELSE runs[r].metrics = NoMetrics
    BY DEF ReportsInv
  <2> QED
    BY <1>0, <1>2, <2>1, <2>2, ReportsKeep
<1>3. ASSUME NEW r \in Runs, CreateRun(r) PROVE ReportsInv'
  <2> DEFINE e == [Idle EXCEPT !.at = "created", !.file = latest]
             row == [runs[r] EXCEPT !.status = "PROCESSING"]
  <2>1. training' = [training EXCEPT ![r] = e] /\ runs' = [runs EXCEPT ![r] = row]
    BY <1>0, <1>3 DEF CreateRun, TypeOK
  <2>2. runs[r].metrics = NoMetrics
    BY <1>3 DEF CreateRun, ReportsInv
  <2>3. row.status = "PROCESSING" /\ row.metrics = NoMetrics
    BY <1>0, <2>2 DEF TypeOK
  <2>4. e.at = "created"
    BY DEF Idle
  <2> HIDE DEF e, row
  <2> QED
    BY <1>0, <2>1, <2>3, <2>4, ReportsKeep
<1>4. ASSUME NEW r \in Runs, NEW m, Trained(r, m), UNCHANGED runs, training[r].at # "idle",
             m.finite => IsReport(m)
      PROVE  ReportsInv'
  <2> DEFINE e == [Idle EXCEPT !.at = "trained", !.result = m]
  <2>1. training' = [training EXCEPT ![r] = e]
    BY <1>4 DEF Trained
  <2>2. e.at = "trained" /\ e.result = m
    BY DEF Idle
  <2> HIDE DEF e
  <2> QED
    BY <1>2, <1>4, <2>1, <2>2
<1>5. ASSUME NEW r \in Runs, NEW place \in Places \ {"idle", "trained", "stored"},
             Goto(r, place), UNCHANGED runs, training[r].at # "idle"
      PROVE  ReportsInv'
  <2> DEFINE e == [Idle EXCEPT !.at = place]
  <2>1. training' = [training EXCEPT ![r] = e]
    BY <1>5 DEF Goto
  <2>2. e.at = place
    BY DEF Idle
  <2> HIDE DEF e
  <2> QED
    BY <1>2, <1>5, <2>1, <2>2
<1>6. ASSUME NEW r \in Runs, TrainHeavy(r) PROVE ReportsInv'
  <2>1. PICK m \in HeavyMetrics : Trained(r, m)
    BY <1>6 DEF TrainHeavy
  <2>2. m.finite => IsReport(m)
    BY MetricsAssumed DEF MetricsAssumption
  <2> QED
    BY <1>4, <1>6, <2>1, <2>2 DEF TrainHeavy
<1>7. ASSUME NEW r \in Runs, TrainLight(r) PROVE ReportsInv'
  <2> DEFINE t == training[r].file.table
  <2>1. t \in Tables
    BY <1>0, <1>7 DEF TypeOK, TrainLight, Trainable, Readable, Files, NoTable
  <2>2. Trainable(t) /\ Trained(r, Baseline(t)) /\ UNCHANGED runs /\ training[r].at # "idle"
    BY <1>7 DEF TrainLight
  <2> HIDE DEF t
  <2>3. Baseline(t).finite => IsReport(Baseline(t))
    BY <2>1, <2>2, BaselineIsReport
  <2> QED
    BY <1>4, <2>2, <2>3
<1>8. ASSUME NEW r \in Runs, Refuse(r) PROVE ReportsInv'
  <2>1. PICK place \in {"unfit", "unreadable"} : Goto(r, place)
    BY <1>8 DEF Refuse
  <2> QED
    BY <1>5, <1>8, <2>1 DEF Refuse, Places
<1>9. ASSUME NEW r \in Runs, StoreArtifact(r) PROVE ReportsInv'
  <2>1. CASE training[r].result.finite
    <3> DEFINE e == [training[r] EXCEPT !.at = "stored"]
    <3>1. training' = [training EXCEPT ![r] = e]
      BY <1>9, <2>1 DEF StoreArtifact
    <3>2. e.at = "stored" /\ e.result = training[r].result
      BY <1>0 DEF TypeOK
    <3>3. IsReport(training[r].result)
      BY <1>9, <2>1 DEF StoreArtifact, ReportsInv
    <3> HIDE DEF e
    <3> QED
      BY <1>2, <1>9, <2>1, <3>1, <3>2, <3>3 DEF StoreArtifact
  <2>2. CASE ~training[r].result.finite
    <3>1. Goto(r, "notJson")
      BY <1>9, <2>2 DEF StoreArtifact, Goto
    <3> QED
      BY <1>5, <1>9, <3>1 DEF StoreArtifact, Places
  <2> QED
    BY <2>1, <2>2
<1>10. ASSUME NEW r \in Runs, FinishRun(r) PROVE ReportsInv'
  <2>1. CASE runs[r].status = "none"
    BY <1>5, <1>10, <2>1 DEF FinishRun, Places
  <2>2. CASE runs[r].status # "none"
    <3> DEFINE e == [Idle EXCEPT !.at = "done"]
               row == [status |-> "SUCCESS", metrics |-> training[r].result]
    <3>1. training' = [training EXCEPT ![r] = e] /\ runs' = [runs EXCEPT ![r] = row]
      BY <1>10, <2>2 DEF FinishRun, Goto
    <3>2. e.at = "done" /\ row.status = "SUCCESS" /\ row.metrics = training[r].result
      BY DEF Idle
    <3>3. IsReport(training[r].result)
      BY <1>10 DEF FinishRun, ReportsInv
    <3> HIDE DEF e, row
    <3> QED
      BY <1>0, <3>1, <3>2, <3>3, ReportsKeep
  <2> QED
    BY <2>1, <2>2
<1>11. ASSUME NEW r \in Runs, Abandon(r) PROVE ReportsInv'
  BY <1>5, <1>11 DEF Abandon, Places
<1>12. ASSUME NEW r \in Runs, DeleteRun(r) PROVE ReportsInv'
  <2>1. training' = [training EXCEPT ![r] = training[r]] /\ runs' = [runs EXCEPT ![r] = NoRun]
    BY <1>0, <1>12 DEF DeleteRun, TypeOK
  <2>2. training[r].at # "idle"
    BY <1>12 DEF DeleteRun, ReportsInv
  <2>3. NoRun.status = "none" /\ NoRun.metrics = NoMetrics
    BY DEF NoRun
  <2>4. /\ training[r].at \in {"trained", "stored"} /\ training[r].result.finite
             => IsReport(training[r].result)
        /\ training[r].at = "stored" => training[r].result.finite
    BY DEF ReportsInv
  <2> QED
    BY <1>0, <2>1, <2>2, <2>3, <2>4, ReportsKeep
<1> QED
  BY <1>1, <1>3, <1>6, <1>7, <1>8, <1>9, <1>10, <1>11, <1>12 DEF Next

\* Whatever is interrupted or deleted, a row has metrics only with a whole report.
THEOREM ReportsKept == Spec => [](InductiveInv /\ ReportsInv)
<1> QED
  BY InitInductive, NextInductive, InitReports, NextReports, PTL DEF Spec

-----------------------------------------------------------------------------
(* The summary *)

\* The runs a summary reads are finitely many, at most as many as were asked for,
\* and each is either training, without metrics, or has reported.
LEMMA TrendsAreReports ==
    ASSUME TypeOK, ReportsInv, NEW limit \in Limits
    PROVE  /\ IsFiniteSet(Trends(limit))
           /\ Cardinality(Trends(limit)) \in Nat /\ Cardinality(Trends(limit)) <= limit
           /\ Trends(limit) \subseteq Runs
           /\ \A r \in Trends(limit) :
                \/ runs[r].status = "PROCESSING" /\ runs[r].metrics = NoMetrics
                \/ runs[r].status = "SUCCESS" /\ IsReport(runs[r].metrics)
<1>1. Runs \subseteq Nat /\ limit \in Nat
  BY MetricsAssumed DEF MetricsAssumption
<1>2. Rows \subseteq {r \in Runs : training[r].at # "idle"}
  BY DEF Rows, ReportsInv
<1>3. IsFiniteSet(Rows) /\ Rows \subseteq Nat
  <2>1. Rows \subseteq Runs
    BY DEF Rows
  <2>2. IsFiniteSet({r \in Runs : training[r].at # "idle"})
    BY DEF ReportsInv
  <2> QED
    BY <1>1, <1>2, <2>1, <2>2, FS_Subset
<1> DEFINE T == Trends(limit)
<1>4. T \in SUBSET Rows /\ \A i \in T : Cardinality({h \in Rows : h > i}) < limit
  BY DEF Trends
<1>5. \A r \in T : \/ runs[r].status = "PROCESSING" /\ runs[r].metrics = NoMetrics
                   \/ runs[r].status = "SUCCESS" /\ IsReport(runs[r].metrics)
  <2> SUFFICES ASSUME NEW r \in T
               PROVE  \/ runs[r].status = "PROCESSING" /\ runs[r].metrics = NoMetrics
                      \/ runs[r].status = "SUCCESS" /\ IsReport(runs[r].metrics)
    OBVIOUS
  <2>1. r \in Runs /\ runs[r].status # "none"
    BY <1>4 DEF Rows
  <2>2. runs[r].status \in {"none", "PROCESSING", "SUCCESS"}
    BY <2>1 DEF TypeOK
  <2> QED
    BY <2>1, <2>2 DEF ReportsInv
<1>6. T \subseteq Runs
  BY <1>4 DEF Rows
<1> HIDE DEF T
<1>7. IsFiniteSet(T) /\ Cardinality(T) \in Nat /\ Cardinality(T) <= limit
  BY <1>1, <1>3, <1>4, LastOnes
<1> QED
  BY <1>5, <1>6, <1>7 DEF T

\* Who is measured: accuracy in classifications, the errors in regressions, and
\* nobody who is still training is classified.
LEMMA WhoIsMeasured ==
    ASSUME TypeOK, ReportsInv, NEW limit \in Limits
    PROVE  LET T == Trends(limit)
               C == {r \in T : runs[r].metrics.task = "classification"}
               G == {r \in T : runs[r].metrics.task = "regression"}
               P == {r \in T : runs[r].status = "PROCESSING"}
           IN  /\ T = C \cup G \cup P
               /\ C \cap G = {} /\ (C \cup G) \cap P = {}
               /\ Measured("accuracy", T) = C
               /\ \A m \in {"r2", "mse", "mae"} : Measured(m, T) = G
               /\ \A m \in Measures : \A r \in Measured(m, T) :
                    Measure(m, r) \in Int /\ Measure(m, r) \in runs[r].metrics.values[m]
<1> DEFINE T == Trends(limit)
           C == {r \in T : runs[r].metrics.task = "classification"}
           G == {r \in T : runs[r].metrics.task = "regression"}
           P == {r \in T : runs[r].status = "PROCESSING"}
<1>1. \A r \in T : \/ runs[r].status = "PROCESSING" /\ runs[r].metrics = NoMetrics
                   \/ runs[r].status = "SUCCESS" /\ IsReport(runs[r].metrics)
  BY TrendsAreReports
<1> HIDE DEF T
<1>2. NoMetrics.task = "none" /\ \A m \in Measures : NoMetrics.values[m] = {}
  BY DEF NoMetrics, Nothing
<1>3. \A r \in T : \/ r \in C /\ r \notin G /\ r \notin P
                   \/ r \in G /\ r \notin C /\ r \notin P
                   \/ r \in P /\ r \notin C /\ r \notin G
  BY <1>1, <1>2 DEF IsReport
<1>4. C \subseteq T /\ G \subseteq T /\ P \subseteq T
  OBVIOUS
<1>5. \A r \in T : /\ runs[r].metrics.values["accuracy"] # {} <=> r \in C
                   /\ \A m \in {"r2", "mse", "mae"} : runs[r].metrics.values[m] # {} <=> r \in G
  <2> SUFFICES ASSUME NEW r \in T
               PROVE  /\ runs[r].metrics.values["accuracy"] # {} <=> r \in C
                      /\ \A m \in {"r2", "mse", "mae"} :
                           runs[r].metrics.values[m] # {} <=> r \in G
    OBVIOUS
  <2>1. CASE runs[r].metrics = NoMetrics
    BY <1>2, <2>1 DEF Measures
  <2>2. CASE IsReport(runs[r].metrics)
    BY <2>2 DEF IsReport
  <2> QED
    BY <1>1, <2>1, <2>2
<1>6. Measured("accuracy", T) = C /\ \A m \in {"r2", "mse", "mae"} : Measured(m, T) = G
  BY <1>4, <1>5 DEF Measured
<1>7. ASSUME NEW m \in Measures, NEW r \in Measured(m, T)
      PROVE  Measure(m, r) \in Int /\ Measure(m, r) \in runs[r].metrics.values[m]
  <2>1. r \in T /\ runs[r].metrics.values[m] # {}
    BY <1>7 DEF Measured
  <2>2. runs[r].metrics.values \in [Measures -> SUBSET Int]
    BY <1>1, <1>2, <2>1 DEF IsReport
  <2>3. Measure(m, r) \in runs[r].metrics.values[m]
    BY <2>1 DEF Measure
  <2>4. runs[r].metrics.values[m] \subseteq Int
    BY <2>2
  <2> QED
    BY <2>3, <2>4
<1> HIDE DEF C, G, P
<1>8. T = C \cup G \cup P /\ C \cap G = {} /\ (C \cup G) \cap P = {}
  BY <1>3, <1>4
<1> QED
  BY <1>6, <1>7, <1>8 DEF C, G, P, T

\* No average beats the best value.
LEMMA BestIsBest ==
    ASSUME TypeOK, ReportsInv, NEW limit \in Limits, NEW m \in Measures,
           NEW b \in Best(m, Trends(limit))
    PROVE  LET M == Measured(m, Trends(limit))
               sum == SumFunction([r \in M |-> Measure(m, r)])
           IN  IF m \in LowerIsBetter THEN b * Cardinality(M) <= sum
                                      ELSE b * Cardinality(M) >= sum
<1> DEFINE M == Measured(m, Trends(limit))
           f == [r \in M |-> Measure(m, r)]
           V == {Measure(m, r) : r \in M}
<1>1. IsFiniteSet(M) /\ Cardinality(M) \in Nat
  <2>1. M \in SUBSET Trends(limit)
    BY DEF Measured
  <2> HIDE DEF M
  <2> QED
    BY <2>1, TrendsAreReports, FS_Subset, FS_CardinalityType
<1>2. f \in [M -> Int] /\ \A r \in M : f[r] = Measure(m, r)
  BY WhoIsMeasured
<1>3. V # {} /\ IF m \in LowerIsBetter THEN b = Min(V) ELSE b = Max(V)
  BY DEF Best
<1>4. f \in Surjection(M, V) /\ V \subseteq Int
  BY <1>2 DEF Surjection
<1>5. \A r \in M : f[r] \in V
  BY <1>2
<1> HIDE DEF M, f, V
<1>6. IsFiniteSet(V)
  BY <1>1, <1>4, FS_Surjection
<1>7. SumFunction(f) \in Int
  BY <1>1, <1>2, SumInt
<1>8. CASE m \in LowerIsBetter
  <2>1. b \in Int /\ \A x \in V : b <= x
    BY <1>3, <1>4, <1>6, <1>8, IntMin
  <2>2. PICK hi \in Int : \A x \in V : x <= hi
    BY <1>3, <1>4, <1>6, IntMax
  <2>3. \A r \in M : b <= f[r] /\ f[r] <= hi
    BY <1>5, <2>1, <2>2
  <2>4. b * Cardinality(M) <= SumFunction(f)
    BY <1>1, <1>2, <2>1, <2>2, <2>3, SumBetween
  <2> QED
    BY <1>8, <2>4 DEF f, M
<1>9. CASE m \notin LowerIsBetter
  <2>1. b \in Int /\ \A x \in V : x <= b
    BY <1>3, <1>4, <1>6, <1>9, IntMax
  <2>2. PICK lo \in Int : \A x \in V : lo <= x
    BY <1>3, <1>4, <1>6, IntMin
  <2>3. \A r \in M : lo <= f[r] /\ f[r] <= b
    BY <1>5, <2>1, <2>2
  <2>4. SumFunction(f) <= b * Cardinality(M)
    BY <1>1, <1>2, <2>1, <2>2, <2>3, SumBetween
  <2>5. b * Cardinality(M) >= SumFunction(f)
    BY <1>1, <1>7, <2>1, <2>4
  <2> QED
    BY <1>9, <2>5 DEF f, M
<1> QED
  BY <1>8, <1>9

\* The average of the absolute errors is no larger than the root of the average of
\* the squared ones, as it is for every single run.
LEMMA ErrorsOfSummary ==
    ASSUME TypeOK, ReportsInv, NEW limit \in Limits
    PROVE  LET T == Trends(limit)
               absolute == SumFunction([r \in Measured("mae", T) |-> Measure("mae", r)])
               squared == SumFunction([r \in Measured("mse", T) |-> Measure("mse", r)])
           IN  absolute * absolute <= squared * Cardinality(Measured("mse", T)) * Scale
<1> DEFINE T == Trends(limit)
           G == {r \in T : runs[r].metrics.task = "regression"}
           f == [r \in G |-> Measure("mae", r)]
           g == [r \in G |-> Measure("mse", r)]
<1>1. /\ Measured("mae", T) = G /\ Measured("mse", T) = G
      /\ \A m \in Measures : \A r \in Measured(m, T) :
           Measure(m, r) \in Int /\ Measure(m, r) \in runs[r].metrics.values[m]
  BY WhoIsMeasured
<1>2. "mae" \in Measures /\ "mse" \in Measures
  BY DEF Measures
<1>3. \A r \in G : /\ Measure("mae", r) \in Int /\ Measure("mse", r) \in Int
                   /\ Measure("mae", r) \in runs[r].metrics.values["mae"]
                   /\ Measure("mse", r) \in runs[r].metrics.values["mse"]
  <2> HIDE DEF G, T
  <2> QED
    BY <1>1, <1>2
<1>4. f \in [G -> Int] /\ g \in [G -> Int]
  BY <1>3
<1>5. \A r \in G : f[r] * f[r] <= g[r] * Scale
  <2> SUFFICES ASSUME NEW r \in G PROVE f[r] * f[r] <= g[r] * Scale
    OBVIOUS
  <2>1. IsReport(runs[r].metrics)
    <3>1. \A q \in T : \/ runs[q].status = "PROCESSING" /\ runs[q].metrics = NoMetrics
                       \/ runs[q].status = "SUCCESS" /\ IsReport(runs[q].metrics)
      BY TrendsAreReports
    <3>2. r \in T /\ runs[r].metrics.task = "regression"
      OBVIOUS
    <3> QED
      BY <3>1, <3>2 DEF NoMetrics
  <2>2. f[r] \in runs[r].metrics.values["mae"] /\ g[r] \in runs[r].metrics.values["mse"]
    BY <1>3
  <2> HIDE DEF f, g, G, T
  <2> QED
    BY <2>1, <2>2 DEF IsReport
<1>6. IsFiniteSet(G) /\ Cardinality(G) \in Nat
  <2>1. G \in SUBSET T
    OBVIOUS
  <2>2. IsFiniteSet(T)
    BY TrendsAreReports
  <2> HIDE DEF G, T
  <2> QED
    BY <2>1, <2>2, FS_Subset, FS_CardinalityType
<1>7. Scale \in Int
  BY MetricsAssumed DEF MetricsAssumption
<1> HIDE DEF f, g, G, T
<1>8. SumFunction(f) \in Int /\ SumFunction(g) \in Int
  BY <1>4, <1>6, SumInt
<1>9. SumFunction(f) * SumFunction(f) <= Cardinality(G) * (SumFunction(g) * Scale)
  BY <1>4, <1>5, <1>6, <1>7, SquareOfSum
<1>10. Cardinality(G) * (SumFunction(g) * Scale) = SumFunction(g) * Cardinality(G) * Scale
  BY <1>6, <1>7, <1>8
<1>11. SumFunction(f) * SumFunction(f) <= SumFunction(g) * Cardinality(G) * Scale
  BY <1>9, <1>10
<1> QED
  BY <1>1, <1>11 DEF f, g, T

\* All parts together.
LEMMA SummaryHolds == TypeOK /\ ReportsInv => SummaryAgrees
<1> SUFFICES ASSUME TypeOK, ReportsInv, NEW limit \in Limits
             PROVE  LET s == Summary(limit) IN
                    /\ s.count <= limit
                    /\ s.count = s.classification + s.regression
                         + Cardinality({r \in Trends(limit) : runs[r].status = "PROCESSING"})
                    /\ s.terms["accuracy"] = s.classification
                    /\ \A m \in {"r2", "mse", "mae"} : s.terms[m] = s.regression
                    /\ \A m \in Measures : \A b \in s.best[m] :
                         IF m \in LowerIsBetter THEN b * s.terms[m] <= s.sum[m]
                                                ELSE b * s.terms[m] >= s.sum[m]
                    /\ s.sum["mae"] * s.sum["mae"] <= s.sum["mse"] * s.terms["mse"] * Scale
  BY DEF SummaryAgrees
<1> DEFINE T == Trends(limit)
           C == {r \in T : runs[r].metrics.task = "classification"}
           G == {r \in T : runs[r].metrics.task = "regression"}
           P == {r \in T : runs[r].status = "PROCESSING"}
           s == Summary(limit)
           Sum(m) == SumFunction([r \in Measured(m, T) |-> Measure(m, r)])
<1>1. /\ s.count = Cardinality(T)
      /\ s.classification = Cardinality(C) /\ s.regression = Cardinality(G)
      /\ \A m \in Measures : /\ s.terms[m] = Cardinality(Measured(m, T))
                             /\ s.sum[m] = Sum(m)
                             /\ s.best[m] = Best(m, T)
  BY DEF Summary, Of
<1>2. IsFiniteSet(T) /\ Cardinality(T) <= limit
  BY TrendsAreReports
<1>3. /\ T = C \cup G \cup P /\ C \cap G = {} /\ (C \cup G) \cap P = {}
      /\ Measured("accuracy", T) = C
      /\ \A m \in {"r2", "mse", "mae"} : Measured(m, T) = G
  BY WhoIsMeasured
<1>4. C \in SUBSET T /\ G \in SUBSET T /\ P \in SUBSET T
  OBVIOUS
<1>5. \A m \in Measures : \A b \in Best(m, T) :
        IF m \in LowerIsBetter THEN b * Cardinality(Measured(m, T)) <= Sum(m)
                               ELSE b * Cardinality(Measured(m, T)) >= Sum(m)
  BY BestIsBest
<1>6. Sum("mae") * Sum("mae") <= Sum("mse") * Cardinality(Measured("mse", T)) * Scale
  BY ErrorsOfSummary
<1>7. {"accuracy", "r2", "mse", "mae"} \subseteq Measures
  BY DEF Measures
<1> HIDE DEF C, G, P, T, s, Sum
<1>8. Cardinality(T) = Cardinality(C) + Cardinality(G) + Cardinality(P)
  <2>1. IsFiniteSet(C) /\ IsFiniteSet(G) /\ IsFiniteSet(P) /\ IsFiniteSet(C \cup G)
    <3>1. C \cup G \in SUBSET T
      BY <1>4
    <3> QED
      BY <1>2, <1>4, <3>1, FS_Subset
  <2>2. /\ Cardinality(C) \in Nat /\ Cardinality(G) \in Nat /\ Cardinality(P) \in Nat
        /\ Cardinality(C \cup G) \in Nat
    BY <2>1, FS_CardinalityType
  <2>3. Cardinality(C \cup G) = Cardinality(C) + Cardinality(G)
    <3>1. Cardinality(C \cup G) = Cardinality(C) + Cardinality(G) - Cardinality(C \cap G)
      BY <2>1, FS_Union
    <3>2. Cardinality(C \cap G) = 0
      BY <1>3, FS_EmptySet
    <3> QED
      BY <2>2, <3>1, <3>2
  <2>4. Cardinality((C \cup G) \cup P) = Cardinality(C \cup G) + Cardinality(P)
    <3>1. Cardinality((C \cup G) \cup P)
            = Cardinality(C \cup G) + Cardinality(P) - Cardinality((C \cup G) \cap P)
      BY <2>1, FS_Union
    <3>2. Cardinality((C \cup G) \cap P) = 0
      BY <1>3, FS_EmptySet
    <3> QED
      BY <2>2, <3>1, <3>2
  <2> QED
    BY <1>3, <2>2, <2>3, <2>4
<1>9. s.terms["accuracy"] = s.classification
  BY <1>1, <1>3, <1>7
<1>10. \A m \in {"r2", "mse", "mae"} : s.terms[m] = s.regression
  BY <1>1, <1>3, <1>7
<1>11. \A m \in Measures : \A b \in s.best[m] :
         IF m \in LowerIsBetter THEN b * s.terms[m] <= s.sum[m]
                                ELSE b * s.terms[m] >= s.sum[m]
  BY <1>1, <1>5
<1>12. s.sum["mae"] * s.sum["mae"] <= s.sum["mse"] * s.terms["mse"] * Scale
  BY <1>1, <1>6, <1>7
<1>13. s.count <= limit /\ s.count = s.classification + s.regression + Cardinality(P)
  BY <1>1, <1>2, <1>8
<1> QED
  BY <1>9, <1>10, <1>11, <1>12, <1>13 DEF s, P, T

\* The summary agrees with itself at every moment, for any tables, number of runs
\* and limits, whatever the libraries report.
THEOREM SummaryConsistent == Spec => []SummaryAgrees
<1> QED
  BY ReportsKept, SummaryHolds, PTL DEF InductiveInv

=============================================================================
