--------------------------- MODULE TrainingMetrics ---------------------------
(***************************************************************************)
(* What is in a table, from the upload that checks it to the summary that  *)
(* shows what trainings made of it: the CSV validation of upload_dataset   *)
(* (ml_api.py), the training of training_service.py with its metrics, the  *)
(* rows of profile.training_run that keep them, and GET /metrics/summary.  *)
(*                                                                         *)
(* Training reads the newest file of its user. upload_dataset checks what  *)
(* is in a file, POST /files only its name and size. A run is read by the  *)
(* summary at any point between the statements of its training.            *)
(*                                                                         *)
(* A cell is "" (blank), "null" (missing and no number), "nan" and "inf"   *)
(* (parsed by float(), without a finite value), "word", or a numeral. What *)
(* is computed of numerals has the range of a float: sums beyond it are    *)
(* infinite, powers an OverflowError. Fractions are counted in units of    *)
(* 1/Scale; the rounding of floats is left out. Runs are numbered in order *)
(* of created_at.                                                          *)
(***************************************************************************)
EXTENDS Integers, Sequences, FiniteSets, FiniteSetsExt, Functions

CONSTANTS
    Tables,       \* CSV files: a header and rows of cells
    Numerals,     \* cells that float() parses to a finite number
    Value,        \* Value[c]: that number, whole here
    MaxFloat,     \* the largest float; anything larger has overflowed
    Runs,         \* trainings that may be started
    MinRows,      \* MIN_CSV_DATA_ROWS
    EmptyParts, EmptyWhole,  \* MAX_EMPTY_RATIO = EmptyParts / EmptyWhole
    ManyValues,   \* a target with more distinct numbers is regressed (20)
    Limits,       \* how many of the newest runs a request may ask for
    Scale,        \* denominator of fractions
    HeavyMetrics  \* what pandas and scikit-learn may report; {} without them

VARIABLES
    latest,    \* the newest user_file: its table, and who checked it
    runs,      \* profile.training_run: status and metrics of each row
    training   \* run_for_job of each run between two awaits

vars == <<latest, runs, training>>

-----------------------------------------------------------------------------
(* Cells and tables *)

NoNumerals == {"", "null", "nan", "inf", "word"}
Cells == Numerals \cup NoNumerals
Parses(c) == c \in Numerals \cup {"nan", "inf"}
Missing(c) == c \in {"", "null", "nan"}

\* Rows that are not blank: the data, for the upload and for the training.
DataRows(t) == {i \in DOMAIN t.rows : \E c \in DOMAIN t.rows[i] : t.rows[i][c] # ""}
Named(t) == {c \in DOMAIN t.header : t.header[c] # ""}
CellsOf(t) == UNION {{i} \X DOMAIN t.rows[i] : i \in DataRows(t)}
EmptyCells(t) == {p \in CellsOf(t) : Missing(t.rows[p[1]][p[2]])}

\* Mutant: a file with one column passes.
AcceptsOneColumn(t) ==
    /\ Named(t) # {}
    /\ DataRows(t) # {}
    /\ Cardinality(DataRows(t)) >= MinRows
    /\ Cardinality(EmptyCells(t)) * EmptyWhole
         <= EmptyParts * Cardinality(DataRows(t)) * Cardinality(Named(t))

\* The validation of upload_dataset.
Accepts(t) ==
    /\ Cardinality(Named(t)) >= 2
    /\ DataRows(t) # {}
    /\ Cardinality(DataRows(t)) >= MinRows
    /\ Cardinality(EmptyCells(t)) * EmptyWhole
         <= EmptyParts * Cardinality(DataRows(t)) * Cardinality(Named(t))

-----------------------------------------------------------------------------
(* Training *)

Candidates == <<"target", "label", "y">>
Columns(t, name) == {c \in DOMAIN t.header : t.header[c] = name}
Present(t) == {k \in DOMAIN Candidates : Columns(t, Candidates[k]) # {}}

\* The column of the first candidate the header has, else the last column.
Target(t) == IF Present(t) = {} THEN Len(t.header)
             ELSE Min(Columns(t, Candidates[Min(Present(t))]))

\* Columns that hold a number in every row.
Features(t) == {c \in DOMAIN t.header \ {Target(t)} :
                  \A i \in DataRows(t) : c \in DOMAIN t.rows[i] /\ Parses(t.rows[i][c])}

\* The target's cells by row, and their numbers where they have any.
Labels(t) == [i \in DataRows(t) |-> t.rows[i][Target(t)]]
Numbers(t) == [i \in DataRows(t) |-> Value[Labels(t)[i]]]

Regresses(t) ==
    /\ \A i \in DataRows(t) : Parses(Labels(t)[i])
    /\ Cardinality(Range(Labels(t))) > ManyValues
AllFinite(t) == \A i \in DataRows(t) : Labels(t)[i] \in Numerals

\* The mean as the prediction: with n rows, n times the deviations from the mean,
\* and n*n times the mean of their squares.
Deviations(Y) ==
    LET n == Cardinality(DOMAIN Y)
        total == SumFunction(Y)
    IN  [i \in DOMAIN Y |-> IF n * Y[i] >= total THEN n * Y[i] - total ELSE total - n * Y[i]]

Variation(Y) ==
    LET total == SumFunction(Y)
    IN  Cardinality(DOMAIN Y) * SumFunction([i \in DOMAIN Y |-> Y[i] * Y[i]]) - total * total

\* sum() is infinite once it has left the range of a float, and so is the mean.
MeanOverflows(Y) ==
    \E k \in DOMAIN Y :
        SumFunction([i \in {j \in DOMAIN Y : j <= k} |-> Y[i]]) \notin -MaxFloat .. MaxFloat

\* A finite deviation whose square is not: float ** raises, where an infinite one
\* would have an infinite square.
SquareOverflows(Y) ==
    LET n == Cardinality(DOMAIN Y)
        D == Deviations(Y)
    IN  \E i \in DOMAIN Y : D[i] <= n * MaxFloat /\ D[i] * D[i] > n * n * MaxFloat

\* A sum of squares or of deviations that becomes infinite without an exception.
SumOverflows(Y) ==
    LET n == Cardinality(DOMAIN Y)
    IN  Variation(Y) > n * MaxFloat \/ SumFunction(Deviations(Y)) > n * MaxFloat

Readable(t) == t.header # <<>> /\ DataRows(t) # {}

\* No feature is an error, and so are a row that ends before the target and an
\* error of the mean that cannot be squared.
Trainable(t) ==
    /\ Readable(t)
    /\ Features(t) # {}
    /\ \A i \in DataRows(t) : Target(t) \in DOMAIN t.rows[i]
    /\ Regresses(t) /\ AllFinite(t) /\ SquareOverflows(Numbers(t)) => MeanOverflows(Numbers(t))

Measures == {"accuracy", "precision", "recall", "f1", "r2", "mse", "mae"}
LowerIsBetter == {"mse", "mae"}

\* A measure is a set of at most one number: empty for None.
Nothing == [m \in Measures |-> {}]
NoMetrics == [task |-> "none", values |-> Nothing, finite |-> TRUE]

\* The majority class as the prediction for every row.
Accuracy(Y) ==
    LET Rows == DOMAIN Y
        Majority == Max({Cardinality({i \in Rows : Y[i] = v}) : v \in Range(Y)})
    IN  (Majority * Scale) \div Cardinality(Rows)

SquaredError(Y) ==
    LET n == Cardinality(DOMAIN Y)
    IN  (Variation(Y) * Scale) \div (n * n)

\* Mutant: the sum of the deviations for their mean.
TotalError(Y) == (SumFunction(Deviations(Y)) * Scale) \div Cardinality(DOMAIN Y)

AbsoluteError(Y) ==
    LET n == Cardinality(DOMAIN Y)
    IN  (SumFunction(Deviations(Y)) * Scale) \div (n * n)

\* The errors of a regression are finite if the target's numbers are and nothing
\* overflows.
FiniteErrors(t) ==
    AllFinite(t) /\ ~MeanOverflows(Numbers(t)) /\ ~SumOverflows(Numbers(t))

\* The baseline of _train_lightweight.
Baseline(t) ==
    IF ~Regresses(t)
    THEN [task |-> "classification", finite |-> TRUE,
          values |-> [Nothing EXCEPT !["accuracy"] = {Accuracy(Labels(t))}]]
    ELSE [task |-> "regression", finite |-> FiniteErrors(t),
          values |-> IF FiniteErrors(t)
                     THEN [Nothing EXCEPT !["r2"] = {0},
                                          !["mse"] = {SquaredError(Numbers(t))},
                                          !["mae"] = {AbsoluteError(Numbers(t))}]
                     ELSE Nothing]

-----------------------------------------------------------------------------
(* Actions *)

NoTable == [header |-> <<>>, rows |-> <<>>]
NoFile == [table |-> NoTable, checked |-> FALSE]

NoRun == [status |-> "none", metrics |-> NoMetrics]
Idle == [at |-> "idle", file |-> NoFile, result |-> NoMetrics]

\* A place comes with the locals that are still read there.
Goto(r, place) == training' = [training EXCEPT ![r] = [Idle EXCEPT !.at = place]]
Trained(r, m) == training' = [training EXCEPT ![r] = [Idle EXCEPT !.at = "trained", !.result = m]]

Init ==
    /\ latest = NoFile
    /\ runs = [r \in Runs |-> NoRun]
    /\ training = [r \in Runs |-> Idle]

\* POST /datasets/upload stores what it accepts, POST /files anything.
UploadDataset(t) ==
    /\ Accepts(t)
    /\ latest' = [table |-> t, checked |-> TRUE]
    /\ UNCHANGED <<runs, training>>

UploadFile(t) ==
    /\ latest' = [table |-> t, checked |-> FALSE]
    /\ UNCHANGED <<runs, training>>

\* Steps 1 to 3: the newest file, and the row of the run.
CreateRun(r) ==
    /\ training[r].at = "idle"
    /\ \A q \in Runs : q < r => training[q].at # "idle"
    /\ latest # NoFile
    /\ runs' = [runs EXCEPT ![r].status = "PROCESSING"]
    /\ training' = [training EXCEPT ![r] = [Idle EXCEPT !.at = "created", !.file = latest]]
    /\ UNCHANGED latest

\* Step 4 with ENABLE_REAL_TRAINING, when the libraries make something of it.
TrainHeavy(r) ==
    /\ training[r].at = "created"
    /\ Readable(training[r].file.table)
    /\ \E m \in HeavyMetrics : Trained(r, m)
    /\ UNCHANGED <<latest, runs>>

\* Step 4 otherwise, and when the libraries failed.
TrainLight(r) ==
    /\ training[r].at = "created"
    /\ Trainable(training[r].file.table)
    /\ Trained(r, Baseline(training[r].file.table))
    /\ UNCHANGED <<latest, runs>>

\* ValueError, IndexError or OverflowError: the job fails, nobody updates the run.
Refuse(r) ==
    /\ training[r].at = "created"
    /\ ~Trainable(training[r].file.table)
    /\ Goto(r, IF Readable(training[r].file.table) THEN "unfit" ELSE "unreadable")
    /\ UNCHANGED <<latest, runs>>

\* Step 6, the artifact with its metrics: a column of type JSONB takes no NaN
\* and no infinity, whoever computed it.
StoreArtifact(r) ==
    /\ training[r].at = "trained"
    /\ training' = IF training[r].result.finite
                   THEN [training EXCEPT ![r].at = "stored"]
                   ELSE [training EXCEPT ![r] = [Idle EXCEPT !.at = "notJson"]]
    /\ UNCHANGED <<latest, runs>>

\* Step 6, the run, unless a cleanup took its row.
FinishRun(r) ==
    /\ training[r].at = "stored"
    /\ runs' = IF runs[r].status = "none" THEN runs
               ELSE [runs EXCEPT ![r] = [status |-> "SUCCESS",
                                         metrics |-> training[r].result]]
    /\ Goto(r, "done")
    /\ UNCHANGED latest

\* The job's timeout, an error of the database, the end of the process.
Abandon(r) ==
    /\ training[r].at \in {"created", "trained", "stored"}
    /\ Goto(r, "abandoned")
    /\ UNCHANGED <<latest, runs>>

\* A cleanup of expired datasets deletes the runs of what it deletes.
DeleteRun(r) ==
    /\ runs[r].status # "none"
    /\ runs' = [runs EXCEPT ![r] = NoRun]
    /\ UNCHANGED <<latest, training>>

Next ==
    \/ \E t \in Tables : UploadDataset(t) \/ UploadFile(t)
    \/ \E r \in Runs : \/ CreateRun(r) \/ TrainHeavy(r) \/ TrainLight(r) \/ Refuse(r)
                       \/ StoreArtifact(r) \/ FinishRun(r) \/ Abandon(r) \/ DeleteRun(r)

Spec == Init /\ [][Next]_vars

-----------------------------------------------------------------------------
(* GET /metrics/trends and GET /metrics/summary *)

Rows == {r \in Runs : runs[r].status # "none"}
Trends(limit) == {r \in Rows : Cardinality({q \in Rows : q > r}) < limit}

Of(task, trends) == Cardinality({r \in trends : runs[r].metrics.task = task})
Measured(m, trends) == {r \in trends : runs[r].metrics.values[m] # {}}
Measure(m, r) == CHOOSE v \in runs[r].metrics.values[m] : TRUE

Best(m, trends) ==
    LET values == {Measure(m, r) : r \in Measured(m, trends)}
    IN  IF values = {} THEN {}
        ELSE IF m \in LowerIsBetter THEN {Min(values)} ELSE {Max(values)}

\* An average is its sum and the number of its terms, None without terms.
Summary(limit) ==
    LET trends == Trends(limit) IN
    [count |-> Cardinality(trends),
     classification |-> Of("classification", trends),
     regression |-> Of("regression", trends),
     terms |-> [m \in Measures |-> Cardinality(Measured(m, trends))],
     sum |-> [m \in Measures |-> SumFunction([r \in Measured(m, trends) |-> Measure(m, r)])],
     best |-> [m \in Measures |-> Best(m, trends)]]

-----------------------------------------------------------------------------
(* Assumptions *)

IsTable(t) ==
    /\ t.header \in Seq(STRING)
    /\ t.rows \in Seq(Seq(Cells))

\* A report of finite numbers: accuracy with a classification, the three errors
\* with a regression, and no mean of absolute errors above the root of the mean of
\* their squares.
IsReport(m) ==
    /\ m.task \in {"classification", "regression"}
    /\ m.values \in [Measures -> SUBSET Int]
    /\ \A k \in Measures : \A v, w \in m.values[k] : v = w
    /\ m.values["accuracy"] # {} <=> m.task = "classification"
    /\ \A k \in {"r2", "mse", "mae"} : m.values[k] # {} <=> m.task = "regression"
    /\ \A a \in m.values["mae"], b \in m.values["mse"] : a * a <= b * Scale

\* No fraction is rounded: Scale is a multiple of the square of every number of rows.
IsExact(t) == DataRows(t) # {}
                => \E k \in 0 .. Scale : Scale = k * Cardinality(DataRows(t)) * Cardinality(DataRows(t))

\* The libraries look at no number they report: of large ones mse is infinite.
MetricsAssumption ==
    /\ Numerals \subseteq STRING \ NoNumerals /\ Value \in [Numerals -> Int]
    /\ MaxFloat \in Nat
    /\ Runs \subseteq Nat
    /\ \A t \in Tables : IsTable(t) /\ IsExact(t)
    /\ MinRows \in Nat /\ ManyValues \in Nat /\ Limits \subseteq Nat
    /\ Scale \in Nat \ {0}
    /\ \A m \in HeavyMetrics : m.finite \in BOOLEAN /\ (m.finite => IsReport(m))

ASSUME MetricsAssumed == MetricsAssumption

-----------------------------------------------------------------------------
(* Properties *)

\* Every row as long as the header, and every cell a number.
Regular(t) == \A i \in DataRows(t) : /\ Len(t.rows[i]) = Len(t.header)
                                     /\ \A c \in DOMAIN t.rows[i] : t.rows[i][c] \in Numerals

\* A target whose numbers are so small that the squares of their differences, one
\* for each row, add up to a float: for a million rows those up to 1e150.
Moderate(t) ==
    \E b \in 0 .. MaxFloat :
        /\ Cardinality(DataRows(t)) * (2 * b) * (2 * b) <= MaxFloat
        /\ \A i \in DataRows(t) : Numbers(t)[i] \in -b .. b

\* A training of a file that upload_dataset accepted never finds it without a
\* header or without data. With a full table of numbers whose target is moderate
\* it never fails on the file, and comes to metrics that a row can keep unless the
\* libraries report an infinite error. What is left to fail: files that POST /files
\* stored, short rows, words in every column, targets that hold "nan" or "inf" or
\* numbers so large that their errors overflow, and such a report.
AcceptedDataTrains ==
    [][\A r \in Runs :
         training[r].at = "created" /\ training[r].file.checked
           => /\ training'[r].at # "unreadable"
              /\ Regular(training[r].file.table) /\ Moderate(training[r].file.table)
                   => /\ training'[r].at # "unfit"
                      /\ training'[r].result.finite \/ training'[r].result \in HeavyMetrics]_vars

\* The summary agrees with itself at every moment and for every limit, whichever
\* runs are still training, failed or were deleted: runs without metrics are
\* counted but not classified; accuracies are averaged over the classifications,
\* errors over the regressions; no average beats its best value, and the average
\* absolute error is no larger than the root of the average squared error.
SummaryAgrees ==
    \A limit \in Limits : LET s == Summary(limit) IN
    /\ s.count <= limit
    /\ s.count = s.classification + s.regression
                   + Cardinality({r \in Trends(limit) : runs[r].status = "PROCESSING"})
    /\ s.terms["accuracy"] = s.classification
    /\ \A m \in {"r2", "mse", "mae"} : s.terms[m] = s.regression
    /\ \A m \in Measures : \A b \in s.best[m] :
         IF m \in LowerIsBetter THEN b * s.terms[m] <= s.sum[m]
                                ELSE b * s.terms[m] >= s.sum[m]
    /\ s.sum["mae"] * s.sum["mae"] <= s.sum["mse"] * s.terms["mse"] * Scale

=============================================================================
