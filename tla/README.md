# MLservice in TLA+

A specification of the backend of MLservice (`src/backend/service`, a FastAPI
service with a PostgreSQL database, a file store and background workers): what
its concurrent parts do to the state they share, model-checked with TLC on small
instances and, where it matters most, proved with TLAPS for every instance.

## 1. The system

Several server processes (`uvicorn --workers`, `entrypoints.sh`) serve HTTP
requests and run background loops in one asyncio event loop each. They share a
PostgreSQL database and a file store. A repository method decorated with
`@connection` (`repositories/decorators/session_processor.py`) is one transaction:
commit at the end, rollback and a `RepositoryError` on any exception. Between two
such calls there is an `await`, where anything else may run. That is the grain of
every model here: one action per transaction or per change of local control.

| Component | State it keeps | Operations | Hard behaviours |
|---|---|---|---|
| Job API (`job_service.py`, `job_repository.py`) | `user_launch` rows | `create_job`, `fetch_job_result` with `_take_payment` | check-then-insert, charge-then-record, stale rows merged back |
| Job processor (`job_processor.py`) | one task per claimed job, row locks of the claim | claim a batch, run, save, time out, rescue | competing processes, timeouts that strike after a commit, crashes |
| Profiles (`profile_service.py`) | `available_launches` | read-modify-write of the balance | lost updates |
| Background tasks (`background_task_manager.py`, `app_lifespan.py`) | the wrapper tasks, `running` | start, restart after a delay, stop | cancellation in each await of the wrapper |
| Training (`training_service.py`, `training_repository.py`) | dataset, run and artifact rows, model files | `run_for_job` with retention | rows and files in separate steps, cancellation between any two |
| Datasets (`ml_api.py`, `training_repository.py`, `dataset_ttl_worker.py`) | `dataset` and `training_run` rows, dataset files | upload, TTL cleanup (manual and periodic), artifact deletion, summary, trends | files removed apart from rows, version numbers, TTL 0 |
| Files (`files_api.py`, `file_saver_service.py`, `file_repository.py`) | `user_file` rows and stored objects | upload, fetch, delete | row and object are not written atomically |
| Storage (`local_file_storage.py`, `minio_file_storage.py`) | objects | upload with retries, presign, delete | a retry of an upload that did arrive |
| Accounts (`auth_service.py`, `auth_repository.py`, `auth_api.py`) | users, sessions | register, login, session creation | unique e-mail under a race, several sessions |
| Frontend (`frontend/src`) | token cookie, auth context, polling hooks | 401 interceptor, health polling | late answers after logout |

The job processor and the job API meet only in `user_launch`; the payment reads
and writes `user`. Training runs inside a processor task, so the timeout of a job
cancels it at any `await`. The TTL worker and the upload endpoint share the
dataset tables and the storage directory that training reads.

What makes each of them correct:

- *Job API and processor*: a job is worked on by one process; its verdict is final;
  it completes; only successful jobs are charged, once, by exactly one launch.
- *Background tasks*: a loop that failed is started again unless the manager stops,
  and nothing runs after `stop` has returned.
- *Training and artifacts*: a run has its dataset, an artifact row its file, and a
  user keeps the newest artifacts only.
- *Datasets and TTL*: versions number the datasets of a user; a cleanup deletes what
  has expired, all of it and nothing else, rows and files.
- *Files and storage*: a row has its object, an object its row, except for what a
  failure explains.
- *Accounts*: one user per e-mail, one session per user, a token that resolves to
  its owner until it expires.
- *Frontend*: no answer that arrives after a logout restores the user.

## 2. What is modelled

### JobLifecycle (with JobBoard as its abstract specification)

| Model | Code |
|---|---|
| `status`, `paymentTaken` | columns of `profile.user_launch` (`db_models.py:48`) |
| `launches` | `user.available_launches` |
| `loop[w]` | where `process_new_jobs` of process `w` is: `fetch` before the SELECT, `claiming` between SELECT and COMMIT, `gather`, `sleep`, `restart` (the manager's delay after an error), `down` |
| `locked[w]` | rows held by `FOR UPDATE SKIP LOCKED` |
| `task[w][j]` | `_process_job_with_timeout(job)`: `running`, `saving`, `saved` (committed, session being closed), `rescuing` (an except branch about to save FAILURE), with the status the job object carries |
| `request[r]` | a request between two of its transactions, with its local variables |
| `charged`, `billed`, `overturned` | history variables: charges written per user, jobs charged, jobs whose committed SUCCESS was then disowned |

Actions are the transactions: `CreateJob`, `CheckOngoing`, `InsertJob` (one POST
/jobs); `FetchJobResult`, `ReadBalance`, `WriteBalance`, `RecordPayment` (one poll
that pays); `SelectNewJobs`, `CommitClaim`, `BatchDone`, `WakeUp` (the loop); `Work`,
`SaveResult`, `TaskReturns`, `TimeOut`, `SaveFailure` (a task). `FetchFails`,
`SaveFails`, `RescueFails`, `RequestFails` and `Stop` are the faults: an error before
or after the commit took effect, and the end of a process. `MaxFaults` bounds
them; the identifiers `Jobs` bound how many jobs are ever created.

Requests are assumed to end or to be cut by an error; uvicorn does not cancel a
handler when its client goes away. A poll that does not pay changes nothing and is
no action. The enrichment of a TRAIN result only reads.

`Stranded` are the PROCESSING rows that no process works on: `fetch_new_jobs` selects
NEW rows only, so nobody ever moves them, and their user can start no other job
(`check_ongoing_job`).

### JobBoard

What the job table promises: a job is submitted, claimed by at most one process,
decided by that process, let go; a decision is final unless the holder disowns a
SUCCESS. `BoardSpec` maps `holders[j]` to the processes with a live task for `j`.

### DatasetRegistry (with FileCatalogue as its abstract specification)

| Model | Code |
|---|---|
| `objects`, `allocated` | the storage (a directory or a MinIO bucket) and the uuid4 names drawn so far |
| `files` | `profile.user_file`; `at` is the order of `created_at` |
| `datasets`, `registered` | `profile.dataset`, by identifier in order of `created_at` |
| `runs` | `profile.training_run`, one for each training (its job is run once) |
| `horizon` | the newest dataset older than the TTL; time passes in `Age` |
| `request[q]` | an upload (`stored`, `filed`, `versioned`) or a deletion (`found`, `unfiled`) between two awaits |
| `training[t]` | `run_for_job` between two awaits, up to the last status of its run |
| `cleaner[c]` | `cleanup_expired_datasets`, statement by statement (`selected`, `deleting` with the runs it has deleted and not committed), then the files still to remove |
| `swept` | history: the keys of the rows that cleanups deleted |

PostgreSQL runs these transactions at READ COMMITTED, so a transaction that reads
and then writes (`create_dataset_with_version`, `cleanup_expired_datasets`) is more
than one action. Rows a cleanup has deleted but not committed are waited for by
other cleanups and by the update of a run (`Doomed`); the foreign key with ON DELETE
RESTRICT (`db_models.py:191`) is the guard of `CreateRun` and the first branch of
`DeleteDatasets`. The periodic loop and the endpoint run the same steps; they differ
in what they make of a TTL of 0 (`Cutoff`, and the guard of `SelectExpired`). A call
that writes once and returns is one action. The three users of a key, namely the
file's row, the upload's dataset and each training's dataset, meet only in
`objects`.

`FileCatalogue` says what remains of this without calls in flight, transactions and
failures: a file is absent, pending, listed, unlisted, in this order and once; datasets
are registered, one after the other, on files that are or were listed, and cleaned up for
good; the storage loses a file only when it is unlisted, or when a dataset that used it
was cleaned up. `CatalogueSpec` reads the stage of a file from `allocated`, the requests and
`files` (`Stage`), and takes `swept` for the files released by cleanups.

Trainings do not depend on the job table here: a job is claimed by one process
(proved in `JobLifecycleProofs`), so `run_for_job` runs at most once for each.

### ModelArtifacts (with ModelShelf as its abstract specification)

| Model | Code |
|---|---|
| `disk` | `storage/models/`: the file a training reports, and the stump of an export that failed half way (`training_service.py:235`) |
| `rows`, `born` | `profile.model_artifact` and `created_at`, which is the start of the inserting transaction, not its commit |
| `runs` | the status of the run, SUCCESS with its `model_url` |
| `training[t]` | steps 4 to 7 of `run_for_job` between two awaits |
| `chosen[t]`, `toRemove[t]` | what `delete_oldest_artifacts` has selected, and the files still to remove after its commit |
| `deletion[d]` | DELETE /artifacts/{id} between its transaction and the removal |
| `dropped` | history: files a failure took out of an operation's hands |

The retention counts, selects, deletes and removes in separate steps, so two
trainings of one user and a DELETE meet in each of them. `Abandon` is the job's
timeout or the end of the process at any await.

`ModelShelf` has neither transactions nor selections nor failures: a model is stored,
listed, unlisted (one by its user, or many by a retention) and removed, in this order
and once; a run reports a model only after it was listed. `ShelfSpec` reads the stage of
a model from `born`, `rows` and `disk` together (`Stage`).

### AuthSessions (with AccountBook as its abstract specification)

| Model | Code |
|---|---|
| `users`, `sessions`, `drawn` | `profile.user`, `profile.user_session`, identifiers drawn |
| `request[r]` | a registration between the lookup of its e-mail, the insert (waiting on the unique index) and the commit; a login between verification, the SELECT ... SKIP LOCKED and the commit |
| `answered` | history: registrations answered with 200 |

An address is a local part with or without a tag and capitals; `NormalizeEmail`
drops both. `"+tag@domain"` normalises to an address without a local part: the
account is inserted and committed, then `RegisterResponse` refuses its e-mail and
the answer is a 500. `AccountBook` promises one account for an e-mail, for good, and
one answer that names it; the book is the set of committed rows.

### ServerLifespan

| Model | Code |
|---|---|
| `phase[p]` | `lifespan()` and `container.build` of process `p`, including the check of the connection and the end of the engine |
| `backend[p]` | the storage that `build` chose, for the life of the process |
| `wrapper[p][l]` | `task_wrapper` of a loop: `new`, in its `body`, in the `delay` before a restart, `deaf`, `done` |
| `Catching` | the loops that catch the exceptions of their own cycle: the dataset cleanup does, the job processor lets them out to its wrapper |
| `request[p]` | one upload or deletion with the number of its attempt |
| `bucket`, `stored`, `rows` | the bucket, the objects of each backend, the backend that each row's URL names |
| `made`, `dropped`, `misrouted` | history: the bucket was made here; keys let go by a failure; keys deleted through another backend than their row's |

A deletion uses the backend of the process that runs it, not the one the row names.
Two processes that find the bucket missing race for it; the second `make_bucket`
raises and that process serves from the local disk for its whole life. A
cancellation during the delay is raised inside an `except` block and ends the
wrapper; `stop` gathers with `return_exceptions=True`.

`stop` cancels each wrapper once. Where an exception takes the cancellation's place (an
error of the database or the storage while the call is being cancelled), `BodyFails` ends
the job processor, which lets it out while `running` is off. The cleanup catches it
(`dataset_ttl_worker.py:66`), sleeps and goes round its `while True` (`CycleFails`): it is
`deaf`, its only cancellation is spent, and the gather waits until the process is killed.
`StopsEnd` says that this is the one way in which a stop does not end, and that every
other loop has ended then.

### TrainingMetrics

| Model | Code |
|---|---|
| `latest` | the newest file of a user: a table, and whether `upload_dataset` checked it; POST /files checks name and size only |
| `training[r]` | `run_for_job` with the local variables that are still read |
| `runs` | the rows of `profile.training_run` with their metrics |
| `Accepts` | the CSV validation of `upload_dataset` |
| `Target`, `Features`, `Trainable`, `Baseline` | `_train_lightweight` |
| `MeanOverflows`, `SquareOverflows`, `SumOverflows` | what its sums and its `**` do beyond the range of a float |
| `Summary(limit)`, `Trends(limit)` | GET /metrics/summary and /metrics/trends |

A cell is one of a few kinds that the validation, `float()` and the metrics tell
apart; a fraction is a whole number of units of `1/Scale`, exact for the tables of
the run. A result that is not `finite` holds NaN or an infinity: its artifact is refused
by the JSONB column after the model file has been written, and the run stays PROCESSING.
The heavy path is a choice from `HeavyMetrics`, finite or not, or a failure, after which
the lightweight path runs.

The numbers in a file are `Numerals` with a `Value`, and floats end at `MaxFloat`, all three
parameters. In Python a sum that leaves the range is infinite, the power of a finite
number that leaves it is an OverflowError (`training_service.py:349`): such a training is
refused, while a mean that is infinite already, or a sum of squares that becomes so, gives
an infinite error. `AcceptedDataTrains` therefore speaks of a *moderate* target: if all its
`n` numbers are within `-b .. b`, then `n * (2b)^2` is a float. It excepts what the libraries
report, since nobody looks at it before the row. The range is modelled where a training
computes, not in the averages of the summary, whose terms were stored as floats.

## 3. Runs

| Run | Instance | Shows |
|---|---|---|
| `job_safety` | 2 processes, 1 user, 2 jobs, 2 clients, batch 2, grant 2, 1 fault | exclusive claims, charges, balance, final verdicts, ongoing jobs bounded by the requests in flight, jobs stranded by faults alone and a batch at a time, refinement of JobBoard, and that the proved invariant, with the types in it, holds in a real instance |
| `job_completion` | 2 processes, 2 users, 2 jobs, 1 client, batch 2, fair, 2 faults | every job completes unless there was a fault, and is claimed although claims fail and processes stop |
| `registry_safety` | 1 user, 2 requests (symmetric), 1 training, the loop, 2 keys, 2 datasets, 1 fault | every row without a file and every file without a row has a cause; refinement of FileCatalogue |
| `registry_cleanup` | 1 user, loop and endpoint, 1 request, 1 training, 3 datasets, 2 keys, batch 2, 1 fault | cleanups hit what has expired, the foreign key holds, leftovers are accounted for, versions are shared by no more rows than there are creators; the proved invariant, with the types in it, in a real instance |
| `registry_expiry` | fair, loop and endpoint, 1 request, 1 training, 1 key, 2 datasets, batch 1, 1 fault | expired datasets go |
| `artifact_retention` | 1 user, 3 trainings, 1 deletion, limit 1, both ways to train, 1 fault | rows have their files, orphans were dropped by the failure, the limit is exceeded only by retentions still to come, the newest rows are spared; refinement of ModelShelf; the proved invariant, with the types in it, in a real instance |
| `account_sessions` | 2 requests, 2 local parts (one empty), tags and capitals, 2 good passwords and a weak one, 2 users, 4 sessions, 1 fault | answers hold, untold accounts have a cause, sessions per user are bounded; refinement of AccountBook; the proved invariant |
| `server_lifecycle` | fair, 2 processes, 2 loops of which one catches, 1 key, 2 attempts, MinIO configured, 2 faults | rows name objects that are there, strays and fallbacks are accounted for, a stop is final and ends unless a cleanup is deaf, loops come back |
| `metrics_pipeline` | 14 tables, 2 runs, both ways to train, limits 1 and 2, regression from 2 values on, floats up to 50 | the summary agrees with itself, and an accepted full table of numbers with a moderate target trains |

Two processes are the least that compete, two clients the least that interleave,
two jobs make batches of one and of two; one fault in `job_safety` already hits any
single transaction or process at any point, and two hit a claim and its retry.

For the registry two keys let one file be deleted while another is uploaded; three
datasets let a batch of two leave one behind and let two rows share a key; one loop
and one endpoint call are two cleanups over the same rows. `MaxKeys` and
`MaxDatasets` end every run, so deadlock is not checked there.

Three trainings with a limit of one let a retention select two rows while another
has selected one of them; a fourth would only repeat that. Two requests are a race of
two registrations or logins, and four sessions let each of them log in twice. Two
processes are a race for the bucket and a fallback beside a process without one; one
key suffices since an object's fate depends on no other. Two rows in a table are the
least the upload accepts; `ManyValues` is 20 in the code and 1 here, so that two or
three rows are a regression; with floats up to 50 one table overflows in the sum, one in a
square, one in the sum of squares, and the others do not; two runs with limits 1 and 2 show a summary that is cut
and one that is not. `MaxUsers`, `MaxSessions` and the identifiers of trainings end
these runs, and a server may stay down, so deadlock is not checked in any of them.

Fairness of the jobs (`FairSpec` of JobLifecycle): the event loop of a live process runs ready tasks
(`WF` of `LoopStep` and of each `TaskStep`; a task that hangs is ended by
`wait_for`, so work ends one way or the other), and a stopped process is started
again (`docker-compose.yaml:65`, `restart: "always"`). Clients, timeouts and faults
owe nothing.

Fairness of the registry: a cleanup that has begun goes on (`WF` of `CleanupStep`)
and the loop starts another after its interval (`dataset_ttl_worker.py:24`, `WF` of
`SelectExpired` for the loops only). Uploads, trainings, the endpoint and the passing
of time owe nothing.

Fairness of the servers: the event loop runs what is ready, namely a process that boots
(`Boot`), the steps of a stop (`Stop`), a request that has begun (`Work`) and each loop's
wrapper with its timer (`Turn`). Nobody has to start a process or to stop one, and no
failure is owed.

### Runs that find a disagreement

| Run | Finding |
|---|---|
| `finding_charged_twice` | a charged job is written back unpaid, so that every further poll charges it again |
| `finding_ttl_zero` | a TTL of 0, documented as disabled, makes the endpoint delete every dataset |
| `finding_shared_file` | a cleanup removes the file of a dataset that has not expired |

What the other models say of the code, as properties that hold with the exception
named in them:

- Two concurrent POST /jobs of one user may both succeed: the ongoing jobs are bounded
  by the requests in flight (`OverlapBoundsOngoing`).
- Two concurrent polls may take one launch for two charges: the balance is bounded by
  the charges (`BalanceWithinCharges`).
- A job of a stopped process stays PROCESSING for good, and its user can start no
  other: `StrandedForGood` says that no step of any kind brings it back, and that a
  fault strands one batch at most; `JobsComplete` excepts it.
- With MinIO a file's URL is `s3://...`, which a training takes for a path and never
  finds; `ReadData` of DatasetRegistry fails there.
- A cleanup that catches what took its cancellation's place goes on, and the stop waits
  for it (`StopsEnd`).
- Numbers that upload_dataset accepts may be too large to train on: a square raises, or
  an infinite error is refused by the database (`AcceptedDataTrains`).
- A training that fails leaves its run PROCESSING for good: the summary counts it
  without a task.
- SKIP LOCKED leaves a user several sessions after logins at once (`SessionsBounded`).
- The cookie's `max_age` takes `jwt_exp_hours` as seconds (`auth_api.py:69`), the token and
  the session row as hours. No step compares them, so no model has them.

## 4. Proofs

`JobLifecycleProofs` proves, for any number of processes, users, jobs, requests,
faults, any grant and batch size, from `ConstantsAssumption` (finitely many job
identifiers and request slots, used only where they are counted):

- `TypeCorrect`, then `Inductive`: `InductiveInv` is the conjunction of `TypeOK` and
  - `ClaimInv`: locked rows are NEW and locked once; a task exists only in the
    process that waits for it in `gather`, and in no other;
  - `VerdictInv`: what a task or a payment carries in memory agrees with the row it
    will overwrite, or the job is in `overturned`;
  - `BalanceInv`: a balance in memory is no further from the grant than the
    charges written since it was read;
  - `BatchInv`: a process has locked no more rows, and works on no more jobs, than a
    batch (`LimitHolds` for the LIMIT of the claim, `TasksStart` and `TasksEnd`).

  None of the stated properties is inductive alone: exclusive claims rest on the
  locks, the finality of verdicts on claims being exclusive and on in-memory
  copies, the balance on the stale balances.
- `ExclusiveClaims`, `ChargesForSuccess`, `FinalVerdicts`, `BalanceAccounted`,
  `OngoingBounded` follow; the last one adds a counting argument
  (`Cardinality` of the ongoing jobs plus the requests about to insert).
- `StrandedJobs`: a stranded row stays PROCESSING, since only a task writes over it and
  only NEW rows get a task (`ProcessingFrom`, `StrandedStays`); a row that becomes
  stranded lost its task without a verdict, which only a fault of its process does
  (`WhoIsStranded`), so that the new ones are within that process's batch
  (`StrandedGrows`).
- `StrandedCounted`: the bound summed up over a behaviour, `BatchSize * faults` rows at
  any time; in particular none while nothing has failed.

`JobBoardProofs` proves `Refinement`: `Spec => BoardSpec`, one simulation lemma per
kind of step (client, loop, task).

`DatasetRegistryProofs` proves, for any number of users, requests, trainings and
cleanups, any TTL setting and batch, from `RegistryAssumption` (finitely many request
slots and trainings; the rest are types of constants):

- `TypeCorrect`. The maximum of a finite set of numbers, which `SELECT max(version)`
  and the newest file need, is obtained from the well-foundedness theorems of the
  library (`NatMin`, `FiniteBound`, `FiniteMax` of `Aggregates`).
- `RunsReferToDatasets`: inductive with the types, since both sides of the foreign
  key are guards.
- `MissingFilesAccounted`, by `FilesInv`: the key of an upload between its two writes
  is in no other hands, an unfiled key has no row, and a cleanup removes only keys
  of rows it deleted. Without the first part a deletion could hit a file not yet filed.
- `CleanupsAreTargeted`, by `CleanersInv`: what a cleanup has chosen stays expired,
  and the runs it holds are its own and of datasets it has chosen.
- `Inductive`: `TypeOK`, these two and `KeysInv`, the `InductiveInv` of the run
  `registry_cleanup`. `KeysInv` says that a file not yet filed is known to its own upload
  only (`UnfiledApart`: a training takes its key from a row), and that a cleanup has the
  keys of the rows it has chosen, of all of them that are left, and of no others but
  rows that another cleanup has deleted meanwhile (`ChosenKeys`).
- `KeepsTheCatalogue`: `Spec => CatalogueSpec`, one simulation lemma per kind of step
  (`RequestSimulation`, `TrainingSimulation`, `CleanerSimulation`, `StoreFailsSimulation`).
  `KeysInv` is needed twice: what is registered has been listed, and the keys that a
  cleanup sweeps are those of the datasets it takes in that very step.
- `VersionsAreShared`: a counting argument. The version that is read is carried by no
  row (`NextVersionHasNoRow`); from then on a creator turns into a row (`SharedMoves`)
  or disappears (`SharedShrinks`).
- `OrphansAccounted`: the files without a row are those a request carries between its
  two writes, counted by the requests, and the rest (`Unheld`), which grows by one
  file at most in a step, and only in a failing one.
- `LeftoversAccounted`: a cleanup's list is at most a batch (`FirstOnes`), its keys have
  been drawn and a new file has a new key (`DrawnInv`), so that files are dropped only
  when a cleanup skips one or fails, at most a list for each (`DroppedInv`).

`ModelArtifactsProofs` proves, for any number of users, trainings, deletions and faults
and any limit, from `ArtifactsAssumption`: `TypeCorrect`; `Inductive`, whose parts say that a
file is there before its row and until after it (`HandsInv`), that what a retention has
selected had as many newer rows as the limit (`ChosenInv`), and that the rows of a user
exceed the limit by no more than the retentions still to come, less what they have
selected (`RetentionInv`, a counting argument); then `ModelsPresent`, `OrphansDropped`,
`WithinLimit` and `NewestAreSpared`. `KeepsTheShelf` proves `Spec => ShelfSpec`: every step
moves the stage of one model, or of the models one DELETE statement takes, or none
(`StoreSimulation`, `UnlistSimulation`, `RemoveSimulation`, `SilentSimulation`); the invariant is
needed where a file goes, since it must be that of an unlisted model and of no other.

`AuthSessionsProofs` proves, for any number of requests, e-mails and passwords, from
`AuthAssumption`: `TypeCorrect`; `Inductive`, whose core is that an uncommitted insert is
alone with its e-mail and that locks are exclusive; `AnswersKept`; `UntoldByFaults`
(counting: a commit without an answer costs a fault, unless the e-mail has no local
part); `SessionsCounted`; and `KeepsTheBook`, the refinement of AccountBook. The bound on
sessions is inductive only in the form `LoadInv`: whichever of the logins in flight were
rolled back now, the rows they hold locked and would free stay within the bound that
belongs to that many more failures.

`ServerLifespanProofs` proves, for any number of processes, loops, keys, attempts and
faults, from `ServerAssumption`: `TypeCorrect`, `RowsStored`, `StraysAccounted`, `StopFinal` and
`FallbacksCounted`. Rows and strays rest on one process at most having a key in hand;
a closing process has no live wrapper, a deaf one being live; the bound on fallbacks needs that
of the processes racing for the bucket at least one makes it.

`TrainingMetricsProofs` proves for any tables over any numbers, any range of floats and any
limits of the validation, from `MetricsAssumption`: `AcceptedTrains` and
`SummaryConsistent`. For the first, two named columns leave one besides the target
(`AcceptedHasColumn`), the target is a column of every full row (`TargetIsColumn`), so that
there is a feature; with a moderate target every partial sum is within `n*b`, every
deviation from the mean within `2b`, and so neither the mean nor a square nor a sum
overflows (`ModerateErrors`, with `SumBetween` of `Aggregates`); the invariant carries the
check of a file from its upload to the training. For the second, `ReportsKept`: what a run has stored
is a report, that is the metrics of one task whose errors obey `MAE^2 <= MSE`. The
baseline's errors obey it by the inequality of Cauchy and Schwarz (`ErrorsOfMean` with
`SquareOfSum` of `Aggregates`); `BestIsBest` and `ErrorsOfSummary` carry it to the maxima,
minima and means of a summary. The heavy path enters by an assumption on the constant
`HeavyMetrics`, that its finite members are reports. `Scale` is positive, and the quotients that the
model writes as whole numbers of units are taken to be exact for the tables of the
constants (`IsExact`): floats are not modelled, and a table whose means are no such numbers
is outside of the model.

`Aggregates` holds lemmas on greatest and least elements and on sums over finite sets that
several of them use. The sums are folds, whose value for every set would be an induction
over data; the lemmas avoid it by taking a least counterexample among the partial sums
(`ChosenInduction`).

Model-checked only: liveness under fairness (`JobsComplete`, `NewJobsAreClaimed`,
`ExpiredDatasetsGo`, `LoopsRun`, `StopsEnd`; the prover at hand has no ENABLED).

## 5. What is not modelled

- The estimators of the heavy path and the rounding of floats: numerical code of
  libraries, external in TrainingMetrics.
- Listings, presigned URLs and the filter by mode: they select rows and change no
  state. The enrichment of a TRAIN result likewise.
- The container and the settings apart from the choice of a storage: wiring executed
  once.
- The frontend: views, an auth context and polling hooks that share no state with the
  backend but the token.
- The event loop is taken to be fair between tasks. The synchronous training holds it
  for as long as it computes; the hazard is listed, no model represents it.
- `ml_service.py`, `ml_repository.py`, `ml_models.py`, `file_storage.py` (about 1000 lines):
  nothing imports them.
- Clocks: the TTL is an order of rows and a horizon; tokens do not expire in
  AuthSessions, since an expired one is refused by the decoder without any state. The
  lookup of a token in `check_auth` only reads and is no action.
- Fields of a CSV that the csv module refuses, and encodings.

## 6. Plan

Done, in this order: `JobLifecycle` with `JobBoard`; `DatasetRegistry` with `FileCatalogue`;
`ModelArtifacts` with `ModelShelf`; `AuthSessions` with `AccountBook`; `ServerLifespan` (the
background tasks, the choice of a storage and its attempts); `TrainingMetrics`.

What remains worth doing:

1. `TrainingJobs`: the composition of JobLifecycle's tasks with the trainings of
   DatasetRegistry and ModelArtifacts, so that the timeouts of jobs are the
   abandonments of trainings.
2. `ClientSession`: the frontend's auth context and polling hooks.
