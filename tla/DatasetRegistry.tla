-------------------------- MODULE DatasetRegistry --------------------------
(***************************************************************************)
(* Uploaded files, datasets, and the training runs that use them: what the *)
(* upload and delete endpoints (services/file_saver_service.py, ml_api.py, *)
(* files_api.py), the first half of a training (training_service.py) and   *)
(* the TTL cleanup (dataset_ttl_worker.py, ml_api.py) do to the storage    *)
(* and to the tables user_file, dataset and training_run.                  *)
(*                                                                         *)
(* PostgreSQL runs the transactions at READ COMMITTED: two statements of   *)
(* one transaction may see different data, so a transaction that reads and *)
(* then writes is two actions here.                                        *)
(***************************************************************************)
EXTENDS Integers, FiniteSets, FiniteSetsExt

CONSTANTS
    Users,          \* owners; ServiceMode has one value, so a user is a user+mode
    Requests,       \* slots for upload and delete requests in flight
    Trainings,      \* training jobs; each is run once
    Trainer,        \* Trainer[t]: the user whose job t is
    Loops,          \* periodic cleanups: one dataset_ttl_worker per process
    Sweeps,         \* slots for DELETE /datasets/expired requests in flight
    TtlSetting,     \* DATASET_TTL_DAYS: "days" (more than 0), "zero" or "unset"
    Batch,          \* settings: limit of one cleanup
    OnDisk,         \* settings: STORAGE_BACKEND is local, not minio
    MaxKeys,        \* bound: storage keys drawn in a run
    MaxDatasets,    \* bound: dataset rows created in a run
    MaxFaults,      \* bound: failures of a run
    None            \* no user

Keys     == 1 .. MaxKeys
Ids      == 1 .. MaxDatasets
Cleaners == Loops \cup Sweeps

ASSUME RegistryAssumption ==
    /\ IsFiniteSet(Requests) /\ IsFiniteSet(Trainings)
    /\ Requests \cap Trainings = {}
    /\ Trainer \in [Trainings -> Users]
    /\ Loops \cap Sweeps = {}
    /\ TtlSetting \in {"days", "zero", "unset"} /\ OnDisk \in BOOLEAN
    /\ Batch \in Nat \ {0}
    /\ None \notin Users
    /\ MaxKeys \in Nat /\ MaxDatasets \in Nat /\ MaxFaults \in Nat

VARIABLES
    allocated,      \* storage keys drawn so far (uuid4 names): 1 .. allocated
    objects,        \* keys under which the storage holds a file
    files,          \* rows of user_file, in the order "at" of created_at
    datasets,       \* rows of dataset by identifier, in order of created_at
    registered,     \* dataset rows created so far: 1 .. registered
    horizon,        \* rows 1 .. horizon are older than the TTL (unused if it is 0)
    runs,           \* rows of training_run by training
    request,        \* upload and delete requests in flight
    training,       \* TrainingService.run_for_job, one per job
    cleaner,        \* cleanups in progress
    swept,          \* history: keys of the dataset rows that cleanups deleted
    faults          \* history: failures so far, bounded by MaxFaults

storage == <<allocated, objects, swept>>
tables  == <<files, datasets, registered, runs>>
vars    == <<storage, tables, horizon, request, training, cleaner, faults>>

-----------------------------------------------------------------------------
NoDataset == [owner |-> None, key |-> 0, version |-> 0]
DatasetRows == [owner : Users, key : Keys, version : Nat \ {0}] \cup {NoDataset}
Exists(i)   == datasets[i].version # 0

NoRun == [dataset |-> 0, status |-> "none"]
RunRows == [dataset : Ids, status : {"PROCESSING", "SUCCESS"}] \cup {NoRun}
HasRun(t)   == runs[t].status # "none"

\* What a request or a training holds between two awaits.
Call(pc, u, k, v, d) == [pc |-> pc, user |-> u, key |-> k, version |-> v, register |-> d]
NoCall == Call("idle", None, 0, 0, FALSE)

Step(pc, k, v, i) == [pc |-> pc, key |-> k, version |-> v, dataset |-> i]
NewTraining == Step("new", 0, 0, 0)

Sweep(pc, ids, doomed, keys) == [pc |-> pc, ids |-> ids, doomed |-> doomed, keys |-> keys]
Idle == Sweep("idle", {}, {}, {})

FilesOf(u)    == {f \in files : f.owner = u}
FileRow(k)    == {f \in files : f.key = k}
DatasetsOf(u) == {i \in Ids : Exists(i) /\ datasets[i].owner = u}

\* created_at of the next row of user_file: after that of every row there is.
Now == 1 + Max({0} \cup {f.at : f \in files})

\* The newest of the user's files, by created_at.
LatestFile(u) ==
    CHOOSE f \in FilesOf(u) : \A g \in FilesOf(u) : g.at <= f.at

\* Mutant: datasets that have expired do not count.
UnexpiredVersion(u) ==
    1 + Max({0} \cup {datasets[i].version : i \in {h \in DatasetsOf(u) : h > horizon}})

\* SELECT max(version); (current_max or 0) + 1
NextVersion(u) == 1 + Max({0} \cup {datasets[i].version : i \in DatasetsOf(u)})

\* created_at < cutoff. Unset, the endpoint takes 30 days; at 0 its cutoff is
\* now, so that every row is older.
Cutoff  == IF TtlSetting = "zero" THEN registered ELSE horizon
Expired == {i \in 1 .. Cutoff : Exists(i)}

RequestRecords ==
    {NoCall}
    \cup [pc : {"stored", "filed", "found", "unfiled"}, user : Users, key : 1 .. allocated,
          version : {0}, register : BOOLEAN]
    \cup [pc : {"versioned"}, user : Users, key : 1 .. allocated, version : Nat \ {0},
          register : BOOLEAN]

TrainingRecords ==
    {NewTraining}
    \cup [pc : {"fetched"}, key : 1 .. allocated, version : {0}, dataset : {0}]
    \cup [pc : {"versioned"}, key : 1 .. allocated, version : Nat \ {0}, dataset : {0}]
    \cup [pc : {"registered", "running", "trained"}, key : 1 .. allocated,
          version : Nat \ {0}, dataset : Ids]
    \cup [pc : {"ended"}, key : 0 .. allocated, version : Nat, dataset : {0} \cup Ids]

CleanerRecords ==
    [pc : {"idle", "selected", "deleting", "removing"}, ids : SUBSET Ids,
     doomed : SUBSET Trainings, keys : SUBSET Keys]

Fault == faults < MaxFaults /\ faults' = faults + 1

Init ==
    /\ allocated = 0 /\ objects = {} /\ swept = {}
    /\ files = {}
    /\ datasets = [i \in Ids |-> NoDataset]
    /\ registered = 0 /\ horizon = 0
    /\ runs = [t \in Trainings |-> NoRun]
    /\ request = [q \in Requests |-> NoCall]
    /\ training = [t \in Trainings |-> NewTraining]
    /\ cleaner = [c \in Cleaners |-> Idle]
    /\ faults = 0

\* A day passes: the oldest dataset that was not yet too old becomes so.
Age ==
    /\ TtlSetting # "zero"
    /\ horizon < registered
    /\ horizon' = horizon + 1
    /\ UNCHANGED <<storage, tables, request, training, cleaner, faults>>
-----------------------------------------------------------------------------
(* A dataset row: get_or_create_dataset_from_file always creates one. The  *)
(* maximum is read in one statement, the row inserted in the next.         *)

InsertDataset(u, k, v) ==
    /\ registered < MaxDatasets
    /\ registered' = registered + 1
    /\ datasets' = [datasets EXCEPT ![registered + 1] =
                      [owner |-> u, key |-> k, version |-> v]]

-----------------------------------------------------------------------------
(* Uploads (FileSaverService.save; upload_dataset goes on to register a    *)
(* dataset) and deletions (FileSaverService.delete).                       *)

Goto(q, rec) == request' = [request EXCEPT ![q] = rec]
Reply(q)     == Goto(q, NoCall)

\* A valid upload is stored under a fresh key; a rejected one changes nothing.
StoreObject(q, u, register) ==
    /\ request[q].pc = "idle"
    /\ allocated < MaxKeys
    /\ allocated' = allocated + 1
    /\ objects' = objects \cup {allocated + 1}
    /\ Goto(q, Call("stored", u, allocated + 1, 0, register))
    /\ UNCHANGED <<swept, tables, horizon, training, cleaner, faults>>

\* The storage gives up after its last attempt, which may have arrived.
StoreFails ==
    /\ allocated < MaxKeys
    /\ allocated' = allocated + 1
    /\ objects' \in {objects, objects \cup {allocated + 1}}
    /\ Fault
    /\ UNCHANGED <<swept, tables, horizon, request, training, cleaner>>

AddFileMetadata(q) ==
    /\ request[q].pc = "stored"
    /\ files' = files \cup
         {[key |-> request[q].key, owner |-> request[q].user,
           at |-> Now]}
    /\ IF request[q].register
       THEN Goto(q, [request[q] EXCEPT !.pc = "filed"])
       ELSE Reply(q)
    /\ UNCHANGED <<storage, datasets, registered, runs, horizon, training, cleaner, faults>>

ReadVersion(q) ==
    /\ request[q].pc = "filed"
    /\ LET r == request[q] IN
       Goto(q, Call("versioned", r.user, r.key, NextVersion(r.user), r.register))
    /\ UNCHANGED <<storage, tables, horizon, training, cleaner, faults>>

RegisterUpload(q) ==
    /\ request[q].pc = "versioned"
    /\ InsertDataset(request[q].user, request[q].key, request[q].version)
    /\ Reply(q)
    /\ UNCHANGED <<storage, files, runs, horizon, training, cleaner, faults>>

FindFile(q, f) ==
    /\ request[q].pc = "idle"
    /\ Goto(q, Call("found", f.owner, f.key, 0, FALSE))
    /\ UNCHANGED <<storage, tables, horizon, training, cleaner, faults>>

\* Mutant: the file is removed first, then the row.
DeleteObjectFirst(q) ==
    /\ request[q].pc = "found"
    /\ objects' = objects \ {request[q].key}
    /\ Goto(q, [request[q] EXCEPT !.pc = "unfiled"])
    /\ UNCHANGED <<allocated, swept, tables, horizon, training, cleaner, faults>>

\* Mutant: only the row is deleted.
DeleteRowOnly(q) ==
    /\ request[q].pc = "found"
    /\ files' = files \ FileRow(request[q].key)
    /\ Reply(q)
    /\ UNCHANGED <<storage, datasets, registered, runs, horizon, training, cleaner, faults>>

DeleteMetadata(q) ==
    /\ request[q].pc = "found"
    /\ files' = files \ FileRow(request[q].key)
    /\ Goto(q, [request[q] EXCEPT !.pc = "unfiled"])
    /\ UNCHANGED <<storage, datasets, registered, runs, horizon, training, cleaner, faults>>

DeleteObject(q) ==
    /\ request[q].pc = "unfiled"
    /\ objects' = objects \ {request[q].key}
    /\ Reply(q)
    /\ UNCHANGED <<allocated, swept, tables, horizon, training, cleaner, faults>>

\* An error or the end of the process cuts the request between two awaits.
RequestFails(q) ==
    /\ request[q].pc # "idle"
    /\ Reply(q)
    /\ Fault
    /\ UNCHANGED <<storage, tables, horizon, training, cleaner>>

-----------------------------------------------------------------------------
(* TrainingService.run_for_job, up to the run's last status. The model     *)
(* artifact is the subject of another module.                              *)

SetTraining(t, rec) == training' = [training EXCEPT ![t] = rec]
Ends(t) == SetTraining(t, [training[t] EXCEPT !.pc = "ended"])

\* The newest file of the user; without one the training fails.
FetchFiles(t) ==
    /\ training[t].pc = "new"
    /\ IF FilesOf(Trainer[t]) = {}
       THEN Ends(t)
       ELSE SetTraining(t, Step("fetched", LatestFile(Trainer[t]).key, 0, 0))
    /\ UNCHANGED <<storage, tables, horizon, request, cleaner, faults>>

ReadTrainingVersion(t) ==
    /\ training[t].pc = "fetched"
    /\ SetTraining(t, Step("versioned", training[t].key, NextVersion(Trainer[t]), 0))
    /\ UNCHANGED <<storage, tables, horizon, request, cleaner, faults>>

RegisterTraining(t) ==
    /\ training[t].pc = "versioned"
    /\ InsertDataset(Trainer[t], training[t].key, training[t].version)
    /\ SetTraining(t, Step("registered", training[t].key, training[t].version, registered + 1))
    /\ UNCHANGED <<storage, files, runs, horizon, request, cleaner, faults>>

\* The foreign key refuses a run whose dataset is gone.
CreateRun(t) ==
    /\ training[t].pc = "registered"
    /\ IF Exists(training[t].dataset)
       THEN /\ runs' = [runs EXCEPT ![t] =
                 [dataset |-> training[t].dataset, status |-> "PROCESSING"]]
            /\ SetTraining(t, [training[t] EXCEPT !.pc = "running"])
       ELSE UNCHANGED runs /\ Ends(t)
    /\ UNCHANGED <<storage, files, datasets, registered, horizon, request, cleaner, faults>>

\* file_url is opened as a path; an s3:// URL never is one.
ReadData(t) ==
    /\ training[t].pc = "running"
    /\ IF OnDisk /\ training[t].key \in objects
       THEN SetTraining(t, [training[t] EXCEPT !.pc = "trained"])
       ELSE Ends(t)
    /\ UNCHANGED <<storage, tables, horizon, request, cleaner, faults>>

Doomed == UNION {cleaner[c].doomed : c \in Cleaners}

\* UPDATE ... SET status = 'SUCCESS': waits for a cleanup that is deleting the
\* row, and updates nothing once it is gone.
FinishRun(t) ==
    /\ training[t].pc = "trained"
    /\ t \notin Doomed
    /\ runs' = IF HasRun(t) THEN [runs EXCEPT ![t].status = "SUCCESS"] ELSE runs
    /\ Ends(t)
    /\ UNCHANGED <<storage, files, datasets, registered, horizon, request, cleaner, faults>>

\* The job's timeout, an error or the end of the process, at any await.
Abandon(t) ==
    /\ training[t].pc \notin {"new", "ended"}
    /\ Ends(t)
    /\ Fault
    /\ UNCHANGED <<storage, tables, horizon, request, cleaner>>

-----------------------------------------------------------------------------
(* TrainingRepository.cleanup_expired_datasets and the removal of files.   *)

SetCleaner(c, rec) == cleaner' = [cleaner EXCEPT ![c] = rec]

\* Mutant: the files of all expired rows are taken, not of the batch.
SelectAllKeys(c) ==
    /\ cleaner[c].pc = "idle"
    /\ c \in Loops => TtlSetting = "days"
    /\ Expired # {}
    /\ LET chosen == {i \in Expired : Cardinality({h \in Expired : h < i}) < Batch} IN
       SetCleaner(c, Sweep("selected", chosen, {}, {datasets[i].key : i \in Expired}))
    /\ UNCHANGED <<storage, tables, horizon, request, training, faults>>

\* SELECT ... WHERE created_at < cutoff ORDER BY created_at LIMIT batch
SelectExpired(c) ==
    /\ cleaner[c].pc = "idle"
    /\ c \in Loops => TtlSetting = "days"
    /\ Expired # {}
    /\ LET chosen == {i \in Expired : Cardinality({h \in Expired : h < i}) < Batch} IN
       SetCleaner(c, Sweep("selected", chosen, {}, {datasets[i].key : i \in chosen}))
    /\ UNCHANGED <<storage, tables, horizon, request, training, faults>>

\* Mutant: the runs are left to the foreign key.
DeleteNoRuns(c) ==
    /\ cleaner[c].pc = "selected"
    /\ SetCleaner(c, Sweep("deleting", cleaner[c].ids, {}, cleaner[c].keys))
    /\ UNCHANGED <<storage, tables, horizon, request, training, faults>>

\* Mutant: the runs are deleted in a transaction of their own.
DeleteRunsAndCommit(c) ==
    /\ cleaner[c].pc = "selected"
    /\ runs' = [t \in Trainings |->
                  IF runs[t].dataset \in cleaner[c].ids THEN NoRun ELSE runs[t]]
    /\ SetCleaner(c, Sweep("deleting", cleaner[c].ids, {}, cleaner[c].keys))
    /\ UNCHANGED <<storage, files, datasets, registered, horizon, request, training, faults>>

\* DELETE FROM training_run WHERE dataset_id IN (...), not yet committed. Rows
\* that another cleanup is deleting are waited for.
DeleteRuns(c) ==
    /\ cleaner[c].pc = "selected"
    /\ LET hit == {t \in Trainings : HasRun(t) /\ runs[t].dataset \in cleaner[c].ids} IN
       /\ hit \cap Doomed = {}
       /\ SetCleaner(c, Sweep("deleting", cleaner[c].ids, hit, cleaner[c].keys))
    /\ UNCHANGED <<storage, tables, horizon, request, training, faults>>

\* Mutant: the foreign key does not restrict.
DeleteDatasetsUnrestricted(c) ==
    /\ cleaner[c].pc = "deleting"
    /\ datasets' = [i \in Ids |-> IF i \in cleaner[c].ids THEN NoDataset ELSE datasets[i]]
    /\ runs' = [t \in Trainings |-> IF t \in cleaner[c].doomed THEN NoRun ELSE runs[t]]
    /\ swept' = swept \cup cleaner[c].keys
    /\ SetCleaner(c, Sweep("removing", {}, {}, cleaner[c].keys))
    /\ UNCHANGED <<allocated, objects, files, registered, horizon, request, training, faults>>

\* Mutant: a cleanup that was refused removes its files all the same.
RemoveFilesAnyway(c) ==
    /\ cleaner[c].pc = "deleting"
    /\ LET ids == {i \in cleaner[c].ids : Exists(i)} IN
       IF \E t \in Trainings \ cleaner[c].doomed : HasRun(t) /\ runs[t].dataset \in ids
       THEN UNCHANGED <<datasets, runs, swept>>
       ELSE /\ datasets' = [i \in Ids |-> IF i \in ids THEN NoDataset ELSE datasets[i]]
            /\ runs' = [t \in Trainings |-> IF t \in cleaner[c].doomed THEN NoRun ELSE runs[t]]
            /\ swept' = swept \cup cleaner[c].keys
    /\ SetCleaner(c, Sweep("removing", {}, {}, cleaner[c].keys))
    /\ UNCHANGED <<allocated, objects, files, registered, horizon, request, training, faults>>

\* DELETE FROM dataset WHERE id IN (...) and COMMIT; ON DELETE RESTRICT undoes
\* the whole cleanup when a run was created for one of them in between.
DeleteDatasets(c) ==
    /\ cleaner[c].pc = "deleting"
    /\ LET ids == {i \in cleaner[c].ids : Exists(i)} IN
       IF \E t \in Trainings \ cleaner[c].doomed : HasRun(t) /\ runs[t].dataset \in ids
       THEN /\ SetCleaner(c, Idle)
            /\ UNCHANGED <<datasets, runs, swept>>
       ELSE /\ datasets' = [i \in Ids |-> IF i \in ids THEN NoDataset ELSE datasets[i]]
            /\ runs' = [t \in Trainings |-> IF t \in cleaner[c].doomed THEN NoRun ELSE runs[t]]
            /\ swept' = swept \cup cleaner[c].keys
            /\ SetCleaner(c, Sweep("removing", {}, {}, cleaner[c].keys))
    /\ UNCHANGED <<allocated, objects, files, registered, horizon, request, training, faults>>

\* Mutant: the cleanup stops after the first file.
StopAfterKey(c, k) == SetCleaner(c, Idle)

\* The keys are taken in the order of the rows; here in any order.
AfterKey(c, k) ==
    LET rest == cleaner[c].keys \ {k} IN
    SetCleaner(c, IF rest = {} THEN Idle ELSE Sweep("removing", {}, {}, rest))

\* The files of the deleted rows go, one await each.
RemoveFile(c, k) ==
    /\ cleaner[c].pc = "removing" /\ k \in cleaner[c].keys
    /\ objects' = objects \ {k}
    /\ AfterKey(c, k)
    /\ UNCHANGED <<allocated, swept, tables, horizon, request, training, faults>>

\* A file that cannot be removed is logged and left behind.
SkipFile(c, k) ==
    /\ cleaner[c].pc = "removing" /\ k \in cleaner[c].keys
    /\ AfterKey(c, k)
    /\ Fault
    /\ UNCHANGED <<storage, tables, horizon, request, training>>

\* A database error rolls the cleanup back; the end of the process also drops
\* the files still to be removed.
CleanerFails(c) ==
    /\ cleaner[c].pc # "idle"
    /\ SetCleaner(c, Idle)
    /\ Fault
    /\ UNCHANGED <<storage, tables, horizon, request, training>>

-----------------------------------------------------------------------------
RequestStep(q) ==
    \/ AddFileMetadata(q) \/ ReadVersion(q) \/ RegisterUpload(q)
    \/ DeleteMetadata(q) \/ DeleteObject(q)

Client(q) ==
    \/ \E u \in Users, register \in BOOLEAN : StoreObject(q, u, register)
    \/ \E f \in files : FindFile(q, f)
    \/ RequestStep(q)
    \/ RequestFails(q)

TrainingStep(t) ==
    \/ FetchFiles(t) \/ ReadTrainingVersion(t) \/ RegisterTraining(t)
    \/ CreateRun(t) \/ ReadData(t) \/ FinishRun(t)

CleanupStep(c) ==
    \/ DeleteRuns(c) \/ DeleteDatasets(c)
    \/ \E k \in Keys : RemoveFile(c, k)

Next ==
    \/ Age \/ StoreFails
    \/ \E q \in Requests : Client(q)
    \/ \E t \in Trainings : TrainingStep(t) \/ Abandon(t)
    \/ \E c \in Cleaners :
        \/ SelectExpired(c) \/ CleanupStep(c) \/ CleanerFails(c)
        \/ \E k \in Keys : SkipFile(c, k)

Spec == Init /\ [][Next]_vars

\* A cleanup that has begun goes on, and the periodic loop begins again after
\* every interval. Nobody has to upload, train or call the cleanup endpoint.
FairSpec ==
    /\ Spec
    /\ \A c \in Cleaners : WF_vars(CleanupStep(c))
    /\ \A c \in Loops : WF_vars(SelectExpired(c))


TypeOK ==
    /\ allocated \in 0 .. MaxKeys
    /\ objects \subseteq 1 .. allocated /\ swept \subseteq Keys
    /\ files \subseteq [key : 1 .. allocated, owner : Users, at : Nat \ {0}]
    /\ registered \in 0 .. MaxDatasets /\ horizon \in 0 .. registered
    /\ datasets \in [Ids -> DatasetRows]
    /\ runs \in [Trainings -> RunRows]
    /\ request \in [Requests -> RequestRecords]
    /\ training \in [Trainings -> TrainingRecords]
    /\ cleaner \in [Cleaners -> CleanerRecords]
    /\ faults \in 0 .. MaxFaults

-----------------------------------------------------------------------------
(* Properties.                                                             *)

\* A row of user_file whose file is gone was hit by a cleanup: save stores
\* before it files, delete unfiles before it removes, whatever interleaves.
MissingFilesWereSwept ==
    \A f \in files : f.key \in objects \cup swept

\* A file without a row of user_file is the work of a request that is still
\* between the two, or of one that failed there: one for each.
OrphansAreAccounted ==
    Cardinality({k \in objects : FileRow(k) = {}})
        <= faults + Cardinality({q \in Requests : request[q].pc \in {"stored", "unfiled"}})

\* A file that outlives the dataset row a cleanup deleted is still on that
\* cleanup's list, or was dropped by a failure: at most a batch for each.
LeftoversAreAccounted ==
    Cardinality({k \in swept \cap objects : \A c \in Cleaners : k \notin cleaner[c].keys})
        <= Batch * faults

\* Every row of training_run refers to a dataset (ON DELETE RESTRICT), though a
\* cleanup deletes runs and datasets in two statements while runs are created.
RunHasDataset ==
    \A t \in Trainings : HasRun(t) => Exists(runs[t].dataset)

\* With a TTL a cleanup deletes expired datasets only, and a run only together
\* with its dataset: a cleanup that is refused deletes nothing.
CleanupIsTargeted ==
    [][TtlSetting # "zero" =>
        /\ \A i \in Ids : Exists(i) /\ ~Exists(i)' => i <= horizon
        /\ \A t \in Trainings : HasRun(t) /\ ~HasRun(t)' =>
             \E i \in Ids : i = runs[t].dataset /\ Exists(i) /\ ~Exists(i)']_vars

\* Inductive form of MissingFilesWereSwept: a key that is stored and not yet
\* filed is in no other hands, an unfiled one has no row, and only the keys of
\* deleted dataset rows are on a cleanup's list of files.
FilesInv ==
    /\ MissingFilesWereSwept
    /\ \A q \in Requests :
        /\ request[q].pc = "stored" =>
            /\ request[q].key \in objects \cup swept
            /\ FileRow(request[q].key) = {}
            /\ \A p \in Requests \ {q} :
                request[p].pc \in {"stored", "found", "unfiled"} => request[p].key # request[q].key
        /\ request[q].pc = "unfiled" => FileRow(request[q].key) = {}
    /\ \A c \in Cleaners : cleaner[c].pc = "removing" => cleaner[c].keys \subseteq swept

\* Inductive form of CleanupIsTargeted: a cleanup has chosen expired datasets,
\* and holds the runs of those alone, each against every other cleanup.
CleanersInv ==
    /\ RunHasDataset
    /\ \A t \in Trainings : HasRun(t) => training[t].pc \in {"running", "trained", "ended"}
    /\ \A c \in Cleaners :
        /\ cleaner[c].pc \in {"selected", "deleting"} /\ TtlSetting # "zero" =>
            cleaner[c].ids \subseteq 1 .. horizon
        /\ \A t \in cleaner[c].doomed : HasRun(t) /\ runs[t].dataset \in cleaner[c].ids
        /\ \A d \in Cleaners \ {c} : cleaner[c].doomed \cap cleaner[d].doomed = {}

\* A file that is stored and not yet filed is known to its own upload only.
UnfiledApart(q) ==
    request[q].pc = "stored" =>
        /\ \A p \in Requests :
            request[p].pc \in {"filed", "versioned"} => request[p].key # request[q].key
        /\ \A t \in Trainings :
            training[t].pc \in {"fetched", "versioned"} => training[t].key # request[q].key

\* The keys a cleanup has read are those of the rows it has chosen, but for the
\* rows that another cleanup has deleted meanwhile.
ChosenKeys(c) ==
    cleaner[c].pc \in {"selected", "deleting"} =>
        /\ cleaner[c].ids \subseteq 1 .. registered
        /\ \A i \in cleaner[c].ids : Exists(i) => datasets[i].key \in cleaner[c].keys
        /\ \A k \in cleaner[c].keys :
            k \in swept \/ \E i \in cleaner[c].ids : Exists(i) /\ datasets[i].key = k

\* Inductive form of CatalogueSpec.
KeysInv ==
    /\ \A q \in Requests : UnfiledApart(q)
    /\ \A c \in Cleaners : ChosenKeys(c)

\* What the steps of requests, trainings and cleanups keep: what each of them
\* has in memory still agrees with the storage and the tables.
InductiveInv == TypeOK /\ FilesInv /\ CleanersInv /\ KeysInv

Pending(k) == \E q \in Requests : request[q].pc = "stored" /\ request[q].key = k

\* Where a file is in its life, read off the requests and the rows of user_file.
Stage(k) ==
    IF k > allocated THEN "absent"
    ELSE IF Pending(k) THEN "pending"
    ELSE IF FileRow(k) # {} THEN "listed" ELSE "unlisted"

Catalogue == INSTANCE FileCatalogue
    WITH Files <- Keys, Datasets <- Ids,
         stage <- [k \in Keys |-> Stage(k)],
         present <- objects,
         uses <- [i \in Ids |-> datasets[i].key],
         released <- swept

\* Uploads, deletions, trainings and cleanups over the same files keep the promise
\* of FileCatalogue: a file is listed once and only while it is there, a dataset is
\* registered on a file that has been listed, and a file goes only when its listing
\* or a dataset of its own has gone before.
CatalogueSpec == Catalogue!Spec

Creators == Requests \cup Trainings

\* Version v of the user: the rows that carry it and the creators about to
\* insert it.
VersionRows(u, v) == {i \in DatasetsOf(u) : datasets[i].version = v}
VersionCreators(u, v) ==
    {q \in Requests : request[q].pc = "versioned" /\ request[q].user = u /\ request[q].version = v}
    \cup {t \in Trainings : training[t].pc = "versioned" /\ Trainer[t] = u /\ training[t].version = v}

\* The maximum is read before the insert, so datasets may share a version, but
\* never more of them than there are creators at a time; one creator at a time
\* numbers them uniquely, also when a cleanup takes rows away.
VersionsShared ==
    \A u \in Users, v \in Ids :
        Cardinality(VersionRows(u, v)) + Cardinality(VersionCreators(u, v))
            <= Cardinality(Creators)

\* With a TTL and the periodic cleanup every expired dataset goes, although
\* trainings create runs for it and the batch is small.
ExpiredDatasetsGo ==
    \A i \in Ids : (Exists(i) /\ i <= horizon) ~> ~Exists(i)

-----------------------------------------------------------------------------
(* What the repository says, and the code does not keep.                   *)

\* settings.py:130: DATASET_TTL_DAYS "0 => disabled": no dataset is cleaned up.
DisabledTtlKeepsDatasets ==
    [][TtlSetting = "zero" => \A i \in Ids : Exists(i) => Exists(i)']_vars

\* docs/info.md:400: the cleanup deletes the datasets older than the TTL: a
\* younger one keeps its file while the user has not deleted it.
UnexpiredDatasetsKeepFile ==
    \A i \in Ids :
        Exists(i) /\ i > horizon /\ FileRow(datasets[i].key) # {}
            => datasets[i].key \in objects

=============================================================================
