--------------------------- MODULE ModelArtifacts ---------------------------
(***************************************************************************)
(* The second half of a training (steps 4 to 7 of run_for_job in           *)
(* training_service.py): a model file is written, then its row of          *)
(* model_artifact, then the run's SUCCESS; the retention deletes the oldest *)
(* rows of the user beyond a limit, then their files. DELETE               *)
(* /artifacts/{id} (ml_api.py) deletes a row and its file meanwhile.       *)
(* That the TTL cleanup may take the run away is in DatasetRegistry.       *)
(***************************************************************************)
EXTENDS Integers, FiniteSets, FiniteSetsExt

CONSTANTS
    Users,          \* owners
    Trainings,      \* training jobs; each is run once
    Trainer,        \* Trainer[t]: the user whose job t is
    Deletions,      \* slots for DELETE /artifacts/{id} requests in flight
    Heavy,          \* ENABLE_REAL_TRAINING
    Keep,           \* MAX_MODEL_ARTIFACTS; 0 disables the retention
    MaxFaults       \* bound: failures of a run

ASSUME ArtifactsAssumption ==
    /\ IsFiniteSet(Trainings)
    /\ Trainer \in [Trainings -> Users]
    /\ Heavy \in BOOLEAN
    /\ Keep \in Nat /\ MaxFaults \in Nat

\* uuid4 names: the file whose URL a training reports, and the stump of one it
\* gave up.
Kinds == {"model", "stump"}
Files == Trainings \X Kinds

VARIABLES
    disk,           \* model files in the storage directory
    rows,           \* committed rows of model_artifact, by their training
    born,           \* born[t]: created_at of t's row, 0 before the INSERT
    runs,           \* status of t's row of training_run; SUCCESS has the model_url
    training,       \* TrainingService.run_for_job between two awaits
    chosen,         \* chosen[t]: rows the retention of t has selected
    toRemove,       \* toRemove[t]: files the retention of t still has to remove
    deletion,       \* DELETE requests between two awaits
    dropped,        \* history: files a failure took out of an operation's hands
    faults          \* history: failures so far, bounded by MaxFaults

retention == <<chosen, toRemove>>
vars == <<disk, rows, born, runs, training, retention, deletion, dropped, faults>>

-----------------------------------------------------------------------------
File(t)    == <<t, "model">>
RowsOf(u)  == {t \in rows : Trainer[t] = u}
Newer(s, t) == born[t] < born[s]

\* Mutant: the time of the newest row.
StaleStamp == Max({0} \cup {born[t] : t \in Trainings})

\* now() of the inserting transaction: later than every stamp before it.
Stamp == 1 + Max({0} \cup {born[t] : t \in Trainings})

NoDeletion == [pc |-> "idle", row |-> {}]
DeletionRecords ==
    {NoDeletion} \cup [pc : {"found", "removing"}, row : {{t} : t \in Trainings}]

\* Where run_for_job is; "failed" has no row, "cut" left its retention undone.
Places ==
    {"training", "exported", "inserted", "saved", "finished", "counted",
     "selected", "removing", "done", "failed", "cut"}

\* A row of t is committed, or was.
Recorded(t) == training[t] \notin {"training", "exported", "inserted", "failed"}

\* fetch_job_result: the run's model_url, else that of the artifact row.
Reports(t) == runs[t] = "SUCCESS" \/ t \in rows

Fault == faults < MaxFaults /\ faults' = faults + 1

Init ==
    /\ disk = {} /\ rows = {} /\ dropped = {}
    /\ born = [t \in Trainings |-> 0]
    /\ runs = [t \in Trainings |-> "PROCESSING"]
    /\ training = [t \in Trainings |-> "training"]
    /\ chosen = [t \in Trainings |-> {}]
    /\ toRemove = [t \in Trainings |-> {}]
    /\ deletion = [d \in Deletions |-> NoDeletion]
    /\ faults = 0

Goto(t, pc) == training' = [training EXCEPT ![t] = pc]

\* A failure leaves "lost" behind.
Drops(lost) == Fault /\ dropped' = dropped \cup lost

-----------------------------------------------------------------------------
(* The export: with sklearn if it is enabled and works, else the baseline. *)

Export(t) ==
    /\ training[t] = "training"
    /\ disk' = disk \cup {File(t)}
    /\ Goto(t, "exported")
    /\ UNCHANGED <<rows, born, runs, retention, deletion, dropped, faults>>

\* joblib.dump fails in the middle: the baseline is exported beside the stump.
ExportAgain(t) ==
    /\ training[t] = "training" /\ Heavy
    /\ disk' = disk \cup {<<t, "stump">>, File(t)}
    /\ Drops({<<t, "stump">>})
    /\ Goto(t, "exported")
    /\ UNCHANGED <<rows, born, runs, retention, deletion>>

\* No data, header, rows or numeric feature; the run stays PROCESSING.
RefuseData(t) ==
    /\ training[t] = "training"
    /\ Goto(t, "failed")
    /\ UNCHANGED <<disk, rows, born, runs, retention, deletion, dropped, faults>>

\* Neither file could be written to its end.
ExportFails(t) ==
    /\ training[t] = "training"
    /\ \E stumps \in SUBSET ({t} \X IF Heavy THEN Kinds ELSE {"model"}) :
        disk' = disk \cup stumps /\ Drops(stumps)
    /\ Goto(t, "failed")
    /\ UNCHANGED <<rows, born, runs, retention, deletion>>

-----------------------------------------------------------------------------
(* The row and the run.                                                    *)

\* INSERT: the row is stamped, and nobody else sees it.
InsertArtifact(t) ==
    /\ training[t] = "exported"
    /\ born' = [born EXCEPT ![t] = Stamp]
    /\ Goto(t, "inserted")
    /\ UNCHANGED <<disk, rows, runs, retention, deletion, dropped, faults>>

CommitArtifact(t) ==
    /\ training[t] = "inserted"
    /\ rows' = rows \cup {t}
    /\ Goto(t, "saved")
    /\ UNCHANGED <<disk, born, runs, retention, deletion, dropped, faults>>

\* Without a limit the retention is not entered.
FinishRun(t) ==
    /\ training[t] = "saved"
    /\ runs' = [runs EXCEPT ![t] = "SUCCESS"]
    /\ Goto(t, IF Keep > 0 THEN "finished" ELSE "done")
    /\ UNCHANGED <<disk, rows, born, retention, deletion, dropped, faults>>

-----------------------------------------------------------------------------
(* The retention.                                                          *)

\* Mutant: the retention begins one artifact late.
CountLate(t) ==
    /\ training[t] = "finished"
    /\ Goto(t, IF Cardinality(RowsOf(Trainer[t])) > Keep + 1 THEN "counted" ELSE "done")
    /\ UNCHANGED <<disk, rows, born, runs, retention, deletion, dropped, faults>>

CountArtifacts(t) ==
    /\ training[t] = "finished"
    /\ Goto(t, IF Cardinality(RowsOf(Trainer[t])) > Keep THEN "counted" ELSE "done")
    /\ UNCHANGED <<disk, rows, born, runs, retention, deletion, dropped, faults>>

\* Mutant: the offset is applied to the oldest first.
NewestOf(u) ==
    {t \in RowsOf(u) : Cardinality({s \in RowsOf(u) : Newer(t, s)}) >= Keep}

\* ORDER BY created_at DESC OFFSET keep
Oldest(u) ==
    {t \in RowsOf(u) : Cardinality({s \in RowsOf(u) : Newer(s, t)}) >= Keep}

SelectOldest(t) ==
    /\ training[t] = "counted"
    /\ LET old == Oldest(Trainer[t]) IN
       /\ chosen' = [chosen EXCEPT ![t] = old]
       /\ Goto(t, IF old = {} THEN "done" ELSE "selected")
    /\ UNCHANGED <<disk, rows, born, runs, toRemove, deletion, dropped, faults>>

\* Mutant: the files are removed in the transaction, before the rows.
RemoveThenDelete(t) ==
    /\ training[t] = "selected"
    /\ toRemove' = [toRemove EXCEPT ![t] = {File(s) : s \in chosen[t]}]
    /\ Goto(t, "removing")
    /\ UNCHANGED <<disk, rows, born, runs, chosen, deletion, dropped, faults>>

\* Mutant: a file is removed for the first row only.
DeleteForOneFile(t) ==
    /\ training[t] = "selected"
    /\ rows' = rows \ chosen[t]
    /\ \E s \in chosen[t] : toRemove' = [toRemove EXCEPT ![t] = {File(s)}]
    /\ chosen' = [chosen EXCEPT ![t] = {}]
    /\ Goto(t, "removing")
    /\ UNCHANGED <<disk, born, runs, deletion, dropped, faults>>

\* DELETE and COMMIT: rows somebody else has deleted are gone already; the
\* URLs are those of the SELECT.
DeleteOldest(t) ==
    /\ training[t] = "selected"
    /\ rows' = rows \ chosen[t]
    /\ toRemove' = [toRemove EXCEPT ![t] = {File(s) : s \in chosen[t]}]
    /\ chosen' = [chosen EXCEPT ![t] = {}]
    /\ Goto(t, "removing")
    /\ UNCHANGED <<disk, born, runs, deletion, dropped, faults>>

NextFile(t, f) ==
    /\ training[t] = "removing" /\ f \in toRemove[t]
    /\ toRemove' = [toRemove EXCEPT ![t] = @ \ {f}]
    /\ Goto(t, IF toRemove[t] = {f} THEN "done" ELSE "removing")
    /\ UNCHANGED <<rows, born, runs, chosen, deletion>>

\* A missing file is skipped.
RemoveModel(t, f) ==
    /\ NextFile(t, f)
    /\ disk' = disk \ {f}
    /\ UNCHANGED <<dropped, faults>>

SkipModel(t, f) ==
    /\ NextFile(t, f)
    /\ Drops({f})
    /\ UNCHANGED disk

\* The job's timeout, an error or the end of the process, at any await. A
\* transaction may have been committed all the same.
Abandon(t) ==
    /\ training[t] \notin {"training", "done", "failed", "cut"}
    /\ Drops(toRemove[t] \cup IF Recorded(t) THEN {} ELSE {File(t)})
    /\ toRemove' = [toRemove EXCEPT ![t] = {}]
    /\ chosen' = [chosen EXCEPT ![t] = {}]
    /\ Goto(t, IF Recorded(t) THEN "cut" ELSE "failed")
    /\ UNCHANGED <<disk, rows, born, runs, deletion>>

-----------------------------------------------------------------------------
(* DELETE /artifacts/{id}.                                                 *)

SetDeletion(d, rec) == deletion' = [deletion EXCEPT ![d] = rec]

FindArtifact(d, t) ==
    /\ deletion[d].pc = "idle" /\ t \in rows
    /\ SetDeletion(d, [pc |-> "found", row |-> {t}])
    /\ UNCHANGED <<disk, rows, born, runs, training, retention, dropped, faults>>

\* Mutant: the file is removed first, then the row.
RemoveFirst(d) ==
    /\ deletion[d].pc = "found"
    /\ disk' = disk \ {File(t) : t \in deletion[d].row}
    /\ SetDeletion(d, [deletion[d] EXCEPT !.pc = "removing"])
    /\ UNCHANGED <<rows, born, runs, training, retention, dropped, faults>>

DeleteArtifact(d) ==
    /\ deletion[d].pc = "found"
    /\ rows' = rows \ deletion[d].row
    /\ SetDeletion(d, [deletion[d] EXCEPT !.pc = "removing"])
    /\ UNCHANGED <<disk, born, runs, training, retention, dropped, faults>>

RemoveArtifact(d) ==
    /\ deletion[d].pc = "removing"
    /\ disk' = disk \ {File(t) : t \in deletion[d].row}
    /\ SetDeletion(d, NoDeletion)
    /\ UNCHANGED <<rows, born, runs, training, retention, dropped, faults>>

\* An error, or the end of the process between the row and the file.
DeletionFails(d) ==
    /\ deletion[d].pc # "idle"
    /\ Drops(IF deletion[d].pc = "removing" THEN {File(t) : t \in deletion[d].row} ELSE {})
    /\ SetDeletion(d, NoDeletion)
    /\ UNCHANGED <<disk, rows, born, runs, training, retention>>

-----------------------------------------------------------------------------
TrainingStep(t) ==
    \/ Export(t) \/ RefuseData(t)
    \/ InsertArtifact(t) \/ CommitArtifact(t) \/ FinishRun(t)
    \/ CountArtifacts(t) \/ SelectOldest(t) \/ DeleteOldest(t)
    \/ \E f \in Files : RemoveModel(t, f)

TrainingTrouble(t) ==
    \/ ExportAgain(t) \/ ExportFails(t) \/ Abandon(t)
    \/ \E f \in Files : SkipModel(t, f)

DeletionStep(d) ==
    \/ \E t \in Trainings : FindArtifact(d, t)
    \/ DeleteArtifact(d) \/ RemoveArtifact(d) \/ DeletionFails(d)

Next ==
    \/ \E t \in Trainings : TrainingStep(t) \/ TrainingTrouble(t)
    \/ \E d \in Deletions : DeletionStep(d)

Spec == Init /\ [][Next]_vars

TypeOK ==
    /\ disk \subseteq Files /\ dropped \subseteq Files
    /\ rows \subseteq Trainings
    /\ born \in [Trainings -> Nat]
    /\ \A t \in Trainings : Recorded(t) \/ training[t] = "inserted" => born[t] # 0
    /\ runs \in [Trainings -> {"PROCESSING", "SUCCESS"}]
    /\ training \in [Trainings -> Places]
    /\ chosen \in [Trainings -> SUBSET Trainings]
    /\ toRemove \in [Trainings -> SUBSET Files]
    /\ deletion \in [Deletions -> DeletionRecords]
    /\ faults \in 0 .. MaxFaults

-----------------------------------------------------------------------------
(* Properties.                                                             *)

\* An artifact row has its file, and a model a job reports has its file unless
\* the artifact was deleted: the file is written before the row and the run,
\* and removed after the row, whichever of two deletions comes first.
ModelsArePresent ==
    \A t \in Trainings :
        Reports(t) /\ File(t) \notin disk => Recorded(t) /\ t \notin rows

\* Somebody still has the file in hand: its row will come, is there, or was
\* deleted by one who has not removed the file yet.
InHand(f) ==
    \/ \E t \in Trainings :
        \/ f = File(t) /\ (training[t] \in {"exported", "inserted"} \/ t \in rows)
        \/ f \in toRemove[t]
    \/ \E d \in Deletions :
        deletion[d].pc = "removing" /\ f \in {File(t) : t \in deletion[d].row}

\* A file that no row names and nobody has in hand was dropped by a failure:
\* two retentions and a DELETE over the same rows lose none.
OrphansWereDropped ==
    \A f \in disk : InHand(f) \/ f \in dropped

\* Committed rows of u whose retention is not complete.
Unswept(u) ==
    {t \in Trainings : /\ Trainer[t] = u
                       /\ training[t] \in {"saved", "finished", "counted", "selected", "cut"}}

\* README.md:76: of a user's artifacts the limit is kept: there is one more at
\* most for each training whose retention is still to come, or was cut.
RetentionBounds ==
    Keep > 0 => \A u \in Users : Cardinality(RowsOf(u)) <= Keep + Cardinality(Unswept(u))

\* The inductive form: it will hold as well once any of the retentions that
\* have selected their rows have deleted them.
Selecting(u) == {t \in Trainings : Trainer[t] = u /\ training[t] = "selected"}
ChosenBy(S)  == UNION {chosen[t] : t \in S}
RetentionInv ==
    Keep > 0 => \A u \in Users : \A S \in SUBSET Selecting(u) :
        Cardinality(RowsOf(u) \ ChosenBy(S)) <= Keep + Cardinality(Unswept(u) \ S)

\* What the operations have in hand agrees with the tables and the disk: a file
\* is there before its row and after it, stamps differ, and a retention has
\* selected rows of its user with enough newer ones.
HandsInv ==
    /\ \A t \in Trainings :
        /\ training[t] \in {"exported", "inserted"} \/ t \in rows => File(t) \in disk
        /\ t \in rows \/ runs[t] = "SUCCESS" => Recorded(t)
        /\ training[t] # "removing" => toRemove[t] = {}
        /\ \A f \in toRemove[t] : \E s \in Trainings \ rows : Recorded(s) /\ f = File(s)
        /\ \A s \in Trainings : born[s] = born[t] /\ born[t] # 0 => s = t
    /\ \A d \in Deletions : \A t \in deletion[d].row :
        Recorded(t) /\ (deletion[d].pc = "removing" => t \notin rows)

NewerThan(s) ==
    {r \in Trainings : Trainer[r] = Trainer[s] /\ Recorded(r) /\ Newer(r, s)}

ChosenInv ==
    \A t \in Trainings : \A s \in chosen[t] :
        Recorded(s) /\ Trainer[s] = Trainer[t] /\ Cardinality(NewerThan(s)) >= Keep

\* Everything a step keeps, the types included.
InductiveInv == TypeOK /\ HandsInv /\ ChosenInv /\ RetentionInv

\* README.md:76: the newest are kept: a row that the retention deletes is its
\* user's, and there have been as many newer ones as the limit says.
RetentionSparesNewest ==
    [][\A s \in rows \ rows' : deletion' = deletion =>
        /\ \E t \in Trainings : training'[t] # training[t] /\ Trainer[t] = Trainer[s]
        /\ Cardinality(NewerThan(s)) >= Keep]_vars

\* Where a model is in its life, read off the disk, the rows and the training.
\* "broken" is no stage of ModelShelf.
Stage(t) ==
    IF t \in rows THEN IF File(t) \in disk THEN "listed" ELSE "broken"
    ELSE IF Recorded(t) THEN IF File(t) \in disk THEN "unlisted" ELSE "removed"
    ELSE IF File(t) \in disk THEN "stored" ELSE "absent"

Shelf == INSTANCE ModelShelf
    WITH Models <- Trainings,
         stage <- [t \in Trainings |-> Stage(t)],
         reported <- {t \in Trainings : runs[t] = "SUCCESS"}

\* Trainings, retentions and deletions over the same rows and files keep the
\* promise of ModelShelf: a model is stored, listed, unlisted and removed in this
\* order and once, and no job reports one that has not been listed.
ShelfSpec == Shelf!Spec

=============================================================================
