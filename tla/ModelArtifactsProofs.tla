------------------------ MODULE ModelArtifactsProofs ------------------------
(***************************************************************************)
(* Proofs about ModelArtifacts, for any number of users, trainings and     *)
(* deletions and any limit.                                                *)
(***************************************************************************)
EXTENDS ModelArtifacts, Aggregates

-----------------------------------------------------------------------------
(***************************************************************************)
(* Types.                                                                  *)
(***************************************************************************)

\* The stamp of a new row is later than every stamp before it.
LEMMA StampIsFresh ==
    ASSUME TypeOK
    PROVE  Stamp \in Nat \ {0} /\ \A t \in Trainings : born[t] < Stamp
<1> DEFINE S == {born[t] : t \in Trainings}
<1>1. S \subseteq Nat
  BY DEF TypeOK
<1>2. IsFiniteSet(S)
  <2>1. [t \in Trainings |-> born[t]] \in Surjection(Trainings, S)
    BY DEF Surjection
  <2> QED
    BY <2>1, FS_Surjection, ArtifactsAssumption DEF ArtifactsAssumption
<1>3. Max({0} \cup S) \in Nat /\ \A x \in S : x <= Max({0} \cup S)
  BY <1>1, <1>2, FiniteMax
<1>4. \A t \in Trainings : born[t] \in S /\ born[t] \in Nat
  BY <1>1
<1>5. Stamp = 1 + Max({0} \cup S)
  BY DEF Stamp
<1> HIDE DEF S
<1> QED
  BY <1>3, <1>4, <1>5

\* The steps of a training up to the run's status keep the types.
LEMMA SaveTypes ==
    ASSUME TypeOK, NEW t \in Trainings,
           Export(t) \/ RefuseData(t) \/ InsertArtifact(t) \/ CommitArtifact(t) \/ FinishRun(t)
           \/ ExportAgain(t) \/ ExportFails(t)
    PROVE  TypeOK'
<1> USE DEF TypeOK, Goto, Places, Recorded, File, Files, Kinds, retention
<1>1. CASE Export(t)
  BY <1>1 DEF Export
<1>2. CASE RefuseData(t)
  BY <1>2 DEF RefuseData
<1>3. CASE InsertArtifact(t)
  <2>1. Stamp \in Nat \ {0}
    BY StampIsFresh
  <2> QED
    BY <1>3, <2>1 DEF InsertArtifact
<1>4. CASE CommitArtifact(t)
  BY <1>4 DEF CommitArtifact
<1>5. CASE FinishRun(t)
  BY <1>5 DEF FinishRun
<1>6. CASE ExportAgain(t)
  BY <1>6, ArtifactsAssumption DEF ExportAgain, Drops, Fault, ArtifactsAssumption
<1>7. CASE ExportFails(t)
  BY <1>7, ArtifactsAssumption DEF ExportFails, Drops, Fault, ArtifactsAssumption
<1> QED
  BY <1>1, <1>2, <1>3, <1>4, <1>5, <1>6, <1>7

\* The steps of the retention and what cuts it keep the types.
LEMMA RetentionTypes ==
    ASSUME TypeOK, NEW t \in Trainings,
           CountArtifacts(t) \/ SelectOldest(t) \/ DeleteOldest(t)
           \/ (\E f \in Files : RemoveModel(t, f) \/ SkipModel(t, f)) \/ Abandon(t)
    PROVE  TypeOK'
<1> USE DEF TypeOK, Goto, Places, Recorded, File, Files, Kinds, retention
<1>1. CASE CountArtifacts(t)
  BY <1>1 DEF CountArtifacts
<1>2. CASE SelectOldest(t)
  <2>1. Oldest(Trainer[t]) \subseteq Trainings
    BY DEF Oldest, RowsOf
  <2> QED
    BY <1>2, <2>1 DEF SelectOldest
<1>3. CASE DeleteOldest(t)
  <2>1. {File(s) : s \in chosen[t]} \subseteq Files
    OBVIOUS
  <2> QED
    BY <1>3, <2>1 DEF DeleteOldest
<1>4. ASSUME NEW f \in Files, NextFile(t, f)
      PROVE  /\ rows' = rows /\ born' = born /\ runs' = runs /\ deletion' = deletion
             /\ chosen' = chosen /\ toRemove' \in [Trainings -> SUBSET Files]
             /\ training' \in [Trainings -> Places]
             /\ \A s \in Trainings :
                 (Recorded(s) \/ training[s] = "inserted")' => born[s] # 0
  BY <1>4 DEF NextFile
<1>5. ASSUME NEW f \in Files, RemoveModel(t, f) PROVE TypeOK'
  BY <1>4, <1>5 DEF RemoveModel
<1>6. ASSUME NEW f \in Files, SkipModel(t, f) PROVE TypeOK'
  BY <1>4, <1>6, ArtifactsAssumption DEF SkipModel, Drops, Fault, ArtifactsAssumption
<1>7. CASE Abandon(t)
  BY <1>7, ArtifactsAssumption DEF Abandon, Drops, Fault, ArtifactsAssumption
<1> QED
  BY <1>1, <1>2, <1>3, <1>5, <1>6, <1>7

\* So do the steps of a DELETE request.
LEMMA DeletionTypes ==
    ASSUME TypeOK, NEW d \in Deletions, DeletionStep(d)
    PROVE  TypeOK'
<1> USE DEF TypeOK, SetDeletion, NoDeletion, DeletionRecords, Recorded, File, Files, Kinds, retention
<1>1. ASSUME NEW t \in Trainings, FindArtifact(d, t) PROVE TypeOK'
  BY <1>1 DEF FindArtifact
<1>2. CASE DeleteArtifact(d)
  BY <1>2 DEF DeleteArtifact
<1>3. CASE RemoveArtifact(d)
  BY <1>3 DEF RemoveArtifact
<1>4. CASE DeletionFails(d)
  <2>1. deletion[d].row \subseteq Trainings
    OBVIOUS
  <2> QED
    BY <1>4, <2>1, ArtifactsAssumption DEF DeletionFails, Drops, Fault, ArtifactsAssumption
<1> QED
  BY <1>1, <1>2, <1>3, <1>4 DEF DeletionStep

\* Every variable keeps its type; no stamp is 0 and no row is without one.
THEOREM TypeCorrect == Spec => []TypeOK
<1>1. Init => TypeOK
  BY ArtifactsAssumption DEF Init, TypeOK, NoDeletion, DeletionRecords, Places, Recorded, ArtifactsAssumption
<1>2. TypeOK /\ [Next]_vars => TypeOK'
  <2> SUFFICES ASSUME TypeOK, [Next]_vars PROVE TypeOK'
    OBVIOUS
  <2>1. ASSUME NEW t \in Trainings, TrainingStep(t) \/ TrainingTrouble(t) PROVE TypeOK'
    BY <2>1, SaveTypes, RetentionTypes DEF TrainingStep, TrainingTrouble
  <2>2. ASSUME NEW d \in Deletions, DeletionStep(d) PROVE TypeOK'
    BY <2>2, DeletionTypes
  <2>3. CASE UNCHANGED vars
    BY <2>3 DEF vars, retention, TypeOK, Recorded
  <2> QED
    BY <2>1, <2>2, <2>3 DEF Next
<1> QED
  BY <1>1, <1>2, PTL DEF Spec

-----------------------------------------------------------------------------
(***************************************************************************)
(* Files and rows.                                                         *)
(***************************************************************************)

\* Two trainings report different files.
LEMMA FilesDiffer == \A s, t : File(s) = File(t) => s = t
BY DEF File

\* Up to the run's status a training touches its own file, row and run.
LEMMA SaveKeepsHands ==
    ASSUME TypeOK, HandsInv, NEW t \in Trainings,
           Export(t) \/ RefuseData(t) \/ InsertArtifact(t) \/ CommitArtifact(t) \/ FinishRun(t)
           \/ ExportAgain(t) \/ ExportFails(t)
    PROVE  HandsInv'
<1> USE DEF TypeOK, HandsInv, Goto, Recorded, retention
<1>1. CASE Export(t)
  BY <1>1, FilesDiffer DEF Export, File
<1>2. CASE RefuseData(t)
  BY <1>2 DEF RefuseData, File
<1>3. CASE InsertArtifact(t)
  BY <1>3, StampIsFresh DEF InsertArtifact, File
<1>4. CASE CommitArtifact(t)
  BY <1>4, FilesDiffer DEF CommitArtifact, File
<1>5. CASE FinishRun(t)
  BY <1>5 DEF FinishRun, File
<1>6. CASE ExportAgain(t)
  BY <1>6, FilesDiffer DEF ExportAgain, Drops, Fault, File
<1>7. CASE ExportFails(t)
  BY <1>7 DEF ExportFails, Drops, Fault, File
<1> QED
  BY <1>1, <1>2, <1>3, <1>4, <1>5, <1>6, <1>7

\* The retention removes files of rows that are gone.
LEMMA RetentionKeepsHands ==
    ASSUME TypeOK, HandsInv, ChosenInv, NEW t \in Trainings,
           CountArtifacts(t) \/ SelectOldest(t) \/ DeleteOldest(t)
           \/ (\E f \in Files : RemoveModel(t, f) \/ SkipModel(t, f)) \/ Abandon(t)
    PROVE  HandsInv'
<1> USE DEF TypeOK, HandsInv, Goto, Recorded, retention
<1>1. CASE CountArtifacts(t)
  BY <1>1 DEF CountArtifacts, File
<1>2. CASE SelectOldest(t)
  BY <1>2 DEF SelectOldest, File
<1>3. CASE DeleteOldest(t)
  <2>1. \A s \in chosen[t] : s \in Trainings /\ Recorded(s)
    BY DEF ChosenInv
  <2> QED
    BY <1>3, <2>1, FilesDiffer DEF DeleteOldest, File
<1>4. ASSUME NEW f \in Files, RemoveModel(t, f) PROVE HandsInv'
  <2>1. PICK s \in Trainings \ rows : Recorded(s) /\ f = File(s)
    BY <1>4 DEF RemoveModel, NextFile
  <2>2. \A r \in Trainings :
          training[r] \in {"exported", "inserted"} \/ r \in rows => File(r) \in disk \ {f}
    BY <2>1, FilesDiffer
  <2>3. /\ disk' = disk \ {f}
        /\ UNCHANGED <<rows, born, runs, deletion>>
        /\ toRemove' = [toRemove EXCEPT ![t] = @ \ {f}]
        /\ training[t] = "removing"
        /\ training' = [training EXCEPT ![t] = IF toRemove[t] = {f} THEN "done" ELSE "removing"]
    BY <1>4 DEF RemoveModel, NextFile
  <2>4. \A r \in Trainings : Recorded(r)' <=> Recorded(r)
    BY <2>3
  <2>5. \A r \in Trainings : training'[r] # "removing" => toRemove'[r] = {}
    BY <2>3
  <2>6. \A r \in Trainings : toRemove'[r] \subseteq toRemove[r]
    BY <2>3
  <2>7. \A r \in Trainings : \A g \in toRemove'[r] :
          \E q \in Trainings \ rows : Recorded(q) /\ g = File(q)
    BY <2>6
  <2>8. \A r \in Trainings :
          training'[r] \in {"exported", "inserted"} <=> training[r] \in {"exported", "inserted"}
    BY <2>3
  <2>9. \A r : File(r)' = File(r)
    BY DEF File
  <2>10. \A r \in Trainings : \A g \in toRemove'[r] :
          \E q \in Trainings \ rows : Recorded(q)' /\ g = File(q)
    BY <2>4, <2>7
  <2>11. \A r \in Trainings :
          /\ training'[r] \in {"exported", "inserted"} \/ r \in rows' => File(r)' \in disk'
          /\ r \in rows' \/ runs'[r] = "SUCCESS" => Recorded(r)'
          /\ \A q \in Trainings : born'[q] = born'[r] /\ born'[r] # 0 => q = r
    BY <2>2, <2>3, <2>4, <2>8, <2>9
  <2>12. \A d \in Deletions : \A r \in deletion'[d].row :
          Recorded(r)' /\ (deletion'[d].pc = "removing" => r \notin rows')
    BY <2>3, <2>4 DEF DeletionRecords, NoDeletion
  <2>13. \A r \in Trainings : \A g \in toRemove'[r] :
          \E q \in Trainings \ rows' : Recorded(q)' /\ g = File(q)'
    BY <2>3, <2>9, <2>10
  <2> QED
    BY <2>5, <2>11, <2>12, <2>13
<1>5. ASSUME NEW f \in Files, SkipModel(t, f) PROVE HandsInv'
  BY <1>5 DEF SkipModel, NextFile, Drops, Fault, File
<1>6. CASE Abandon(t)
  BY <1>6 DEF Abandon, Drops, Fault, File
<1> QED
  BY <1>1, <1>2, <1>3, <1>4, <1>5, <1>6

\* A DELETE request removes the file of the row it has deleted.
LEMMA DeletionKeepsHands ==
    ASSUME TypeOK, HandsInv, NEW d \in Deletions, DeletionStep(d)
    PROVE  HandsInv'
<1> USE DEF TypeOK, HandsInv, SetDeletion, NoDeletion, DeletionRecords, Recorded, retention
<1>1. ASSUME NEW t \in Trainings, FindArtifact(d, t) PROVE HandsInv'
  <2>1. /\ deletion' = [deletion EXCEPT ![d] = [pc |-> "found", row |-> {t}]]
        /\ Recorded(t)
        /\ UNCHANGED <<disk, rows, born, runs, training, toRemove>>
    BY <1>1 DEF FindArtifact
  <2>2. \A e \in Deletions : \A s \in deletion'[e].row :
          Recorded(s) /\ (deletion'[e].pc = "removing" => s \notin rows)
    BY <2>1
  <2> QED
    BY <2>1, <2>2 DEF File
<1>2. CASE DeleteArtifact(d)
  BY <1>2 DEF DeleteArtifact, File
<1>3. CASE RemoveArtifact(d)
  BY <1>3, FilesDiffer DEF RemoveArtifact, File
<1>4. CASE DeletionFails(d)
  BY <1>4 DEF DeletionFails, Drops, Fault, File
<1> QED
  BY <1>1, <1>2, <1>3, <1>4 DEF DeletionStep

-----------------------------------------------------------------------------
(***************************************************************************)
(* What a retention has selected.                                          *)
(***************************************************************************)

\* Finite sets of trainings compare by inclusion.
LEMMA CountsGrow ==
    ASSUME NEW S, NEW T, S \subseteq T, T \subseteq Trainings
    PROVE  Cardinality(S) \in Nat /\ Cardinality(T) \in Nat /\ Cardinality(S) <= Cardinality(T)
<1>1. IsFiniteSet(T)
  BY ArtifactsAssumption, FS_Subset DEF ArtifactsAssumption
<1> QED
  BY <1>1, FS_Subset, FS_CardinalityType

\* A row that has been committed keeps its stamp.
LEMMA RecordedStays ==
    ASSUME TypeOK, [Next]_vars, NEW r \in Trainings, Recorded(r)
    PROVE  Recorded(r)' /\ born'[r] = born[r]
<1> USE DEF TypeOK, Goto, Recorded, retention
<1>1. ASSUME NEW t \in Trainings, TrainingStep(t) PROVE Recorded(r)' /\ born'[r] = born[r]
  BY <1>1 DEF TrainingStep, Export, RefuseData, InsertArtifact, CommitArtifact, FinishRun,
              CountArtifacts, SelectOldest, DeleteOldest, RemoveModel, NextFile
<1>2. ASSUME NEW t \in Trainings, TrainingTrouble(t) PROVE Recorded(r)' /\ born'[r] = born[r]
  BY <1>2 DEF TrainingTrouble, ExportAgain, ExportFails, Abandon, SkipModel, NextFile
<1>3. ASSUME NEW d \in Deletions, DeletionStep(d) PROVE Recorded(r)' /\ born'[r] = born[r]
  BY <1>3 DEF DeletionStep, FindArtifact, DeleteArtifact, RemoveArtifact, DeletionFails
<1>4. CASE UNCHANGED vars
  BY <1>4 DEF vars
<1> QED
  BY <1>1, <1>2, <1>3, <1>4 DEF Next

\* Rows that a committed one was newer than stay older.
LEMMA NewerThanGrows ==
    ASSUME TypeOK, [Next]_vars, NEW s \in Trainings, Recorded(s)
    PROVE  Cardinality(NewerThan(s)) <= Cardinality(NewerThan(s)')
<1>1. \A r \in Trainings : Recorded(r) => Recorded(r)' /\ born'[r] = born[r]
  BY RecordedStays
<1>2. NewerThan(s) \subseteq NewerThan(s)' /\ NewerThan(s)' \subseteq Trainings
  BY <1>1 DEF NewerThan, Newer
<1> QED
  BY <1>2, CountsGrow

\* Rows beyond the limit have that many newer ones.
LEMMA OldestHaveNewer ==
    ASSUME TypeOK, HandsInv, NEW u \in Users, NEW s \in Oldest(u)
    PROVE  Recorded(s) /\ Trainer[s] = u /\ Cardinality(NewerThan(s)) >= Keep
<1>1. s \in rows /\ Trainer[s] = u
  BY DEF Oldest, RowsOf
<1>2. {r \in RowsOf(u) : Newer(r, s)} \subseteq NewerThan(s) /\ NewerThan(s) \subseteq Trainings
  BY <1>1 DEF RowsOf, NewerThan, HandsInv, TypeOK
<1>3. Cardinality({r \in RowsOf(u) : Newer(r, s)}) >= Keep
  BY DEF Oldest
<1> QED
  BY <1>1, <1>2, <1>3, CountsGrow, ArtifactsAssumption DEF HandsInv, TypeOK, ArtifactsAssumption

\* Selections change only when the retention selects, and are let go after.
LEMMA SelectionsChange ==
    ASSUME TypeOK, [Next]_vars, NEW t \in Trainings
    PROVE  chosen'[t] \subseteq chosen[t] \/ (SelectOldest(t) /\ chosen'[t] = Oldest(Trainer[t]))
<1> USE DEF TypeOK, Goto, retention
<1>1. ASSUME NEW r \in Trainings, TrainingStep(r)
      PROVE  chosen'[t] \subseteq chosen[t] \/ (SelectOldest(t) /\ chosen'[t] = Oldest(Trainer[t]))
  BY <1>1 DEF TrainingStep, Export, RefuseData, InsertArtifact, CommitArtifact, FinishRun,
              CountArtifacts, SelectOldest, DeleteOldest, RemoveModel, NextFile
<1>2. ASSUME NEW r \in Trainings, TrainingTrouble(r) PROVE chosen'[t] \subseteq chosen[t]
  BY <1>2 DEF TrainingTrouble, ExportAgain, ExportFails, Abandon, SkipModel, NextFile
<1>3. ASSUME NEW d \in Deletions, DeletionStep(d) PROVE chosen'[t] \subseteq chosen[t]
  BY <1>3 DEF DeletionStep, FindArtifact, DeleteArtifact, RemoveArtifact, DeletionFails
<1>4. CASE UNCHANGED vars
  BY <1>4 DEF vars
<1> QED
  BY <1>1, <1>2, <1>3, <1>4 DEF Next

\* So a selection is of old rows throughout.
LEMMA ChosenKept ==
    ASSUME TypeOK, HandsInv, ChosenInv, [Next]_vars
    PROVE  ChosenInv'
<1> SUFFICES ASSUME NEW t \in Trainings, NEW s \in chosen'[t]
             PROVE  (Recorded(s) /\ Trainer[s] = Trainer[t] /\ Cardinality(NewerThan(s)) >= Keep)'
  BY DEF ChosenInv
<1>1. s \in Trainings /\ Recorded(s) /\ Trainer[s] = Trainer[t] /\ Cardinality(NewerThan(s)) >= Keep
  <2>1. CASE s \in chosen[t]
    BY <2>1 DEF ChosenInv, TypeOK
  <2>2. CASE s \in Oldest(Trainer[t])
    <3>1. Trainer[t] \in Users
      BY ArtifactsAssumption DEF ArtifactsAssumption
    <3>2. s \in Trainings
      BY <2>2 DEF Oldest, RowsOf, TypeOK
    <3> QED
      BY <2>2, <3>1, <3>2, OldestHaveNewer
  <2> QED
    BY <2>1, <2>2, SelectionsChange
<1>2. Recorded(s)' /\ Cardinality(NewerThan(s)) <= Cardinality(NewerThan(s)')
  BY <1>1, RecordedStays, NewerThanGrows
<1>3. Cardinality(NewerThan(s)) \in Nat /\ Cardinality(NewerThan(s)') \in Nat /\ Keep \in Nat
  <2>1. NewerThan(s) \subseteq Trainings /\ NewerThan(s)' \subseteq Trainings
    BY DEF NewerThan
  <2> QED
    BY <2>1, CountsGrow, ArtifactsAssumption DEF ArtifactsAssumption
<1> QED
  BY <1>1, <1>2, <1>3

-----------------------------------------------------------------------------
(***************************************************************************)
(* The limit. RetentionInv user by user; a step concerns one user.         *)
(***************************************************************************)

\* For every set of retentions that have selected, what remains after them.
Limited(u) ==
    \A S \in SUBSET Selecting(u) :
        Cardinality(RowsOf(u) \ ChosenBy(S)) <= Keep + Cardinality(Unswept(u) \ S)

LEMMA ByUser == RetentionInv <=> (Keep > 0 => \A u \in Users : Limited(u))
BY DEF RetentionInv, Limited

\* All but the oldest are no more than the limit: the least of them has all the
\* others above it, and fewer than the limit are.
LEMMA LimitLeaves ==
    ASSUME TypeOK, HandsInv, Keep > 0, NEW u \in Users
    PROVE  Cardinality(RowsOf(u) \ Oldest(u)) <= Keep
<1> DEFINE K == RowsOf(u) \ Oldest(u)
<1>1. K \subseteq Trainings /\ RowsOf(u) \subseteq Trainings /\ Keep \in Nat
  BY ArtifactsAssumption DEF RowsOf, TypeOK, ArtifactsAssumption
<1>2. IsFiniteSet(K)
  BY <1>1, ArtifactsAssumption, FS_Subset DEF ArtifactsAssumption
<1>3. CASE K = {}
  BY <1>3, <1>1, FS_EmptySet
<1>4. CASE K # {}
  <2> DEFINE B == {born[t] : t \in K}
  <2>1. B \subseteq Nat /\ B # {}
    BY <1>1, <1>4 DEF TypeOK
  <2>2. PICK b \in B : \A x \in B : b <= x
    BY <2>1, NatMin
  <2>3. PICK m \in K : born[m] = b
    BY <2>2
  <2>4. \A t \in K : born[t] \in B
    OBVIOUS
  <2>5. \A t \in K : born[t] # 0 /\ born[t] \in Nat
    BY <1>1 DEF RowsOf, HandsInv, TypeOK
  <2>6. \A t \in K \ {m} : born[t] # born[m]
    BY <1>1, <2>5 DEF HandsInv
  <2> HIDE DEF B
  <2> DEFINE N == {s \in RowsOf(u) : Newer(s, m)}
  <2>7. K \ {m} \subseteq N
    BY <2>2, <2>3, <2>4, <2>5, <2>6 DEF Newer
  <2>8. ~(Cardinality(N) >= Keep)
    BY DEF Oldest
  <2>9. N \subseteq Trainings
    BY <1>1
  <2>10. Cardinality(N) \in Nat /\ Cardinality(K \ {m}) <= Cardinality(N)
    BY <2>7, <2>9, CountsGrow
  <2>11. Cardinality(K \ {m}) = Cardinality(K) - 1 /\ Cardinality(K) \in Nat
    BY <1>2, FS_RemoveElement, FS_CardinalityType
  <2> QED
    BY <1>1, <2>8, <2>10, <2>11
<1> QED
  BY <1>3, <1>4

\* The limit is kept where no row is added, no selection lost and nobody finished.
LEMMA LimitStays ==
    ASSUME TypeOK, TypeOK', NEW u \in Users, Limited(u),
           RowsOf(u)' \subseteq RowsOf(u),
           Selecting(u)' \subseteq Selecting(u),
           \A t \in Selecting(u)' : chosen'[t] = chosen[t],
           Unswept(u) \subseteq Unswept(u)'
    PROVE  Limited(u)'
<1> SUFFICES ASSUME NEW S \in SUBSET Selecting(u)'
             PROVE  Cardinality(RowsOf(u)' \ ChosenBy(S)') <= Keep + Cardinality(Unswept(u)' \ S)
  BY DEF Limited, ChosenBy
<1>1. S \in SUBSET Selecting(u) /\ ChosenBy(S)' = ChosenBy(S)
  BY DEF ChosenBy
<1>2. Cardinality(RowsOf(u) \ ChosenBy(S)) <= Keep + Cardinality(Unswept(u) \ S)
  BY <1>1 DEF Limited
<1>3. /\ Cardinality(RowsOf(u)' \ ChosenBy(S)') <= Cardinality(RowsOf(u) \ ChosenBy(S))
      /\ Cardinality(RowsOf(u)' \ ChosenBy(S)') \in Nat /\ Cardinality(RowsOf(u) \ ChosenBy(S)) \in Nat
  <2>1. RowsOf(u)' \ ChosenBy(S)' \subseteq RowsOf(u) \ ChosenBy(S)
    BY <1>1
  <2>2. RowsOf(u) \ ChosenBy(S) \subseteq Trainings
    BY DEF RowsOf, TypeOK
  <2> QED
    BY <2>1, <2>2, CountsGrow
<1>4. /\ Cardinality(Unswept(u) \ S) <= Cardinality(Unswept(u)' \ S)
      /\ Cardinality(Unswept(u) \ S) \in Nat /\ Cardinality(Unswept(u)' \ S) \in Nat
  <2>1. Unswept(u) \ S \subseteq Unswept(u)' \ S /\ Unswept(u)' \ S \subseteq Trainings
    BY DEF Unswept
  <2> QED
    BY <2>1, CountsGrow
<1> QED
  BY <1>2, <1>3, <1>4, ArtifactsAssumption DEF ArtifactsAssumption

\* It is kept where the rows that remain are no more than the limit.
LEMMA LimitReached ==
    ASSUME TypeOK', NEW u \in Users, Cardinality(RowsOf(u)') <= Keep
    PROVE  Limited(u)'
<1> SUFFICES ASSUME NEW S \in SUBSET Selecting(u)'
             PROVE  Cardinality(RowsOf(u)' \ ChosenBy(S)') <= Keep + Cardinality(Unswept(u)' \ S)
  BY DEF Limited, ChosenBy
<1>1. RowsOf(u)' \subseteq Trainings /\ Unswept(u)' \ S \subseteq Trainings
  BY DEF RowsOf, Unswept, TypeOK
<1>2. /\ Cardinality(RowsOf(u)' \ ChosenBy(S)') <= Cardinality(RowsOf(u)')
      /\ Cardinality(RowsOf(u)' \ ChosenBy(S)') \in Nat /\ Cardinality(RowsOf(u)') \in Nat
  BY <1>1, CountsGrow
<1>3. Cardinality(Unswept(u)' \ S) \in Nat
  BY <1>1, CountsGrow
<1> QED
  BY <1>2, <1>3, ArtifactsAssumption DEF ArtifactsAssumption

\* A new row is a training that owes its retention.
LEMMA CommitKeepsLimit ==
    ASSUME TypeOK, HandsInv, NEW t \in Trainings, CommitArtifact(t), NEW u \in Users, Limited(u)
    PROVE  Limited(u)'
<1> SUFFICES ASSUME NEW S \in SUBSET Selecting(u)'
             PROVE  Cardinality(RowsOf(u)' \ ChosenBy(S)') <= Keep + Cardinality(Unswept(u)' \ S)
  BY DEF Limited, ChosenBy
<1>1. S \in SUBSET Selecting(u) /\ ChosenBy(S)' = ChosenBy(S) /\ t \notin S
  BY DEF CommitArtifact, Selecting, ChosenBy, Goto, retention, TypeOK
<1> DEFINE A == RowsOf(u) \ ChosenBy(S)
           B == Unswept(u) \ S
<1>2. Cardinality(A) <= Keep + Cardinality(B)
  BY <1>1 DEF Limited
<1>3. A \subseteq Trainings /\ B \subseteq Trainings /\ IsFiniteSet(A) /\ IsFiniteSet(B)
  <2>1. A \subseteq Trainings /\ B \subseteq Trainings
    BY DEF RowsOf, Unswept, TypeOK
  <2> QED
    BY <2>1, ArtifactsAssumption, FS_Subset DEF ArtifactsAssumption
<1>4. Cardinality(A) \in Nat /\ Cardinality(B) \in Nat /\ Keep \in Nat
  BY <1>3, FS_CardinalityType, ArtifactsAssumption DEF ArtifactsAssumption
<1>5. CASE Trainer[t] = u
  <2>1. Unswept(u)' \ S = B \cup {t} /\ t \notin B
    BY <1>1, <1>5 DEF CommitArtifact, Unswept, Goto, TypeOK
  <2>2. RowsOf(u)' \ ChosenBy(S)' \subseteq A \cup {t}
    BY <1>1, <1>5 DEF CommitArtifact, RowsOf
  <2>3. IsFiniteSet(A \cup {t}) /\ Cardinality(A \cup {t}) <= Cardinality(A) + 1
    BY <1>3, <1>4, FS_AddElement
  <2>4. Cardinality(B \cup {t}) = Cardinality(B) + 1
    BY <1>3, <2>1, FS_AddElement
  <2>5. A \cup {t} \subseteq Trainings
    BY <1>3
  <2>6. /\ Cardinality(RowsOf(u)' \ ChosenBy(S)') <= Cardinality(A \cup {t})
        /\ Cardinality(RowsOf(u)' \ ChosenBy(S)') \in Nat /\ Cardinality(A \cup {t}) \in Nat
    BY <2>2, <2>5, CountsGrow
  <2> QED
    BY <1>2, <1>4, <2>1, <2>3, <2>4, <2>6
<1>6. CASE Trainer[t] # u
  <2>1. Unswept(u)' \ S = B /\ RowsOf(u)' \ ChosenBy(S)' = A
    BY <1>1, <1>6 DEF CommitArtifact, Unswept, RowsOf, Goto, TypeOK
  <2> QED
    BY <1>2, <2>1
<1> QED
  BY <1>5, <1>6

\* A retention that deletes leaves what was to remain after it.
LEMMA DeleteKeepsLimit ==
    ASSUME TypeOK, NEW t \in Trainings, DeleteOldest(t), NEW u \in Users, Limited(u),
           \A s \in chosen[t] : Trainer[s] = Trainer[t]
    PROVE  Limited(u)'
<1> SUFFICES ASSUME NEW S \in SUBSET Selecting(u)'
             PROVE  Cardinality(RowsOf(u)' \ ChosenBy(S)') <= Keep + Cardinality(Unswept(u)' \ S)
  BY DEF Limited, ChosenBy
<1>1. t \notin S /\ S \in SUBSET Selecting(u)
  BY DEF DeleteOldest, Selecting, Goto, TypeOK
<1>2. ChosenBy(S)' = ChosenBy(S)
  BY <1>1 DEF DeleteOldest, ChosenBy, TypeOK, Selecting
<1>3. CASE Trainer[t] = u
  <2> DEFINE T == S \cup {t}
  <2>1. T \in SUBSET Selecting(u)
    BY <1>1, <1>3 DEF DeleteOldest, Selecting
  <2>2. ChosenBy(T) = ChosenBy(S) \cup chosen[t]
    BY DEF ChosenBy
  <2>3. RowsOf(u)' \ ChosenBy(S)' = RowsOf(u) \ ChosenBy(T)
    BY <1>2, <2>2 DEF RowsOf, DeleteOldest
  <2>4. Unswept(u)' \ S = Unswept(u) \ T
    BY DEF Unswept, DeleteOldest, Goto, TypeOK
  <2>5. Cardinality(RowsOf(u) \ ChosenBy(T)) <= Keep + Cardinality(Unswept(u) \ T)
    BY <2>1 DEF Limited
  <2> QED
    BY <2>3, <2>4, <2>5
<1>4. CASE Trainer[t] # u
  <2>1. RowsOf(u)' = RowsOf(u)
    BY <1>4 DEF RowsOf, DeleteOldest
  <2>2. Unswept(u)' = Unswept(u)
    BY <1>4 DEF Unswept, DeleteOldest, Goto, TypeOK
  <2> QED
    BY <1>1, <1>2, <2>1, <2>2 DEF Limited
<1> QED
  BY <1>3, <1>4

\* A retention that selects is to leave the limit; one with nothing to select is there.
LEMMA SelectKeepsLimit ==
    ASSUME TypeOK, TypeOK', HandsInv, Keep > 0, NEW t \in Trainings, SelectOldest(t),
           NEW u \in Users, Limited(u)
    PROVE  Limited(u)'
<1>1. RowsOf(u)' = RowsOf(u)
  BY DEF SelectOldest, RowsOf
<1>2. CASE Trainer[t] # u
  <2>1. Selecting(u)' = Selecting(u) /\ Unswept(u)' = Unswept(u)
    BY <1>2 DEF SelectOldest, Selecting, Unswept, Goto, TypeOK
  <2>2. \A s \in Selecting(u) : chosen'[s] = chosen[s]
    BY <1>2 DEF SelectOldest, Selecting, TypeOK
  <2> QED
    BY <1>1, <2>1, <2>2, LimitStays
<1>3. CASE Trainer[t] = u /\ Oldest(u) = {}
  <2>1. Cardinality(RowsOf(u)') <= Keep
    BY <1>1, <1>3, LimitLeaves
  <2> QED
    BY <2>1, LimitReached
<1>4. CASE Trainer[t] = u /\ Oldest(u) # {}
  <2> SUFFICES ASSUME NEW S \in SUBSET Selecting(u)'
               PROVE  Cardinality(RowsOf(u) \ ChosenBy(S)') <= Keep + Cardinality(Unswept(u)' \ S)
    BY <1>1 DEF Limited, ChosenBy
  <2>1. Unswept(u)' = Unswept(u)
    BY <1>4 DEF SelectOldest, Unswept, Goto, TypeOK
  <2>2. CASE t \in S
    <3>1. Oldest(u) \subseteq ChosenBy(S)'
      BY <1>4, <2>2 DEF SelectOldest, ChosenBy, TypeOK
    <3>2. RowsOf(u) \ ChosenBy(S)' \subseteq RowsOf(u) \ Oldest(u)
      BY <3>1
    <3>3. RowsOf(u) \ Oldest(u) \subseteq Trainings /\ Unswept(u)' \ S \subseteq Trainings
      BY DEF RowsOf, Unswept, TypeOK
    <3>4. /\ Cardinality(RowsOf(u) \ ChosenBy(S)') <= Cardinality(RowsOf(u) \ Oldest(u))
          /\ Cardinality(RowsOf(u) \ ChosenBy(S)') \in Nat /\ Cardinality(RowsOf(u) \ Oldest(u)) \in Nat
      BY <3>2, <3>3, CountsGrow
    <3>5. Cardinality(Unswept(u)' \ S) \in Nat
      BY <3>3, CountsGrow
    <3>6. Cardinality(RowsOf(u) \ Oldest(u)) <= Keep
      BY LimitLeaves
    <3> QED
      BY <3>4, <3>5, <3>6, ArtifactsAssumption DEF ArtifactsAssumption
  <2>3. CASE t \notin S
    <3>1. S \in SUBSET Selecting(u)
      BY <2>3 DEF SelectOldest, Selecting, Goto, TypeOK
    <3>2. ChosenBy(S)' = ChosenBy(S)
      BY <2>3, <3>1 DEF SelectOldest, ChosenBy, TypeOK, Selecting
    <3> QED
      BY <2>1, <3>1, <3>2 DEF Limited
  <2> QED
    BY <2>2, <2>3
<1> QED
  BY <1>2, <1>3, <1>4

\* Every step keeps the limit of every user.
LEMMA LimitKept ==
    ASSUME TypeOK, TypeOK', HandsInv, ChosenInv, RetentionInv, [Next]_vars
    PROVE  RetentionInv'
<1> SUFFICES ASSUME Keep > 0, NEW u \in Users PROVE Limited(u)'
  BY ByUser DEF RetentionInv, Limited
<1>1. Limited(u)
  BY ByUser
<1> USE DEF Goto, Selecting, Unswept, RowsOf, retention
<1>2. ASSUME NEW t \in Trainings, CountArtifacts(t) PROVE Limited(u)'
  <2>1. CASE Trainer[t] = u /\ ~(Cardinality(RowsOf(u)) > Keep)
    <3>1. Cardinality(RowsOf(u)') <= Keep
      <4>1. RowsOf(u)' = RowsOf(u)
        BY <1>2 DEF CountArtifacts
      <4>2. Cardinality(RowsOf(u)) \in Nat
        BY CountsGrow DEF TypeOK
      <4> HIDE DEF RowsOf
      <4> QED
        BY <2>1, <4>1, <4>2, ArtifactsAssumption DEF ArtifactsAssumption
    <3> QED
      BY <3>1, LimitReached
  <2>2. CASE ~(Trainer[t] = u /\ ~(Cardinality(RowsOf(u)) > Keep))
    <3>1. Unswept(u) \subseteq Unswept(u)'
      BY <1>2, <2>2 DEF CountArtifacts, TypeOK
    <3>2. /\ RowsOf(u)' \subseteq RowsOf(u) /\ Selecting(u)' \subseteq Selecting(u)
          /\ chosen' = chosen
      BY <1>2 DEF CountArtifacts, TypeOK
    <3> HIDE DEF Selecting, Unswept, RowsOf
    <3> QED
      BY <1>1, <3>1, <3>2, LimitStays
  <2> QED
    BY <2>1, <2>2
<1>3. ASSUME NEW t \in Trainings,
             Export(t) \/ RefuseData(t) \/ InsertArtifact(t) \/ FinishRun(t) \/ ExportAgain(t)
             \/ ExportFails(t) \/ Abandon(t) \/ (\E f \in Files : RemoveModel(t, f) \/ SkipModel(t, f))
      PROVE  Limited(u)'
  <2>1. RowsOf(u)' \subseteq RowsOf(u)
    BY <1>3 DEF Export, RefuseData, InsertArtifact, FinishRun, ExportAgain, ExportFails, Abandon,
                RemoveModel, SkipModel, NextFile
  <2>2. Selecting(u)' \subseteq Selecting(u)
    BY <1>3 DEF Export, RefuseData, InsertArtifact, FinishRun, ExportAgain, ExportFails, Abandon,
                RemoveModel, SkipModel, NextFile, TypeOK
  <2>3. \A s \in Selecting(u)' : chosen'[s] = chosen[s]
    BY <1>3 DEF Export, RefuseData, InsertArtifact, FinishRun, ExportAgain, ExportFails, Abandon,
                RemoveModel, SkipModel, NextFile, TypeOK
  <2>4. Unswept(u) \subseteq Unswept(u)'
    BY <1>3 DEF Export, RefuseData, InsertArtifact, FinishRun, ExportAgain, ExportFails, Abandon,
                RemoveModel, SkipModel, NextFile, TypeOK, Recorded
  <2> HIDE DEF Selecting, Unswept, RowsOf
  <2> QED
    BY <1>1, <2>1, <2>2, <2>3, <2>4, LimitStays
<1>4. ASSUME UNCHANGED <<training, retention>>, rows' \subseteq rows PROVE Limited(u)'
  <2>1. /\ RowsOf(u)' \subseteq RowsOf(u) /\ Selecting(u)' \subseteq Selecting(u)
        /\ chosen' = chosen /\ Unswept(u) \subseteq Unswept(u)'
    BY <1>4
  <2> HIDE DEF Selecting, Unswept, RowsOf
  <2> QED
    BY <1>1, <2>1, LimitStays
<1> HIDE DEF Selecting, Unswept, RowsOf, Goto
<1>5. ASSUME NEW t \in Trainings, CommitArtifact(t) PROVE Limited(u)'
  BY <1>1, <1>5, CommitKeepsLimit
<1>6. ASSUME NEW t \in Trainings, SelectOldest(t) PROVE Limited(u)'
  BY <1>1, <1>6, SelectKeepsLimit
<1>7. ASSUME NEW t \in Trainings, DeleteOldest(t) PROVE Limited(u)'
  BY <1>1, <1>7, DeleteKeepsLimit DEF ChosenInv
<1>8. ASSUME NEW t \in Trainings, TrainingStep(t) \/ TrainingTrouble(t) PROVE Limited(u)'
  BY <1>2, <1>3, <1>5, <1>6, <1>7, <1>8 DEF TrainingStep, TrainingTrouble
<1>9. ASSUME NEW d \in Deletions, DeletionStep(d) PROVE Limited(u)'
  BY <1>4, <1>9 DEF DeletionStep, FindArtifact, DeleteArtifact, RemoveArtifact, DeletionFails
<1>10. CASE UNCHANGED vars
  BY <1>4, <1>10 DEF vars
<1> QED
  BY <1>8, <1>9, <1>10 DEF Next

-----------------------------------------------------------------------------
(***************************************************************************)
(* The theorems.                                                           *)
(***************************************************************************)

\* Every step keeps what the operations have in hand.
LEMMA HandsKept ==
    ASSUME TypeOK, HandsInv, ChosenInv, [Next]_vars
    PROVE  HandsInv'
<1>1. ASSUME NEW t \in Trainings, TrainingStep(t) \/ TrainingTrouble(t) PROVE HandsInv'
  BY <1>1, SaveKeepsHands, RetentionKeepsHands DEF TrainingStep, TrainingTrouble
<1>2. ASSUME NEW d \in Deletions, DeletionStep(d) PROVE HandsInv'
  BY <1>2, DeletionKeepsHands
<1>3. CASE UNCHANGED vars
  BY <1>3 DEF vars, retention, HandsInv, Recorded, File
<1> QED
  BY <1>1, <1>2, <1>3 DEF Next

\* What each operation has in hand agrees with the tables and the disk, and
\* pending retentions bring every user to the limit.
THEOREM Inductive == Spec => []InductiveInv
<1>1. Init => HandsInv /\ ChosenInv /\ RetentionInv
  <2> SUFFICES ASSUME Init PROVE HandsInv /\ ChosenInv /\ RetentionInv
    OBVIOUS
  <2>1. HandsInv /\ ChosenInv
    BY DEF Init, HandsInv, ChosenInv, Recorded, NoDeletion
  <2>2. ASSUME NEW u \in Users, NEW S \in SUBSET Selecting(u)
        PROVE  Cardinality(RowsOf(u) \ ChosenBy(S)) <= Keep + Cardinality(Unswept(u) \ S)
    <3>1. RowsOf(u) \ ChosenBy(S) = {} /\ Unswept(u) \ S \subseteq Trainings
      BY DEF Init, RowsOf, Unswept
    <3> QED
      BY <3>1, FS_EmptySet, CountsGrow, ArtifactsAssumption DEF ArtifactsAssumption
  <2> QED
    BY <2>1, <2>2 DEF RetentionInv
<1>2. TypeOK /\ TypeOK' /\ HandsInv /\ ChosenInv /\ RetentionInv /\ [Next]_vars
        => HandsInv' /\ ChosenInv' /\ RetentionInv'
  BY HandsKept, ChosenKept, LimitKept
<1> QED
  BY <1>1, <1>2, TypeCorrect, PTL DEF Spec, InductiveInv

\* An artifact row has its file, and a reported model unless it was deleted.
THEOREM ModelsPresent == Spec => []ModelsArePresent
<1>1. InductiveInv => ModelsArePresent
  BY DEF InductiveInv, HandsInv, ModelsArePresent, Reports
<1> QED
  BY <1>1, Inductive, PTL

\* A user's rows exceed the limit by the trainings that owe a retention.
THEOREM WithinLimit == Spec => []RetentionBounds
<1>1. InductiveInv => RetentionBounds
  <2> SUFFICES ASSUME InductiveInv, Keep > 0, NEW u \in Users
               PROVE  Cardinality(RowsOf(u)) <= Keep + Cardinality(Unswept(u))
    BY DEF RetentionBounds
  <2>1. Cardinality(RowsOf(u) \ ChosenBy({})) <= Keep + Cardinality(Unswept(u) \ {})
    BY DEF InductiveInv, RetentionInv
  <2>2. RowsOf(u) \ ChosenBy({}) = RowsOf(u) /\ Unswept(u) \ {} = Unswept(u)
    BY DEF ChosenBy
  <2> QED
    BY <2>1, <2>2
<1> QED
  BY <1>1, Inductive, PTL

\* The rows a step takes away, unless a DELETE request did, were selected.
LEMMA RowsGo ==
    ASSUME TypeOK, [Next]_vars, NEW s \in rows \ rows', deletion' = deletion
    PROVE  \E t \in Trainings : s \in chosen[t] /\ training'[t] # training[t]
<1> USE DEF TypeOK, Goto, retention
<1>1. ASSUME NEW t \in Trainings, TrainingStep(t)
      PROVE  \E r \in Trainings : s \in chosen[r] /\ training'[r] # training[r]
  <2>1. DeleteOldest(t)
    BY <1>1 DEF TrainingStep, Export, RefuseData, InsertArtifact, CommitArtifact, FinishRun,
                CountArtifacts, SelectOldest, RemoveModel, NextFile
  <2> QED
    BY <2>1 DEF DeleteOldest
<1>2. ASSUME NEW t \in Trainings, TrainingTrouble(t) PROVE FALSE
  BY <1>2 DEF TrainingTrouble, ExportAgain, ExportFails, Abandon, SkipModel, NextFile
<1>3. ASSUME NEW d \in Deletions, DeletionStep(d) PROVE FALSE
  <2>1. DeleteArtifact(d)
    BY <1>3 DEF DeletionStep, FindArtifact, RemoveArtifact, DeletionFails
  <2> QED
    BY <2>1 DEF DeleteArtifact, SetDeletion
<1>4. CASE UNCHANGED vars
  BY <1>4 DEF vars
<1> QED
  BY <1>1, <1>2, <1>3, <1>4 DEF Next

\* The retention deletes rows of its own user that have enough newer ones.
THEOREM NewestAreSpared == Spec => RetentionSparesNewest
<1> DEFINE Spares ==
      \A s \in rows \ rows' : deletion' = deletion =>
        /\ \E t \in Trainings : training'[t] # training[t] /\ Trainer[t] = Trainer[s]
        /\ Cardinality(NewerThan(s)) >= Keep
<1>1. InductiveInv /\ [Next]_vars => Spares
  <2> SUFFICES ASSUME InductiveInv, [Next]_vars, NEW s \in rows \ rows', deletion' = deletion
               PROVE  /\ \E t \in Trainings : training'[t] # training[t] /\ Trainer[t] = Trainer[s]
                      /\ Cardinality(NewerThan(s)) >= Keep
    OBVIOUS
  <2> QED
    BY RowsGo DEF InductiveInv, ChosenInv
<1>2. InductiveInv /\ [Next]_vars => [Spares]_vars
  BY <1>1
<1> QED
  BY <1>2, Inductive, PTL DEF Spec, RetentionSparesNewest

\* A training's steps pass its files on: to its row, to the list of a retention,
\* or to what a failure dropped.
LEMMA TrainingsLoseNothing ==
    ASSUME TypeOK, HandsInv, OrphansWereDropped, NEW t \in Trainings,
           TrainingStep(t) \/ TrainingTrouble(t)
    PROVE  OrphansWereDropped'
<1> USE DEF TypeOK, OrphansWereDropped, InHand, Goto, retention
<1>1. CASE Export(t)
  BY <1>1 DEF Export, File
<1>2. CASE RefuseData(t)
  BY <1>2 DEF RefuseData, File
<1>3. CASE InsertArtifact(t)
  BY <1>3 DEF InsertArtifact, File
<1>4. CASE CommitArtifact(t)
  BY <1>4 DEF CommitArtifact, File
<1>5. CASE FinishRun(t)
  BY <1>5 DEF FinishRun, File
<1>6. CASE CountArtifacts(t)
  BY <1>6 DEF CountArtifacts, File
<1>7. CASE SelectOldest(t)
  BY <1>7 DEF SelectOldest, File
<1>8. CASE DeleteOldest(t)
  <2>1. /\ rows' = rows \ chosen[t] /\ UNCHANGED <<disk, deletion, dropped>>
        /\ toRemove' = [toRemove EXCEPT ![t] = {File(s) : s \in chosen[t]}]
        /\ toRemove[t] = {}
        /\ \A s \in Trainings : training[s] \in {"exported", "inserted"}
                                => training'[s] \in {"exported", "inserted"}
    BY <1>8 DEF DeleteOldest, HandsInv
  <2>2. SUFFICES ASSUME NEW f \in disk, InHand(f) PROVE InHand(f)'
    BY <2>1
  <2>3. CASE \E d \in Deletions :
               deletion[d].pc = "removing" /\ f \in {File(s) : s \in deletion[d].row}
    BY <2>1, <2>3 DEF File
  <2>4. ASSUME NEW s \in Trainings, f \in toRemove[s] PROVE InHand(f)'
    <3>1. f \in toRemove'[s]
      BY <2>1, <2>4
    <3> QED
      BY <3>1
  <2>5. ASSUME NEW s \in Trainings, f = File(s), training[s] \in {"exported", "inserted"}
        PROVE  InHand(f)'
    BY <2>1, <2>5 DEF File
  <2>6. ASSUME NEW s \in rows, f = File(s) PROVE InHand(f)'
    <3>1. CASE s \in chosen[t]
      <4>1. f \in toRemove'[t]
        BY <2>1, <2>6, <3>1
      <4> QED
        BY <4>1
    <3>2. CASE s \notin chosen[t]
      BY <2>1, <2>6, <3>2 DEF File
    <3> QED
      BY <3>1, <3>2
  <2> QED
    BY <2>2, <2>3, <2>4, <2>5, <2>6
<1>9. ASSUME NEW f \in Files, RemoveModel(t, f) PROVE OrphansWereDropped'
  BY <1>9 DEF RemoveModel, NextFile, File
<1>10. ASSUME NEW f \in Files, SkipModel(t, f) PROVE OrphansWereDropped'
  BY <1>10 DEF SkipModel, NextFile, Drops, File
<1>11. CASE ExportAgain(t)
  BY <1>11 DEF ExportAgain, Drops, File
<1>12. CASE ExportFails(t)
  BY <1>12 DEF ExportFails, Drops, File
<1>13. CASE Abandon(t)
  BY <1>13 DEF Abandon, Drops, File, Recorded
<1> QED
  BY <1>1, <1>2, <1>3, <1>4, <1>5, <1>6, <1>7, <1>8, <1>9, <1>10, <1>11, <1>12, <1>13
  DEF TrainingStep, TrainingTrouble

\* So do those of a DELETE request.
LEMMA DeletionsLoseNothing ==
    ASSUME TypeOK, OrphansWereDropped, NEW d \in Deletions, DeletionStep(d)
    PROVE  OrphansWereDropped'
<1> USE DEF TypeOK, OrphansWereDropped, InHand, SetDeletion, retention
<1>1. ASSUME NEW t \in Trainings, FindArtifact(d, t) PROVE OrphansWereDropped'
  BY <1>1 DEF FindArtifact, File
<1>2. CASE DeleteArtifact(d)
  BY <1>2 DEF DeleteArtifact, File
<1>3. CASE RemoveArtifact(d)
  BY <1>3 DEF RemoveArtifact, File
<1>4. CASE DeletionFails(d)
  BY <1>4 DEF DeletionFails, Drops, File
<1> QED
  BY <1>1, <1>2, <1>3, <1>4 DEF DeletionStep

\* A file nothing accounts for was dropped by a failure.
THEOREM OrphansDropped == Spec => []OrphansWereDropped
<1>1. Init => OrphansWereDropped
  BY DEF Init, OrphansWereDropped
<1>2. TypeOK /\ InductiveInv /\ OrphansWereDropped /\ [Next]_vars => OrphansWereDropped'
  <2> SUFFICES ASSUME TypeOK, InductiveInv, OrphansWereDropped, [Next]_vars
               PROVE  OrphansWereDropped'
    OBVIOUS
  <2>1. CASE UNCHANGED vars
    BY <2>1 DEF vars, retention, OrphansWereDropped, InHand, File
  <2> QED
    BY <2>1, TrainingsLoseNothing, DeletionsLoseNothing DEF Next, InductiveInv
<1> QED
  BY <1>1, <1>2, TypeCorrect, Inductive, PTL DEF Spec

-----------------------------------------------------------------------------
(***************************************************************************)
(* The refinement of ModelShelf.                                           *)
(***************************************************************************)

\* The refinement mapping of the shelf.
Stages    == [t \in Trainings |-> Stage(t)]
Succeeded == {t \in Trainings : runs[t] = "SUCCESS"}

\* Two trainings never write one file.
LEMMA OneFileEach == \A s, t \in Trainings : File(s) = File(t) => s = t
BY DEF File

\* Where the file is there with its row, the stages tell rows, records and files.
LEMMA StageIs ==
    ASSUME HandsInv, NEW t \in Trainings
    PROVE  /\ Stage(t) # "broken"
           /\ Stage(t) = "listed" <=> t \in rows
           /\ Recorded(t) <=> Stage(t) \in {"listed", "unlisted", "removed"}
           /\ Stage(t) \in {"listed", "unlisted", "stored"} <=> File(t) \in disk
BY DEF HandsInv, Stage

\* A step that shows nothing on the shelf.
LEMMA ShelfStays ==
    ASSUME runs' = runs, \A t \in Trainings : Stage(t)' = Stage(t)
    PROVE  UNCHANGED Shelf!shelfVars
<1>1. Stages' = Stages /\ Succeeded' = Succeeded
  BY DEF Stages, Succeeded
<1> QED
  BY <1>1 DEF Shelf!shelfVars, Stages, Succeeded

\* A step that takes some models from one stage to another.
LEMMA ShelfMoves ==
    ASSUME runs' = runs, NEW S \in SUBSET Trainings, NEW from, NEW to,
           \A t \in S : Stage(t) = from /\ Stage(t)' = to,
           \A t \in Trainings \ S : Stage(t)' = Stage(t)
    PROVE  Shelf!Advance(S, from, to)
<1>1. Stages' = [t \in Trainings |-> IF t \in S THEN to ELSE Stages[t]]
  BY DEF Stages
<1>2. \A t \in S : Stages[t] = from
  BY DEF Stages
<1>3. Succeeded' = Succeeded
  BY DEF Succeeded
<1> QED
  BY <1>1, <1>2, <1>3 DEF Shelf!Advance, Stages, Succeeded

\* A training that has no row writes files of its own: its model is stored, or
\* there was a stump only.
LEMMA StoreSimulation ==
    ASSUME HandsInv, NEW t \in Trainings, ~Recorded(t), NEW F \in SUBSET ({t} \X Kinds),
           disk' = disk \cup F, rows' = rows, runs' = runs,
           \A s \in Trainings : Recorded(s)' <=> Recorded(s)
    PROVE  [Shelf!Next]_(Shelf!shelfVars)
<1>1. t \notin rows
  BY DEF HandsInv
<1>2. \A s \in Trainings \ {t} : File(s) \in disk' <=> File(s) \in disk
  BY DEF File
<1>3. \A s \in Trainings \ {t} : Stage(s)' = Stage(s)
  <2> SUFFICES ASSUME NEW s \in Trainings \ {t} PROVE Stage(s)' = Stage(s)
    OBVIOUS
  <2>1. (File(s) \in disk)' <=> File(s) \in disk
    BY <1>2 DEF File
  <2> QED
    BY <2>1 DEF Stage
<1>4. CASE File(t) \in disk' /\ File(t) \notin disk
  <2>1. Stage(t) = "absent" /\ Stage(t)' = "stored"
    BY <1>1, <1>4 DEF Stage, File
  <2>2. Shelf!Store(t)
    BY <1>3, <2>1, ShelfMoves DEF Shelf!Store
  <2> QED
    BY <2>2 DEF Shelf!Next
<1>5. CASE ~(File(t) \in disk' /\ File(t) \notin disk)
  <2>1. (File(t) \in disk)' <=> File(t) \in disk
    BY <1>5 DEF File
  <2>2. Stage(t)' = Stage(t)
    BY <1>1, <2>1 DEF Stage
  <2> QED
    BY <1>3, <2>2, ShelfStays
<1> QED
  BY <1>4, <1>5

\* Rows are deleted, their files are still there.
LEMMA UnlistSimulation ==
    ASSUME HandsInv, NEW R \in SUBSET Trainings,
           rows' = rows \ R, disk' = disk, runs' = runs,
           \A s \in Trainings : Recorded(s)' <=> Recorded(s)
    PROVE  [Shelf!Next]_(Shelf!shelfVars)
<1> DEFINE S == R \cap rows
<1>1. S \in SUBSET Trainings
  OBVIOUS
<1>2. \A s \in S : Stage(s) = "listed" /\ Stage(s)' = "unlisted"
  BY DEF HandsInv, Stage, File
<1>3. \A s \in Trainings \ S : Stage(s)' = Stage(s)
  <2> SUFFICES ASSUME NEW s \in Trainings \ S PROVE Stage(s)' = Stage(s)
    OBVIOUS
  <2>1. s \in rows' <=> s \in rows
    OBVIOUS
  <2> QED
    BY <2>1 DEF Stage, File
<1> HIDE DEF S
<1>4. Shelf!Unlist(S)
  BY <1>1, <1>2, <1>3, ShelfMoves DEF Shelf!Unlist
<1> QED
  BY <1>1, <1>4 DEF Shelf!Next

\* A file is removed, or was removed before, whose row is deleted.
LEMMA RemoveSimulation ==
    ASSUME HandsInv, NEW t \in Trainings \ rows, Recorded(t),
           disk' = disk \ {File(t)}, rows' = rows, runs' = runs,
           \A s \in Trainings : Recorded(s)' <=> Recorded(s)
    PROVE  [Shelf!Next]_(Shelf!shelfVars)
<1>1. \A s \in Trainings \ {t} : Stage(s)' = Stage(s)
  <2> SUFFICES ASSUME NEW s \in Trainings \ {t} PROVE Stage(s)' = Stage(s)
    OBVIOUS
  <2>1. (File(s) \in disk)' <=> File(s) \in disk
    BY OneFileEach DEF File
  <2> QED
    BY <2>1 DEF Stage
<1>2. Stage(t)' = "removed"
  BY DEF Stage, File
<1>3. CASE File(t) \in disk
  <2>1. Stage(t) = "unlisted"
    BY <1>3 DEF Stage
  <2>2. Shelf!Remove(t)
    BY <1>1, <1>2, <2>1, ShelfMoves DEF Shelf!Remove
  <2> QED
    BY <2>2 DEF Shelf!Next
<1>4. CASE File(t) \notin disk
  <2>1. Stage(t) = "removed"
    BY <1>4 DEF Stage
  <2> QED
    BY <1>1, <1>2, <2>1, ShelfStays
<1> QED
  BY <1>3, <1>4

\* A step that leaves disk, rows, runs and what is recorded as they are.
LEMMA SilentSimulation ==
    ASSUME disk' = disk, rows' = rows, runs' = runs,
           \A s \in Trainings : Recorded(s)' <=> Recorded(s)
    PROVE  [Shelf!Next]_(Shelf!shelfVars)
<1>1. \A s \in Trainings : Stage(s)' = Stage(s)
  BY DEF Stage, File
<1> QED
  BY <1>1, ShelfStays

\* Between places on the same side of the commit nothing is recorded or forgotten.
LEMMA SameSide ==
    ASSUME TypeOK, NEW t \in Trainings, NEW pc, Goto(t, pc),
           Recorded(t) <=> pc \notin {"training", "exported", "inserted", "failed"}
    PROVE  \A s \in Trainings : Recorded(s)' <=> Recorded(s)
BY DEF TypeOK, Goto, Recorded

\* Each step of a training stores, lists, reports, unlists or removes models.
LEMMA TrainingSimulation ==
    ASSUME TypeOK, HandsInv, NEW t \in Trainings, TrainingStep(t) \/ TrainingTrouble(t)
    PROVE  [Shelf!Next]_(Shelf!shelfVars)
<1> USE DEF retention
<1>1. CASE Export(t)
  <2>1. ~Recorded(t) /\ Goto(t, "exported")
    BY <1>1 DEF Export, Recorded
  <2>2. {File(t)} \in SUBSET ({t} \X Kinds)
    BY DEF File, Kinds
  <2> QED
    BY <1>1, <2>1, <2>2, SameSide, StoreSimulation DEF Export
<1>2. CASE ExportAgain(t)
  <2>1. ~Recorded(t) /\ Goto(t, "exported")
    BY <1>2 DEF ExportAgain, Recorded
  <2>2. {<<t, "stump">>, File(t)} \in SUBSET ({t} \X Kinds)
    BY DEF File, Kinds
  <2> QED
    BY <1>2, <2>1, <2>2, SameSide, StoreSimulation DEF ExportAgain
<1>3. CASE ExportFails(t)
  <2>1. ~Recorded(t) /\ Goto(t, "failed")
    BY <1>3 DEF ExportFails, Recorded
  <2>2. PICK F \in SUBSET ({t} \X Kinds) : disk' = disk \cup F
    BY <1>3 DEF ExportFails, Kinds
  <2> QED
    BY <1>3, <2>1, <2>2, SameSide, StoreSimulation DEF ExportFails
<1>4. CASE RefuseData(t) \/ InsertArtifact(t)
  <2>1. ~Recorded(t) /\ \E pc \in {"failed", "inserted"} : Goto(t, pc)
    BY <1>4 DEF RefuseData, InsertArtifact, Recorded
  <2>2. UNCHANGED <<disk, rows, runs>>
    BY <1>4 DEF RefuseData, InsertArtifact
  <2> QED
    BY <2>1, <2>2, SameSide, SilentSimulation
<1>5. CASE CommitArtifact(t)
  <2>1. /\ training[t] = "inserted" /\ training' = [training EXCEPT ![t] = "saved"]
        /\ rows' = rows \cup {t} /\ UNCHANGED <<disk, runs>>
    BY <1>5 DEF CommitArtifact, Goto
  <2>2. File(t) \in disk /\ t \notin rows /\ ~Recorded(t)
    BY <2>1 DEF HandsInv, Recorded
  <2>3. Stage(t) = "stored" /\ Stage(t)' = "listed"
    BY <2>1, <2>2 DEF Stage, File
  <2>4. \A s \in Trainings \ {t} : Stage(s)' = Stage(s)
    <3> SUFFICES ASSUME NEW s \in Trainings \ {t} PROVE Stage(s)' = Stage(s)
      OBVIOUS
    <3>1. (Recorded(s)' <=> Recorded(s)) /\ (s \in rows' <=> s \in rows)
      BY <2>1 DEF Recorded, TypeOK
    <3> QED
      BY <2>1, <3>1 DEF Stage, File
  <2>5. Shelf!List(t)
    BY <2>1, <2>3, <2>4, ShelfMoves DEF Shelf!List
  <2> QED
    BY <2>5 DEF Shelf!Next
<1>6. CASE FinishRun(t)
  <2>1. /\ training[t] = "saved" /\ UNCHANGED <<disk, rows>>
        /\ runs' = [runs EXCEPT ![t] = "SUCCESS"]
        /\ \E pc \in {"finished", "done"} : Goto(t, pc)
    BY <1>6 DEF FinishRun
  <2>2. Recorded(t)
    BY <2>1 DEF Recorded
  <2>3. \A s \in Trainings : Recorded(s)' <=> Recorded(s)
    BY <2>1, <2>2, SameSide
  <2>4. Stages' = Stages
    BY <2>1, <2>3 DEF Stages, Stage, File
  <2>5. Succeeded' = Succeeded \cup {t}
    BY <2>1 DEF Succeeded, TypeOK
  <2>6. Stages[t] \in {"listed", "unlisted", "removed"}
    BY <2>2, StageIs DEF Stages
  <2>7. Shelf!Report(t)
    BY <2>4, <2>5, <2>6 DEF Shelf!Report, Shelf!Listed, Stages, Succeeded
  <2> QED
    BY <2>7 DEF Shelf!Next
<1>7. CASE CountArtifacts(t) \/ SelectOldest(t)
  <2>1. Recorded(t) /\ \E pc \in {"counted", "done", "selected"} : Goto(t, pc)
    BY <1>7 DEF CountArtifacts, SelectOldest, Recorded
  <2>2. UNCHANGED <<disk, rows, runs>>
    BY <1>7 DEF CountArtifacts, SelectOldest
  <2> QED
    BY <2>1, <2>2, SameSide, SilentSimulation
<1>8. CASE DeleteOldest(t)
  <2>1. Recorded(t) /\ Goto(t, "removing") /\ chosen[t] \in SUBSET Trainings
    BY <1>8 DEF DeleteOldest, Recorded, TypeOK
  <2>2. rows' = rows \ chosen[t] /\ UNCHANGED <<disk, runs>>
    BY <1>8 DEF DeleteOldest
  <2> QED
    BY <2>1, <2>2, SameSide, UnlistSimulation
<1>9. ASSUME NEW f \in Files, NextFile(t, f)
      PROVE  /\ \A s \in Trainings : Recorded(s)' <=> Recorded(s)
             /\ rows' = rows /\ runs' = runs
             /\ \E s \in Trainings \ rows : Recorded(s) /\ f = File(s)
  <2>1. Recorded(t) /\ \E pc \in {"removing", "done"} : Goto(t, pc)
    BY <1>9 DEF NextFile, Recorded
  <2> QED
    BY <1>9, <2>1, SameSide DEF NextFile, HandsInv
<1>10. ASSUME NEW f \in Files, RemoveModel(t, f) PROVE [Shelf!Next]_(Shelf!shelfVars)
  BY <1>9, <1>10, RemoveSimulation DEF RemoveModel
<1>11. ASSUME NEW f \in Files, SkipModel(t, f) PROVE [Shelf!Next]_(Shelf!shelfVars)
  BY <1>9, <1>11, SilentSimulation DEF SkipModel
<1>12. CASE Abandon(t)
  <2>1. Goto(t, IF Recorded(t) THEN "cut" ELSE "failed") /\ UNCHANGED <<disk, rows, runs>>
    BY <1>12 DEF Abandon
  <2>2. CASE Recorded(t)
    BY <2>1, <2>2, SameSide, SilentSimulation
  <2>3. CASE ~Recorded(t)
    BY <2>1, <2>3, SameSide, SilentSimulation
  <2> QED
    BY <2>2, <2>3
<1> QED
  BY <1>1, <1>2, <1>3, <1>4, <1>5, <1>6, <1>7, <1>8, <1>10, <1>11, <1>12
  DEF TrainingStep, TrainingTrouble

\* Each step of a DELETE request unlists its model, removes it, or shows nothing.
LEMMA DeletionSimulation ==
    ASSUME TypeOK, HandsInv, NEW d \in Deletions, DeletionStep(d)
    PROVE  [Shelf!Next]_(Shelf!shelfVars)
<1> USE DEF retention
<1>1. UNCHANGED <<training, runs>>
  BY DEF DeletionStep, FindArtifact, DeleteArtifact, RemoveArtifact, DeletionFails
<1>2. \A s \in Trainings : Recorded(s)' <=> Recorded(s)
  BY <1>1 DEF Recorded
<1>3. deletion[d].row = {} \/ \E t \in Trainings : deletion[d].row = {t}
  BY DEF TypeOK, DeletionRecords, NoDeletion
<1>4. CASE DeleteArtifact(d)
  <2>1. deletion[d].row \in SUBSET Trainings
    BY <1>3
  <2> QED
    BY <1>1, <1>2, <1>4, <2>1, UnlistSimulation DEF DeleteArtifact
<1>5. CASE RemoveArtifact(d)
  <2>1. rows' = rows
    BY <1>5 DEF RemoveArtifact
  <2>2. CASE deletion[d].row = {}
    <3>1. disk' = disk
      BY <1>5, <2>2 DEF RemoveArtifact
    <3> QED
      BY <1>1, <1>2, <2>1, <3>1, SilentSimulation
  <2>3. ASSUME NEW t \in Trainings, deletion[d].row = {t}
        PROVE  [Shelf!Next]_(Shelf!shelfVars)
    <3>1. t \notin rows /\ Recorded(t)
      BY <1>5, <2>3 DEF RemoveArtifact, HandsInv
    <3>2. disk' = disk \ {File(t)}
      BY <1>5, <2>3 DEF RemoveArtifact
    <3> QED
      BY <1>1, <1>2, <2>1, <3>1, <3>2, RemoveSimulation
  <2> QED
    BY <1>3, <2>2, <2>3
<1>6. CASE ~DeleteArtifact(d) /\ ~RemoveArtifact(d)
  <2>1. UNCHANGED <<disk, rows>>
    BY <1>6 DEF DeletionStep, FindArtifact, DeletionFails
  <2> QED
    BY <1>1, <1>2, <2>1, SilentSimulation
<1> QED
  BY <1>4, <1>5, <1>6

\* Trainings, retentions and deletions implement ModelShelf: whatever fails, a
\* model has one life, with its file there before its row and until after it
\* (training_service.py, delete_artifact of ml_api.py).
THEOREM KeepsTheShelf == Spec => ShelfSpec
<1>1. Init => Shelf!Init
  <2> SUFFICES ASSUME Init PROVE Shelf!Init
    OBVIOUS
  <2>1. Stages = [t \in Trainings |-> "absent"]
    BY DEF Init, Stages, Stage, Recorded
  <2>2. Succeeded = {}
    BY DEF Init, Succeeded
  <2> QED
    BY <2>1, <2>2 DEF Shelf!Init, Stages, Succeeded
<1>2. InductiveInv /\ [Next]_vars => [Shelf!Next]_(Shelf!shelfVars)
  <2> SUFFICES ASSUME InductiveInv, [Next]_vars PROVE [Shelf!Next]_(Shelf!shelfVars)
    OBVIOUS
  <2>1. TypeOK /\ HandsInv
    BY DEF InductiveInv
  <2>2. CASE UNCHANGED vars
    <3>1. UNCHANGED <<disk, rows, runs, training>>
      BY <2>2 DEF vars
    <3> QED
      BY <3>1, SilentSimulation DEF Recorded
  <2> QED
    BY <2>1, <2>2, TrainingSimulation, DeletionSimulation DEF Next
<1> QED
  BY <1>1, <1>2, Inductive, PTL DEF Spec, ShelfSpec, Shelf!Spec

=============================================================================
