----------------------- MODULE DatasetRegistryProofs -----------------------
(***************************************************************************)
(* Proofs about DatasetRegistry, for any number of users, requests,        *)
(* trainings and cleanups, any batch and TTL setting and any bounds.       *)
(***************************************************************************)
EXTENDS DatasetRegistry, Aggregates

-----------------------------------------------------------------------------
(***************************************************************************)
(* The records: what a request or a training holds at each of its points.  *)
(***************************************************************************)

\* The local variables of the upload and delete handlers at every await.
LEMMA RequestShapes ==
    ASSUME allocated \in Nat
    PROVE  /\ NoCall \in RequestRecords /\ NoCall.pc = "idle"
           /\ \A u \in Users, k \in 1 .. allocated, d \in BOOLEAN :
                /\ \A pc \in {"stored", "filed", "found", "unfiled"} :
                      Call(pc, u, k, 0, d) \in RequestRecords
                /\ \A v \in Nat \ {0} : Call("versioned", u, k, v, d) \in RequestRecords
           /\ \A r \in RequestRecords : r.pc # "idle" =>
                /\ r.user \in Users /\ r.key \in 1 .. allocated /\ r.register \in BOOLEAN
                /\ r.pc = "versioned" => r.version \in Nat \ {0}
                /\ r.pc # "versioned" => r.version = 0
                /\ r = Call(r.pc, r.user, r.key, r.version, r.register)
                /\ r.pc \in {"stored", "filed", "found", "unfiled", "versioned"}
<1> DEFINE A == [pc : {"stored", "filed", "found", "unfiled"}, user : Users,
                 key : 1 .. allocated, version : {0}, register : BOOLEAN]
           B == [pc : {"versioned"}, user : Users, key : 1 .. allocated,
                 version : Nat \ {0}, register : BOOLEAN]
<1>1. RequestRecords = {NoCall} \cup A \cup B
  BY DEF RequestRecords
<1>2. NoCall.pc = "idle"
  BY DEF NoCall, Call
<1>3. \A u \in Users, k \in 1 .. allocated, d \in BOOLEAN :
        /\ \A pc \in {"stored", "filed", "found", "unfiled"} : Call(pc, u, k, 0, d) \in A
        /\ \A v \in Nat \ {0} : Call("versioned", u, k, v, d) \in B
  BY DEF Call
<1>4. \A r \in A :
        /\ r.user \in Users /\ r.key \in 1 .. allocated /\ r.register \in BOOLEAN
        /\ r.version = 0
        /\ r = Call(r.pc, r.user, r.key, r.version, r.register)
        /\ r.pc \in {"stored", "filed", "found", "unfiled"}
  BY DEF Call
<1>5. \A r \in B :
        /\ r.user \in Users /\ r.key \in 1 .. allocated /\ r.register \in BOOLEAN
        /\ r.version \in Nat \ {0}
        /\ r = Call(r.pc, r.user, r.key, r.version, r.register)
        /\ r.pc = "versioned"
  BY DEF Call
<1> HIDE DEF A, B
<1> QED
  BY <1>1, <1>2, <1>3, <1>4, <1>5

\* The local variables of run_for_job at every await.
LEMMA TrainingShapes ==
    ASSUME allocated \in Nat
    PROVE  /\ NewTraining \in TrainingRecords /\ NewTraining.pc = "new"
           /\ \A k \in 1 .. allocated : Step("fetched", k, 0, 0) \in TrainingRecords
           /\ \A k \in 1 .. allocated, v \in Nat \ {0} :
                /\ Step("versioned", k, v, 0) \in TrainingRecords
                /\ \A i \in Ids, pc \in {"registered", "running", "trained"} :
                      Step(pc, k, v, i) \in TrainingRecords
           /\ \A k \in 0 .. allocated, v \in Nat, i \in {0} \cup Ids :
                Step("ended", k, v, i) \in TrainingRecords
           /\ \A r \in TrainingRecords :
                /\ r = Step(r.pc, r.key, r.version, r.dataset)
                /\ r.key \in 0 .. allocated /\ r.version \in Nat /\ r.dataset \in {0} \cup Ids
                /\ r.pc \in {"new", "fetched", "versioned", "registered", "running",
                             "trained", "ended"}
                /\ r.pc \in {"fetched", "versioned", "registered", "running", "trained"} =>
                      r.key \in 1 .. allocated
                /\ r.pc \in {"fetched", "versioned"} => r.dataset = 0
                /\ r.pc \in {"versioned", "registered", "running", "trained"} =>
                      r.version \in Nat \ {0}
                /\ r.pc \in {"registered", "running", "trained"} => r.dataset \in Ids
<1> DEFINE A == [pc : {"fetched"}, key : 1 .. allocated, version : {0}, dataset : {0}]
           B == [pc : {"versioned"}, key : 1 .. allocated, version : Nat \ {0}, dataset : {0}]
           C == [pc : {"registered", "running", "trained"}, key : 1 .. allocated,
                 version : Nat \ {0}, dataset : Ids]
           D == [pc : {"ended"}, key : 0 .. allocated, version : Nat, dataset : {0} \cup Ids]
<1>1. TrainingRecords = {NewTraining} \cup A \cup B \cup C \cup D
  BY DEF TrainingRecords
<1>2. NewTraining = Step("new", 0, 0, 0) /\ NewTraining.pc = "new" /\ NewTraining.key = 0
      /\ NewTraining.version = 0 /\ NewTraining.dataset = 0
  BY DEF NewTraining, Step
<1>3. /\ \A k \in 1 .. allocated : Step("fetched", k, 0, 0) \in A
      /\ \A k \in 1 .. allocated, v \in Nat \ {0} :
            /\ Step("versioned", k, v, 0) \in B
            /\ \A i \in Ids, pc \in {"registered", "running", "trained"} : Step(pc, k, v, i) \in C
      /\ \A k \in 0 .. allocated, v \in Nat, i \in {0} \cup Ids : Step("ended", k, v, i) \in D
  BY DEF Step
<1>4. \A r \in A : /\ r = Step(r.pc, r.key, r.version, r.dataset)
                   /\ r.pc = "fetched" /\ r.key \in 1 .. allocated /\ r.version = 0 /\ r.dataset = 0
  BY DEF Step
<1>5. \A r \in B : /\ r = Step(r.pc, r.key, r.version, r.dataset)
                   /\ r.pc = "versioned" /\ r.key \in 1 .. allocated
                   /\ r.version \in Nat \ {0} /\ r.dataset = 0
  BY DEF Step
<1>6. \A r \in C : /\ r = Step(r.pc, r.key, r.version, r.dataset)
                   /\ r.pc \in {"registered", "running", "trained"} /\ r.key \in 1 .. allocated
                   /\ r.version \in Nat \ {0} /\ r.dataset \in Ids
  BY DEF Step
<1>7. \A r \in D : /\ r = Step(r.pc, r.key, r.version, r.dataset)
                   /\ r.pc = "ended" /\ r.key \in 0 .. allocated
                   /\ r.version \in Nat /\ r.dataset \in {0} \cup Ids
  BY DEF Step
<1> HIDE DEF A, B, C, D
<1>8. 1 .. allocated \subseteq 0 .. allocated /\ 0 \in 0 .. allocated
  OBVIOUS
<1> QED
  BY <1>1, <1>2, <1>3, <1>4, <1>5, <1>6, <1>7, <1>8

\* Drawing a key leaves what is already held well typed.
LEMMA RecordsGrow ==
    ASSUME allocated \in Nat, allocated' \in Nat, allocated' >= allocated
    PROVE  /\ RequestRecords \subseteq RequestRecords'
           /\ TrainingRecords \subseteq TrainingRecords'
           /\ 1 .. allocated \subseteq 1 .. allocated'
           /\ [key : 1 .. allocated, owner : Users, at : Nat \ {0}]
                \subseteq [key : 1 .. allocated', owner : Users, at : Nat \ {0}]
<1>1. 1 .. allocated \subseteq 1 .. allocated' /\ 0 .. allocated \subseteq 0 .. allocated'
  OBVIOUS
<1> QED
  BY <1>1 DEF RequestRecords, TrainingRecords

-----------------------------------------------------------------------------
(***************************************************************************)
(* The tables: rows, and the maxima that are read from them.               *)
(***************************************************************************)

TypeInv == TypeOK /\ IsFiniteSet(files)

\* A dataset row that exists is an owner, a key and a version from 1.
LEMMA DatasetShapes ==
    ASSUME RegistryAssumption, datasets \in [Ids -> DatasetRows], NEW i \in Ids
    PROVE  /\ Exists(i) => /\ datasets[i].owner \in Users /\ datasets[i].key \in Keys
                           /\ datasets[i].version \in Nat \ {0}
           /\ ~Exists(i) => datasets[i] = NoDataset /\ datasets[i].owner = None
<1> DEFINE Rows == [owner : Users, key : Keys, version : Nat \ {0}]
<1>1. datasets[i] \in Rows \/ datasets[i] = NoDataset
  BY DEF DatasetRows
<1>2. NoDataset.version = 0 /\ NoDataset.owner = None
  BY DEF NoDataset
<1>3. \A r \in Rows : r.owner \in Users /\ r.key \in Keys /\ r.version \in Nat \ {0}
  OBVIOUS
<1> HIDE DEF Rows
<1> QED
  BY <1>1, <1>2, <1>3 DEF Exists

\* A new row of user_file is newer than every other.
LEMMA NowIsNew ==
    ASSUME TypeInv
    PROVE  Now \in Nat \ {0} /\ \A f \in files : f.at < Now
<1> DEFINE S == {f.at : f \in files}
           g == [f \in files |-> f.at]
<1>1. \A f \in files : f.at \in Nat
  BY DEF TypeInv, TypeOK
<1>2. S \subseteq Nat
  BY <1>1
<1>3. g \in Surjection(files, S)
  BY DEF Surjection
<1>4. IsFiniteSet(S)
  BY <1>3, FS_Surjection DEF TypeInv
<1>5. \A f \in files : f.at \in S
  OBVIOUS
<1> HIDE DEF S
<1>6. Max({0} \cup S) \in Nat /\ \A x \in S : x <= Max({0} \cup S)
  BY <1>2, <1>4, FiniteMax
<1>7. Now = 1 + Max({0} \cup S)
  BY DEF Now, S
<1> QED
  BY <1>1, <1>5, <1>6, <1>7

\* A user who has a file has a newest one.
LEMMA LatestFileIsOne ==
    ASSUME TypeInv, NEW u \in Users, FilesOf(u) # {}
    PROVE  LatestFile(u) \in FilesOf(u)
<1> DEFINE S == {f.at : f \in FilesOf(u)}
<1>1. \A f \in FilesOf(u) : f \in files /\ f.at \in Nat
  BY DEF TypeInv, TypeOK, FilesOf
<1>2. \A f \in FilesOf(u) : f.at < Now
  BY <1>1, NowIsNew
<1>3. Now \in Nat
  BY NowIsNew
<1>4. S \subseteq 0 .. Now /\ S # {}
  BY <1>1, <1>2, <1>3
<1>5. \A f \in FilesOf(u) : f.at \in S
  OBVIOUS
<1>6. \A x \in S : \E f \in FilesOf(u) : f.at = x
  OBVIOUS
<1> HIDE DEF S
<1>7. Max(S) \in S /\ \A x \in S : x <= Max(S)
  BY <1>3, <1>4, BoundedMax
<1>8. PICK f \in FilesOf(u) : f.at = Max(S)
  BY <1>6, <1>7
<1>9. \A h \in FilesOf(u) : h.at <= f.at
  BY <1>5, <1>7, <1>8
<1> QED
  BY <1>9 DEF LatestFile

\* The next version is above every version the user's rows carry.
LEMMA NextVersionIsNew ==
    ASSUME RegistryAssumption, TypeOK, NEW u \in Users
    PROVE  /\ NextVersion(u) \in Nat \ {0}
           /\ \A i \in DatasetsOf(u) : datasets[i].version < NextVersion(u)
<1> DEFINE D == DatasetsOf(u)
           S == {datasets[i].version : i \in D}
           g == [i \in D |-> datasets[i].version]
<1>1. \A i \in D : i \in Ids /\ datasets[i].version \in Nat
  BY DatasetShapes DEF TypeOK, DatasetsOf
<1>2. S \subseteq Nat
  BY <1>1
<1>3. IsFiniteSet(Ids)
  BY FS_Interval DEF RegistryAssumption, Ids
<1>4. IsFiniteSet(D)
  BY <1>1, <1>3, FS_Subset
<1>5. g \in Surjection(D, S)
  BY DEF Surjection
<1>6. IsFiniteSet(S)
  BY <1>4, <1>5, FS_Surjection
<1>7. \A i \in D : datasets[i].version \in S
  OBVIOUS
<1>8. NextVersion(u) = 1 + Max({0} \cup S)
  BY DEF NextVersion
<1> HIDE DEF S, D
<1>9. Max({0} \cup S) \in Nat /\ \A x \in S : x <= Max({0} \cup S)
  BY <1>2, <1>6, FiniteMax
<1>10. ASSUME NEW i \in D PROVE datasets[i].version < NextVersion(u)
  <2>1. datasets[i].version \in Nat /\ datasets[i].version \in S
    BY <1>1, <1>7
  <2>2. datasets[i].version <= Max({0} \cup S)
    BY <1>9, <2>1
  <2> QED
    BY <1>8, <1>9, <2>1, <2>2
<1>11. NextVersion(u) \in Nat \ {0}
  <2>1. NextVersion(u) \in Nat /\ NextVersion(u) > 0
    BY <1>8, <1>9
  <2> QED
    BY <2>1
<1>12. \A i \in DatasetsOf(u) : datasets[i].version < NextVersion(u)
  BY <1>10 DEF D
<1> QED
  BY <1>11, <1>12

-----------------------------------------------------------------------------
(***************************************************************************)
(* Type correctness.                                                       *)
(***************************************************************************)

\* A new dataset row is in its bounds.
LEMMA InsertDatasetType ==
    ASSUME TypeOK, NEW u \in Users, NEW k \in 1 .. allocated, NEW v \in Nat \ {0},
           InsertDataset(u, k, v)
    PROVE  /\ datasets' \in [Ids -> DatasetRows]
           /\ registered' \in 0 .. MaxDatasets /\ registered' = registered + 1
           /\ registered + 1 \in Ids
           /\ horizon \in 0 .. registered'
<1> USE RegistryAssumption
<1>1. registered + 1 \in Ids
  BY DEF InsertDataset, TypeOK, Ids
<1>2. k \in Keys
  BY DEF TypeOK, Keys
<1>3. [owner |-> u, key |-> k, version |-> v] \in DatasetRows
  BY <1>2 DEF DatasetRows
<1>4. datasets' \in [Ids -> DatasetRows]
  BY <1>1, <1>3 DEF InsertDataset, TypeOK
<1> QED
  BY <1>1, <1>4 DEF InsertDataset, TypeOK

\* What upload and delete requests do keeps the types.
LEMMA RequestTypes ==
    ASSUME TypeInv, NEW q \in Requests, Client(q)
    PROVE  TypeInv'
<1> USE RegistryAssumption
<1> USE DEF TypeInv, TypeOK, storage, tables
<1>0. /\ request[q] \in RequestRecords /\ allocated \in Nat
      /\ allocated' = allocated => RequestRecords' = RequestRecords /\ TrainingRecords' = TrainingRecords
  BY DEF RequestRecords, TrainingRecords
<1>1. ASSUME NEW u \in Users, NEW register \in BOOLEAN, StoreObject(q, u, register)
      PROVE  TypeInv'
  <2>1. allocated' \in 0 .. MaxKeys /\ allocated' >= allocated /\ allocated + 1 \in 1 .. allocated'
        /\ allocated' = allocated + 1
    BY <1>1 DEF StoreObject
  <2>2. Call("stored", u, allocated + 1, 0, register) \in RequestRecords'
    <3>1. \A k \in (1 .. allocated)' : Call("stored", u, k, 0, register) \in RequestRecords'
      BY <2>1 DEF RequestRecords, Call
    <3> QED
      BY <2>1, <3>1
  <2>3. request' \in [Requests -> RequestRecords']
    BY <1>1, <2>1, <2>2, RecordsGrow DEF StoreObject, Goto
  <2>4. training' \in [Trainings -> TrainingRecords']
    BY <1>1, <2>1, RecordsGrow DEF StoreObject
  <2>5. files' \subseteq [key : 1 .. allocated', owner : Users, at : Nat \ {0}]
    BY <1>1, <2>1, RecordsGrow DEF StoreObject
  <2> QED
    BY <1>1, <2>1, <2>3, <2>4, <2>5 DEF StoreObject
<1>2. ASSUME NEW f \in files, FindFile(q, f) PROVE TypeInv'
  <2>1. Call("found", f.owner, f.key, 0, FALSE) \in RequestRecords
    BY RequestShapes, <1>0
  <2> QED
    BY <1>0, <1>2, <2>1 DEF FindFile, Goto
<1>3. ASSUME AddFileMetadata(q) PROVE TypeInv'
  <2>1. request[q].pc = "stored" /\ "stored" # "idle" /\ "stored" # "versioned"
    BY <1>3 DEF AddFileMetadata
  <2>2. /\ request[q].user \in Users /\ request[q].key \in 1 .. allocated
        /\ request[q] = Call("stored", request[q].user, request[q].key, 0, request[q].register)
        /\ request[q].register \in BOOLEAN
    BY <1>0, <2>1, RequestShapes
  <2>3. [request[q] EXCEPT !.pc = "filed"]
            = Call("filed", request[q].user, request[q].key, 0, request[q].register)
    BY <2>2 DEF Call
  <2>4. request' \in [Requests -> RequestRecords]
    <3>1. [request[q] EXCEPT !.pc = "filed"] \in RequestRecords
      BY <1>0, <2>2, <2>3, RequestShapes
    <3>2. NoCall \in RequestRecords
      BY <1>0, RequestShapes
    <3> QED
      BY <1>3, <3>1, <3>2 DEF AddFileMetadata, Goto, Reply
  <2>5. Now \in Nat \ {0}
    BY NowIsNew
  <2>6. files' \subseteq [key : 1 .. allocated, owner : Users, at : Nat \ {0}]
    BY <1>3, <2>2, <2>5 DEF AddFileMetadata
  <2>7. IsFiniteSet(files')
    BY <1>3, FS_AddElement DEF AddFileMetadata
  <2> QED
    BY <1>0, <1>3, <2>4, <2>6, <2>7 DEF AddFileMetadata
<1>4. ASSUME ReadVersion(q) PROVE TypeInv'
  <2>1. request[q].pc = "filed" /\ "filed" # "idle" /\ "filed" # "versioned"
    BY <1>4 DEF ReadVersion
  <2>2. /\ request[q].user \in Users /\ request[q].key \in 1 .. allocated
        /\ request[q] = Call("filed", request[q].user, request[q].key, 0, request[q].register)
        /\ request[q].register \in BOOLEAN
    BY <1>0, <2>1, RequestShapes
  <2> DEFINE v == NextVersion(request[q].user)
  <2>4. v \in Nat \ {0}
    BY <2>2, NextVersionIsNew
  <2> HIDE DEF v
  <2>3. Call("versioned", request[q].user, request[q].key, v, request[q].register)
          \in RequestRecords
    BY <1>0, <2>2, <2>4, RequestShapes
  <2>5. request' \in [Requests -> RequestRecords]
    BY <1>4, <2>3 DEF ReadVersion, Goto, v
  <2> QED
    BY <1>0, <1>4, <2>5 DEF ReadVersion
<1>5. ASSUME RegisterUpload(q) PROVE TypeInv'
  <2>1. /\ request[q].user \in Users /\ request[q].key \in 1 .. allocated
        /\ request[q].version \in Nat \ {0}
    BY <1>0, <1>5, RequestShapes DEF RegisterUpload
  <2>2. InsertDataset(request[q].user, request[q].key, request[q].version)
    BY <1>5 DEF RegisterUpload
  <2>3. datasets' \in [Ids -> DatasetRows] /\ registered' \in 0 .. MaxDatasets /\ horizon \in 0 .. registered'
    BY <2>1, <2>2, InsertDatasetType
  <2> QED
    BY <1>0, <1>5, <2>3, RequestShapes DEF RegisterUpload, Reply, Goto
<1>6. ASSUME DeleteMetadata(q) PROVE TypeInv'
  <2>1. request[q].pc = "found" /\ "found" # "idle" /\ "found" # "versioned"
    BY <1>6 DEF DeleteMetadata
  <2>2. /\ request[q].user \in Users /\ request[q].key \in 1 .. allocated
        /\ request[q] = Call("found", request[q].user, request[q].key, 0, request[q].register)
        /\ request[q].register \in BOOLEAN
    BY <1>0, <2>1, RequestShapes
  <2>3. [request[q] EXCEPT !.pc = "unfiled"]
            = Call("unfiled", request[q].user, request[q].key, 0, request[q].register)
    BY <2>2 DEF Call
  <2>4. request' \in [Requests -> RequestRecords]
    BY <1>0, <1>6, <2>2, <2>3, RequestShapes DEF DeleteMetadata, Goto
  <2>5. IsFiniteSet(files')
    BY <1>6, FS_Subset DEF DeleteMetadata
  <2> QED
    BY <1>0, <1>6, <2>4, <2>5 DEF DeleteMetadata
<1>7. ASSUME DeleteObject(q) PROVE TypeInv'
  BY <1>0, <1>7, RequestShapes DEF DeleteObject, Reply, Goto
<1>8. ASSUME RequestFails(q) PROVE TypeInv'
  BY <1>0, <1>8, RequestShapes DEF RequestFails, Reply, Goto, Fault
<1> QED
  BY <1>1, <1>2, <1>3, <1>4, <1>5, <1>6, <1>7, <1>8 DEF Client, RequestStep

\* What trainings do keeps the types.
LEMMA TrainingTypes ==
    ASSUME TypeInv, NEW t \in Trainings, TrainingStep(t) \/ Abandon(t)
    PROVE  TypeInv'
<1> USE RegistryAssumption
<1> USE DEF TypeInv, TypeOK, storage, tables
<1> DEFINE r == training[t]
<1>0. /\ r \in TrainingRecords /\ allocated \in Nat /\ Trainer[t] \in Users
      /\ allocated' = allocated => RequestRecords' = RequestRecords /\ TrainingRecords' = TrainingRecords
  BY DEF RequestRecords, TrainingRecords, RegistryAssumption
<1>1. /\ r = Step(r.pc, r.key, r.version, r.dataset)
      /\ r.key \in 0 .. allocated /\ r.version \in Nat /\ r.dataset \in {0} \cup Ids
      /\ r.pc \in {"fetched", "versioned", "registered", "running", "trained"} =>
            r.key \in 1 .. allocated
      /\ r.pc \in {"versioned", "registered", "running", "trained"} => r.version \in Nat \ {0}
      /\ r.pc \in {"registered", "running", "trained"} => r.dataset \in Ids
  BY <1>0, TrainingShapes
<1>2. [r EXCEPT !.pc = "ended"] \in TrainingRecords
  <2>1. [r EXCEPT !.pc = "ended"] = Step("ended", r.key, r.version, r.dataset)
    BY <1>1 DEF Step
  <2> QED
    BY <1>0, <1>1, <2>1, TrainingShapes
<1>3. \A pc \in {"running", "trained"} :
        r.pc \in {"registered", "running"} => [r EXCEPT !.pc = pc] \in TrainingRecords
  <2> SUFFICES ASSUME NEW pc \in {"running", "trained"}, r.pc \in {"registered", "running"}
               PROVE  [r EXCEPT !.pc = pc] \in TrainingRecords
    OBVIOUS
  <2>1. [r EXCEPT !.pc = pc] = Step(pc, r.key, r.version, r.dataset)
    BY <1>1 DEF Step
  <2> QED
    BY <1>0, <1>1, <2>1, TrainingShapes
<1>4. NoRun \in RunRows /\ \A i \in Ids : \A s \in {"PROCESSING", "SUCCESS"} :
        [dataset |-> i, status |-> s] \in RunRows
  BY DEF RunRows
<1>5. ASSUME FetchFiles(t) PROVE TypeInv'
  <2>1. FilesOf(Trainer[t]) # {} => LatestFile(Trainer[t]).key \in 1 .. allocated
    BY <1>0, LatestFileIsOne DEF FilesOf
  <2>2. FilesOf(Trainer[t]) # {} =>
          Step("fetched", LatestFile(Trainer[t]).key, 0, 0) \in TrainingRecords
    BY <1>0, <2>1, TrainingShapes
  <2> QED
    BY <1>0, <1>2, <1>5, <2>2 DEF FetchFiles, Ends, SetTraining
<1>6. ASSUME ReadTrainingVersion(t) PROVE TypeInv'
  <2>1. NextVersion(Trainer[t]) \in Nat \ {0}
    BY <1>0, NextVersionIsNew
  <2>2. Step("versioned", r.key, NextVersion(Trainer[t]), 0) \in TrainingRecords
    BY <1>0, <1>1, <1>6, <2>1, TrainingShapes DEF ReadTrainingVersion
  <2> QED
    BY <1>0, <1>6, <2>2 DEF ReadTrainingVersion, SetTraining
<1>7. ASSUME RegisterTraining(t) PROVE TypeInv'
  <2>1. r.key \in 1 .. allocated /\ r.version \in Nat \ {0}
    BY <1>1, <1>7 DEF RegisterTraining
  <2>2. InsertDataset(Trainer[t], r.key, r.version)
    BY <1>7 DEF RegisterTraining
  <2>3. /\ datasets' \in [Ids -> DatasetRows] /\ registered' \in 0 .. MaxDatasets
        /\ registered + 1 \in Ids /\ horizon \in 0 .. registered'
    BY <1>0, <2>1, <2>2, InsertDatasetType
  <2>4. Step("registered", r.key, r.version, registered + 1) \in TrainingRecords
    BY <1>0, <2>1, <2>3, TrainingShapes
  <2> QED
    BY <1>0, <1>7, <2>3, <2>4 DEF RegisterTraining, SetTraining
<1>8. ASSUME CreateRun(t) PROVE TypeInv'
  <2>1. r.pc = "registered" /\ r.dataset \in Ids
    BY <1>1, <1>8 DEF CreateRun
  <2>2. runs' \in [Trainings -> RunRows]
    BY <1>4, <1>8, <2>1 DEF CreateRun
  <2>3. training' \in [Trainings -> TrainingRecords]
    BY <1>2, <1>3, <1>8, <2>1 DEF CreateRun, Ends, SetTraining
  <2> QED
    BY <1>0, <1>8, <2>2, <2>3 DEF CreateRun
<1>9. ASSUME ReadData(t) PROVE TypeInv'
  <2>1. r.pc = "running"
    BY <1>9 DEF ReadData
  <2>2. training' \in [Trainings -> TrainingRecords]
    BY <1>2, <1>3, <1>9, <2>1 DEF ReadData, Ends, SetTraining
  <2> QED
    BY <1>0, <1>9, <2>2 DEF ReadData
<1>10. ASSUME FinishRun(t) PROVE TypeInv'
  <2>1. HasRun(t) => runs[t].dataset \in Ids /\ [runs[t] EXCEPT !.status = "SUCCESS"] \in RunRows
    BY DEF HasRun, RunRows, NoRun
  <2>2. runs' \in [Trainings -> RunRows]
    BY <1>10, <2>1 DEF FinishRun
  <2> QED
    BY <1>0, <1>2, <1>10, <2>2 DEF FinishRun, Ends, SetTraining
<1>11. ASSUME Abandon(t) PROVE TypeInv'
  BY <1>0, <1>2, <1>11 DEF Abandon, Ends, SetTraining, Fault
<1> QED
  BY <1>5, <1>6, <1>7, <1>8, <1>9, <1>10, <1>11 DEF TrainingStep

\* What cleanups do keeps the types.
LEMMA CleanerTypes ==
    ASSUME TypeInv, NEW c \in Cleaners,
           \/ SelectExpired(c) \/ CleanupStep(c) \/ CleanerFails(c)
           \/ \E k \in Keys : SkipFile(c, k)
    PROVE  TypeInv'
<1> USE RegistryAssumption
<1> USE DEF TypeInv, TypeOK, storage, tables, SetCleaner
<1>0. /\ cleaner[c].ids \subseteq Ids /\ cleaner[c].keys \subseteq Keys
      /\ cleaner[c].doomed \subseteq Trainings
      /\ allocated \in Nat
      /\ allocated' = allocated => RequestRecords' = RequestRecords /\ TrainingRecords' = TrainingRecords
  BY DEF RequestRecords, TrainingRecords, CleanerRecords
<1>1. /\ Idle \in CleanerRecords
      /\ \A pc \in {"idle", "selected", "deleting", "removing"}, ids \in SUBSET Ids,
            doomed \in SUBSET Trainings, keys \in SUBSET Keys :
            Sweep(pc, ids, doomed, keys) \in CleanerRecords
  BY DEF CleanerRecords, Sweep, Idle
<1>2. ASSUME NEW k, AfterKey(c, k) PROVE cleaner' \in [Cleaners -> CleanerRecords]
  <2>1. Sweep("removing", {}, {}, cleaner[c].keys \ {k}) \in CleanerRecords
    BY <1>0, <1>1
  <2> QED
    BY <1>1, <1>2, <2>1 DEF AfterKey
<1>3. ASSUME SelectExpired(c) PROVE TypeInv'
  <2> DEFINE chosen == {i \in Expired : Cardinality({h \in Expired : h < i}) < Batch}
             keys == {datasets[i].key : i \in chosen}
  <2>1. \A i \in Expired : i \in Ids /\ Exists(i)
    BY DEF Expired, Cutoff, Ids
  <2>2. \A i \in chosen : i \in Ids /\ datasets[i].key \in Keys
    BY <2>1, DatasetShapes
  <2>3. chosen \in SUBSET Ids /\ keys \in SUBSET Keys
    BY <2>2
  <2>4. cleaner' = [cleaner EXCEPT ![c] = Sweep("selected", chosen, {}, keys)]
    BY <1>3 DEF SelectExpired
  <2> HIDE DEF chosen, keys
  <2>5. cleaner' \in [Cleaners -> CleanerRecords]
    BY <1>1, <2>3, <2>4
  <2> QED
    BY <1>0, <1>3, <2>5 DEF SelectExpired
<1>4. ASSUME DeleteRuns(c) PROVE TypeInv'
  <2> DEFINE hit == {t \in Trainings : HasRun(t) /\ runs[t].dataset \in cleaner[c].ids}
  <2>1. Sweep("deleting", cleaner[c].ids, hit, cleaner[c].keys) \in CleanerRecords
    BY <1>0, <1>1
  <2> QED
    BY <1>0, <1>4, <2>1 DEF DeleteRuns
<1>5. ASSUME DeleteDatasets(c) PROVE TypeInv'
  <2>1. NoDataset \in DatasetRows /\ NoRun \in RunRows
    BY DEF DatasetRows, RunRows
  <2>2. datasets' \in [Ids -> DatasetRows] /\ runs' \in [Trainings -> RunRows]
    BY <1>5, <2>1 DEF DeleteDatasets
  <2>3. Sweep("removing", {}, {}, cleaner[c].keys) \in CleanerRecords
    BY <1>0, <1>1
  <2>4. cleaner' \in [Cleaners -> CleanerRecords]
    BY <1>1, <1>5, <2>3 DEF DeleteDatasets
  <2>5. swept' \subseteq Keys
    BY <1>0, <1>5 DEF DeleteDatasets
  <2> QED
    BY <1>0, <1>5, <2>2, <2>4, <2>5 DEF DeleteDatasets
<1>6. ASSUME NEW k \in Keys, RemoveFile(c, k) PROVE TypeInv'
  BY <1>0, <1>2, <1>6 DEF RemoveFile
<1>7. ASSUME NEW k \in Keys, SkipFile(c, k) PROVE TypeInv'
  BY <1>0, <1>2, <1>7 DEF SkipFile, Fault
<1>8. ASSUME CleanerFails(c) PROVE TypeInv'
  BY <1>0, <1>1, <1>8 DEF CleanerFails, Fault
<1> QED
  BY <1>3, <1>4, <1>5, <1>6, <1>7, <1>8 DEF CleanupStep

\* Every step is one of the clock, a failed upload, a request, a training, or a
\* cleanup.
LEMMA NextCases ==
    ASSUME Next
    PROVE  \/ Age \/ StoreFails
           \/ \E q \in Requests : Client(q)
           \/ \E t \in Trainings : TrainingStep(t) \/ Abandon(t)
           \/ \E c \in Cleaners :
                \/ SelectExpired(c) \/ CleanupStep(c) \/ CleanerFails(c)
                \/ \E k \in Keys : SkipFile(c, k)
BY DEF Next

LEMMA TypeInductive == TypeInv /\ [Next]_vars => TypeInv'
<1> SUFFICES ASSUME TypeInv, [Next]_vars PROVE TypeInv'
  OBVIOUS
<1>0. /\ allocated \in Nat
      /\ allocated' = allocated => RequestRecords' = RequestRecords /\ TrainingRecords' = TrainingRecords
  BY RegistryAssumption DEF TypeInv, TypeOK, RequestRecords, TrainingRecords
<1>1. CASE Age
  BY <1>0, <1>1, RegistryAssumption DEF Age, TypeInv, TypeOK, storage, tables
<1>2. CASE StoreFails
  <2>1. allocated' \in 0 .. MaxKeys /\ allocated' = allocated + 1 /\ allocated' >= allocated
    BY <1>2, RegistryAssumption DEF StoreFails, TypeInv, TypeOK
  <2>2. /\ request' \in [Requests -> RequestRecords']
        /\ training' \in [Trainings -> TrainingRecords']
        /\ files' \subseteq [key : 1 .. allocated', owner : Users, at : Nat \ {0}]
    BY <1>0, <1>2, <2>1, RecordsGrow DEF StoreFails, TypeInv, TypeOK, tables
  <2>3. objects' \subseteq 1 .. allocated'
    BY <1>0, <1>2, <2>1 DEF StoreFails, TypeInv, TypeOK
  <2> QED
    BY <1>2, <2>1, <2>2, <2>3, RegistryAssumption DEF StoreFails, TypeInv, TypeOK, tables, Fault
<1>3. CASE UNCHANGED vars
  BY <1>0, <1>3 DEF vars, storage, tables, TypeInv, TypeOK
<1> QED
  BY <1>1, <1>2, <1>3, NextCases, RequestTypes, TrainingTypes, CleanerTypes

LEMMA TypeInvHolds == Spec => []TypeInv
<1>1. Init => TypeInv
  <2> SUFFICES ASSUME Init PROVE TypeInv
    OBVIOUS
  <2> USE RegistryAssumption
  <2>1. allocated = 0 /\ NoDataset \in DatasetRows /\ NoRun \in RunRows
        /\ NoCall \in RequestRecords /\ NewTraining \in TrainingRecords /\ Idle \in CleanerRecords
    BY RequestShapes, TrainingShapes DEF Init, DatasetRows, RunRows, CleanerRecords, Idle, Sweep
  <2> QED
    BY <2>1, FS_EmptySet DEF Init, TypeInv, TypeOK
<1> QED
  BY <1>1, TypeInductive, PTL DEF Spec

\* The storage, the tables and what requests, trainings and cleanups hold keep
\* their types under every step.
THEOREM TypeCorrect == Spec => []TypeOK
<1>1. TypeInv => TypeOK
  BY DEF TypeInv
<1> QED
  BY <1>1, TypeInvHolds, PTL

-----------------------------------------------------------------------------
(***************************************************************************)
(* Runs and their datasets.                                                *)
(***************************************************************************)

\* A run always has its dataset: the foreign key refuses the run whose dataset
\* is gone and the cleanup whose dataset has got another run.
THEOREM RunsReferToDatasets == Spec => []RunHasDataset
<1>1. Init => RunHasDataset
  BY DEF Init, RunHasDataset, HasRun, NoRun
<1>2. TypeInv /\ RunHasDataset /\ [Next]_vars => RunHasDataset'
  <2> SUFFICES ASSUME TypeInv, RunHasDataset, [Next]_vars PROVE RunHasDataset'
    OBVIOUS
  <2> USE DEF storage, tables
  <2>1. ASSUME runs' = runs, datasets' = datasets PROVE RunHasDataset'
    BY <2>1 DEF RunHasDataset, HasRun, Exists
  <2>2. ASSUME NEW u \in Users, NEW k, NEW v \in Nat \ {0}, InsertDataset(u, k, v), runs' = runs
        PROVE  RunHasDataset'
    <3>1. \A i : Exists(i) => Exists(i)'
      BY <2>2 DEF Exists, InsertDataset, TypeInv, TypeOK
    <3> QED
      BY <2>2, <3>1 DEF RunHasDataset, HasRun
  <2>3. ASSUME NEW q \in Requests, Client(q) PROVE RunHasDataset'
    <3>1. CASE RegisterUpload(q)
      <4>1. request[q].user \in Users /\ request[q].version \in Nat \ {0}
        BY <3>1, RequestShapes, RegistryAssumption DEF RegisterUpload, TypeInv, TypeOK
      <4> QED
        BY <2>2, <3>1, <4>1 DEF RegisterUpload
    <3> QED
      BY <2>1, <2>3, <3>1 DEF Client, RequestStep, StoreObject, FindFile, AddFileMetadata,
           ReadVersion, DeleteMetadata, DeleteObject, RequestFails
  <2>4. ASSUME NEW t \in Trainings, TrainingStep(t) \/ Abandon(t) PROVE RunHasDataset'
    <3>1. CASE RegisterTraining(t)
      <4>1. Trainer[t] \in Users /\ training[t].version \in Nat \ {0}
        BY <3>1, TrainingShapes, RegistryAssumption DEF RegisterTraining, TypeInv, TypeOK
      <4> QED
        BY <2>2, <3>1, <4>1 DEF RegisterTraining
    <3>2. CASE CreateRun(t)
      BY <3>2 DEF CreateRun, RunHasDataset, HasRun, Exists, TypeInv, TypeOK
    <3>3. CASE FinishRun(t)
      <4>1. \A s \in Trainings : HasRun(s)' => HasRun(s) /\ runs'[s].dataset = runs[s].dataset
        BY <3>3 DEF FinishRun, HasRun, TypeInv, TypeOK, RunRows, NoRun
      <4>2. datasets' = datasets
        BY <3>3 DEF FinishRun
      <4> QED
        BY <4>1, <4>2 DEF RunHasDataset, Exists
    <3> QED
      BY <2>1, <2>4, <3>1, <3>2, <3>3 DEF TrainingStep, FetchFiles, ReadTrainingVersion,
           ReadData, Abandon
  <2>5. ASSUME NEW c \in Cleaners, DeleteDatasets(c) PROVE RunHasDataset'
    <3> DEFINE ids == {i \in cleaner[c].ids : Exists(i)}
    <3>1. CASE \E t \in Trainings \ cleaner[c].doomed : HasRun(t) /\ runs[t].dataset \in ids
      BY <2>1, <2>5, <3>1 DEF DeleteDatasets
    <3>2. CASE ~ \E t \in Trainings \ cleaner[c].doomed : HasRun(t) /\ runs[t].dataset \in ids
      <4>1. /\ datasets' = [i \in Ids |-> IF i \in ids THEN NoDataset ELSE datasets[i]]
            /\ runs' = [t \in Trainings |-> IF t \in cleaner[c].doomed THEN NoRun ELSE runs[t]]
        BY <2>5, <3>2 DEF DeleteDatasets
      <4>2. ASSUME NEW t \in Trainings, HasRun(t)' PROVE Exists(runs[t].dataset)'
        <5>1. t \notin cleaner[c].doomed /\ runs'[t] = runs[t] /\ HasRun(t)
          BY <4>1, <4>2 DEF HasRun, NoRun
        <5>2. runs[t].dataset \notin ids /\ Exists(runs[t].dataset)
          BY <3>2, <5>1 DEF RunHasDataset
        <5>3. runs[t].dataset \in Ids
          BY <5>1 DEF TypeInv, TypeOK, RunRows, HasRun, NoRun
        <5> QED
          BY <4>1, <5>1, <5>2, <5>3 DEF Exists
      <4> QED
        BY <4>2 DEF RunHasDataset
    <3> QED
      BY <3>1, <3>2
  <2>6. ASSUME NEW c \in Cleaners,
               \/ SelectExpired(c) \/ CleanupStep(c) \/ CleanerFails(c)
               \/ \E k \in Keys : SkipFile(c, k)
        PROVE  RunHasDataset'
    BY <2>1, <2>5, <2>6 DEF CleanupStep, SelectExpired, DeleteRuns, RemoveFile, SkipFile, CleanerFails
  <2>7. CASE Age \/ StoreFails \/ UNCHANGED vars
    BY <2>1, <2>7 DEF Age, StoreFails, vars
  <2> QED
    BY <2>3, <2>4, <2>6, <2>7, NextCases
<1> QED
  BY <1>1, <1>2, TypeInvHolds, PTL DEF Spec

-----------------------------------------------------------------------------
(***************************************************************************)
(* Files and their rows.                                                   *)
(***************************************************************************)

\* A step that leaves requests and rows alone and gives up no unswept file.
LEMMA FilesFrame ==
    ASSUME FilesInv, request' = request, files' = files,
           objects \cup swept \subseteq objects' \cup swept', swept \subseteq swept',
           \A c \in Cleaners : cleaner[c]'.pc = "removing" => cleaner[c]'.keys \subseteq swept'
    PROVE  FilesInv'
BY DEF FilesInv, MissingFilesWereSwept, FileRow

LEMMA FilesInvRequests ==
    ASSUME TypeInv, FilesInv, NEW q \in Requests, Client(q)
    PROVE  FilesInv'
<1> USE DEF storage, tables
<1> DEFINE r == request[q]
<1>1. /\ allocated \in Nat
      /\ \A p \in Requests : request[p].pc # "idle" => request[p].key \in 1 .. allocated
      /\ \A f \in files : f.key \in 1 .. allocated
      /\ request \in [Requests -> RequestRecords]
  <2>1. allocated \in Nat /\ request \in [Requests -> RequestRecords]
    BY RegistryAssumption DEF TypeInv, TypeOK
  <2> QED
    BY <2>1, RequestShapes DEF TypeInv, TypeOK
<1>2. ASSUME NEW u \in Users, NEW d \in BOOLEAN, StoreObject(q, u, d) PROVE FilesInv'
  <2>1. /\ request' = [request EXCEPT ![q] = Call("stored", u, allocated + 1, 0, d)]
        /\ objects' = objects \cup {allocated + 1} /\ swept' = swept /\ files' = files
        /\ cleaner' = cleaner
    BY <1>2 DEF StoreObject, Goto
  <2>2. /\ request'[q].pc = "stored" /\ request'[q].key = allocated + 1
        /\ \A p \in Requests \ {q} : request'[p] = request[p]
    BY <1>1, <2>1 DEF Call
  <2>3. /\ \A f \in files : f.key # allocated + 1
        /\ \A p \in Requests : request[p].pc # "idle" => request[p].key # allocated + 1
    BY <1>1
  <2> QED
    BY <2>1, <2>2, <2>3 DEF FilesInv, MissingFilesWereSwept, FileRow
<1>3. ASSUME NEW f \in files, FindFile(q, f) PROVE FilesInv'
  <2>1. /\ request' = [request EXCEPT ![q] = Call("found", f.owner, f.key, 0, FALSE)]
        /\ UNCHANGED <<objects, swept, files, cleaner>>
    BY <1>3 DEF FindFile, Goto
  <2>2. /\ request'[q].pc = "found" /\ request'[q].key = f.key
        /\ \A p \in Requests \ {q} : request'[p] = request[p]
    BY <1>1, <2>1 DEF Call
  <2>3. \A p \in Requests : request[p].pc = "stored" => request[p].key # f.key
    BY DEF FilesInv, FileRow
  <2>4. MissingFilesWereSwept'
        /\ \A c \in Cleaners : cleaner'[c].pc = "removing" => cleaner'[c].keys \subseteq swept'
    BY <2>1 DEF FilesInv, MissingFilesWereSwept
  <2>5. \A k : FileRow(k)' = FileRow(k)
    BY <2>1 DEF FileRow
  <2>6. ASSUME NEW p \in Requests, request'[p].pc = "stored"
        PROVE  /\ request'[p].key \in objects' \cup swept' /\ FileRow(request'[p].key) = {}
               /\ \A x \in Requests \ {p} :
                    request'[x].pc \in {"stored", "found", "unfiled"} =>
                        request'[x].key # request'[p].key
    <3>1. p # q /\ request'[p] = request[p]
      BY <2>2, <2>6
    <3>2. \A x \in Requests \ {p} :
            request[x].pc \in {"stored", "found", "unfiled"} => request[x].key # request[p].key
      BY <2>6, <3>1 DEF FilesInv
    <3>3. f.key # request[p].key
      BY <2>3, <2>6, <3>1
    <3>4. \A x \in Requests \ {p} :
            request'[x].pc \in {"stored", "found", "unfiled"} => request'[x].key # request'[p].key
      BY <2>2, <3>1, <3>2, <3>3
    <3> QED
      BY <2>1, <2>6, <3>1, <3>4 DEF FilesInv
  <2>7. ASSUME NEW p \in Requests, request'[p].pc = "unfiled"
        PROVE  FileRow(request'[p].key) = {}
    BY <2>2, <2>7 DEF FilesInv
  <2> QED
    BY <2>4, <2>5, <2>6, <2>7 DEF FilesInv
<1>4. ASSUME AddFileMetadata(q) PROVE FilesInv'
  <2>1. r.pc = "stored" /\ UNCHANGED <<objects, swept, cleaner>>
        /\ files' = files \cup {[key |-> r.key, owner |-> r.user, at |-> Now]}
    BY <1>4 DEF AddFileMetadata
  <2>2. /\ request'[q].pc \in {"idle", "filed"}
        /\ \A p \in Requests \ {q} : request'[p] = request[p]
    <3>1. [r EXCEPT !.pc = "filed"].pc = "filed"
      <4>1. r = Call("stored", r.user, r.key, r.version, r.register)
        BY <1>1, <2>1, RequestShapes
      <4> QED
        BY <4>1 DEF Call
    <3>2. NoCall.pc = "idle"
      BY DEF NoCall, Call
    <3>3. \/ request' = [request EXCEPT ![q] = [r EXCEPT !.pc = "filed"]]
          \/ request' = [request EXCEPT ![q] = NoCall]
      BY <1>4 DEF AddFileMetadata, Goto, Reply
    <3> QED
      BY <1>1, <3>1, <3>2, <3>3
  <2>3. \A p \in Requests \ {q} :
          request[p].pc \in {"stored", "unfiled"} => request[p].key # r.key
    BY <2>1 DEF FilesInv
  <2>4. \A f \in files' : f \in files \/ f.key = r.key
    BY <2>1
  <2>5. r.key \in objects \cup swept
    BY <2>1 DEF FilesInv
  <2> QED
    BY <2>1, <2>2, <2>3, <2>4, <2>5 DEF FilesInv, MissingFilesWereSwept, FileRow
<1>5. ASSUME ReadVersion(q) PROVE FilesInv'
  <2>1. /\ request'[q].pc = "versioned"
        /\ \A p \in Requests \ {q} : request'[p] = request[p]
        /\ UNCHANGED <<objects, swept, files, cleaner>>
    BY <1>1, <1>5 DEF ReadVersion, Goto, Call
  <2> QED
    BY <2>1 DEF FilesInv, MissingFilesWereSwept, FileRow
<1>6. ASSUME RegisterUpload(q) \/ RequestFails(q) PROVE FilesInv'
  <2>1. /\ request'[q].pc = "idle"
        /\ \A p \in Requests \ {q} : request'[p] = request[p]
        /\ UNCHANGED <<objects, swept, files, cleaner>>
    BY <1>1, <1>6 DEF RegisterUpload, RequestFails, Reply, Goto, NoCall, Call
  <2> QED
    BY <2>1 DEF FilesInv, MissingFilesWereSwept, FileRow
<1>7. ASSUME DeleteMetadata(q) PROVE FilesInv'
  <2>1. /\ r.pc = "found" /\ UNCHANGED <<objects, swept, cleaner>>
        /\ files' = files \ FileRow(r.key)
    BY <1>7 DEF DeleteMetadata
  <2>2. /\ request'[q].pc = "unfiled" /\ request'[q].key = r.key
        /\ \A p \in Requests \ {q} : request'[p] = request[p]
    <3>1. [r EXCEPT !.pc = "unfiled"].pc = "unfiled" /\ [r EXCEPT !.pc = "unfiled"].key = r.key
      <4>1. r = Call("found", r.user, r.key, r.version, r.register)
        BY <1>1, <2>1, RequestShapes
      <4> QED
        BY <4>1 DEF Call
    <3> QED
      BY <1>1, <1>7, <3>1 DEF DeleteMetadata, Goto
  <2>3. \A p \in Requests : request[p].pc = "stored" => request[p].key # r.key
    <3>1. \A p \in Requests \ {q} : request[p].pc = "stored" => r.key # request[p].key
      BY <2>1 DEF FilesInv
    <3> QED
      BY <2>1, <3>1
  <2> QED
    BY <2>1, <2>2, <2>3 DEF FilesInv, MissingFilesWereSwept, FileRow
<1>8. ASSUME DeleteObject(q) PROVE FilesInv'
  <2>1. /\ r.pc = "unfiled" /\ objects' = objects \ {r.key}
        /\ UNCHANGED <<swept, files, cleaner>>
    BY <1>8 DEF DeleteObject
  <2>2. /\ request'[q].pc = "idle"
        /\ \A p \in Requests \ {q} : request'[p] = request[p]
    BY <1>1, <1>8 DEF DeleteObject, Reply, Goto, NoCall, Call
  <2>3. \A f \in files : f.key # r.key
    BY <2>1 DEF FilesInv, FileRow
  <2>4. \A p \in Requests \ {q} : request[p].pc = "stored" => request[p].key # r.key
    <3>1. \A p \in Requests \ {q} : request[p].pc = "stored" => r.key # request[p].key
      BY <2>1 DEF FilesInv
    <3> QED
      BY <3>1
  <2> QED
    BY <2>1, <2>2, <2>3, <2>4 DEF FilesInv, MissingFilesWereSwept, FileRow
<1> QED
  BY <1>2, <1>3, <1>4, <1>5, <1>6, <1>7, <1>8 DEF Client, RequestStep

LEMMA FilesInvCleaners ==
    ASSUME TypeInv, FilesInv, NEW c \in Cleaners,
           \/ SelectExpired(c) \/ CleanupStep(c) \/ CleanerFails(c)
           \/ \E k \in Keys : SkipFile(c, k)
    PROVE  FilesInv'
<1> USE DEF storage, tables, SetCleaner
<1>1. cleaner \in [Cleaners -> CleanerRecords]
  BY DEF TypeInv, TypeOK
<1>2. Idle.pc # "removing" /\ \A pc, ids, doomed, keys :
        Sweep(pc, ids, doomed, keys).pc = pc /\ Sweep(pc, ids, doomed, keys).keys = keys
  BY DEF Idle, Sweep
<1>3. \A d \in Cleaners : cleaner[d].pc = "removing" => cleaner[d].keys \subseteq swept
  BY DEF FilesInv
<1>4. ASSUME NEW k, cleaner[c].pc = "removing", AfterKey(c, k), swept' = swept
      PROVE  \A d \in Cleaners : cleaner'[d].pc = "removing" => cleaner'[d].keys \subseteq swept'
  BY <1>1, <1>2, <1>3, <1>4 DEF AfterKey
<1>5. ASSUME SelectExpired(c) \/ DeleteRuns(c) \/ CleanerFails(c) PROVE FilesInv'
  <2>1. /\ cleaner'[c].pc # "removing"
        /\ \A d \in Cleaners \ {c} : cleaner'[d] = cleaner[d]
        /\ UNCHANGED <<objects, swept, files, request>>
    BY <1>1, <1>2, <1>5 DEF SelectExpired, DeleteRuns, CleanerFails
  <2> QED
    BY <1>3, <2>1, FilesFrame
<1>6. ASSUME DeleteDatasets(c) PROVE FilesInv'
  <2>1. /\ cleaner'[c].pc = "removing" => cleaner'[c].keys \subseteq swept'
        /\ swept \subseteq swept'
        /\ \A d \in Cleaners \ {c} : cleaner'[d] = cleaner[d]
        /\ UNCHANGED <<objects, files, request>>
    BY <1>1, <1>2, <1>6 DEF DeleteDatasets
  <2>2. objects \cup swept \subseteq objects' \cup swept'
    BY <2>1
  <2> QED
    BY <1>3, <2>1, <2>2, FilesFrame
<1>7. ASSUME NEW k \in Keys, RemoveFile(c, k) PROVE FilesInv'
  <2>1. /\ cleaner[c].pc = "removing" /\ k \in swept /\ objects' = objects \ {k}
        /\ AfterKey(c, k) /\ UNCHANGED <<swept, files, request>>
    BY <1>3, <1>7 DEF RemoveFile
  <2>2. objects \cup swept \subseteq objects' \cup swept'
    BY <2>1
  <2> QED
    BY <1>4, <2>1, <2>2, FilesFrame
<1>8. ASSUME NEW k \in Keys, SkipFile(c, k) PROVE FilesInv'
  BY <1>4, <1>8, FilesFrame DEF SkipFile
<1> QED
  BY <1>5, <1>6, <1>7, <1>8 DEF CleanupStep

LEMMA FilesInvHolds == Spec => []FilesInv
<1>1. Init => FilesInv
  BY DEF Init, FilesInv, MissingFilesWereSwept, NoCall, Call, Idle, Sweep
<1>2. TypeInv /\ FilesInv /\ [Next]_vars => FilesInv'
  <2> SUFFICES ASSUME TypeInv, FilesInv, [Next]_vars PROVE FilesInv'
    OBVIOUS
  <2>1. \A c \in Cleaners : cleaner[c].pc = "removing" => cleaner[c].keys \subseteq swept
    BY DEF FilesInv
  <2>2. CASE Age \/ StoreFails \/ UNCHANGED vars
    BY <2>1, <2>2, FilesFrame DEF Age, StoreFails, vars, storage, tables
  <2>3. ASSUME NEW t \in Trainings, TrainingStep(t) \/ Abandon(t) PROVE FilesInv'
    BY <2>1, <2>3, FilesFrame DEF TrainingStep, FetchFiles, ReadTrainingVersion, RegisterTraining,
         CreateRun, ReadData, FinishRun, Abandon, storage, tables
  <2> QED
    BY <2>2, <2>3, NextCases, FilesInvRequests, FilesInvCleaners
<1> QED
  BY <1>1, <1>2, TypeInvHolds, PTL DEF Spec

\* A row of user_file whose file is gone was hit by a cleanup, however uploads,
\* deletions, failures and cleanups interleave.
THEOREM MissingFilesAccounted == Spec => []MissingFilesWereSwept
<1>1. FilesInv => MissingFilesWereSwept
  BY DEF FilesInv
<1> QED
  BY <1>1, FilesInvHolds, PTL

-----------------------------------------------------------------------------
(***************************************************************************)
(* What is held in memory of keys.                                         *)
(***************************************************************************)

\* What a request does to its key: it draws one, carries one on, or lets it be.
LEMMA ClientMoves ==
    ASSUME TypeInv, NEW q \in Requests, Client(q)
    PROVE  /\ \A p \in Requests \ {q} : request'[p] = request[p]
           /\ UNCHANGED <<training, cleaner, swept>>
           /\ \/ request'[q].pc = "stored" /\ request'[q].key = allocated + 1
              \/ /\ request'[q].pc \in {"filed", "versioned"}
                 /\ request[q].pc \in {"stored", "filed"} /\ request'[q].key = request[q].key
              \/ request'[q].pc \notin {"stored", "filed", "versioned"}
<1> USE DEF storage, tables
<1>1. /\ request \in [Requests -> RequestRecords]
      /\ request[q].pc # "idle" =>
            request[q] = Call(request[q].pc, request[q].user, request[q].key,
                              request[q].version, request[q].register)
  <2>1. allocated \in Nat /\ request \in [Requests -> RequestRecords]
    BY RegistryAssumption DEF TypeInv, TypeOK
  <2> QED
    BY <2>1, RequestShapes
<1>2. \A rec : Goto(q, rec) => request'[q] = rec /\ \A p \in Requests \ {q} : request'[p] = request[p]
  BY <1>1 DEF Goto
<1>3. /\ NoCall.pc = "idle"
      /\ \A pc, u, k, v, d : Call(pc, u, k, v, d).pc = pc /\ Call(pc, u, k, v, d).key = k
  BY DEF NoCall, Call
<1>4. \A pc : request[q].pc # "idle" =>
        /\ [request[q] EXCEPT !.pc = pc].pc = pc
        /\ [request[q] EXCEPT !.pc = pc].key = request[q].key
  BY <1>1 DEF Call
<1>5. ASSUME NEW u \in Users, NEW d \in BOOLEAN, StoreObject(q, u, d)
      PROVE  /\ Goto(q, Call("stored", u, allocated + 1, 0, d))
             /\ UNCHANGED <<training, cleaner, swept>>
  BY <1>5 DEF StoreObject
<1>8. ASSUME ReadVersion(q)
      PROVE  /\ request[q].pc = "filed" /\ UNCHANGED <<training, cleaner, swept>>
             /\ \E v : Goto(q, Call("versioned", request[q].user, request[q].key, v, request[q].register))
  BY <1>8 DEF ReadVersion
<1>9. ASSUME RegisterUpload(q) \/ DeleteObject(q) \/ RequestFails(q)
      PROVE  Goto(q, NoCall) /\ UNCHANGED <<training, cleaner, swept>>
  BY <1>9 DEF RegisterUpload, DeleteObject, RequestFails, Reply
<1>10. CASE \E u \in Users, d \in BOOLEAN : StoreObject(q, u, d)
  <2>1. PICK u \in Users, d \in BOOLEAN : Goto(q, Call("stored", u, allocated + 1, 0, d))
    BY <1>5, <1>10
  <2>2. request'[q].pc = "stored" /\ request'[q].key = allocated + 1
    BY <1>2, <1>3, <2>1
  <2> QED
    BY <1>2, <1>5, <1>10, <2>1, <2>2
<1>11. CASE \E f \in files : FindFile(q, f)
  <2>1. PICK f \in files : FindFile(q, f)
    BY <1>11
  <2>2. request' = [request EXCEPT ![q] = Call("found", f.owner, f.key, 0, FALSE)]
    BY <2>1 DEF FindFile, Goto
  <2>3. request'[q].pc = "found" /\ \A p \in Requests \ {q} : request'[p] = request[p]
    BY <1>1, <2>2 DEF Call
  <2>4. UNCHANGED <<training, cleaner, swept>>
    BY <2>1 DEF FindFile
  <2> QED
    BY <2>3, <2>4
<1>12. CASE AddFileMetadata(q) \/ DeleteMetadata(q)
  <2>1. UNCHANGED <<training, cleaner, swept>>
    BY <1>12 DEF AddFileMetadata, DeleteMetadata
  <2>2. \/ request[q].pc = "stored" /\ Goto(q, [request[q] EXCEPT !.pc = "filed"])
        \/ request[q].pc = "found" /\ Goto(q, [request[q] EXCEPT !.pc = "unfiled"])
        \/ Goto(q, NoCall)
    BY <1>12 DEF AddFileMetadata, DeleteMetadata, Reply
  <2>3. CASE request[q].pc = "stored" /\ Goto(q, [request[q] EXCEPT !.pc = "filed"])
    <3>1. request'[q] = [request[q] EXCEPT !.pc = "filed"] /\ \A p \in Requests \ {q} : request'[p] = request[p]
      BY <1>2, <2>3
    <3>2. request'[q].pc = "filed" /\ request'[q].key = request[q].key
      BY <1>4, <2>3, <3>1
    <3> QED
      BY <2>1, <2>3, <3>1, <3>2
  <2>4. CASE request[q].pc = "found" /\ Goto(q, [request[q] EXCEPT !.pc = "unfiled"])
    <3>1. request'[q] = [request[q] EXCEPT !.pc = "unfiled"] /\ \A p \in Requests \ {q} : request'[p] = request[p]
      BY <1>2, <2>4
    <3>2. request'[q].pc = "unfiled"
      BY <1>4, <2>4, <3>1
    <3> QED
      BY <2>1, <3>1, <3>2
  <2>5. CASE Goto(q, NoCall)
    BY <1>2, <1>3, <2>1, <2>5
  <2> QED
    BY <2>2, <2>3, <2>4, <2>5
<1>13. CASE ReadVersion(q)
  BY <1>2, <1>3, <1>8, <1>13
<1>14. CASE RegisterUpload(q) \/ DeleteObject(q) \/ RequestFails(q)
  BY <1>2, <1>3, <1>9, <1>14
<1> QED
  BY <1>10, <1>11, <1>12, <1>13, <1>14 DEF Client, RequestStep

\* Uploads and deletions pass on no key that is not filed.
LEMMA UnfiledRequests ==
    ASSUME TypeInv, FilesInv, \A p \in Requests : UnfiledApart(p),
           NEW q \in Requests, Client(q)
    PROVE  \A p \in Requests : UnfiledApart(p)'
<1>1. /\ allocated \in Nat
      /\ \A p \in Requests : request[p].pc # "idle" => request[p].key \in 1 .. allocated
      /\ \A t \in Trainings : training[t].key \in 0 .. allocated
  <2>1. /\ allocated \in Nat /\ request \in [Requests -> RequestRecords]
        /\ training \in [Trainings -> TrainingRecords]
    BY RegistryAssumption DEF TypeInv, TypeOK
  <2> QED
    BY <2>1, RequestShapes, TrainingShapes
<1>2. /\ \A p \in Requests \ {q} : request'[p] = request[p]
      /\ training' = training
  BY ClientMoves
<1>3. CASE request'[q].pc = "stored" /\ request'[q].key = allocated + 1
  <2>1. /\ \A p \in Requests : request[p].pc # "idle" => request[p].key # allocated + 1
        /\ \A t \in Trainings : training[t].key # allocated + 1
    BY <1>1
  <2> QED
    BY <1>2, <1>3, <2>1 DEF UnfiledApart
<1>4. CASE /\ request'[q].pc \in {"filed", "versioned"}
           /\ request[q].pc \in {"stored", "filed"} /\ request'[q].key = request[q].key
  <2>1. \A p \in Requests \ {q} : request[p].pc = "stored" => request[p].key # request[q].key
    BY <1>4 DEF FilesInv, UnfiledApart
  <2> QED
    BY <1>2, <1>4, <2>1 DEF UnfiledApart
<1>5. CASE request'[q].pc \notin {"stored", "filed", "versioned"}
  BY <1>2, <1>5 DEF UnfiledApart
<1> QED
  BY <1>3, <1>4, <1>5, ClientMoves

\* A training reads the key of a row.
LEMMA UnfiledTrainings ==
    ASSUME TypeInv, FilesInv, \A p \in Requests : UnfiledApart(p),
           NEW t \in Trainings, TrainingStep(t) \/ Abandon(t)
    PROVE  \A p \in Requests : UnfiledApart(p)'
<1> USE DEF storage, tables
<1>1. /\ training \in [Trainings -> TrainingRecords] /\ Trainer[t] \in Users
      /\ training[t] = Step(training[t].pc, training[t].key, training[t].version, training[t].dataset)
  <2>1. allocated \in Nat /\ training \in [Trainings -> TrainingRecords] /\ Trainer[t] \in Users
    BY RegistryAssumption DEF TypeInv, TypeOK, RegistryAssumption
  <2> QED
    BY <2>1, TrainingShapes
<1>2. request' = request
  BY DEF TrainingStep, FetchFiles, ReadTrainingVersion, RegisterTraining, CreateRun, ReadData,
     FinishRun, Abandon
<1>3. \A pc, k, v, i : Step(pc, k, v, i).pc = pc /\ Step(pc, k, v, i).key = k
  BY DEF Step
<1>4. \A pc : [training[t] EXCEPT !.pc = pc].pc = pc
  BY <1>1 DEF Step
<1>5. ASSUME NEW rec, SetTraining(t, rec),
             rec.pc \in {"fetched", "versioned"} =>
                \A q \in Requests : request[q].pc = "stored" => rec.key # request[q].key
      PROVE  \A p \in Requests : UnfiledApart(p)'
  <2>1. training'[t] = rec /\ \A s \in Trainings \ {t} : training'[s] = training[s]
    BY <1>1, <1>5 DEF SetTraining
  <2> QED
    BY <1>2, <1>5, <2>1 DEF UnfiledApart
<1>6. CASE FetchFiles(t)
  <2>1. CASE FilesOf(Trainer[t]) = {}
    BY <1>4, <1>5, <1>6, <2>1 DEF FetchFiles, Ends
  <2>2. CASE FilesOf(Trainer[t]) # {}
    <3> DEFINE k == LatestFile(Trainer[t]).key
    <3>1. LatestFile(Trainer[t]) \in FileRow(k)
      BY <1>1, <2>2, LatestFileIsOne DEF FilesOf, FileRow
    <3>2. SetTraining(t, Step("fetched", k, 0, 0))
      BY <1>6, <2>2 DEF FetchFiles
    <3>3. \A q \in Requests : request[q].pc = "stored" => k # request[q].key
      BY <3>1 DEF FilesInv
    <3> HIDE DEF k
    <3> QED
      BY <1>3, <1>5, <3>2, <3>3
  <2> QED
    BY <2>1, <2>2
<1>7. CASE ReadTrainingVersion(t)
  <2>1. /\ training[t].pc = "fetched"
        /\ \E v : SetTraining(t, Step("versioned", training[t].key, v, 0))
    BY <1>7 DEF ReadTrainingVersion
  <2>2. \A q \in Requests : request[q].pc = "stored" => training[t].key # request[q].key
    BY <2>1 DEF UnfiledApart
  <2> QED
    BY <1>3, <1>5, <2>1, <2>2
<1>8. CASE RegisterTraining(t)
  <2>1. \E k, v, i : SetTraining(t, Step("registered", k, v, i))
    BY <1>8 DEF RegisterTraining
  <2> QED
    BY <1>3, <1>5, <2>1
<1>9. CASE CreateRun(t) \/ ReadData(t) \/ FinishRun(t) \/ Abandon(t)
  <2>1. \E pc \in {"running", "trained", "ended"} : SetTraining(t, [training[t] EXCEPT !.pc = pc])
    BY <1>9 DEF CreateRun, ReadData, FinishRun, Abandon, Ends
  <2> QED
    BY <1>4, <1>5, <2>1
<1> QED
  BY <1>6, <1>7, <1>8, <1>9 DEF TrainingStep

\* What a cleanup has read stays right while rows are added, and while rows go
\* whose keys are noted as swept.
LEMMA ChosenKeysKept ==
    ASSUME NEW c \in Cleaners, ChosenKeys(c), cleaner'[c] = cleaner[c],
           1 .. registered \subseteq 1 .. registered', swept \subseteq swept',
           \A i \in 1 .. registered :
              /\ Exists(i)' => Exists(i) /\ datasets'[i].key = datasets[i].key
              /\ Exists(i) => Exists(i)' \/ datasets[i].key \in swept'
    PROVE  ChosenKeys(c)'
<1> SUFFICES ASSUME cleaner[c].pc \in {"selected", "deleting"}
             PROVE  /\ cleaner[c].ids \subseteq 1 .. registered'
                    /\ \A i \in cleaner[c].ids : Exists(i)' => datasets'[i].key \in cleaner[c].keys
                    /\ \A k \in cleaner[c].keys :
                        k \in swept' \/ \E i \in cleaner[c].ids : Exists(i)' /\ datasets'[i].key = k
  BY DEF ChosenKeys
<1>1. /\ cleaner[c].ids \subseteq 1 .. registered
      /\ \A i \in cleaner[c].ids : Exists(i) => datasets[i].key \in cleaner[c].keys
      /\ \A k \in cleaner[c].keys :
          k \in swept \/ \E i \in cleaner[c].ids : Exists(i) /\ datasets[i].key = k
  BY DEF ChosenKeys
<1>2. \A i \in cleaner[c].ids :
        /\ Exists(i)' => Exists(i) /\ datasets'[i].key = datasets[i].key
        /\ Exists(i) => Exists(i)' \/ datasets[i].key \in swept'
  BY <1>1
<1> QED
  BY <1>1, <1>2

\* A new row is beyond what any cleanup has chosen.
LEMMA InsertKeepsRows ==
    ASSUME TypeOK, NEW u, NEW k, NEW v, InsertDataset(u, k, v)
    PROVE  /\ 1 .. registered \subseteq 1 .. registered'
           /\ \A i \in 1 .. registered : (Exists(i)' <=> Exists(i)) /\ datasets'[i] = datasets[i]
<1>1. /\ registered \in Nat /\ registered' = registered + 1 /\ 1 .. registered \subseteq Ids
  BY RegistryAssumption DEF TypeOK, InsertDataset, Ids
<1>2. \A i \in 1 .. registered : datasets'[i] = datasets[i]
  BY <1>1 DEF TypeOK, InsertDataset
<1> QED
  BY <1>1, <1>2 DEF Exists

\* Cleanups read the keys of the rows they choose, and sweep what they delete.
LEMMA ChosenCleaners ==
    ASSUME TypeInv, \A d \in Cleaners : ChosenKeys(d), NEW c \in Cleaners,
           \/ SelectExpired(c) \/ CleanupStep(c) \/ CleanerFails(c)
           \/ \E k \in Keys : SkipFile(c, k)
    PROVE  \A d \in Cleaners : ChosenKeys(d)'
<1> USE DEF storage, tables, SetCleaner
<1>1. cleaner \in [Cleaners -> CleanerRecords]
  BY DEF TypeInv, TypeOK
<1>2. /\ Idle.pc = "idle"
      /\ \A pc, ids, doomed, keys :
            /\ Sweep(pc, ids, doomed, keys).pc = pc /\ Sweep(pc, ids, doomed, keys).ids = ids
            /\ Sweep(pc, ids, doomed, keys).keys = keys
  BY DEF Idle, Sweep
<1>3. ASSUME UNCHANGED <<datasets, registered, swept>>,
             \A d \in Cleaners \ {c} : cleaner'[d] = cleaner[d], ChosenKeys(c)'
      PROVE  \A d \in Cleaners : ChosenKeys(d)'
  <2>1. \A i : Exists(i)' <=> Exists(i)
    BY <1>3 DEF Exists
  <2>2. \A d \in Cleaners \ {c} : ChosenKeys(d)'
    BY <1>3, <2>1, ChosenKeysKept
  <2> QED
    BY <1>3, <2>2
<1>4. CASE SelectExpired(c)
  <2> DEFINE chosen == {i \in Expired : Cardinality({h \in Expired : h < i}) < Batch}
             keys == {datasets[i].key : i \in chosen}
  <2>1. /\ cleaner' = [cleaner EXCEPT ![c] = Sweep("selected", chosen, {}, keys)]
        /\ UNCHANGED <<datasets, registered, swept>>
    BY <1>4 DEF SelectExpired
  <2>2. Expired \subseteq 1 .. registered
    BY RegistryAssumption DEF Expired, Cutoff, TypeInv, TypeOK
  <2>3. /\ chosen \subseteq 1 .. registered
        /\ \A i \in chosen : datasets[i].key \in keys
        /\ \A k \in keys : \E i \in chosen : Exists(i) /\ datasets[i].key = k
    BY <2>2 DEF Expired
  <2> HIDE DEF chosen, keys
  <2>4. /\ cleaner'[c].ids = chosen /\ cleaner'[c].keys = keys
        /\ \A d \in Cleaners \ {c} : cleaner'[d] = cleaner[d]
    BY <1>1, <1>2, <2>1
  <2>5. \A i : Exists(i)' <=> Exists(i)
    BY <2>1 DEF Exists
  <2>6. ChosenKeys(c)'
    BY <2>1, <2>3, <2>4, <2>5 DEF ChosenKeys
  <2> QED
    BY <1>3, <2>1, <2>4, <2>6
<1>5. CASE DeleteRuns(c)
  <2>1. /\ cleaner[c].pc = "selected" /\ UNCHANGED <<datasets, registered, swept>>
        /\ \E hit : cleaner' = [cleaner EXCEPT
                ![c] = Sweep("deleting", cleaner[c].ids, hit, cleaner[c].keys)]
    BY <1>5 DEF DeleteRuns
  <2>2. /\ cleaner'[c].ids = cleaner[c].ids /\ cleaner'[c].keys = cleaner[c].keys
        /\ \A d \in Cleaners \ {c} : cleaner'[d] = cleaner[d]
    BY <1>1, <1>2, <2>1
  <2>3. \A i : Exists(i)' <=> Exists(i)
    BY <2>1 DEF Exists
  <2>4. ChosenKeys(c)'
    BY <2>1, <2>2, <2>3 DEF ChosenKeys
  <2> QED
    BY <1>3, <2>1, <2>2, <2>4
<1>6. CASE DeleteDatasets(c)
  <2> DEFINE ids == {i \in cleaner[c].ids : Exists(i)}
  <2>1. CASE \E t \in Trainings \ cleaner[c].doomed : HasRun(t) /\ runs[t].dataset \in ids
    <3>1. cleaner' = [cleaner EXCEPT ![c] = Idle] /\ UNCHANGED <<datasets, registered, swept>>
      BY <1>6, <2>1 DEF DeleteDatasets
    <3>2. cleaner'[c].pc = "idle" /\ \A d \in Cleaners \ {c} : cleaner'[d] = cleaner[d]
      BY <1>1, <1>2, <3>1
    <3> QED
      BY <1>3, <3>1, <3>2 DEF ChosenKeys
  <2>2. CASE ~ \E t \in Trainings \ cleaner[c].doomed : HasRun(t) /\ runs[t].dataset \in ids
    <3>1. /\ cleaner[c].pc = "deleting" /\ registered' = registered
          /\ cleaner' = [cleaner EXCEPT ![c] = Sweep("removing", {}, {}, cleaner[c].keys)]
          /\ datasets' = [i \in Ids |-> IF i \in ids THEN NoDataset ELSE datasets[i]]
          /\ swept' = swept \cup cleaner[c].keys
      BY <1>6, <2>2 DEF DeleteDatasets
    <3>2. cleaner'[c].pc = "removing" /\ \A d \in Cleaners \ {c} : cleaner'[d] = cleaner[d]
      BY <1>1, <1>2, <3>1
    <3>3. \A i \in ids : datasets[i].key \in cleaner[c].keys
      BY <3>1 DEF ChosenKeys
    <3>4. 1 .. registered \subseteq Ids
      BY RegistryAssumption DEF TypeInv, TypeOK, Ids
    <3>5. \A i \in 1 .. registered :
              /\ Exists(i)' => Exists(i) /\ datasets'[i].key = datasets[i].key
              /\ Exists(i) => Exists(i)' \/ datasets[i].key \in swept'
      <4> HIDE DEF ids
      <4> QED
        BY <3>1, <3>3, <3>4 DEF Exists, NoDataset
    <3>6. \A d \in Cleaners \ {c} : ChosenKeys(d)'
      BY <3>1, <3>2, <3>5, ChosenKeysKept
    <3> QED
      BY <3>2, <3>6 DEF ChosenKeys
  <2> QED
    BY <2>1, <2>2
<1>7. CASE (\E k \in Keys : RemoveFile(c, k) \/ SkipFile(c, k)) \/ CleanerFails(c)
  <2>1. UNCHANGED <<datasets, registered, swept>>
        /\ (CleanerFails(c) \/ \E k \in Keys : AfterKey(c, k))
    <3>1. CASE \E k \in Keys : RemoveFile(c, k) \/ SkipFile(c, k)
      BY <3>1 DEF RemoveFile, SkipFile
    <3>2. CASE CleanerFails(c)
      BY <3>2 DEF CleanerFails
    <3> QED
      BY <1>7, <3>1, <3>2
  <2>2. \/ cleaner' = [cleaner EXCEPT ![c] = Idle]
        \/ \E keys : cleaner' = [cleaner EXCEPT ![c] = Sweep("removing", {}, {}, keys)]
    BY <2>1 DEF CleanerFails, AfterKey
  <2>3. cleaner'[c].pc \in {"idle", "removing"} /\ \A d \in Cleaners \ {c} : cleaner'[d] = cleaner[d]
    BY <1>1, <1>2, <2>2
  <2>4. ChosenKeys(c)'
    BY <2>3 DEF ChosenKeys
  <2> QED
    BY <1>3, <2>1, <2>3, <2>4
<1> QED
  BY <1>4, <1>5, <1>6, <1>7 DEF CleanupStep

LEMMA KeysInvHolds == Spec => []KeysInv
<1>1. Init => KeysInv
  BY DEF Init, KeysInv, UnfiledApart, ChosenKeys, NoCall, Call, Idle, Sweep
<1>2. TypeInv /\ FilesInv /\ KeysInv /\ [Next]_vars => KeysInv'
  <2> SUFFICES ASSUME TypeInv, FilesInv, KeysInv, [Next]_vars PROVE KeysInv'
    OBVIOUS
  <2> USE DEF storage, tables
  <2>1. /\ \A q \in Requests : UnfiledApart(q)
        /\ \A c \in Cleaners : ChosenKeys(c)
    BY DEF KeysInv
  <2>2. ASSUME UNCHANGED <<request, training>> PROVE \A q \in Requests : UnfiledApart(q)'
    BY <2>1, <2>2 DEF UnfiledApart
  <2>3. ASSUME UNCHANGED <<datasets, registered, swept, cleaner>> PROVE \A c \in Cleaners : ChosenKeys(c)'
    BY <2>1, <2>3 DEF ChosenKeys, Exists
  <2>4. ASSUME UNCHANGED <<swept, cleaner>>, NEW u, NEW k, NEW v, InsertDataset(u, k, v)
        PROVE  \A c \in Cleaners : ChosenKeys(c)'
    <3>1. TypeOK
      BY DEF TypeInv
    <3> QED
      BY <2>1, <2>4, <3>1, InsertKeepsRows, ChosenKeysKept
  <2>5. CASE Age \/ StoreFails \/ UNCHANGED vars
    BY <2>2, <2>3, <2>5 DEF Age, StoreFails, vars, KeysInv
  <2>6. ASSUME NEW q \in Requests, Client(q) PROVE KeysInv'
    <3>1. \A p \in Requests : UnfiledApart(p)'
      BY <2>1, <2>6, UnfiledRequests
    <3>2. UNCHANGED <<swept, cleaner>>
      BY <2>6, ClientMoves
    <3>3. CASE RegisterUpload(q)
      <4>1. \E u, k, v : InsertDataset(u, k, v)
        BY <3>3 DEF RegisterUpload
      <4> QED
        BY <2>4, <3>1, <3>2, <4>1 DEF KeysInv
    <3>4. CASE ~RegisterUpload(q)
      <4>1. UNCHANGED <<datasets, registered>>
        BY <2>6, <3>4 DEF Client, RequestStep, StoreObject, FindFile, AddFileMetadata, ReadVersion,
           DeleteMetadata, DeleteObject, RequestFails
      <4> QED
        BY <2>3, <3>1, <3>2, <4>1 DEF KeysInv
    <3> QED
      BY <3>3, <3>4
  <2>7. ASSUME NEW t \in Trainings, TrainingStep(t) \/ Abandon(t) PROVE KeysInv'
    <3>1. \A p \in Requests : UnfiledApart(p)'
      BY <2>1, <2>7, UnfiledTrainings
    <3>2. CASE RegisterTraining(t)
      <4>1. UNCHANGED <<swept, cleaner>> /\ \E u, k, v : InsertDataset(u, k, v)
        BY <3>2 DEF RegisterTraining
      <4> QED
        BY <2>4, <3>1, <4>1 DEF KeysInv
    <3>3. CASE ~RegisterTraining(t)
      <4>1. UNCHANGED <<datasets, registered, swept, cleaner>>
        BY <2>7, <3>3 DEF TrainingStep, FetchFiles, ReadTrainingVersion, CreateRun, ReadData,
           FinishRun, Abandon
      <4> QED
        BY <2>3, <3>1, <4>1 DEF KeysInv
    <3> QED
      BY <3>2, <3>3
  <2>8. ASSUME NEW c \in Cleaners,
               \/ SelectExpired(c) \/ CleanupStep(c) \/ CleanerFails(c)
               \/ \E k \in Keys : SkipFile(c, k)
        PROVE  KeysInv'
    <3>1. UNCHANGED <<request, training>>
      BY <2>8 DEF CleanupStep, SelectExpired, DeleteRuns, DeleteDatasets, RemoveFile, SkipFile, CleanerFails
    <3> QED
      BY <2>1, <2>2, <2>8, <3>1, ChosenCleaners DEF KeysInv
  <2> QED
    BY <2>5, <2>6, <2>7, <2>8, NextCases
<1> QED
  BY <1>1, <1>2, TypeInvHolds, FilesInvHolds, PTL DEF Spec

-----------------------------------------------------------------------------
(***************************************************************************)
(* Cleanups, the datasets they have chosen and the runs they hold.         *)
(***************************************************************************)

\* The part of CleanersInv about trainings and cleanups.
HeldInv ==
    /\ \A t \in Trainings : HasRun(t) => training[t].pc \in {"running", "trained", "ended"}
    /\ \A c \in Cleaners :
        /\ cleaner[c].pc \in {"selected", "deleting"} /\ TtlSetting # "zero" =>
            cleaner[c].ids \subseteq 1 .. horizon
        /\ \A t \in cleaner[c].doomed : HasRun(t) /\ runs[t].dataset \in cleaner[c].ids
        /\ \A d \in Cleaners \ {c} : cleaner[c].doomed \cap cleaner[d].doomed = {}

\* A step that leaves runs, trainings and cleanups alone; time may pass.
LEMMA HeldFrame ==
    ASSUME HeldInv, runs' = runs, training' = training, cleaner' = cleaner,
           1 .. horizon \subseteq 1 .. horizon'
    PROVE  HeldInv'
BY DEF HeldInv, HasRun

LEMMA HeldInvTrainings ==
    ASSUME TypeInv, HeldInv, NEW t \in Trainings, TrainingStep(t) \/ Abandon(t)
    PROVE  HeldInv'
<1> DEFINE r == training[t]
<1>1. /\ \A s \in Trainings : training[s] \in TrainingRecords
      /\ training \in [Trainings -> TrainingRecords] /\ runs \in [Trainings -> RunRows]
      /\ r = Step(r.pc, r.key, r.version, r.dataset)
  <2>1. training \in [Trainings -> TrainingRecords] /\ runs \in [Trainings -> RunRows]
        /\ allocated \in Nat
    BY RegistryAssumption DEF TypeInv, TypeOK
  <2> QED
    BY <2>1, TrainingShapes
<1>2. \A pc : [r EXCEPT !.pc = pc].pc = pc
  BY <1>1 DEF Step
<1>3. ASSUME UNCHANGED <<runs, cleaner, horizon>>,
             \A s \in Trainings \ {t} : training'[s] = training[s],
             HasRun(t) => training'[t].pc \in {"running", "trained", "ended"}
      PROVE  HeldInv'
  BY <1>3 DEF HeldInv, HasRun
<1>4. ASSUME FetchFiles(t) \/ ReadTrainingVersion(t) \/ RegisterTraining(t) PROVE HeldInv'
  <2>1. ~HasRun(t)
    BY <1>4 DEF HeldInv, FetchFiles, ReadTrainingVersion, RegisterTraining
  <2>2. UNCHANGED <<runs, cleaner, horizon>>
    BY <1>4 DEF FetchFiles, ReadTrainingVersion, RegisterTraining, storage, tables
  <2>3. \E rec : training' = [training EXCEPT ![t] = rec]
    BY <1>4 DEF FetchFiles, ReadTrainingVersion, RegisterTraining, SetTraining, Ends
  <2>4. \A s \in Trainings \ {t} : training'[s] = training[s]
    BY <1>1, <2>3
  <2> QED
    BY <1>3, <2>1, <2>2, <2>4
<1>5. ASSUME CreateRun(t) PROVE HeldInv'
  <2>1. r.pc = "registered" /\ ~HasRun(t)
    BY <1>5 DEF CreateRun, HeldInv
  <2>2. CASE Exists(r.dataset)
    <3>1. /\ training'[t].pc = "running" /\ UNCHANGED <<cleaner, horizon>>
          /\ \A s \in Trainings \ {t} : training'[s] = training[s] /\ runs'[s] = runs[s]
      BY <1>1, <1>2, <1>5, <2>2 DEF CreateRun, SetTraining, storage
    <3>2. \A c \in Cleaners : t \notin cleaner[c].doomed
      BY <2>1 DEF HeldInv
    <3>3. \A c \in Cleaners : cleaner[c].doomed \subseteq Trainings
      BY DEF TypeInv, TypeOK, CleanerRecords
    <3>4. \A c \in Cleaners : \A s \in cleaner[c].doomed : s \in Trainings \ {t}
      BY <3>2, <3>3
    <3> QED
      BY <3>1, <3>4 DEF HeldInv, HasRun
  <2>3. CASE ~Exists(r.dataset)
    BY <1>1, <1>2, <1>3, <1>5, <2>1, <2>3 DEF CreateRun, Ends, SetTraining, storage
  <2> QED
    BY <2>2, <2>3
<1>6. ASSUME ReadData(t) \/ Abandon(t) PROVE HeldInv'
  <2>1. /\ training'[t].pc \in {"trained", "ended"} /\ UNCHANGED <<runs, cleaner, horizon>>
        /\ \A s \in Trainings \ {t} : training'[s] = training[s]
    BY <1>1, <1>2, <1>6 DEF ReadData, Abandon, Ends, SetTraining, storage, tables
  <2> QED
    BY <1>3, <2>1
<1>7. ASSUME FinishRun(t) PROVE HeldInv'
  <2>1. /\ training'[t].pc = "ended" /\ UNCHANGED <<cleaner, horizon>>
        /\ \A s \in Trainings \ {t} : training'[s] = training[s]
    BY <1>1, <1>2, <1>7 DEF FinishRun, Ends, SetTraining, storage, tables
  <2>2. \A s \in Trainings : /\ HasRun(s)' <=> HasRun(s)
                             /\ HasRun(s) => runs'[s].dataset = runs[s].dataset
    BY <1>1, <1>7 DEF FinishRun, HasRun, RunRows, NoRun
  <2>3. \A c \in Cleaners : cleaner[c].doomed \subseteq Trainings
    BY DEF TypeInv, TypeOK, CleanerRecords
  <2>4. \A c \in Cleaners : \A s \in cleaner[c].doomed :
            HasRun(s)' /\ runs'[s].dataset \in cleaner[c].ids
    BY <2>2, <2>3 DEF HeldInv
  <2>5. \A s \in Trainings : HasRun(s)' => training'[s].pc \in {"running", "trained", "ended"}
    BY <2>1, <2>2 DEF HeldInv
  <2> QED
    BY <2>1, <2>4, <2>5 DEF HeldInv
<1> QED
  BY <1>4, <1>5, <1>6, <1>7 DEF TrainingStep

LEMMA HeldInvCleaners ==
    ASSUME TypeInv, HeldInv, NEW c \in Cleaners,
           \/ SelectExpired(c) \/ CleanupStep(c) \/ CleanerFails(c)
           \/ \E k \in Keys : SkipFile(c, k)
    PROVE  HeldInv'
<1> USE DEF storage, tables, SetCleaner
<1>1. cleaner \in [Cleaners -> CleanerRecords] /\ runs \in [Trainings -> RunRows]
      /\ \A d \in Cleaners : cleaner[d].doomed \subseteq Trainings
  BY DEF TypeInv, TypeOK, CleanerRecords
<1>2. /\ Idle.pc = "idle" /\ Idle.doomed = {}
      /\ \A pc, ids, doomed, keys :
            /\ Sweep(pc, ids, doomed, keys).pc = pc /\ Sweep(pc, ids, doomed, keys).ids = ids
            /\ Sweep(pc, ids, doomed, keys).doomed = doomed
  BY DEF Idle, Sweep
<1>3. ASSUME UNCHANGED <<runs, training, horizon>>,
             \A d \in Cleaners \ {c} : cleaner'[d] = cleaner[d],
             cleaner'[c].doomed = {},
             cleaner'[c].pc \in {"selected", "deleting"} /\ TtlSetting # "zero" =>
                cleaner'[c].ids \subseteq 1 .. horizon
      PROVE  HeldInv'
  BY <1>3 DEF HeldInv, HasRun
<1>4. ASSUME SelectExpired(c) PROVE HeldInv'
  <2> DEFINE chosen == {i \in Expired : Cardinality({h \in Expired : h < i}) < Batch}
             keys == {datasets[i].key : i \in chosen}
  <2>1. /\ cleaner' = [cleaner EXCEPT ![c] = Sweep("selected", chosen, {}, keys)]
        /\ UNCHANGED <<runs, training, horizon>>
    BY <1>4 DEF SelectExpired
  <2>2. TtlSetting # "zero" => chosen \subseteq 1 .. horizon
    BY DEF Expired, Cutoff
  <2> HIDE DEF chosen, keys
  <2>3. cleaner'[c].doomed = {} /\ cleaner'[c].ids = chosen
        /\ \A d \in Cleaners \ {c} : cleaner'[d] = cleaner[d]
    BY <1>1, <1>2, <2>1
  <2> QED
    BY <1>3, <2>1, <2>2, <2>3
<1>5. ASSUME DeleteRuns(c) PROVE HeldInv'
  <2> DEFINE hit == {t \in Trainings : HasRun(t) /\ runs[t].dataset \in cleaner[c].ids}
  <2>1. /\ cleaner[c].pc = "selected" /\ hit \cap Doomed = {}
        /\ cleaner' = [cleaner EXCEPT ![c] = Sweep("deleting", cleaner[c].ids, hit, cleaner[c].keys)]
        /\ UNCHANGED <<runs, training, horizon>>
    BY <1>5 DEF DeleteRuns
  <2>2. \A d \in Cleaners : hit \cap cleaner[d].doomed = {}
    BY <2>1 DEF Doomed
  <2>3. \A t \in hit : HasRun(t) /\ runs[t].dataset \in cleaner[c].ids
    OBVIOUS
  <2> HIDE DEF hit
  <2>4. /\ cleaner'[c].doomed = hit /\ cleaner'[c].ids = cleaner[c].ids
        /\ \A d \in Cleaners \ {c} : cleaner'[d] = cleaner[d]
    BY <1>1, <1>2, <2>1
  <2> QED
    BY <2>1, <2>2, <2>3, <2>4 DEF HeldInv, HasRun
<1>6. ASSUME DeleteDatasets(c) PROVE HeldInv'
  <2> DEFINE ids == {i \in cleaner[c].ids : Exists(i)}
  <2>1. CASE \E t \in Trainings \ cleaner[c].doomed : HasRun(t) /\ runs[t].dataset \in ids
    BY <1>1, <1>2, <1>3, <1>6, <2>1 DEF DeleteDatasets
  <2>2. CASE ~ \E t \in Trainings \ cleaner[c].doomed : HasRun(t) /\ runs[t].dataset \in ids
    <3>1. /\ runs' = [t \in Trainings |-> IF t \in cleaner[c].doomed THEN NoRun ELSE runs[t]]
          /\ cleaner' = [cleaner EXCEPT ![c] = Sweep("removing", {}, {}, cleaner[c].keys)]
          /\ UNCHANGED <<training, horizon>>
      BY <1>6, <2>2 DEF DeleteDatasets
    <3>2. /\ cleaner'[c].pc = "removing" /\ cleaner'[c].doomed = {}
          /\ \A d \in Cleaners \ {c} : cleaner'[d] = cleaner[d]
      BY <1>1, <1>2, <3>1
    <3>3. \A t \in Trainings \ cleaner[c].doomed : runs'[t] = runs[t]
      BY <3>1
    <3>4. \A t \in Trainings : HasRun(t)' => HasRun(t)
      BY <3>1 DEF HasRun, NoRun
    <3>5. \A d \in Cleaners \ {c} : \A t \in cleaner[d].doomed : t \in Trainings \ cleaner[c].doomed
      BY <1>1 DEF HeldInv
    <3> QED
      BY <3>1, <3>2, <3>3, <3>4, <3>5 DEF HeldInv, HasRun
  <2> QED
    BY <2>1, <2>2
<1>7. ASSUME NEW k \in Keys, RemoveFile(c, k) \/ SkipFile(c, k) PROVE HeldInv'
  <2>1. /\ cleaner'[c].doomed = {} /\ cleaner'[c].pc \in {"idle", "removing"}
        /\ \A d \in Cleaners \ {c} : cleaner'[d] = cleaner[d]
        /\ UNCHANGED <<runs, training, horizon>>
    BY <1>1, <1>2, <1>7 DEF RemoveFile, SkipFile, AfterKey
  <2> QED
    BY <1>3, <2>1
<1>8. ASSUME CleanerFails(c) PROVE HeldInv'
  BY <1>1, <1>2, <1>3, <1>8 DEF CleanerFails
<1> QED
  BY <1>4, <1>5, <1>6, <1>7, <1>8 DEF CleanupStep

LEMMA HeldInvHolds == Spec => []HeldInv
<1>1. Init => HeldInv
  BY DEF Init, HeldInv, HasRun, NoRun, Idle, Sweep
<1>2. TypeInv /\ HeldInv /\ [Next]_vars => HeldInv'
  <2> SUFFICES ASSUME TypeInv, HeldInv, [Next]_vars PROVE HeldInv'
    OBVIOUS
  <2>1. CASE Age \/ StoreFails \/ UNCHANGED vars
    <3>1. 1 .. horizon \subseteq 1 .. horizon'
      BY <2>1, RegistryAssumption DEF Age, StoreFails, vars, TypeInv, TypeOK
    <3> QED
      BY <2>1, <3>1, HeldFrame DEF Age, StoreFails, vars, storage, tables
  <2>2. ASSUME NEW q \in Requests, Client(q) PROVE HeldInv'
    BY <2>2, HeldFrame DEF Client, RequestStep, StoreObject, FindFile, AddFileMetadata, ReadVersion,
       RegisterUpload, DeleteMetadata, DeleteObject, RequestFails, storage, tables
  <2> QED
    BY <2>1, <2>2, NextCases, HeldInvTrainings, HeldInvCleaners
<1> QED
  BY <1>1, <1>2, TypeInvHolds, PTL DEF Spec

\* What requests, trainings and cleanups hold in memory agrees with the storage
\* and the tables.
THEOREM Inductive == Spec => []InductiveInv
<1>1. HeldInv /\ RunHasDataset => CleanersInv
  BY DEF HeldInv, CleanersInv
<1> QED
  BY <1>1, TypeCorrect, HeldInvHolds, RunsReferToDatasets, FilesInvHolds, KeysInvHolds, PTL
  DEF InductiveInv

\* With a TTL a cleanup deletes expired datasets, and runs only with theirs.
THEOREM CleanupsAreTargeted == Spec => CleanupIsTargeted
<1> DEFINE Targeted ==
      TtlSetting # "zero" =>
        /\ \A i \in Ids : Exists(i) /\ ~Exists(i)' => i <= horizon
        /\ \A t \in Trainings : HasRun(t) /\ ~HasRun(t)' =>
             \E i \in Ids : i = runs[t].dataset /\ Exists(i) /\ ~Exists(i)'
<1>1. TypeInv /\ HeldInv /\ RunHasDataset /\ [Next]_vars => [Targeted]_vars
  <2> SUFFICES ASSUME TypeInv, HeldInv, RunHasDataset, Next PROVE Targeted
    OBVIOUS
  <2> USE DEF storage, tables
  <2>1. ASSUME \A i \in Ids : Exists(i) => Exists(i)',
               \A t \in Trainings : HasRun(t) => HasRun(t)'
        PROVE  Targeted
    BY <2>1
  <2>2. ASSUME runs' = runs, datasets' = datasets PROVE Targeted
    <3>1. (\A i \in Ids : Exists(i) => Exists(i)') /\ \A t \in Trainings : HasRun(t) => HasRun(t)'
      BY <2>2 DEF Exists, HasRun
    <3> QED
      BY <2>1, <3>1
  <2>3. ASSUME NEW u \in Users, NEW k, NEW v \in Nat \ {0}, InsertDataset(u, k, v), runs' = runs
        PROVE  Targeted
    <3>1. \A i \in Ids : Exists(i) => Exists(i)'
      BY <2>3 DEF Exists, InsertDataset, TypeInv, TypeOK
    <3>2. \A t \in Trainings : HasRun(t) => HasRun(t)'
      BY <2>3 DEF HasRun
    <3> QED
      BY <2>1, <3>1, <3>2
  <2> HIDE DEF Targeted
  <2>4. ASSUME NEW q \in Requests, Client(q) PROVE Targeted
    <3>1. CASE RegisterUpload(q)
      <4>1. request[q].user \in Users /\ request[q].version \in Nat \ {0}
        BY <3>1, RequestShapes, RegistryAssumption DEF RegisterUpload, TypeInv, TypeOK
      <4> QED
        BY <2>3, <3>1, <4>1 DEF RegisterUpload
    <3> QED
      BY <2>2, <2>4, <3>1 DEF Client, RequestStep, StoreObject, FindFile, AddFileMetadata,
         ReadVersion, DeleteMetadata, DeleteObject, RequestFails
  <2>5. ASSUME NEW t \in Trainings, TrainingStep(t) \/ Abandon(t) PROVE Targeted
    <3>1. CASE RegisterTraining(t)
      <4>1. Trainer[t] \in Users /\ training[t].version \in Nat \ {0}
        BY <3>1, TrainingShapes, RegistryAssumption DEF RegisterTraining, TypeInv, TypeOK
      <4> QED
        BY <2>3, <3>1, <4>1 DEF RegisterTraining
    <3>2. CASE CreateRun(t) \/ FinishRun(t)
      <4>1. \A i \in Ids : Exists(i) => Exists(i)'
        BY <3>2 DEF CreateRun, FinishRun, Exists
      <4>2. \A s \in Trainings : HasRun(s) => HasRun(s)'
        BY <3>2 DEF CreateRun, FinishRun, HasRun, TypeInv, TypeOK, RunRows, NoRun
      <4> QED
        BY <2>1, <4>1, <4>2
    <3> QED
      BY <2>2, <2>5, <3>1, <3>2 DEF TrainingStep, FetchFiles, ReadTrainingVersion, ReadData, Abandon
  <2>6. ASSUME NEW c \in Cleaners, DeleteDatasets(c) PROVE Targeted
    <3> DEFINE ids == {i \in cleaner[c].ids : Exists(i)}
    <3>1. CASE \E t \in Trainings \ cleaner[c].doomed : HasRun(t) /\ runs[t].dataset \in ids
      BY <2>2, <2>6, <3>1 DEF DeleteDatasets
    <3>2. CASE ~ \E t \in Trainings \ cleaner[c].doomed : HasRun(t) /\ runs[t].dataset \in ids
      <4>1. /\ datasets' = [i \in Ids |-> IF i \in ids THEN NoDataset ELSE datasets[i]]
            /\ runs' = [t \in Trainings |-> IF t \in cleaner[c].doomed THEN NoRun ELSE runs[t]]
            /\ cleaner[c].pc = "deleting"
        BY <2>6, <3>2 DEF DeleteDatasets
      <4>2. ASSUME NEW i \in Ids, Exists(i), ~Exists(i)', TtlSetting # "zero" PROVE i <= horizon
        <5>1. i \in ids
          BY <4>1, <4>2 DEF Exists
        <5>2. cleaner[c].ids \subseteq 1 .. horizon
          BY <4>1, <4>2 DEF HeldInv
        <5> QED
          BY <5>1, <5>2
      <4>3. ASSUME NEW t \in Trainings, HasRun(t), ~HasRun(t)'
            PROVE  \E i \in Ids : i = runs[t].dataset /\ Exists(i) /\ ~Exists(i)'
        <5>1. t \in cleaner[c].doomed
          BY <4>1, <4>3 DEF HasRun
        <5>2. runs[t].dataset \in ids
          BY <4>3, <5>1 DEF HeldInv, RunHasDataset
        <5>3. runs[t].dataset \in Ids
          BY <4>3 DEF TypeInv, TypeOK, RunRows, HasRun, NoRun
        <5>4. PICK i \in Ids : i = runs[t].dataset
          BY <5>3
        <5>5. Exists(i) /\ datasets'[i].version = 0
          BY <4>1, <5>2, <5>4 DEF NoDataset
        <5> QED
          BY <5>4, <5>5 DEF Exists
      <4> QED
        BY <4>2, <4>3 DEF Targeted
    <3> QED
      BY <3>1, <3>2
  <2>7. ASSUME NEW c \in Cleaners,
               \/ SelectExpired(c) \/ CleanupStep(c) \/ CleanerFails(c)
               \/ \E k \in Keys : SkipFile(c, k)
        PROVE  Targeted
    BY <2>2, <2>6, <2>7 DEF CleanupStep, SelectExpired, DeleteRuns, RemoveFile, SkipFile, CleanerFails
  <2>8. CASE Age \/ StoreFails
    BY <2>2, <2>8 DEF Age, StoreFails
  <2> QED
    BY <2>4, <2>5, <2>7, <2>8, NextCases
<1> QED
  BY <1>1, TypeInvHolds, HeldInvHolds, RunsReferToDatasets, PTL DEF Spec, CleanupIsTargeted

-----------------------------------------------------------------------------
(***************************************************************************)
(* Datasets that share a version.                                          *)
(***************************************************************************)

\* The bound of VersionsShared for one user and version.
Shared(u, v) ==
    Cardinality(VersionRows(u, v)) + Cardinality(VersionCreators(u, v))
        <= Cardinality(Creators)

\* There are finitely many dataset rows and creators.
LEMMA FiniteBounds == IsFiniteSet(Ids) /\ IsFiniteSet(Creators)
<1>1. IsFiniteSet(Ids)
  BY RegistryAssumption, FS_Interval DEF RegistryAssumption, Ids
<1>2. IsFiniteSet(Requests) /\ IsFiniteSet(Trainings)
  BY RegistryAssumption DEF RegistryAssumption
<1>3. IsFiniteSet(Requests \cup Trainings)
  BY <1>2, FS_Union
<1> QED
  BY <1>1, <1>3 DEF Creators

\* Both sets are finite, and the second is one of creators.
LEMMA VersionSets ==
    ASSUME NEW u, NEW v
    PROVE  /\ IsFiniteSet(VersionRows(u, v)) /\ Cardinality(VersionRows(u, v)) \in Nat
           /\ IsFiniteSet(VersionCreators(u, v)) /\ Cardinality(VersionCreators(u, v)) \in Nat
           /\ Cardinality(VersionCreators(u, v)) <= Cardinality(Creators)
           /\ Cardinality(Creators) \in Nat
<1>1. IsFiniteSet(Ids) /\ IsFiniteSet(Creators)
  BY FiniteBounds
<1>2. VersionRows(u, v) \subseteq Ids
  BY DEF VersionRows, DatasetsOf
<1>3. VersionCreators(u, v) \subseteq Creators
  BY DEF VersionCreators, Creators
<1> QED
  BY <1>1, <1>2, <1>3, FS_Subset, FS_CardinalityType

\* The same after a step.
LEMMA VersionSetsNext ==
    ASSUME NEW u, NEW v
    PROVE  /\ IsFiniteSet(VersionRows(u, v)') /\ Cardinality(VersionRows(u, v)') \in Nat
           /\ IsFiniteSet(VersionCreators(u, v)') /\ Cardinality(VersionCreators(u, v)') \in Nat
           /\ Cardinality(VersionCreators(u, v)') <= Cardinality(Creators)
<1>1. IsFiniteSet(Ids) /\ IsFiniteSet(Creators)
  BY FiniteBounds
<1>2. VersionRows(u, v)' \subseteq Ids
  BY DEF VersionRows, DatasetsOf
<1>3. VersionCreators(u, v)' \subseteq Creators
  BY DEF VersionCreators, Creators
<1> QED
  BY <1>1, <1>2, <1>3, FS_Subset, FS_CardinalityType

\* Nobody reads the version and no row is inserted.
LEMMA SharedShrinks ==
    ASSUME NEW u, NEW v, Shared(u, v),
           VersionRows(u, v)' \subseteq VersionRows(u, v),
           VersionCreators(u, v)' \subseteq VersionCreators(u, v)
    PROVE  Shared(u, v)'
<1> DEFINE R == VersionRows(u, v)  RR == VersionRows(u, v)'
           C == VersionCreators(u, v)  CC == VersionCreators(u, v)'
<1>1. /\ IsFiniteSet(R) /\ IsFiniteSet(C) /\ Cardinality(R) \in Nat /\ Cardinality(C) \in Nat
      /\ Cardinality(RR) \in Nat /\ Cardinality(CC) \in Nat /\ Cardinality(Creators) \in Nat
  BY VersionSets, VersionSetsNext
<1>2. Cardinality(R) + Cardinality(C) <= Cardinality(Creators)
  BY DEF Shared
<1>3. RR \in SUBSET R /\ CC \in SUBSET C
  OBVIOUS
<1> HIDE DEF R, RR, C, CC
<1>4. Cardinality(RR) <= Cardinality(R) /\ Cardinality(CC) <= Cardinality(C)
  BY <1>1, <1>3, FS_Subset
<1>5. Cardinality(RR) + Cardinality(CC) <= Cardinality(Creators)
  BY <1>1, <1>2, <1>4
<1> QED
  BY <1>5 DEF Shared, RR, CC, Creators

\* A creator that held the version turns into the row it inserts.
LEMMA SharedMoves ==
    ASSUME NEW u, NEW v, Shared(u, v), NEW x \in VersionCreators(u, v), NEW i,
           VersionRows(u, v)' \subseteq VersionRows(u, v) \cup {i},
           VersionCreators(u, v)' \subseteq VersionCreators(u, v) \ {x}
    PROVE  Shared(u, v)'
<1> DEFINE R == VersionRows(u, v)  RR == VersionRows(u, v)'
           C == VersionCreators(u, v)  CC == VersionCreators(u, v)'
<1>1. /\ IsFiniteSet(R) /\ IsFiniteSet(C) /\ Cardinality(R) \in Nat /\ Cardinality(C) \in Nat
      /\ Cardinality(RR) \in Nat /\ Cardinality(CC) \in Nat /\ Cardinality(Creators) \in Nat
  BY VersionSets, VersionSetsNext
<1>2. Cardinality(R) + Cardinality(C) <= Cardinality(Creators)
  BY DEF Shared
<1>3. RR \in SUBSET (R \cup {i}) /\ CC \in SUBSET (C \ {x}) /\ x \in C
  OBVIOUS
<1> HIDE DEF R, RR, C, CC
<1>4. /\ IsFiniteSet(R \cup {i}) /\ Cardinality(R \cup {i}) <= Cardinality(R) + 1
      /\ IsFiniteSet(C \ {x}) /\ Cardinality(C \ {x}) = Cardinality(C) - 1
  <2>1. /\ IsFiniteSet(R \cup {i})
        /\ Cardinality(R \cup {i}) \in {Cardinality(R), Cardinality(R) + 1}
    BY <1>1, FS_AddElement
  <2>2. IsFiniteSet(C \ {x}) /\ Cardinality(C \ {x}) = Cardinality(C) - 1
    BY <1>1, <1>3, FS_RemoveElement
  <2> QED
    BY <1>1, <2>1, <2>2
<1>5. /\ Cardinality(RR) <= Cardinality(R \cup {i}) /\ Cardinality(CC) <= Cardinality(C \ {x})
      /\ Cardinality(R \cup {i}) \in Nat
  BY <1>3, <1>4, FS_Subset, FS_CardinalityType
<1>6. Cardinality(RR) + Cardinality(CC) <= Cardinality(Creators)
  BY <1>1, <1>2, <1>4, <1>5
<1> QED
  BY <1>6 DEF Shared, RR, CC, Creators

\* No row carries the version that is read: the creators alone count.
LEMMA SharedIsNew ==
    ASSUME NEW u, NEW v, VersionRows(u, v)' = {}
    PROVE  Shared(u, v)'
<1>1. Cardinality(VersionRows(u, v)') = 0
  BY FS_EmptySet
<1>2. /\ Cardinality(VersionCreators(u, v)') \in Nat
      /\ Cardinality(VersionCreators(u, v)') <= Cardinality(Creators)
      /\ Cardinality(Creators) \in Nat
  BY VersionSets, VersionSetsNext
<1>3. Cardinality(VersionRows(u, v)') + Cardinality(VersionCreators(u, v)') <= Cardinality(Creators)
  BY <1>1, <1>2
<1> QED
  BY <1>3 DEF Shared, Creators

\* The next version of a user is carried by no row.
LEMMA NextVersionHasNoRow ==
    ASSUME TypeInv, NEW u \in Users
    PROVE  VersionRows(u, NextVersion(u)) = {}
<1>1. /\ NextVersion(u) \in Nat
      /\ \A i \in DatasetsOf(u) : datasets[i].version < NextVersion(u)
  BY NextVersionIsNew, RegistryAssumption DEF TypeInv
<1> QED
  BY <1>1 DEF VersionRows

LEMMA VersionsRequests ==
    ASSUME TypeInv, VersionsShared, NEW q \in Requests, Client(q),
           NEW u \in Users, NEW v \in Ids
    PROVE  Shared(u, v)'
<1> USE DEF storage, tables
<1> DEFINE r == request[q]
<1>1. /\ request \in [Requests -> RequestRecords] /\ r \in RequestRecords
      /\ Shared(u, v) /\ q \notin Trainings /\ allocated \in Nat /\ NoCall.pc = "idle"
  <2>1. request \in [Requests -> RequestRecords] /\ Shared(u, v) /\ allocated \in Nat
    BY DEF TypeInv, TypeOK, VersionsShared, Shared
  <2> QED
    BY <2>1, RegistryAssumption DEF RegistryAssumption, NoCall, Call
<1>2. r.pc # "idle" => r = Call(r.pc, r.user, r.key, r.version, r.register)
                       /\ r.user \in Users /\ r.version \in Nat
  BY <1>1, RequestShapes
<1>3. ASSUME UNCHANGED <<datasets, training>>,
             \A p \in Requests \ {q} : request'[p] = request[p], request'[q].pc # "versioned"
      PROVE  Shared(u, v)'
  <2>1. VersionRows(u, v)' = VersionRows(u, v)
    BY <1>3 DEF VersionRows, DatasetsOf, Exists
  <2>2. VersionCreators(u, v)' \subseteq VersionCreators(u, v)
    BY <1>3 DEF VersionCreators
  <2> QED
    BY <1>1, <2>1, <2>2, SharedShrinks
<1>4. CASE ReadVersion(q)
  <2> DEFINE w == NextVersion(r.user)
  <2>1. /\ r.pc = "filed" /\ UNCHANGED <<datasets, training>>
        /\ request' = [request EXCEPT ![q] = Call("versioned", r.user, r.key, w, r.register)]
    BY <1>4 DEF ReadVersion, Goto
  <2>2. /\ \A p \in Requests \ {q} : request'[p] = request[p]
        /\ request'[q].user = r.user /\ request'[q].version = w
    BY <1>1, <2>1 DEF Call
  <2>3. VersionRows(u, v)' = VersionRows(u, v)
    BY <2>1 DEF VersionRows, DatasetsOf, Exists
  <2>4. VersionRows(r.user, w) = {}
    BY <1>2, <2>1, NextVersionHasNoRow
  <2> HIDE DEF w
  <2>5. CASE u = r.user /\ v = w
    BY <2>3, <2>4, <2>5, SharedIsNew
  <2>6. CASE ~(u = r.user /\ v = w)
    <3>1. VersionCreators(u, v)' \subseteq VersionCreators(u, v)
      BY <2>1, <2>2, <2>6 DEF VersionCreators
    <3> QED
      BY <1>1, <2>3, <3>1, SharedShrinks
  <2> QED
    BY <2>5, <2>6
<1>5. CASE RegisterUpload(q)
  <2>1. /\ r.pc = "versioned" /\ UNCHANGED training
        /\ datasets' = [datasets EXCEPT ![registered + 1] =
                          [owner |-> r.user, key |-> r.key, version |-> r.version]]
        /\ request' = [request EXCEPT ![q] = NoCall]
    BY <1>5 DEF RegisterUpload, InsertDataset, Reply, Goto
  <2>2. /\ \A p \in Requests \ {q} : request'[p] = request[p]
        /\ request'[q].pc = "idle"
    BY <1>1, <2>1
  <2>3. datasets \in [Ids -> DatasetRows]
    BY DEF TypeInv, TypeOK
  <2>4. CASE u = r.user /\ v = r.version
    <3>1. q \in VersionCreators(u, v)
      BY <2>1, <2>4 DEF VersionCreators
    <3>2. VersionCreators(u, v)' \subseteq VersionCreators(u, v) \ {q}
      BY <1>1, <2>1, <2>2 DEF VersionCreators
    <3>3. VersionRows(u, v)' \subseteq VersionRows(u, v) \cup {registered + 1}
      BY <2>1, <2>3 DEF VersionRows, DatasetsOf, Exists
    <3> QED
      BY <1>1, <3>1, <3>2, <3>3, SharedMoves
  <2>5. CASE ~(u = r.user /\ v = r.version)
    <3>1. VersionCreators(u, v)' \subseteq VersionCreators(u, v)
      BY <2>1, <2>2 DEF VersionCreators
    <3>2. VersionRows(u, v)' \subseteq VersionRows(u, v)
      BY <2>1, <2>3, <2>5 DEF VersionRows, DatasetsOf, Exists
    <3> QED
      BY <1>1, <3>1, <3>2, SharedShrinks
  <2> QED
    BY <2>4, <2>5
<1>6. CASE ~ReadVersion(q) /\ ~RegisterUpload(q)
  <2>1. UNCHANGED <<datasets, training>>
    BY <1>6 DEF Client, RequestStep, StoreObject, FindFile, AddFileMetadata, DeleteMetadata,
       DeleteObject, RequestFails
  <2>2. \E rec : request' = [request EXCEPT ![q] = rec] /\ rec.pc # "versioned"
    <3>1. ASSUME NEW w \in Users, NEW register \in BOOLEAN, StoreObject(q, w, register)
          PROVE  request' = [request EXCEPT ![q] = Call("stored", w, allocated + 1, 0, register)]
      BY <3>1 DEF StoreObject, Goto
    <3>2. ASSUME NEW f \in files, FindFile(q, f)
          PROVE  request' = [request EXCEPT ![q] = Call("found", f.owner, f.key, 0, FALSE)]
      BY <3>2 DEF FindFile, Goto
    <3>3. \A w, k, d : /\ Call("stored", w, k, 0, d).pc # "versioned"
                       /\ Call("found", w, k, 0, d).pc # "versioned"
      BY DEF Call
    <3>4. \A pc \in {"filed", "unfiled"} : r.pc # "idle" => [r EXCEPT !.pc = pc].pc # "versioned"
      BY <1>2 DEF Call
    <3>5. CASE AddFileMetadata(q) \/ DeleteMetadata(q) \/ DeleteObject(q) \/ RequestFails(q)
      BY <1>1, <3>4, <3>5 DEF AddFileMetadata, DeleteMetadata, DeleteObject, RequestFails, Reply, Goto
    <3>6. RequestStep(q) \/ RequestFails(q) =>
              AddFileMetadata(q) \/ DeleteMetadata(q) \/ DeleteObject(q) \/ RequestFails(q)
      BY <1>6 DEF RequestStep
    <3>7. CASE \E w \in Users, register \in BOOLEAN : StoreObject(q, w, register)
      BY <3>1, <3>3, <3>7
    <3>8. CASE \E f \in files : FindFile(q, f)
      <4>1. PICK f \in files : FindFile(q, f)
        BY <3>8
      <4>2. request' = [request EXCEPT ![q] = Call("found", f.owner, f.key, 0, FALSE)]
        BY <3>2, <4>1
      <4>3. Call("found", f.owner, f.key, 0, FALSE).pc # "versioned"
        BY <3>3
      <4> QED
        BY <4>2, <4>3
    <3> QED
      BY <3>5, <3>6, <3>7, <3>8 DEF Client
  <2>3. (\A p \in Requests \ {q} : request'[p] = request[p]) /\ request'[q].pc # "versioned"
    BY <1>1, <2>2
  <2> QED
    BY <1>3, <2>1, <2>3
<1> QED
  BY <1>4, <1>5, <1>6

LEMMA VersionsTrainings ==
    ASSUME TypeInv, VersionsShared, NEW t \in Trainings, TrainingStep(t) \/ Abandon(t),
           NEW u \in Users, NEW v \in Ids
    PROVE  Shared(u, v)'
<1> USE DEF storage, tables
<1> DEFINE r == training[t]
<1>1. /\ training \in [Trainings -> TrainingRecords] /\ r \in TrainingRecords
      /\ Shared(u, v) /\ t \notin Requests /\ allocated \in Nat /\ Trainer[t] \in Users
  <2>1. training \in [Trainings -> TrainingRecords] /\ Shared(u, v) /\ allocated \in Nat
    BY DEF TypeInv, TypeOK, VersionsShared, Shared
  <2> QED
    BY <2>1, RegistryAssumption DEF RegistryAssumption
<1>2. r = Step(r.pc, r.key, r.version, r.dataset)
  BY <1>1, TrainingShapes
<1>3. ASSUME UNCHANGED <<datasets, request>>,
             \A s \in Trainings \ {t} : training'[s] = training[s], training'[t].pc # "versioned"
      PROVE  Shared(u, v)'
  <2>1. VersionRows(u, v)' = VersionRows(u, v)
    BY <1>3 DEF VersionRows, DatasetsOf, Exists
  <2>2. VersionCreators(u, v)' \subseteq VersionCreators(u, v)
    BY <1>3 DEF VersionCreators
  <2> QED
    BY <1>1, <2>1, <2>2, SharedShrinks
<1>4. CASE ReadTrainingVersion(t)
  <2> DEFINE w == NextVersion(Trainer[t])
  <2>1. /\ UNCHANGED <<datasets, request>>
        /\ training' = [training EXCEPT ![t] = Step("versioned", r.key, w, 0)]
    BY <1>4 DEF ReadTrainingVersion, SetTraining
  <2>2. /\ \A s \in Trainings \ {t} : training'[s] = training[s]
        /\ training'[t].version = w
    BY <1>1, <2>1 DEF Step
  <2>3. VersionRows(u, v)' = VersionRows(u, v)
    BY <2>1 DEF VersionRows, DatasetsOf, Exists
  <2>4. VersionRows(Trainer[t], w) = {}
    BY <1>1, NextVersionHasNoRow
  <2> HIDE DEF w
  <2>5. CASE u = Trainer[t] /\ v = w
    BY <2>3, <2>4, <2>5, SharedIsNew
  <2>6. CASE ~(u = Trainer[t] /\ v = w)
    <3>1. VersionCreators(u, v)' \subseteq VersionCreators(u, v)
      BY <2>1, <2>2, <2>6 DEF VersionCreators
    <3> QED
      BY <1>1, <2>3, <3>1, SharedShrinks
  <2> QED
    BY <2>5, <2>6
<1>5. CASE RegisterTraining(t)
  <2>1. /\ r.pc = "versioned" /\ UNCHANGED request
        /\ datasets' = [datasets EXCEPT ![registered + 1] =
                          [owner |-> Trainer[t], key |-> r.key, version |-> r.version]]
        /\ training' = [training EXCEPT ![t] =
                          Step("registered", r.key, r.version, registered + 1)]
    BY <1>5 DEF RegisterTraining, InsertDataset, SetTraining
  <2>2. /\ \A s \in Trainings \ {t} : training'[s] = training[s]
        /\ training'[t].pc = "registered"
    BY <1>1, <2>1 DEF Step
  <2>3. datasets \in [Ids -> DatasetRows]
    BY DEF TypeInv, TypeOK
  <2>4. CASE u = Trainer[t] /\ v = r.version
    <3>1. t \in VersionCreators(u, v)
      BY <2>1, <2>4 DEF VersionCreators
    <3>2. VersionCreators(u, v)' \subseteq VersionCreators(u, v) \ {t}
      BY <1>1, <2>1, <2>2 DEF VersionCreators
    <3>3. VersionRows(u, v)' \subseteq VersionRows(u, v) \cup {registered + 1}
      BY <2>1, <2>3 DEF VersionRows, DatasetsOf, Exists
    <3> QED
      BY <1>1, <3>1, <3>2, <3>3, SharedMoves
  <2>5. CASE ~(u = Trainer[t] /\ v = r.version)
    <3>1. VersionCreators(u, v)' \subseteq VersionCreators(u, v)
      BY <2>1, <2>2 DEF VersionCreators
    <3>2. VersionRows(u, v)' \subseteq VersionRows(u, v)
      BY <2>1, <2>3, <2>5 DEF VersionRows, DatasetsOf, Exists
    <3> QED
      BY <1>1, <3>1, <3>2, SharedShrinks
  <2> QED
    BY <2>4, <2>5
<1>6. CASE ~ReadTrainingVersion(t) /\ ~RegisterTraining(t)
  <2>1. UNCHANGED <<datasets, request>>
    BY <1>6 DEF TrainingStep, FetchFiles, CreateRun, ReadData, FinishRun, Abandon
  <2>2. \E rec : training' = [training EXCEPT ![t] = rec] /\ rec.pc # "versioned"
    <3>1. \A pc \in {"running", "trained", "ended"} : [r EXCEPT !.pc = pc].pc # "versioned"
      BY <1>2 DEF Step
    <3>2. \A k : Step("fetched", k, 0, 0).pc # "versioned"
      BY DEF Step
    <3> QED
      BY <1>6, <3>1, <3>2 DEF TrainingStep, FetchFiles, CreateRun, ReadData, FinishRun, Abandon,
         SetTraining, Ends
  <2>3. (\A s \in Trainings \ {t} : training'[s] = training[s]) /\ training'[t].pc # "versioned"
    BY <1>1, <2>2
  <2> QED
    BY <1>3, <2>1, <2>3
<1> QED
  BY <1>4, <1>5, <1>6

\* At most as many datasets share a version as there are creators at a time,
\* whatever cleanups take away: with one creator versions are unique.
THEOREM VersionsAreShared == Spec => []VersionsShared
<1>1. Init => VersionsShared
  <2> SUFFICES ASSUME Init, NEW u \in Users, NEW v \in Ids PROVE Shared(u, v)
    BY DEF VersionsShared, Shared
  <2>1. VersionRows(u, v) = {}
    BY DEF Init, VersionRows, DatasetsOf, Exists, NoDataset
  <2>2. Cardinality(VersionRows(u, v)) = 0
    BY <2>1, FS_EmptySet
  <2> QED
    BY <2>2, VersionSets DEF Shared
<1>2. TypeInv /\ VersionsShared /\ [Next]_vars => VersionsShared'
  <2> SUFFICES ASSUME TypeInv, VersionsShared, [Next]_vars, NEW u \in Users, NEW v \in Ids
               PROVE  Shared(u, v)'
    BY DEF VersionsShared, Shared, Creators, Ids
  <2> USE DEF storage, tables
  <2>1. Shared(u, v)
    BY DEF VersionsShared, Shared
  <2>2. ASSUME UNCHANGED <<request, training>>, \A i \in Ids : datasets'[i] \in {datasets[i], NoDataset}
        PROVE  Shared(u, v)'
    <3>1. VersionRows(u, v)' \subseteq VersionRows(u, v)
      BY <2>2 DEF VersionRows, DatasetsOf, Exists, NoDataset
    <3>2. VersionCreators(u, v)' \subseteq VersionCreators(u, v)
      BY <2>2 DEF VersionCreators
    <3> QED
      BY <2>1, <3>1, <3>2, SharedShrinks
  <2>3. CASE Age \/ StoreFails \/ UNCHANGED vars
    BY <2>2, <2>3 DEF Age, StoreFails, vars
  <2>4. ASSUME NEW c \in Cleaners,
               \/ SelectExpired(c) \/ CleanupStep(c) \/ CleanerFails(c)
               \/ \E k \in Keys : SkipFile(c, k)
        PROVE  Shared(u, v)'
    <3>1. UNCHANGED <<request, training>>
      BY <2>4 DEF SelectExpired, CleanupStep, CleanerFails, SkipFile, DeleteRuns, DeleteDatasets, RemoveFile
    <3>2. CASE DeleteDatasets(c)
      BY <2>2, <3>1, <3>2 DEF DeleteDatasets
    <3>3. CASE ~DeleteDatasets(c)
      BY <2>2, <2>4, <3>1, <3>3 DEF SelectExpired, CleanupStep, CleanerFails, SkipFile, DeleteRuns, RemoveFile
    <3> QED
      BY <3>2, <3>3
  <2> QED
    BY <2>3, <2>4, NextCases, VersionsRequests, VersionsTrainings
<1> QED
  BY <1>1, <1>2, TypeInvHolds, PTL DEF Spec

-----------------------------------------------------------------------------
(***************************************************************************)
(* Files without a row.                                                    *)
(***************************************************************************)

\* A request that is between the storage and the row of key k.
Carries(q, k) == request[q].pc \in {"stored", "unfiled"} /\ request[q].key = k

\* Files that neither a row nor such a request accounts for: every one of them
\* was let go by a failure.
Unheld == {k \in objects : FileRow(k) = {} /\ \A q \in Requests : ~Carries(q, k)}
UnheldInv == Cardinality(Unheld) <= faults

LEMMA UnheldFrame ==
    ASSUME UNCHANGED <<objects, files, request>>
    PROVE  Unheld' = Unheld
BY DEF Unheld, FileRow, Carries

\* Steps of requests: only one that fails lets its file go.
LEMMA UnheldRequests ==
    ASSUME TypeInv, NEW q \in Requests, Client(q)
    PROVE  \/ Unheld' \subseteq Unheld /\ faults' = faults
           \/ /\ Unheld' \subseteq Unheld \cup {request[q].key}
              /\ faults' = faults + 1
<1> USE DEF storage, tables
<1>0. DOMAIN request = Requests
  BY DEF TypeInv, TypeOK
<1>1. ASSUME NEW u \in Users, NEW register \in BOOLEAN, StoreObject(q, u, register)
      PROVE  Unheld' \subseteq Unheld /\ faults' = faults
  <2>1. request'[q].pc = "stored" /\ request'[q].key = allocated + 1
    BY <1>0, <1>1 DEF StoreObject, Goto, Call
  <2>2. \A k : ~Carries(q, k)
    BY <1>1 DEF StoreObject, Carries
  <2>3. \A p \in Requests \ {q} : \A k : Carries(p, k)' = Carries(p, k)
    BY <1>0, <1>1 DEF StoreObject, Goto, Carries
  <2> SUFFICES ASSUME NEW k \in Unheld' PROVE k \in Unheld
    BY <1>1 DEF StoreObject
  <2>4. ~Carries(q, k)' /\ k \in objects'
    BY DEF Unheld
  <2>5. k # allocated + 1
    BY <2>1, <2>4 DEF Carries
  <2>6. k \in objects /\ FileRow(k) = {}
    BY <1>1, <2>4, <2>5 DEF StoreObject, Unheld, FileRow
  <2> QED
    BY <2>2, <2>3, <2>6 DEF Unheld
<1>2. ASSUME AddFileMetadata(q)
      PROVE  Unheld' \subseteq Unheld /\ faults' = faults
  <2>1. \A p \in Requests \ {q} : \A k : Carries(p, k)' = Carries(p, k)
    BY <1>0, <1>2 DEF AddFileMetadata, Goto, Reply, Carries
  <2> DEFINE row == [key |-> request[q].key, owner |-> request[q].user, at |-> Now]
  <2>2. files' = files \cup {row} /\ objects' = objects /\ faults' = faults
    BY <1>2 DEF AddFileMetadata
  <2> SUFFICES ASSUME NEW k \in Unheld' PROVE k \in Unheld
    BY <2>2
  <2>3. row.key = request[q].key
    OBVIOUS
  <2> HIDE DEF row
  <2>4. k \in objects /\ FileRow(k) = {} /\ k # request[q].key
    BY <2>2, <2>3 DEF Unheld, FileRow
  <2>5. ~Carries(q, k)
    BY <2>4 DEF Carries
  <2> QED
    BY <2>1, <2>4, <2>5 DEF Unheld
<1>3. ASSUME ReadVersion(q) \/ RegisterUpload(q)
      PROVE  Unheld' \subseteq Unheld /\ faults' = faults
  <2>1. \A p \in Requests : \A k : Carries(p, k)' = Carries(p, k)
    BY <1>0, <1>3 DEF ReadVersion, RegisterUpload, Goto, Reply, NoCall, Call, Carries
  <2> QED
    BY <1>3, <2>1 DEF ReadVersion, RegisterUpload, Unheld, FileRow
<1>4. ASSUME NEW f \in files, FindFile(q, f)
      PROVE  Unheld' \subseteq Unheld /\ faults' = faults
  <2>1. \A p \in Requests : \A k : Carries(p, k)' = Carries(p, k)
    BY <1>0, <1>4 DEF FindFile, Goto, Call, Carries
  <2> QED
    BY <1>4, <2>1 DEF FindFile, Unheld, FileRow
<1>5. ASSUME DeleteMetadata(q)
      PROVE  Unheld' \subseteq Unheld /\ faults' = faults
  <2>1. request'[q].pc = "unfiled" /\ request'[q].key = request[q].key
    BY <1>0, <1>5 DEF DeleteMetadata, Goto, TypeInv, TypeOK, RequestRecords
  <2>2. \A k : ~Carries(q, k)
    BY <1>5 DEF DeleteMetadata, Carries
  <2>3. \A p \in Requests \ {q} : \A k : Carries(p, k)' = Carries(p, k)
    BY <1>0, <1>5 DEF DeleteMetadata, Goto, Carries
  <2> SUFFICES ASSUME NEW k \in Unheld' PROVE k \in Unheld
    BY <1>5 DEF DeleteMetadata, storage
  <2>4. k # request[q].key
    BY <2>1 DEF Unheld, Carries
  <2>5. k \in objects /\ FileRow(k) = {}
    BY <1>5, <2>4 DEF DeleteMetadata, Unheld, FileRow
  <2> QED
    BY <2>2, <2>3, <2>5 DEF Unheld
<1>6. ASSUME DeleteObject(q)
      PROVE  Unheld' \subseteq Unheld /\ faults' = faults
  <2>1. /\ \A k : Carries(q, k) => k = request[q].key
        /\ \A p \in Requests \ {q} : \A k : Carries(p, k)' = Carries(p, k)
    BY <1>0, <1>6 DEF DeleteObject, Goto, Reply, Carries
  <2> QED
    BY <1>6, <2>1 DEF DeleteObject, Unheld, FileRow
<1>7. ASSUME RequestFails(q)
      PROVE  Unheld' \subseteq Unheld \cup {request[q].key} /\ faults' = faults + 1
  <2>1. /\ \A k : Carries(q, k) => k = request[q].key
        /\ \A p \in Requests \ {q} : \A k : Carries(p, k)' = Carries(p, k)
    BY <1>0, <1>7 DEF RequestFails, Goto, Reply, Carries
  <2> QED
    BY <1>7, <2>1 DEF RequestFails, Unheld, FileRow, Fault
<1> QED
  BY <1>1, <1>2, <1>3, <1>4, <1>5, <1>6, <1>7 DEF Client, RequestStep

\* At most one file is let go in a step, and only by a failure.
LEMMA UnheldSteps ==
    ASSUME TypeInv, [Next]_vars
    PROVE  \/ Unheld' \subseteq Unheld /\ faults' \in {faults, faults + 1}
           \/ \E k : Unheld' \subseteq Unheld \cup {k} /\ faults' = faults + 1
<1> USE DEF storage, tables
<1>1. CASE Age
  BY <1>1, UnheldFrame DEF Age
<1>2. CASE StoreFails
  <2>1. objects' \subseteq objects \cup {allocated + 1} /\ UNCHANGED <<files, request>>
    BY <1>2 DEF StoreFails
  <2>2. Unheld' \subseteq Unheld \cup {allocated + 1}
    BY <2>1 DEF Unheld, FileRow, Carries
  <2> QED
    BY <1>2, <2>2 DEF StoreFails, Fault
<1>3. ASSUME NEW q \in Requests, Client(q)
      PROVE  \/ Unheld' \subseteq Unheld /\ faults' \in {faults, faults + 1}
             \/ \E k : Unheld' \subseteq Unheld \cup {k} /\ faults' = faults + 1
  BY <1>3, UnheldRequests
<1>4. ASSUME NEW t \in Trainings, TrainingStep(t) \/ Abandon(t)
      PROVE  UNCHANGED <<objects, files, request>> /\ faults' \in {faults, faults + 1}
  BY <1>4 DEF TrainingStep, FetchFiles, ReadTrainingVersion, RegisterTraining, CreateRun,
              ReadData, FinishRun, Abandon, Fault
<1>5. ASSUME NEW c \in Cleaners,
             \/ SelectExpired(c) \/ CleanupStep(c) \/ CleanerFails(c)
             \/ \E k \in Keys : SkipFile(c, k)
      PROVE  /\ objects' \subseteq objects /\ UNCHANGED <<files, request>>
             /\ faults' \in {faults, faults + 1}
  BY <1>5 DEF SelectExpired, CleanupStep, DeleteRuns, DeleteDatasets, RemoveFile,
              CleanerFails, SkipFile, Fault
<1>6. objects' \subseteq objects /\ UNCHANGED <<files, request>> => Unheld' \subseteq Unheld
  BY DEF Unheld, FileRow, Carries
<1>7. CASE UNCHANGED vars
  BY <1>6, <1>7 DEF vars
<1> QED
  BY <1>1, <1>2, <1>3, <1>4, <1>5, <1>6, <1>7, UnheldFrame, NextCases

\* A set that gains one element at most.
LEMMA OneMore ==
    ASSUME NEW S, NEW T, IsFiniteSet(S), NEW x, T \subseteq S \cup {x}
    PROVE  IsFiniteSet(T) /\ Cardinality(T) <= Cardinality(S) + 1
<1>1. /\ IsFiniteSet(S \cup {x}) /\ Cardinality(S) \in Nat
      /\ Cardinality(S \cup {x}) \in {Cardinality(S), Cardinality(S) + 1}
  BY FS_AddElement, FS_CardinalityType
<1>2. IsFiniteSet(T) /\ Cardinality(T) <= Cardinality(S \cup {x}) /\ Cardinality(T) \in Nat
  BY <1>1, FS_Subset, FS_CardinalityType
<1> QED
  BY <1>1, <1>2

LEMMA ObjectsFinite ==
    ASSUME TypeInv
    PROVE  IsFiniteSet(objects) /\ faults \in Nat
<1>1. /\ allocated \in Nat /\ objects \subseteq 1 .. allocated
      /\ faults \in Nat
  BY RegistryAssumption DEF TypeInv, TypeOK
<1>2. IsFiniteSet(1 .. allocated)
  BY <1>1, FS_Interval
<1> QED
  BY <1>1, <1>2, FS_Subset

LEMMA UnheldHolds == Spec => []UnheldInv
<1>1. Init => UnheldInv
  <2> SUFFICES ASSUME Init PROVE UnheldInv
    OBVIOUS
  <2>1. Unheld = {}
    BY DEF Init, Unheld
  <2> QED
    BY <2>1, FS_EmptySet DEF Init, UnheldInv
<1>2. TypeInv /\ UnheldInv /\ [Next]_vars => UnheldInv'
  <2> SUFFICES ASSUME TypeInv, UnheldInv, [Next]_vars PROVE UnheldInv'
    OBVIOUS
  <2>1. IsFiniteSet(Unheld) /\ Cardinality(Unheld) \in Nat /\ faults \in Nat
    BY ObjectsFinite, FS_Subset, FS_CardinalityType DEF Unheld
  <2>2. CASE Unheld' \subseteq Unheld /\ faults' \in {faults, faults + 1}
    <3>1. Cardinality(Unheld') <= Cardinality(Unheld) /\ Cardinality(Unheld') \in Nat
      BY <2>1, <2>2, FS_Subset, FS_CardinalityType
    <3> QED
      BY <2>1, <2>2, <3>1 DEF UnheldInv
  <2>3. ASSUME NEW k, Unheld' \subseteq Unheld \cup {k}, faults' = faults + 1
        PROVE  UnheldInv'
    <3>1. Cardinality(Unheld') <= Cardinality(Unheld) + 1 /\ Cardinality(Unheld') \in Nat
      BY <2>1, <2>3, OneMore, FS_CardinalityType
    <3> QED
      BY <2>1, <2>3, <3>1 DEF UnheldInv
  <2> QED
    BY <2>2, <2>3, UnheldSteps
<1> QED
  BY <1>1, <1>2, TypeInvHolds, PTL DEF Spec

\* A file without a row is carried by a request between the two, or was let go
\* by a failure: at most one for each, for any number of requests and cleanups.
THEOREM OrphansAccounted == Spec => []OrphansAreAccounted
<1>1. TypeInv /\ UnheldInv => OrphansAreAccounted
  <2> SUFFICES ASSUME TypeInv, UnheldInv PROVE OrphansAreAccounted
    OBVIOUS
  <2> DEFINE P == {q \in Requests : request[q].pc \in {"stored", "unfiled"}}
             O == {k \in objects : FileRow(k) = {}}
             H == {request[q].key : q \in P}
  <2>1. IsFiniteSet(P) /\ Cardinality(P) \in Nat
    BY RegistryAssumption, FS_Subset, FS_CardinalityType DEF RegistryAssumption
  <2>2. IsFiniteSet(H) /\ Cardinality(H) <= Cardinality(P) /\ Cardinality(H) \in Nat
    <3> DEFINE f == [q \in P |-> request[q].key]
    <3>1. f \in Surjection(P, H)
      BY DEF Surjection
    <3> HIDE DEF f, P, H
    <3> QED
      BY <2>1, <3>1, FS_Surjection, FS_CardinalityType
  <2>3. IsFiniteSet(Unheld) /\ Cardinality(Unheld) \in Nat /\ faults \in Nat
    BY ObjectsFinite, FS_Subset, FS_CardinalityType DEF Unheld
  <2>4. O \subseteq Unheld \cup H
    BY DEF Unheld, Carries
  <2> HIDE DEF P, O, H
  <2>5. /\ IsFiniteSet(Unheld \cup H)
        /\ Cardinality(Unheld \cup H) <= Cardinality(Unheld) + Cardinality(H)
    <3>1. /\ IsFiniteSet(Unheld \cup H)
          /\ Cardinality(Unheld \cup H)
               = Cardinality(Unheld) + Cardinality(H) - Cardinality(Unheld \cap H)
      BY <2>2, <2>3, FS_Union
    <3>2. Cardinality(Unheld \cap H) \in Nat
      BY <2>3, FS_Subset, FS_CardinalityType
    <3> QED
      BY <2>2, <2>3, <3>1, <3>2
  <2>6. Cardinality(O) <= Cardinality(Unheld \cup H) /\ Cardinality(O) \in Nat
        /\ Cardinality(Unheld \cup H) \in Nat
    BY <2>4, <2>5, FS_Subset, FS_CardinalityType
  <2>7. Cardinality(O) <= faults + Cardinality(P)
    BY <2>1, <2>2, <2>3, <2>5, <2>6 DEF UnheldInv
  <2> QED
    BY <2>7 DEF OrphansAreAccounted, O, P
<1> QED
  BY <1>1, TypeInvHolds, UnheldHolds, PTL

-----------------------------------------------------------------------------
(***************************************************************************)
(* Files that outlive their dataset row.                                   *)
(***************************************************************************)

\* Of any set of numbers, the first b are at most b.
LEMMA FirstOnes ==
    ASSUME NEW n \in Nat, NEW S, S \subseteq 1 .. n, NEW b \in Nat \ {0},
           NEW T \in SUBSET S, \A i \in T : Cardinality({h \in S : h < i}) < b
    PROVE  IsFiniteSet(T) /\ Cardinality(T) <= b /\ Cardinality(T) \in Nat
<1>1. T \subseteq S /\ T \subseteq 0 .. n
  OBVIOUS
<1>2. IsFiniteSet(S)
  <2>1. IsFiniteSet(1 .. n)
    BY FS_Interval
  <2> QED
    BY <2>1, FS_Subset
<1>3. IsFiniteSet(T) /\ Cardinality(T) \in Nat
  BY <1>1, <1>2, FS_Subset, FS_CardinalityType
<1>4. CASE T = {}
  BY <1>4, FS_EmptySet
<1>5. CASE T # {}
  <2> DEFINE m == Max(T)
             before == {h \in S : h < m}
  <2>1. m \in T /\ \A x \in T : x <= m
    BY <1>1, <1>5, BoundedMax
  <2> HIDE DEF m
  <2>2. IsFiniteSet(before) /\ Cardinality(before) \in Nat
    <3>1. before \subseteq S
      OBVIOUS
    <3> HIDE DEF before
    <3> QED
      BY <1>2, <3>1, FS_Subset, FS_CardinalityType
  <2>3. Cardinality(before) < b
    BY <2>1
  <2>4. T \subseteq before \cup {m}
    <3> SUFFICES ASSUME NEW x \in T, x # m PROVE x \in before
      OBVIOUS
    <3>1. x \in Nat /\ m \in Nat /\ x <= m
      BY <1>1, <2>1
    <3> QED
      BY <1>1, <3>1
  <2> HIDE DEF before
  <2>5. Cardinality(T) <= Cardinality(before) + 1
    BY <2>2, <2>4, OneMore
  <2> QED
    BY <1>3, <2>2, <2>3, <2>5
<1> QED
  BY <1>3, <1>4, <1>5

\* Keys in the table and on the lists of cleanups have been drawn; a list is at
\* most a batch.
DrawnInv ==
    /\ swept \subseteq 1 .. allocated
    /\ \A i \in Ids : datasets[i].key <= allocated
    /\ \A c \in Cleaners :
        cleaner[c].keys \subseteq 1 .. allocated /\ Cardinality(cleaner[c].keys) <= Batch

\* The keys of a list are finitely many.
LEMMA KeysFinite ==
    ASSUME TypeInv, DrawnInv, NEW c \in Cleaners
    PROVE  /\ IsFiniteSet(cleaner[c].keys) /\ Cardinality(cleaner[c].keys) \in Nat
           /\ Cardinality(cleaner[c].keys) <= Batch
<1>1. allocated \in Nat /\ cleaner[c].keys \subseteq 1 .. allocated
  BY RegistryAssumption DEF DrawnInv, TypeInv, TypeOK
<1>2. IsFiniteSet(1 .. allocated)
  BY <1>1, FS_Interval
<1>3. IsFiniteSet(cleaner[c].keys)
  BY <1>1, <1>2, FS_Subset
<1> QED
  BY <1>3, FS_CardinalityType DEF DrawnInv

LEMMA DrawnFrame ==
    ASSUME TypeInv, DrawnInv, allocated' \in {allocated, allocated + 1},
           UNCHANGED <<swept, datasets, cleaner>>
    PROVE  DrawnInv'
<1>1. allocated \in Nat /\ \A i \in Ids : datasets[i].key \in Int
  BY RegistryAssumption, DatasetShapes DEF TypeInv, TypeOK, DatasetRows, NoDataset, Keys
<1>2. 1 .. allocated \subseteq 1 .. allocated' /\ \A i \in Ids : datasets[i].key <= allocated'
  BY <1>1 DEF DrawnInv
<1> QED
  BY <1>2 DEF DrawnInv

LEMMA DrawnInsert ==
    ASSUME TypeInv, DrawnInv, NEW u, NEW k \in 1 .. allocated, NEW v, InsertDataset(u, k, v),
           UNCHANGED <<swept, allocated, cleaner>>
    PROVE  DrawnInv'
<1>1. /\ allocated \in Nat /\ k <= allocated
      /\ datasets' = [datasets EXCEPT ![registered + 1] = [owner |-> u, key |-> k, version |-> v]]
      /\ DOMAIN datasets = Ids
  BY RegistryAssumption DEF TypeInv, TypeOK, InsertDataset
<1>2. \A i \in Ids : datasets'[i].key <= allocated
  BY <1>1 DEF DrawnInv
<1> QED
  BY <1>2 DEF DrawnInv

\* Requests and trainings register the keys they hold, which have been drawn.
LEMMA DrawnCreators ==
    ASSUME TypeInv, DrawnInv,
           \/ \E q \in Requests : Client(q)
           \/ \E t \in Trainings : TrainingStep(t) \/ Abandon(t)
    PROVE  DrawnInv'
<1> USE DEF storage, tables
<1>1. ASSUME NEW q \in Requests, Client(q) PROVE DrawnInv'
  <2>1. CASE RegisterUpload(q)
    <3>1. request[q].key \in 1 .. allocated
      BY <2>1 DEF RegisterUpload, TypeInv, TypeOK, RequestRecords, NoCall, Call
    <3> QED
      BY <2>1, <3>1, DrawnInsert DEF RegisterUpload
  <2>2. CASE ~RegisterUpload(q)
    <3>1. UNCHANGED <<swept, datasets, cleaner>> /\ allocated' \in {allocated, allocated + 1}
      BY <1>1, <2>2 DEF Client, RequestStep, StoreObject, FindFile, AddFileMetadata, ReadVersion,
         DeleteMetadata, DeleteObject, RequestFails
    <3> QED
      BY <3>1, DrawnFrame
  <2> QED
    BY <2>1, <2>2
<1>2. ASSUME NEW t \in Trainings, TrainingStep(t) \/ Abandon(t) PROVE DrawnInv'
  <2>1. CASE RegisterTraining(t)
    <3>1. training[t].key \in 1 .. allocated
      BY <2>1 DEF RegisterTraining, TypeInv, TypeOK, TrainingRecords, NewTraining, Step
    <3> QED
      BY <2>1, <3>1, DrawnInsert DEF RegisterTraining
  <2>2. CASE ~RegisterTraining(t)
    <3>1. UNCHANGED <<swept, datasets, cleaner, allocated>>
      BY <1>2, <2>2 DEF TrainingStep, FetchFiles, ReadTrainingVersion, CreateRun, ReadData,
         FinishRun, Abandon
    <3> QED
      BY <3>1, DrawnFrame
  <2> QED
    BY <2>1, <2>2
<1> QED
  BY <1>1, <1>2

LEMMA DrawnCleaners ==
    ASSUME TypeInv, DrawnInv, NEW c \in Cleaners,
           \/ SelectExpired(c) \/ CleanupStep(c) \/ CleanerFails(c)
           \/ \E k \in Keys : SkipFile(c, k)
    PROVE  DrawnInv'
<1> USE DEF storage, tables, SetCleaner
<1>1. /\ DOMAIN cleaner = Cleaners /\ allocated \in Nat /\ Batch \in Nat \ {0}
      /\ Idle.keys = {} /\ \A pc, ids, doomed, keys : Sweep(pc, ids, doomed, keys).keys = keys
      /\ IsFiniteSet(cleaner[c].keys)
  BY RegistryAssumption, KeysFinite DEF TypeInv, TypeOK, Idle, Sweep
<1>2. ASSUME NEW keys, keys \subseteq 1 .. allocated, Cardinality(keys) <= Batch,
             cleaner'[c].keys = keys, \A d \in Cleaners \ {c} : cleaner'[d] = cleaner[d],
             UNCHANGED allocated, swept' \subseteq swept \cup cleaner[c].keys,
             \A i \in Ids : datasets'[i].key \in {datasets[i].key, 0}
      PROVE  DrawnInv'
  <2>1. swept' \subseteq 1 .. allocated'
    BY <1>2 DEF DrawnInv
  <2>2. ASSUME NEW i \in Ids PROVE datasets'[i].key <= allocated'
    <3>1. datasets[i].key <= allocated /\ datasets'[i].key \in {datasets[i].key, 0}
      BY <1>2 DEF DrawnInv
    <3> QED
      BY <1>1, <1>2, <3>1
  <2>3. ASSUME NEW d \in Cleaners
        PROVE  cleaner'[d].keys \subseteq 1 .. allocated' /\ Cardinality(cleaner'[d].keys) <= Batch
    BY <1>2 DEF DrawnInv
  <2> QED
    BY <2>1, <2>2, <2>3 DEF DrawnInv
<1>3. Cardinality({}) <= Batch
  BY <1>1, FS_EmptySet
<1>4. ASSUME SelectExpired(c) PROVE DrawnInv'
  <2> DEFINE chosen == {i \in Expired : Cardinality({h \in Expired : h < i}) < Batch}
             keys == {datasets[i].key : i \in chosen}
  <2>1. registered \in Nat /\ Expired \subseteq 1 .. registered /\ Expired \subseteq Ids
    BY RegistryAssumption DEF Expired, Cutoff, Ids, TypeInv, TypeOK
  <2>2. IsFiniteSet(chosen) /\ Cardinality(chosen) <= Batch /\ Cardinality(chosen) \in Nat
    BY <1>1, <2>1, FirstOnes
  <2>3. \A i \in chosen : datasets[i].key \in 1 .. allocated
    <3> SUFFICES ASSUME NEW i \in Expired PROVE datasets[i].key \in 1 .. allocated
      OBVIOUS
    <3>1. i \in Ids /\ Exists(i)
      BY <2>1 DEF Expired
    <3>2. datasets[i].key \in Nat \ {0}
      <4>1. datasets \in [Ids -> DatasetRows]
        BY DEF TypeInv, TypeOK
      <4> QED
        BY <3>1, <4>1, RegistryAssumption, DatasetShapes DEF Keys
    <3>3. datasets[i].key <= allocated
      BY <3>1 DEF DrawnInv
    <3> QED
      BY <1>1, <3>2, <3>3
  <2>4. IsFiniteSet(keys) /\ Cardinality(keys) <= Cardinality(chosen) /\ Cardinality(keys) \in Nat
    <3> DEFINE f == [i \in chosen |-> datasets[i].key]
    <3>1. f \in Surjection(chosen, keys)
      BY DEF Surjection
    <3> HIDE DEF f, chosen, keys
    <3> QED
      BY <2>2, <3>1, FS_Surjection, FS_CardinalityType
  <2>5. /\ cleaner' = [cleaner EXCEPT ![c] = Sweep("selected", chosen, {}, keys)]
        /\ UNCHANGED <<allocated, swept, datasets>>
    BY <1>4 DEF SelectExpired
  <2>6. keys \subseteq 1 .. allocated
    BY <2>3
  <2> HIDE DEF chosen, keys
  <2>7. Cardinality(keys) <= Batch
    BY <1>1, <2>2, <2>4
  <2>8. cleaner'[c].keys = keys /\ \A d \in Cleaners \ {c} : cleaner'[d] = cleaner[d]
    BY <1>1, <2>5
  <2> QED
    BY <1>2, <2>5, <2>6, <2>7, <2>8
<1>5. ASSUME DeleteRuns(c) PROVE DrawnInv'
  <2>1. /\ cleaner'[c].keys = cleaner[c].keys
        /\ \A d \in Cleaners \ {c} : cleaner'[d] = cleaner[d]
        /\ UNCHANGED <<allocated, swept, datasets>>
    BY <1>1, <1>5 DEF DeleteRuns
  <2> QED
    BY <1>2, <2>1 DEF DrawnInv
<1>6. ASSUME DeleteDatasets(c) PROVE DrawnInv'
  <2>1. /\ cleaner'[c].keys \in {{}, cleaner[c].keys}
        /\ \A d \in Cleaners \ {c} : cleaner'[d] = cleaner[d]
        /\ UNCHANGED allocated /\ swept' \subseteq swept \cup cleaner[c].keys
    BY <1>1, <1>6 DEF DeleteDatasets
  <2>2. \A i \in Ids : datasets'[i].key \in {datasets[i].key, 0}
    BY <1>6 DEF DeleteDatasets, NoDataset
  <2> QED
    BY <1>2, <1>3, <2>1, <2>2 DEF DrawnInv
<1>7. ASSUME NEW k \in Keys, RemoveFile(c, k) \/ SkipFile(c, k) PROVE DrawnInv'
  <2>1. /\ cleaner'[c].keys = cleaner[c].keys \ {k}
        /\ \A d \in Cleaners \ {c} : cleaner'[d] = cleaner[d]
        /\ UNCHANGED <<allocated, swept, datasets>>
    BY <1>1, <1>7 DEF RemoveFile, SkipFile, AfterKey
  <2>2. /\ Cardinality(cleaner[c].keys \ {k}) <= Cardinality(cleaner[c].keys)
        /\ Cardinality(cleaner[c].keys) \in Nat /\ Cardinality(cleaner[c].keys \ {k}) \in Nat
    BY <1>1, FS_Subset, FS_CardinalityType
  <2>3. Cardinality(cleaner[c].keys) <= Batch /\ cleaner[c].keys \ {k} \subseteq 1 .. allocated
    BY DEF DrawnInv
  <2>4. Cardinality(cleaner[c].keys \ {k}) <= Batch
    BY <1>1, <2>2, <2>3
  <2> QED
    BY <1>2, <2>1, <2>3, <2>4
<1>8. ASSUME CleanerFails(c) PROVE DrawnInv'
  BY <1>1, <1>2, <1>3, <1>8 DEF CleanerFails
<1> QED
  BY <1>4, <1>5, <1>6, <1>7, <1>8 DEF CleanupStep

LEMMA DrawnHolds == Spec => []DrawnInv
<1>1. Init => DrawnInv
  <2> SUFFICES ASSUME Init PROVE DrawnInv
    OBVIOUS
  <2>1. Cardinality({}) = 0 /\ Batch \in Nat
    BY FS_EmptySet, RegistryAssumption
  <2>2. /\ allocated = 0 /\ swept = {} /\ \A i \in Ids : datasets[i].key = 0
        /\ \A c \in Cleaners : cleaner[c].keys = {}
    BY DEF Init, NoDataset, Idle, Sweep
  <2>3. swept \subseteq 1 .. allocated /\ \A i \in Ids : datasets[i].key <= allocated
    BY <2>2
  <2>4. ASSUME NEW c \in Cleaners
        PROVE  cleaner[c].keys \subseteq 1 .. allocated /\ Cardinality(cleaner[c].keys) <= Batch
    <3>1. cleaner[c].keys = {}
      BY <2>2
    <3> QED
      BY <2>1, <3>1
  <2> QED
    BY <2>3, <2>4 DEF DrawnInv
<1>2. TypeInv /\ DrawnInv /\ [Next]_vars => DrawnInv'
  <2> SUFFICES ASSUME TypeInv, DrawnInv, [Next]_vars PROVE DrawnInv'
    OBVIOUS
  <2>1. CASE Age \/ StoreFails \/ UNCHANGED vars
    BY <2>1, DrawnFrame DEF Age, StoreFails, vars, storage, tables
  <2> QED
    BY <2>1, NextCases, DrawnCreators, DrawnCleaners
<1> QED
  BY <1>1, <1>2, TypeInvHolds, PTL DEF Spec

\* A cleanup has committed and is to remove the file of key k.
OnList(c, k) == cleaner[c].pc = "removing" /\ k \in cleaner[c].keys

\* Files whose dataset row a cleanup deleted and that no cleanup will remove.
Dropped == {k \in swept \cap objects : \A c \in Cleaners : ~OnList(c, k)}
DroppedInv == Cardinality(Dropped) <= Batch * faults

\* Whatever requests and trainings do, no dropped file comes back: a new one
\* has a new key.
LEMMA DroppedElsewhere ==
    ASSUME TypeInv, DrawnInv, UNCHANGED <<swept, cleaner>>,
           objects' \subseteq objects \cup {allocated + 1}
    PROVE  Dropped' \subseteq Dropped
<1>1. allocated + 1 \notin swept
  BY RegistryAssumption DEF DrawnInv, TypeInv, TypeOK
<1> SUFFICES ASSUME NEW k \in Dropped' PROVE k \in Dropped
  OBVIOUS
<1>2. k \in swept /\ k \in objects /\ \A c \in Cleaners : ~OnList(c, k)
  BY <1>1 DEF Dropped, OnList
<1> QED
  BY <1>2 DEF Dropped

\* A cleanup drops files only when it fails: the one it skips, or its list.
LEMMA DroppedCleaners ==
    ASSUME TypeInv, DrawnInv, NEW c \in Cleaners,
           \/ SelectExpired(c) \/ CleanupStep(c) \/ CleanerFails(c)
           \/ \E k \in Keys : SkipFile(c, k)
    PROVE  \/ Dropped' \subseteq Dropped /\ faults' = faults
           \/ \E more \in SUBSET cleaner[c].keys :
                Dropped' \subseteq Dropped \cup more /\ faults' = faults + 1
<1> USE DEF storage, tables, SetCleaner
<1>1. /\ DOMAIN cleaner = Cleaners
      /\ Idle.pc = "idle" /\ \A pc, ids, doomed, keys :
            /\ Sweep(pc, ids, doomed, keys).pc = pc
            /\ Sweep(pc, ids, doomed, keys).keys = keys
  BY DEF TypeInv, TypeOK, Idle, Sweep
<1>2. ASSUME NEW more, \A d \in Cleaners \ {c} : cleaner'[d] = cleaner[d],
             objects' \subseteq objects,
             \A k : k \in swept' /\ k \notin more => k \in swept \/ OnList(c, k)',
             \A k : OnList(c, k) /\ k \in objects' /\ k \notin more => OnList(c, k)'
      PROVE  Dropped' \subseteq Dropped \cup more
  <2> SUFFICES ASSUME NEW k \in Dropped', k \notin more PROVE k \in Dropped
    OBVIOUS
  <2>1. k \in swept' /\ k \in objects' /\ \A d \in Cleaners : ~OnList(d, k)'
    BY DEF Dropped
  <2>2. k \in swept /\ k \in objects /\ ~OnList(c, k)
    BY <1>2, <2>1
  <2>3. \A d \in Cleaners \ {c} : ~OnList(d, k)
    BY <1>2, <2>1 DEF OnList
  <2> QED
    BY <2>2, <2>3 DEF Dropped
<1>3. ASSUME SelectExpired(c) \/ DeleteRuns(c) PROVE Dropped' \subseteq Dropped /\ faults' = faults
  <2>1. /\ cleaner[c].pc # "removing" /\ UNCHANGED <<swept, objects, faults>>
        /\ \A d \in Cleaners \ {c} : cleaner'[d] = cleaner[d]
    BY <1>1, <1>3 DEF SelectExpired, DeleteRuns
  <2>2. Dropped' \subseteq Dropped \cup {}
    BY <1>2, <2>1 DEF OnList
  <2> QED
    BY <2>1, <2>2
<1>4. ASSUME DeleteDatasets(c) PROVE Dropped' \subseteq Dropped /\ faults' = faults
  <2>1. /\ cleaner[c].pc # "removing" /\ UNCHANGED <<objects, faults>>
        /\ \A d \in Cleaners \ {c} : cleaner'[d] = cleaner[d]
    BY <1>1, <1>4 DEF DeleteDatasets
  <2>2. \/ UNCHANGED swept
        \/ /\ swept' = swept \cup cleaner[c].keys
           /\ cleaner'[c].pc = "removing" /\ cleaner'[c].keys = cleaner[c].keys
    BY <1>1, <1>4 DEF DeleteDatasets
  <2>3. Dropped' \subseteq Dropped \cup {}
    BY <1>2, <2>1, <2>2 DEF OnList
  <2> QED
    BY <2>1, <2>3
<1>5. ASSUME NEW k \in Keys, RemoveFile(c, k) \/ SkipFile(c, k)
      PROVE  \A j : OnList(c, j) /\ j # k => OnList(c, j)'
  <2>1. \/ cleaner[c].keys \ {k} = {}
        \/ cleaner'[c] = Sweep("removing", {}, {}, cleaner[c].keys \ {k})
    BY <1>1, <1>5 DEF RemoveFile, SkipFile, AfterKey
  <2> QED
    BY <1>1, <2>1 DEF OnList
<1>6. ASSUME NEW k \in Keys, RemoveFile(c, k) PROVE Dropped' \subseteq Dropped /\ faults' = faults
  <2>1. /\ objects' = objects \ {k} /\ UNCHANGED <<swept, faults>>
        /\ \A d \in Cleaners \ {c} : cleaner'[d] = cleaner[d]
    BY <1>1, <1>6 DEF RemoveFile, AfterKey
  <2>2. Dropped' \subseteq Dropped \cup {}
    BY <1>2, <1>5, <1>6, <2>1
  <2> QED
    BY <2>1, <2>2
<1>7. ASSUME NEW k \in Keys, SkipFile(c, k)
      PROVE  {k} \in SUBSET cleaner[c].keys /\ Dropped' \subseteq Dropped \cup {k} /\ faults' = faults + 1
  <2>1. /\ k \in cleaner[c].keys /\ UNCHANGED <<swept, objects>> /\ faults' = faults + 1
        /\ \A d \in Cleaners \ {c} : cleaner'[d] = cleaner[d]
    BY <1>1, <1>7 DEF SkipFile, AfterKey, Fault
  <2>2. Dropped' \subseteq Dropped \cup {k}
    BY <1>2, <1>5, <1>7, <2>1
  <2> QED
    BY <2>1, <2>2
<1>8. ASSUME CleanerFails(c)
      PROVE  Dropped' \subseteq Dropped \cup cleaner[c].keys /\ faults' = faults + 1
  <2>1. /\ UNCHANGED <<swept, objects>> /\ faults' = faults + 1
        /\ \A d \in Cleaners \ {c} : cleaner'[d] = cleaner[d]
    BY <1>1, <1>8 DEF CleanerFails, Fault
  <2>2. Dropped' \subseteq Dropped \cup cleaner[c].keys
    BY <1>2, <2>1 DEF OnList
  <2> QED
    BY <2>1, <2>2
<1> QED
  BY <1>3, <1>4, <1>6, <1>7, <1>8 DEF CleanupStep

LEMMA DroppedHolds == Spec => []DroppedInv
<1>1. Init => DroppedInv
  <2> SUFFICES ASSUME Init PROVE DroppedInv
    OBVIOUS
  <2>1. Dropped = {} /\ faults = 0
    BY DEF Init, Dropped
  <2> QED
    BY <2>1, FS_EmptySet, RegistryAssumption DEF DroppedInv
<1>2. TypeInv /\ DrawnInv /\ DroppedInv /\ [Next]_vars => DroppedInv'
  <2> SUFFICES ASSUME TypeInv, DrawnInv, DroppedInv, [Next]_vars PROVE DroppedInv'
    OBVIOUS
  <2>1. /\ IsFiniteSet(Dropped) /\ Cardinality(Dropped) \in Nat /\ faults \in Nat
        /\ Batch \in Nat \ {0} /\ Batch * faults \in Nat
        /\ Batch * (faults + 1) = Batch * faults + Batch
    <3>1. IsFiniteSet(Dropped) /\ faults \in Nat /\ Batch \in Nat \ {0}
      BY ObjectsFinite, FS_Subset, RegistryAssumption DEF Dropped
    <3> QED
      BY <3>1, FS_CardinalityType
  <2>2. ASSUME NEW more, IsFiniteSet(more), Cardinality(more) <= Batch,
               Dropped' \subseteq Dropped \cup more, faults' = faults + 1
        PROVE  DroppedInv'
    <3>1. /\ IsFiniteSet(Dropped \cup more) /\ Cardinality(more) \in Nat
          /\ Cardinality(Dropped \cup more)
               = Cardinality(Dropped) + Cardinality(more) - Cardinality(Dropped \cap more)
      BY <2>1, <2>2, FS_Union, FS_CardinalityType
    <3>2. Cardinality(Dropped \cap more) \in Nat
      BY <2>1, FS_Subset, FS_CardinalityType
    <3>3. Cardinality(Dropped') <= Cardinality(Dropped \cup more) /\ Cardinality(Dropped') \in Nat
      BY <2>2, <3>1, FS_Subset, FS_CardinalityType
    <3>4. Cardinality(Dropped') <= Batch * faults + Batch
      BY <2>1, <2>2, <3>1, <3>2, <3>3 DEF DroppedInv
    <3> QED
      BY <2>1, <2>2, <3>4 DEF DroppedInv
  <2>3. ASSUME Dropped' \subseteq Dropped, faults' \in {faults, faults + 1}
        PROVE  DroppedInv'
    <3>1. Cardinality(Dropped') <= Cardinality(Dropped) /\ Cardinality(Dropped') \in Nat
      BY <2>1, <2>3, FS_Subset, FS_CardinalityType
    <3>2. Batch * faults' \in {Batch * faults, Batch * faults + Batch}
      BY <2>1, <2>3
    <3> QED
      BY <2>1, <3>1, <3>2 DEF DroppedInv
  <2>4. ASSUME UNCHANGED <<swept, cleaner>>, objects' \subseteq objects \cup {allocated + 1},
               faults' \in {faults, faults + 1}
        PROVE  DroppedInv'
    BY <2>3, <2>4, DroppedElsewhere
  <2>5. CASE Age \/ StoreFails \/ UNCHANGED vars
    BY <2>4, <2>5 DEF Age, StoreFails, Fault, vars, storage, tables
  <2>6. ASSUME NEW q \in Requests, Client(q) PROVE DroppedInv'
    BY <2>4, <2>6 DEF Client, RequestStep, StoreObject, FindFile, AddFileMetadata, ReadVersion,
       RegisterUpload, DeleteMetadata, DeleteObject, RequestFails, Fault, storage, tables
  <2>7. ASSUME NEW t \in Trainings, TrainingStep(t) \/ Abandon(t) PROVE DroppedInv'
    BY <2>4, <2>7 DEF TrainingStep, FetchFiles, ReadTrainingVersion, RegisterTraining, CreateRun,
       ReadData, FinishRun, Abandon, Fault, storage, tables
  <2>8. ASSUME NEW c \in Cleaners,
               \/ SelectExpired(c) \/ CleanupStep(c) \/ CleanerFails(c)
               \/ \E k \in Keys : SkipFile(c, k)
        PROVE  DroppedInv'
    <3>1. /\ IsFiniteSet(cleaner[c].keys) /\ Cardinality(cleaner[c].keys) \in Nat
          /\ Cardinality(cleaner[c].keys) <= Batch
      BY KeysFinite
    <3>2. ASSUME NEW more \in SUBSET cleaner[c].keys
          PROVE  IsFiniteSet(more) /\ Cardinality(more) <= Batch
      <4>1. /\ IsFiniteSet(more) /\ Cardinality(more) <= Cardinality(cleaner[c].keys)
            /\ Cardinality(more) \in Nat
        BY <3>1, FS_Subset, FS_CardinalityType
      <4> QED
        BY <2>1, <3>1, <4>1
    <3> QED
      BY <2>2, <2>3, <2>8, <3>2, DroppedCleaners
  <2> QED
    BY <2>5, <2>6, <2>7, <2>8, NextCases
<1> QED
  BY <1>1, <1>2, TypeInvHolds, DrawnHolds, PTL DEF Spec

\* A file that outlives its deleted dataset row is on a cleanup's list or was
\* dropped by a failure: no more than a batch for each, whatever interleaves.
THEOREM LeftoversAccounted == Spec => []LeftoversAreAccounted
<1>1. TypeInv /\ DroppedInv => LeftoversAreAccounted
  <2> SUFFICES ASSUME TypeInv, DroppedInv PROVE LeftoversAreAccounted
    OBVIOUS
  <2> DEFINE L == {k \in swept \cap objects : \A c \in Cleaners : k \notin cleaner[c].keys}
  <2>1. IsFiniteSet(Dropped) /\ L \subseteq Dropped
    BY ObjectsFinite, FS_Subset DEF Dropped, OnList
  <2>2. /\ Cardinality(L) <= Cardinality(Dropped)
        /\ Cardinality(L) \in Nat /\ Cardinality(Dropped) \in Nat
    BY <2>1, FS_Subset, FS_CardinalityType
  <2>3. Batch * faults \in Nat
    BY ObjectsFinite, RegistryAssumption
  <2> HIDE DEF L
  <2>4. Cardinality(L) <= Batch * faults
    BY <2>2, <2>3 DEF DroppedInv
  <2> QED
    BY <2>4 DEF LeftoversAreAccounted, L
<1> QED
  BY <1>1, TypeInvHolds, DroppedHolds, PTL

-----------------------------------------------------------------------------
(***************************************************************************)
(* The refinement of FileCatalogue.                                        *)
(***************************************************************************)

\* The refinement mapping of the catalogue.
Stages == [k \in Keys |-> Stage(k)]
Uses   == [i \in Ids |-> datasets[i].key]

\* A key is in one place: with an upload that has not filed it, or with its row.
LEMMA StageIs ==
    ASSUME TypeInv, FilesInv, NEW k \in Keys
    PROVE  /\ Stage(k) = "absent" <=> k \notin 1 .. allocated
           /\ Stage(k) = "pending" <=> Pending(k)
           /\ Stage(k) = "listed" <=> FileRow(k) # {}
           /\ Stage(k) \in {"absent", "pending", "listed", "unlisted"}
<1>1. /\ allocated \in Nat /\ request \in [Requests -> RequestRecords]
      /\ \A f \in files : f.key \in 1 .. allocated
  BY RegistryAssumption DEF TypeInv, TypeOK
<1>2. \A q \in Requests : request[q].pc = "stored" => request[q].key \in 1 .. allocated
  BY <1>1, RequestShapes
<1>3. k \in Nat /\ (k > allocated <=> k \notin 1 .. allocated)
  BY <1>1, RegistryAssumption DEF Keys
<1>4. Pending(k) => k \in 1 .. allocated /\ FileRow(k) = {}
  BY <1>2 DEF Pending, FilesInv
<1>5. FileRow(k) # {} => k \in 1 .. allocated
  BY <1>1 DEF FileRow
<1> QED
  BY <1>3, <1>4, <1>5 DEF Stage

\* A key whose place does not change.
LEMMA StageStays ==
    ASSUME NEW k, k > allocated' <=> k > allocated, Pending(k)' <=> Pending(k),
           FileRow(k)' = {} <=> FileRow(k) = {}
    PROVE  Stage(k)' = Stage(k)
BY DEF Stage

\* A request takes no key into its hands or out of them but its own.
LEMMA PendingElsewhere ==
    ASSUME NEW q \in Requests, \A p \in Requests \ {q} : request'[p] = request[p], NEW k,
           request[q].pc = "stored" => request[q].key # k,
           request'[q].pc = "stored" => request'[q].key # k
    PROVE  Pending(k)' <=> Pending(k)
BY DEF Pending

LEMMA ShelvesStay ==
    ASSUME UNCHANGED <<datasets, registered, swept>>
    PROVE  UNCHANGED Catalogue!shelves
<1>1. Uses' = Uses
  BY DEF Uses
<1> QED
  BY <1>1 DEF Catalogue!shelves, Uses

\* A step that shows nothing in the catalogue.
LEMMA CatalogueStays ==
    ASSUME UNCHANGED <<objects, datasets, registered, swept>>,
           \A k \in Keys : Stage(k)' = Stage(k)
    PROVE  [Catalogue!Next]_(Catalogue!fileVars)
<1>1. Stages' = Stages
  BY DEF Stages
<1>2. UNCHANGED Catalogue!catalogue
  BY <1>1 DEF Catalogue!catalogue, Stages
<1> QED
  BY <1>2, ShelvesStay DEF Catalogue!fileVars

\* A step that takes one file from one stage to the next.
LEMMA StageTurns ==
    ASSUME NEW k \in Keys, NEW from, NEW to, Stage(k) = from, Stage(k)' = to,
           \A h \in Keys \ {k} : Stage(h)' = Stage(h)
    PROVE  Catalogue!Turn(k, from, to)
<1>1. Stages[k] = from /\ Stages' = [Stages EXCEPT ![k] = to]
  BY DEF Stages
<1> QED
  BY <1>1 DEF Catalogue!Turn, Stages

\* No file changes its stage while requests, rows and keys stay.
LEMMA StagesStay ==
    ASSUME UNCHANGED <<allocated, files, request>>
    PROVE  \A k \in Keys : Stage(k)' = Stage(k)
<1>1. \A k : (Pending(k)' <=> Pending(k)) /\ FileRow(k)' = FileRow(k)
  BY DEF Pending, FileRow
<1> QED
  BY <1>1, StageStays

\* A dataset is registered on a file that is filed, or has been.
LEMMA RegisterSimulation ==
    ASSUME TypeInv, FilesInv, NEW u, NEW k \in 1 .. allocated, NEW v, ~Pending(k),
           InsertDataset(u, k, v), UNCHANGED <<objects, swept>>,
           \A h \in Keys : Stage(h)' = Stage(h)
    PROVE  [Catalogue!Next]_(Catalogue!fileVars)
<1>1. k \in Keys
  BY RegistryAssumption DEF TypeInv, TypeOK, Keys
<1>2. Stage(k) \in {"listed", "unlisted"}
  BY <1>1, StageIs
<1>3. Stages' = Stages /\ Stages[k] \in {"listed", "unlisted"}
  BY <1>1, <1>2 DEF Stages
<1>4. registered + 1 \in Ids /\ registered' = registered + 1
  BY RegistryAssumption DEF TypeInv, TypeOK, InsertDataset, Ids
<1>5. Uses' = [Uses EXCEPT ![registered + 1] = k]
  BY <1>4 DEF Uses, InsertDataset, TypeInv, TypeOK
<1>6. Catalogue!Register(k)
  BY <1>3, <1>4, <1>5 DEF Catalogue!Register, Catalogue!catalogue, Stages, Uses
<1> QED
  BY <1>1, <1>6 DEF Catalogue!Next

\* Uploads and deletions.
LEMMA RequestSimulation ==
    ASSUME TypeInv, FilesInv, KeysInv, NEW q \in Requests, Client(q)
    PROVE  [Catalogue!Next]_(Catalogue!fileVars)
<1> USE DEF storage, tables
<1>0. PICK k : k = request[q].key
  OBVIOUS
<1>1. /\ allocated \in Nat /\ allocated <= MaxKeys /\ MaxKeys \in Nat
      /\ request \in [Requests -> RequestRecords]
      /\ \A p \in Requests : request[p].pc # "idle" => request[p].key \in 1 .. allocated
  <2>1. /\ allocated \in Nat /\ allocated <= MaxKeys /\ MaxKeys \in Nat
        /\ request \in [Requests -> RequestRecords]
    BY RegistryAssumption DEF TypeInv, TypeOK
  <2> QED
    BY <2>1, RequestShapes
<1>2. \A p \in Requests \ {q} : request'[p] = request[p]
  BY ClientMoves
<1>3. request[q].pc # "idle" => k \in Keys /\ k \in 1 .. allocated
  BY <1>0, <1>1 DEF Keys
<1>4. ASSUME NEW u \in Users, NEW d \in BOOLEAN, StoreObject(q, u, d)
      PROVE  [Catalogue!Next]_(Catalogue!fileVars)
  <2>0. PICK n : n = allocated + 1
    OBVIOUS
  <2>1. /\ request[q].pc = "idle" /\ n \in Keys /\ allocated' = n
        /\ objects' = objects \cup {n} /\ UNCHANGED <<files, datasets, registered, swept>>
        /\ request' = [request EXCEPT ![q] = Call("stored", u, n, 0, d)]
    BY <1>1, <1>4, <2>0 DEF StoreObject, Goto, Keys
  <2>2. request'[q].pc = "stored" /\ request'[q].key = n
    BY <1>1, <2>1 DEF Call
  <2>3. n \notin 1 .. allocated /\ ~(n > n)
    BY <1>1, <2>0
  <2>4. Stage(n) = "absent"
    BY <2>1, <2>3, StageIs
  <2>5. Stage(n)' = "pending"
    BY <2>1, <2>2, <2>3 DEF Stage, Pending
  <2>6. ASSUME NEW h \in Keys \ {n} PROVE Stage(h)' = Stage(h)
    <3>1. h > n <=> h > allocated
      BY <1>1, <2>0, <2>6 DEF Keys
    <3>2. Pending(h)' <=> Pending(h)
      BY <1>2, <2>1, <2>2, <2>6, PendingElsewhere
    <3>3. FileRow(h)' = FileRow(h)
      BY <2>1 DEF FileRow
    <3> QED
      BY <2>1, <3>1, <3>2, <3>3, StageStays
  <2>7. Catalogue!Upload(n)
    BY <2>1, <2>4, <2>5, <2>6, StageTurns, ShelvesStay DEF Catalogue!Upload
  <2> QED
    BY <2>1, <2>7 DEF Catalogue!Next
<1>5. ASSUME UNCHANGED <<allocated, files>>, request'[q].pc # "stored",
             NEW h \in Keys, ~(request[q].pc = "stored" /\ h = k)
      PROVE  Stage(h)' = Stage(h)
  <2>1. Pending(h)' <=> Pending(h)
    BY <1>0, <1>2, <1>5, PendingElsewhere
  <2>2. FileRow(h)' = FileRow(h)
    BY <1>5 DEF FileRow
  <2> QED
    BY <1>5, <2>1, <2>2, StageStays
<1>6. CASE (\E f \in files : FindFile(q, f)) \/ ReadVersion(q)
  <2>1. request[q].pc # "stored" /\ UNCHANGED <<allocated, objects, files, datasets, registered, swept>>
    BY <1>6 DEF FindFile, ReadVersion
  <2>2. request'[q].pc # "stored"
    <3>1. ASSUME NEW f \in files, FindFile(q, f) PROVE request'[q].pc # "stored"
      BY <1>1, <3>1 DEF FindFile, Goto, Call
    <3>2. ASSUME ReadVersion(q) PROVE request'[q].pc # "stored"
      BY <1>1, <3>2 DEF ReadVersion, Goto, Call
    <3> QED
      BY <1>6, <3>1, <3>2
  <2> QED
    BY <1>5, <2>1, <2>2, CatalogueStays
<1>7. request[q].pc = "stored" =>
        /\ Pending(k) /\ FileRow(k) = {}
        /\ request'[q].pc # "stored" => ~Pending(k)'
  BY <1>0, <1>2 DEF Pending, FilesInv
<1>8. ASSUME AddFileMetadata(q) PROVE [Catalogue!Next]_(Catalogue!fileVars)
  <2>1. /\ request[q].pc = "stored" /\ UNCHANGED <<allocated, objects, datasets, registered, swept>>
        /\ files' = files \cup {[key |-> k, owner |-> request[q].user, at |-> Now]}
    BY <1>0, <1>8 DEF AddFileMetadata
  <2>2. request'[q].pc # "stored"
    <3>1. request'[q] = [request[q] EXCEPT !.pc = "filed"] \/ request'[q] = NoCall
      BY <1>1, <1>8 DEF AddFileMetadata, Goto, Reply
    <3>2. NoCall.pc = "idle"
      BY DEF NoCall, Call
    <3>3. [request[q] EXCEPT !.pc = "filed"].pc = "filed"
      <4>1. request[q] = Call("stored", request[q].user, k, request[q].version, request[q].register)
        BY <1>0, <1>1, <2>1, RequestShapes
      <4> QED
        BY <4>1 DEF Call
    <3> QED
      BY <3>1, <3>2, <3>3
  <2>3. /\ FileRow(k)' # {}
        /\ \A h \in Keys \ {k} : FileRow(h)' = FileRow(h)
    <3>1. PICK f : f.key = k /\ files' = files \cup {f}
      BY <2>1
    <3> QED
      BY <3>1 DEF FileRow
  <2>4. k \in Keys /\ k \in 1 .. allocated /\ ~(k > allocated)
    BY <1>1, <1>3, <2>1
  <2>5. Stage(k) = "pending"
    BY <1>7, <2>1, <2>4, StageIs
  <2>6. Stage(k)' = "listed"
    BY <1>7, <2>1, <2>2, <2>3, <2>4 DEF Stage
  <2>7. ASSUME NEW h \in Keys \ {k} PROVE Stage(h)' = Stage(h)
    <3>1. Pending(h)' <=> Pending(h)
      BY <1>0, <1>2, <2>2, <2>7, PendingElsewhere
    <3> QED
      BY <2>1, <2>3, <3>1, StageStays
  <2>8. Catalogue!List(k)
    BY <2>1, <2>4, <2>5, <2>6, <2>7, StageTurns, ShelvesStay DEF Catalogue!List
  <2> QED
    BY <2>4, <2>8 DEF Catalogue!Next
<1>9. ASSUME RegisterUpload(q) PROVE [Catalogue!Next]_(Catalogue!fileVars)
  <2>1. /\ request[q].pc = "versioned" /\ UNCHANGED <<allocated, objects, files, swept>>
        /\ \E u, v : InsertDataset(u, k, v)
        /\ request' = [request EXCEPT ![q] = NoCall]
    BY <1>0, <1>9 DEF RegisterUpload, Reply, Goto
  <2>2. request'[q].pc # "stored"
    BY <1>1, <2>1 DEF NoCall, Call
  <2>3. ~Pending(k) /\ k \in 1 .. allocated
    BY <1>0, <1>3, <2>1 DEF KeysInv, UnfiledApart, Pending
  <2>4. \A h \in Keys : Stage(h)' = Stage(h)
    BY <1>5, <2>1, <2>2
  <2> QED
    BY <2>1, <2>3, <2>4, RegisterSimulation
<1>10. ASSUME DeleteMetadata(q) PROVE [Catalogue!Next]_(Catalogue!fileVars)
  <2>1. /\ request[q].pc = "found" /\ UNCHANGED <<allocated, objects, datasets, registered, swept>>
        /\ files' = files \ FileRow(k)
    BY <1>0, <1>10 DEF DeleteMetadata
  <2>2. request'[q].pc # "stored"
    <3>1. request'[q] = [request[q] EXCEPT !.pc = "unfiled"]
      BY <1>1, <1>10 DEF DeleteMetadata, Goto
    <3>2. request[q] = Call("found", request[q].user, k, request[q].version, request[q].register)
      BY <1>0, <1>1, <2>1, RequestShapes
    <3> QED
      BY <3>1, <3>2 DEF Call
  <2>3. k \in Keys /\ k \in 1 .. allocated /\ ~(k > allocated)
    BY <1>1, <1>3, <2>1
  <2>4. \A h \in Keys : Pending(h)' <=> Pending(h)
    BY <1>2, <2>1, <2>2, PendingElsewhere
  <2>5. ASSUME NEW h \in Keys \ {k} PROVE Stage(h)' = Stage(h)
    <3>1. FileRow(h)' = FileRow(h)
      BY <2>1, <2>5 DEF FileRow
    <3> QED
      BY <2>1, <2>4, <3>1, StageStays
  <2>6. FileRow(k)' = {}
    BY <2>1 DEF FileRow
  <2>7. CASE FileRow(k) = {}
    <3>1. Stage(k)' = Stage(k)
      BY <2>1, <2>3, <2>4, <2>6, <2>7, StageStays
    <3> QED
      BY <2>1, <2>5, <3>1, CatalogueStays
  <2>8. CASE FileRow(k) # {}
    <3>1. Stage(k) = "listed"
      BY <2>3, <2>8, StageIs
    <3>2. ~Pending(k)
      BY <2>3, <3>1, StageIs
    <3>3. Stage(k)' = "unlisted"
      BY <2>1, <2>3, <2>4, <2>6, <3>2 DEF Stage
    <3>4. Catalogue!Unlist(k)
      BY <2>1, <2>3, <2>5, <3>1, <3>3, StageTurns, ShelvesStay DEF Catalogue!Unlist
    <3> QED
      BY <2>3, <3>4 DEF Catalogue!Next
  <2> QED
    BY <2>7, <2>8
<1>11. ASSUME DeleteObject(q) PROVE [Catalogue!Next]_(Catalogue!fileVars)
  <2>1. /\ request[q].pc = "unfiled" /\ UNCHANGED <<allocated, files, datasets, registered, swept>>
        /\ objects' = objects \ {k} /\ request' = [request EXCEPT ![q] = NoCall]
    BY <1>0, <1>11 DEF DeleteObject, Reply, Goto
  <2>2. request'[q].pc # "stored"
    BY <1>1, <2>1 DEF NoCall, Call
  <2>3. FileRow(k) = {} /\ ~Pending(k)
    BY <1>0, <2>1 DEF FilesInv, Pending
  <2>4. k \in Keys /\ k \in 1 .. allocated
    BY <1>3, <2>1
  <2>5. Stage(k) = "unlisted"
    BY <2>3, <2>4, StageIs
  <2>6. \A h \in Keys : Stage(h)' = Stage(h)
    BY <1>5, <2>1, <2>2
  <2>7. Stages' = Stages /\ Stages[k] = "unlisted"
    BY <2>4, <2>5, <2>6 DEF Stages
  <2>8. Catalogue!Remove(k)
    BY <2>1, <2>7, ShelvesStay DEF Catalogue!Remove, Stages
  <2> QED
    BY <2>4, <2>8 DEF Catalogue!Next
<1>12. ASSUME RequestFails(q) PROVE [Catalogue!Next]_(Catalogue!fileVars)
  <2>1. /\ request[q].pc # "idle" /\ UNCHANGED <<allocated, objects, files, datasets, registered, swept>>
        /\ request' = [request EXCEPT ![q] = NoCall]
    BY <1>12 DEF RequestFails, Reply, Goto
  <2>2. request'[q].pc # "stored"
    BY <1>1, <2>1 DEF NoCall, Call
  <2>3. CASE request[q].pc # "stored"
    BY <1>5, <2>1, <2>2, <2>3, CatalogueStays
  <2>4. CASE request[q].pc = "stored"
    <3>1. k \in Keys /\ k \in 1 .. allocated /\ ~(k > allocated)
      BY <1>1, <1>3, <2>1
    <3>2. Stage(k) = "pending"
      BY <1>7, <2>4, <3>1, StageIs
    <3>3. FileRow(k)' = {}
      BY <1>7, <2>1, <2>4 DEF FileRow
    <3>4. Stage(k)' = "unlisted"
      BY <1>7, <2>1, <2>2, <2>4, <3>1, <3>3 DEF Stage
    <3>5. \A h \in Keys \ {k} : Stage(h)' = Stage(h)
      BY <1>5, <2>1, <2>2
    <3>6. Catalogue!GiveUp(k)
      BY <2>1, <3>1, <3>2, <3>4, <3>5, StageTurns, ShelvesStay DEF Catalogue!GiveUp
    <3> QED
      BY <3>1, <3>6 DEF Catalogue!Next
  <2> QED
    BY <2>3, <2>4
<1> QED
  BY <1>4, <1>6, <1>8, <1>9, <1>10, <1>11, <1>12 DEF Client, RequestStep

\* Trainings register datasets; the rest of them does not show.
LEMMA TrainingSimulation ==
    ASSUME TypeInv, FilesInv, KeysInv, NEW t \in Trainings, TrainingStep(t) \/ Abandon(t)
    PROVE  [Catalogue!Next]_(Catalogue!fileVars)
<1> USE DEF storage, tables
<1>1. UNCHANGED <<allocated, objects, files, request, swept>>
  BY DEF TrainingStep, FetchFiles, ReadTrainingVersion, RegisterTraining, CreateRun, ReadData,
     FinishRun, Abandon
<1>2. \A k \in Keys : Stage(k)' = Stage(k)
  BY <1>1, StagesStay
<1>3. CASE RegisterTraining(t)
  <2>1. training[t].pc = "versioned" /\ \E u, v : InsertDataset(u, training[t].key, v)
    BY <1>3 DEF RegisterTraining
  <2>2. training[t].key \in 1 .. allocated
    <3>1. allocated \in Nat /\ training[t] \in TrainingRecords
      BY RegistryAssumption DEF TypeInv, TypeOK
    <3> QED
      BY <2>1, <3>1, TrainingShapes
  <2>3. ~Pending(training[t].key)
    BY <2>1 DEF KeysInv, UnfiledApart, Pending
  <2> QED
    BY <1>1, <1>2, <2>1, <2>2, <2>3, RegisterSimulation
<1>4. CASE ~RegisterTraining(t)
  <2>1. UNCHANGED <<datasets, registered>>
    BY <1>4 DEF TrainingStep, FetchFiles, ReadTrainingVersion, CreateRun, ReadData, FinishRun, Abandon
  <2> QED
    BY <1>1, <1>2, <2>1, CatalogueStays
<1> QED
  BY <1>3, <1>4

\* A cleanup that is not refused takes the rows that are left of its choice.
LEMMA CleanupSimulation ==
    ASSUME TypeInv, KeysInv, NEW c \in Cleaners, DeleteDatasets(c), swept' # swept \/ datasets' # datasets
    PROVE  [Catalogue!Next]_(Catalogue!fileVars)
<1>0. PICK S : S = {i \in cleaner[c].ids : Exists(i)}
  OBVIOUS
<1>1. /\ cleaner[c].pc = "deleting" /\ swept' = swept \cup cleaner[c].keys
      /\ datasets' = [i \in Ids |-> IF i \in S THEN NoDataset ELSE datasets[i]]
      /\ UNCHANGED <<allocated, objects, files, registered, request>>
  BY <1>0 DEF DeleteDatasets
<1>2. /\ S \in SUBSET Ids
      /\ \A i \in S : datasets[i].key \in Keys /\ datasets[i].key \in cleaner[c].keys
      /\ \A k \in cleaner[c].keys : k \in swept \/ \E i \in S : datasets[i].key = k
  <2>1. cleaner[c].ids \subseteq Ids
    BY DEF TypeInv, TypeOK, CleanerRecords
  <2>2. ChosenKeys(c)
    BY DEF KeysInv
  <2>3. \A i \in Ids : Exists(i) => datasets[i].key \in Keys
    BY RegistryAssumption, DatasetShapes DEF TypeInv, TypeOK
  <2> QED
    BY <1>0, <1>1, <2>1, <2>2, <2>3 DEF ChosenKeys
<1>3. 0 \notin Keys /\ NoDataset.key = 0
  BY DEF Keys, NoDataset
<1>4. \A i \in S : Uses[i] # 0 /\ Uses[i] = datasets[i].key
  BY <1>2, <1>3 DEF Uses
<1>5. Uses' = [i \in Ids |-> IF i \in S THEN 0 ELSE Uses[i]]
  BY <1>1, <1>3 DEF Uses
<1>6. swept' = swept \cup {Uses[i] : i \in S}
  BY <1>1, <1>2, <1>4
<1>7. Stages' = Stages
  BY <1>1, StagesStay DEF Stages
<1>8. Catalogue!Cleanup(S)
  BY <1>1, <1>4, <1>5, <1>6, <1>7 DEF Catalogue!Cleanup, Catalogue!catalogue, Stages, Uses
<1> QED
  BY <1>2, <1>8 DEF Catalogue!Next

\* Cleanups take datasets, then sweep their files.
LEMMA CleanerSimulation ==
    ASSUME TypeInv, FilesInv, KeysInv, NEW c \in Cleaners,
           \/ SelectExpired(c) \/ CleanupStep(c) \/ CleanerFails(c)
           \/ \E k \in Keys : SkipFile(c, k)
    PROVE  [Catalogue!Next]_(Catalogue!fileVars)
<1> USE DEF storage, tables
<1>1. UNCHANGED <<allocated, files, request, registered>>
  BY DEF SelectExpired, CleanupStep, DeleteRuns, DeleteDatasets, RemoveFile, SkipFile, CleanerFails
<1>2. \A k \in Keys : Stage(k)' = Stage(k)
  BY <1>1, StagesStay
<1>3. CASE DeleteDatasets(c)
  <2>1. CASE swept' = swept /\ datasets' = datasets
    <3>1. objects' = objects
      BY <1>3 DEF DeleteDatasets
    <3> QED
      BY <1>1, <1>2, <2>1, <3>1, CatalogueStays
  <2> QED
    BY <1>3, <2>1, CleanupSimulation
<1>4. ASSUME NEW k \in Keys, RemoveFile(c, k) PROVE [Catalogue!Next]_(Catalogue!fileVars)
  <2>1. /\ cleaner[c].pc = "removing" /\ k \in cleaner[c].keys /\ objects' = objects \ {k}
        /\ UNCHANGED <<datasets, registered, swept>>
    BY <1>4 DEF RemoveFile
  <2>2. k \in swept
    BY <2>1 DEF FilesInv
  <2>3. Stages' = Stages
    BY <1>2 DEF Stages
  <2>4. Catalogue!Sweep(k)
    BY <2>1, <2>2, <2>3, ShelvesStay DEF Catalogue!Sweep, Stages
  <2> QED
    BY <2>4 DEF Catalogue!Next
<1>5. CASE ~DeleteDatasets(c) /\ ~ \E k \in Keys : RemoveFile(c, k)
  <2>1. UNCHANGED <<objects, datasets, swept>>
    BY <1>5 DEF SelectExpired, CleanupStep, DeleteRuns, SkipFile, CleanerFails
  <2> QED
    BY <1>1, <1>2, <2>1, CatalogueStays
<1> QED
  BY <1>3, <1>4, <1>5

\* A storage that gives up leaves a file that is never listed, or none.
LEMMA StoreFailsSimulation ==
    ASSUME TypeInv, FilesInv, StoreFails
    PROVE  [Catalogue!Next]_(Catalogue!fileVars)
<1> USE DEF storage, tables
<1>0. PICK n : n = allocated + 1
  OBVIOUS
<1>1. /\ allocated \in Nat /\ n \in Keys /\ allocated' = n /\ objects' \in {objects, objects \cup {n}}
      /\ UNCHANGED <<files, request, datasets, registered, swept>>
  BY <1>0, RegistryAssumption DEF StoreFails, Keys, TypeInv, TypeOK
<1>2. n \notin 1 .. allocated /\ ~(n > n)
  BY <1>0, <1>1
<1>3. Stage(n) = "absent"
  BY <1>1, <1>2, StageIs
<1>4. \A h \in Keys : (Pending(h)' <=> Pending(h)) /\ FileRow(h)' = FileRow(h)
  BY <1>1 DEF Pending, FileRow
<1>5. ~Pending(n) /\ FileRow(n) = {}
  BY <1>1, <1>3, StageIs
<1>6. Stage(n)' = "unlisted"
  BY <1>1, <1>2, <1>4, <1>5 DEF Stage
<1>7. ASSUME NEW h \in Keys \ {n} PROVE Stage(h)' = Stage(h)
  <2>1. h > n <=> h > allocated
    BY <1>0, <1>1, <1>7 DEF Keys
  <2> QED
    BY <1>1, <1>4, <2>1, StageStays
<1>8. Catalogue!UploadFails(n)
  BY <1>1, <1>3, <1>6, <1>7, StageTurns, ShelvesStay DEF Catalogue!UploadFails
<1> QED
  BY <1>1, <1>8 DEF Catalogue!Next

\* Uploads, deletions, trainings and cleanups implement FileCatalogue, whatever
\* fails: a file is listed once, and it goes only after it was unlisted or after a
\* dataset that used it was cleaned up (file_saver_service.py, ml_api.py).
THEOREM KeepsTheCatalogue == Spec => CatalogueSpec
<1>1. Init => Catalogue!Init
  <2> SUFFICES ASSUME Init PROVE Catalogue!Init
    OBVIOUS
  <2>1. \A k \in Keys : k > allocated
    BY RegistryAssumption DEF Init, Keys
  <2>2. Stages = [k \in Keys |-> "absent"]
    BY <2>1 DEF Stages, Stage
  <2>3. Uses = [i \in Ids |-> 0]
    BY DEF Init, Uses, NoDataset
  <2> QED
    BY <2>2, <2>3 DEF Init, Catalogue!Init, Stages, Uses
<1>2. TypeInv /\ FilesInv /\ KeysInv /\ [Next]_vars => [Catalogue!Next]_(Catalogue!fileVars)
  <2> SUFFICES ASSUME TypeInv, FilesInv, KeysInv, [Next]_vars
               PROVE  [Catalogue!Next]_(Catalogue!fileVars)
    OBVIOUS
  <2>1. CASE Age \/ UNCHANGED vars
    <3>1. UNCHANGED <<allocated, objects, files, request, datasets, registered, swept>>
      BY <2>1 DEF Age, vars, storage, tables
    <3> QED
      BY <3>1, StagesStay, CatalogueStays
  <2> QED
    BY <2>1, NextCases, StoreFailsSimulation, RequestSimulation, TrainingSimulation, CleanerSimulation
<1> QED
  BY <1>1, <1>2, TypeInvHolds, FilesInvHolds, KeysInvHolds, PTL
  DEF Spec, CatalogueSpec, Catalogue!Spec

=============================================================================
