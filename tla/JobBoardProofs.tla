--------------------------- MODULE JobBoardProofs ---------------------------
(***************************************************************************)
(* JobLifecycle implements JobBoard: every step of the tables, loops,      *)
(* tasks and requests is a step of the board, or leaves it as it is.       *)
(***************************************************************************)
EXTENDS JobLifecycleProofs

\* The refinement mapping of the board's holders.
Holders == [j \in Jobs |-> {w \in Workers : Live(w, j)}]

-----------------------------------------------------------------------------
\* A step that changes neither a row, nor who works on it, nor what is disowned.
LEMMA BoardStutters ==
    ASSUME status' = status, overturned' = overturned,
           \A w \in Workers, j \in Jobs : Live(w, j)' = Live(w, j)
    PROVE  UNCHANGED Board!boardVars
<1>1. Holders' = Holders
  BY DEF Holders
<1> QED
  BY <1>1 DEF Board!boardVars, Holders

\* The step of one task: the others of the same and of other processes stay.
LEMMA OneTaskMoves ==
    ASSUME TypeOK, ClaimInv, NEW w \in Workers, NEW j \in Jobs, NEW t,
           Live(w, j), SetTask(w, j, t)
    PROVE  /\ Holders[j] = {w}
           /\ t.pc # "none" => Holders' = Holders
           /\ t.pc = "none" => Holders' = [Holders EXCEPT ![j] = {}]
<1>1. Holders[j] = {w}
  BY DEF Holders, ClaimInv
<1>2. \A x \in Workers, k \in Jobs :
        Live(x, k)' <=> IF x = w /\ k = j THEN t.pc # "none" ELSE Live(x, k)
  BY DEF TypeOK, SetTask, Live
<1>3. CASE t.pc # "none"
  <2>1. \A k \in Jobs : {x \in Workers : Live(x, k)'} = {x \in Workers : Live(x, k)}
    BY <1>2, <1>3
  <2> QED
    BY <1>1, <1>3, <2>1 DEF Holders
<1>4. CASE t.pc = "none"
  <2>1. \A k \in Jobs \ {j} : {x \in Workers : Live(x, k)'} = {x \in Workers : Live(x, k)}
    BY <1>2
  <2>2. {x \in Workers : Live(x, j)'} = {}
    BY <1>1, <1>2, <1>4 DEF Holders
  <2> QED
    BY <1>1, <1>4, <2>1, <2>2 DEF Holders
<1> QED
  BY <1>1, <1>3, <1>4

\* Each step of a task is a decision of the holder, a disowning, letting the job
\* go, or nothing the board shows.
LEMMA TaskSimulation ==
    ASSUME TypeOK, ClaimInv, VerdictInv, NEW w \in Workers, NEW j \in Jobs,
           TaskStep(w, j) \/ TaskTrouble(w, j)
    PROVE  [Board!Next]_(Board!boardVars)
<1> USE DEF tables, history
<1>0. Live(w, j)
  BY DEF TaskStep, TaskTrouble, Live, Work, SaveResult, TaskReturns,
         SaveFailure, TimeOut, SaveFails, RescueFails
<1>1. CASE Work(w, j)
  <2>1. PICK v \in Terminal : SetTask(w, j, TaskAt("saving", v))
    BY <1>1 DEF Work
  <2>2. Holders' = Holders
    BY <1>0, <2>1, OneTaskMoves, TaskShapes
  <2> QED
    BY <1>1, <2>2 DEF Work, Holders, Board!boardVars
<1>2. CASE SaveResult(w, j)
  <2>1. task[w][j].verdict \in Terminal /\ status[j] = "PROCESSING"
    BY <1>2, TaskShapes DEF SaveResult, TypeOK, VerdictInv
  <2>2. Holders' = Holders /\ Holders[j] = {w}
    BY <1>0, <1>2, <2>1, OneTaskMoves, TaskShapes DEF SaveResult
  <2>3. Board!Decide(w, j, task[w][j].verdict)
    BY <1>2, <2>1, <2>2
    DEF SaveResult, UpdateJobStatus, Board!Decide, Board!Decided, Holders, Terminal
  <2> QED
    BY <2>1, <2>3 DEF Board!Next, Board!Decided, Terminal
<1>3. CASE TaskReturns(w, j) \/ RescueFails(w, j)
  <2>1. SetTask(w, j, NoTask) /\ UNCHANGED <<status, overturned>>
    BY <1>3 DEF TaskReturns, RescueFails
  <2>2. Holders[j] = {w} /\ Holders' = [Holders EXCEPT ![j] = {}]
    BY <1>0, <2>1, OneTaskMoves, TaskShapes
  <2>3. Holders' = [k \in Jobs |-> IF k \in {j} THEN Holders[k] \ {w} ELSE Holders[k]]
    BY <2>2 DEF Holders
  <2>4. {j} \in SUBSET Jobs /\ {j} \subseteq Board!HeldBy(w)
    BY <2>2 DEF Board!HeldBy, Holders
  <2>5. Board!LetGo(w, {j})
    BY <2>1, <2>3, <2>4 DEF Board!LetGo, Holders
  <2> QED
    BY <2>4, <2>5 DEF Board!Next
<1>4. CASE SaveFailure(w, j)
  <2>1. /\ task[w][j].verdict = "FAILURE"
        /\ status[j] = "PROCESSING" \/ status[j] = "FAILURE" \/ j \in overturned
    BY <1>4 DEF SaveFailure, VerdictInv, Stands
  <2>2. Holders[j] = {w} /\ Holders' = [Holders EXCEPT ![j] = {}]
    BY <1>0, <1>4, OneTaskMoves, TaskShapes DEF SaveFailure
  <2>3. Board!Decide(w, j, "FAILURE")
    BY <1>4, <2>1, <2>2
    DEF SaveFailure, UpdateJobStatus, Board!Decide, Board!Decided, Holders
  <2> QED
    BY <2>3 DEF Board!Next, Board!Decided
<1>5. CASE TimeOut(w, j)
  <2>1. Holders' = Holders /\ Holders[j] = {w}
    BY <1>0, <1>5, OneTaskMoves, TaskShapes DEF TimeOut, Rescue
  <2>2. status' = status
    BY <1>5 DEF TimeOut
  <2>3. CASE overturned' = overturned
    BY <2>1, <2>2, <2>3 DEF Holders, Board!boardVars
  <2>4. CASE overturned' # overturned
    <3>1. overturned' = overturned \cup {j} /\ status[j] = "SUCCESS"
      BY <1>5, <2>4 DEF TimeOut, Disown, VerdictInv, Stands
    <3>2. Board!Disown(w, j)
      BY <2>1, <2>2, <3>1 DEF Board!Disown, Holders
    <3> QED
      BY <3>2 DEF Board!Next
  <2> QED
    BY <2>3, <2>4
<1>6. CASE SaveFails(w, j)
  <2>1. task[w][j].verdict \in Terminal /\ status[j] = "PROCESSING"
    BY <1>6, TaskShapes DEF SaveFails, TypeOK, VerdictInv
  <2>2. Holders' = Holders /\ Holders[j] = {w}
    BY <1>0, <1>6, OneTaskMoves, TaskShapes DEF SaveFails, Rescue
  <2>3. CASE UNCHANGED <<status, overturned>>
    BY <2>2, <2>3 DEF Holders, Board!boardVars
  <2>4. CASE /\ status' = [status EXCEPT ![j] = task[w][j].verdict]
             /\ Disown(w, j)
    <3>1. Board!Decide(w, j, task[w][j].verdict)
      BY <2>1, <2>2, <2>4 DEF Disown, Board!Decide, Board!Decided, Holders, Terminal
    <3> QED
      BY <2>1, <3>1 DEF Board!Next, Board!Decided, Terminal
  <2> QED
    BY <1>6, <2>3, <2>4 DEF SaveFails, UpdateJobStatus
<1> QED
  BY <1>1, <1>2, <1>3, <1>4, <1>5, <1>6 DEF TaskStep, TaskTrouble

\* Each step of a processor loop is a claim, a claim lost, or nothing.
LEMMA LoopSimulation ==
    ASSUME TypeOK, ClaimInv, BatchInv, NEW w \in Workers,
           \/ LoopStep(w) \/ FetchFails(w) \/ Stop(w) \/ Start(w)
    PROVE  [Board!Next]_(Board!boardVars)
<1> USE DEF tables, history
<1>1. CASE SelectNewJobs(w) \/ BatchDone(w) \/ WakeUp(w) \/ Start(w)
  BY <1>1, BoardStutters DEF SelectNewJobs, BatchDone, WakeUp, Start, Live
<1>2. CASE CommitClaim(w) \/ FetchFails(w)
  <2> DEFINE S == locked[w]
  <2>1. /\ S \in SUBSET Jobs /\ Cardinality(S) <= BatchSize
        /\ \A j \in S : status[j] = "NEW" /\ Holders[j] = {}
    BY DEF TypeOK, BatchInv, ClaimInv, Holders, Terminal
  <2>2. overturned' = overturned
    BY <1>2 DEF CommitClaim, FetchFails
  <2>3. CASE CommitClaim(w)
    <3>1. status' = [j \in Jobs |-> IF j \in S THEN "PROCESSING" ELSE status[j]]
      BY <2>3 DEF CommitClaim, MarkClaimed
    <3>2. \A j \in Jobs : ~Live(w, j)
      BY <2>3 DEF CommitClaim, ClaimInv
    <3>3. \A x \in Workers, j \in Jobs :
            Live(x, j)' <=> IF j \in S THEN x = w ELSE Live(x, j)
      <4>1. \A j \in S, x \in Workers : ~Live(x, j)
        BY <2>1 DEF Holders
      <4>2. \A x \in Workers \ {w}, j \in Jobs : Live(x, j)' = Live(x, j)
        BY <2>3 DEF CommitClaim, Live, TypeOK
      <4>3. \A j \in Jobs : Live(w, j)' <=> j \in S
        BY <2>3, <3>2, TaskShapes DEF CommitClaim, Live, TypeOK
      <4> QED
        BY <3>2, <4>1, <4>2, <4>3
    <3>4. Holders' = [j \in Jobs |-> IF j \in S THEN {w} ELSE Holders[j]]
      BY <3>3 DEF Holders
    <3>5. Board!HeldBy(w) = {}
      BY <3>2 DEF Board!HeldBy
    <3>6. CASE S = {}
      <4>1. Holders' = Holders /\ status' = status
        BY <3>1, <3>4, <3>6 DEF Holders, TypeOK
      <4> QED
        BY <2>2, <4>1 DEF Holders, Board!boardVars
    <3>7. CASE S # {}
      <4>1. Board!Claim(S, {w})
        <5>1. {w} = {} \/ \E x \in Workers : {w} = {x} /\ Board!HeldBy(x) = {}
          BY <3>5
        <5>2. S # {} /\ S \in {B \in SUBSET Jobs : Cardinality(B) <= BatchSize}
          BY <2>1, <3>7
        <5>3. \A j \in S : status[j] = "NEW" /\ Holders[j] = {}
          BY <2>1
        <5> HIDE DEF S
        <5> QED
          BY <5>1, <5>2, <5>3, <2>2, <3>1, <3>4 DEF Board!Claim, Holders
      <4> QED
        BY <2>1, <4>1 DEF Board!Next
    <3> QED
      BY <3>6, <3>7
  <2>4. CASE FetchFails(w)
    <3>1. \A x \in Workers, j \in Jobs : Live(x, j)' = Live(x, j)
      BY <2>4 DEF FetchFails, Live
    <3>2. CASE status' = status
      BY <2>2, <3>1, <3>2, BoardStutters
    <3>3. CASE status' # status
      <4>1. status' = [j \in Jobs |-> IF j \in S THEN "PROCESSING" ELSE status[j]]
        BY <2>4, <3>3 DEF FetchFails, MarkClaimed
      <4>2. S # {}
        BY <3>3, <4>1 DEF TypeOK
      <4>3. Holders' = [j \in Jobs |-> IF j \in S THEN {} ELSE Holders[j]]
        BY <2>1, <3>1 DEF Holders
      <4>4. Board!Claim(S, {})
        <5>1. S # {} /\ S \in {B \in SUBSET Jobs : Cardinality(B) <= BatchSize}
          BY <2>1, <4>2
        <5>2. \A j \in S : status[j] = "NEW" /\ Holders[j] = {}
          BY <2>1
        <5> HIDE DEF S
        <5> QED
          BY <5>1, <5>2, <2>2, <4>1, <4>3 DEF Board!Claim, Holders
      <4> QED
        BY <2>1, <4>4 DEF Board!Next
    <3> QED
      BY <3>2, <3>3
  <2> QED
    BY <1>2, <2>3, <2>4
<1>3. CASE Stop(w)
  <2>1. \A x \in Workers, j \in Jobs : Live(x, j)' <=> x # w /\ Live(x, j)
    BY <1>3, TaskShapes DEF Stop, Live, TypeOK
  <2> DEFINE S == Board!HeldBy(w)
  <2>2. S \in SUBSET Jobs /\ \A j \in Jobs : j \in S <=> Live(w, j)
    BY DEF Board!HeldBy
  <2>3. Holders' = [j \in Jobs |-> IF j \in S THEN Holders[j] \ {w} ELSE Holders[j]]
    <3>1. \A j \in Jobs : {x \in Workers : Live(x, j)'}
            = IF j \in S THEN {x \in Workers : Live(x, j)} \ {w}
                         ELSE {x \in Workers : Live(x, j)}
      BY <2>1, <2>2
    <3> QED
      BY <3>1 DEF Holders
  <2>4. Board!LetGo(w, S)
    BY <1>3, <2>2, <2>3 DEF Stop, Board!LetGo, Holders
  <2> QED
    BY <2>2, <2>4 DEF Board!Next
<1> QED
  BY <1>1, <1>2, <1>3 DEF LoopStep

\* Each step of a request submits a job, writes back a SUCCESS, or does nothing.
LEMMA ClientSimulation ==
    ASSUME TypeOK, ClaimInv, VerdictInv, NEW r \in Requests, Client(r)
    PROVE  [Board!Next]_(Board!boardVars)
<1> USE DEF tables, history
<1>1. UNCHANGED <<task, overturned>>
  BY DEF Client, CreateJob, CheckOngoing, InsertJob, FetchJobResult, ReadBalance,
         WriteBalance, RecordPayment, RequestFails
<1>2. Holders' = Holders
  BY <1>1 DEF Holders, Live
<1>3. CASE InsertJob(r)
  <2>1. PICK j \in Jobs : Board!Submit(j)
    BY <1>1, <1>2, <1>3 DEF InsertJob, UpdateJobStatus, Board!Submit, Holders
  <2> QED
    BY <2>1 DEF Board!Next
<1>4. CASE RecordPayment(r)
  <2>1. /\ request[r].job \in Jobs
        /\ status[request[r].job] = "SUCCESS" \/ request[r].job \in overturned
        /\ status[request[r].job] \in Terminal
    BY <1>4, RequestShapes
    DEF RecordPayment, TypeOK, VerdictInv, Paying, Stands, Terminal
  <2>2. Board!Restore(request[r].job)
    BY <1>1, <1>2, <1>4, <2>1
    DEF RecordPayment, UpdateJobStatus, Board!Restore, Holders, Terminal
  <2> QED
    BY <2>1, <2>2 DEF Board!Next
<1>5. CASE ~InsertJob(r) /\ ~RecordPayment(r)
  <2>1. status' = status
    BY <1>5 DEF Client, CreateJob, CheckOngoing, FetchJobResult, ReadBalance,
                WriteBalance, RequestFails
  <2> QED
    BY <1>1, <1>2, <2>1 DEF Board!boardVars, Holders
<1> QED
  BY <1>3, <1>4, <1>5

-----------------------------------------------------------------------------
\* The job table with its processes, tasks and requests implements the board:
\* a job is claimed once and decided by its holder (job_service.py,
\* job_processor.py, job_repository.py).
THEOREM Refinement == Spec => BoardSpec
<1>1. Init => Board!Init
  <2> SUFFICES ASSUME Init PROVE Board!Init
    OBVIOUS
  <2>1. \A w \in Workers, j \in Jobs : ~Live(w, j)
    BY TaskShapes DEF Init, Live
  <2>2. Holders = [j \in Jobs |-> {}]
    BY <2>1 DEF Holders
  <2> QED
    BY <2>2 DEF Init, Board!Init, Holders
<1>2. TypeOK /\ ClaimInv /\ VerdictInv /\ BatchInv /\ [Next]_vars
        => [Board!Next]_(Board!boardVars)
  <2> SUFFICES ASSUME TypeOK, ClaimInv, VerdictInv, BatchInv, [Next]_vars
               PROVE  [Board!Next]_(Board!boardVars)
    OBVIOUS
  <2>1. CASE UNCHANGED vars
    BY <2>1, BoardStutters DEF vars, tables, history, Live
  <2> QED
    BY <2>1, TaskSimulation, LoopSimulation, ClientSimulation DEF Next
<1> QED
  BY <1>1, <1>2, ClaimsAndVerdicts, Inductive, PTL
  DEF Spec, InductiveInv, BoardSpec, Board!Spec

=============================================================================
