------------------------- MODULE JobLifecycleProofs -------------------------
(***************************************************************************)
(* Proofs about JobLifecycle, for any number of processes, users, jobs and *)
(* requests, any batch size, grant and number of faults.                   *)
(***************************************************************************)
EXTENDS JobLifecycle, FiniteSetTheorems, TLAPS

(***************************************************************************)
(* The records: what a request or a task holds at each of its points.      *)
(***************************************************************************)

\* The local variables of create_job and fetch_job_result at every await.
LEMMA RequestShapes ==
    /\ NoRequest \in RequestRecords /\ NoRequest.pc = "idle"
    /\ \A u \in Users :
        /\ RequestAt("check", u, None, 0) \in RequestRecords
        /\ RequestAt("insert", u, None, 0) \in RequestRecords
    /\ \A u \in Users, j \in Jobs :
        /\ RequestAt("balance", u, j, 0) \in RequestRecords
        /\ RequestAt("record", u, j, 0) \in RequestRecords
        /\ \A n \in Nat \ {0} : RequestAt("charge", u, j, n) \in RequestRecords
    /\ \A q \in RequestRecords :
        /\ q.pc # "idle" => q.user \in Users
        /\ q.pc \in {"balance", "charge", "record"} => q.job \in Jobs
        /\ q.pc = "charge" => q.balance \in Nat \ {0}
<1> USE DEF RequestAt, NoRequest
<1>1. /\ \A q \in CreateRequests : q.pc \in {"check", "insert"} /\ q.user \in Users
      /\ \A q \in PaymentRequests :
            q.pc \in {"balance", "record"} /\ q.user \in Users /\ q.job \in Jobs
      /\ \A q \in ChargeRequests :
            /\ q.pc = "charge" /\ q.user \in Users /\ q.job \in Jobs
            /\ q.balance \in Nat \ {0}
      /\ NoRequest.pc = "idle"
  BY DEF CreateRequests, PaymentRequests, ChargeRequests
<1>2. \A u \in Users : /\ RequestAt("check", u, None, 0) \in CreateRequests
                       /\ RequestAt("insert", u, None, 0) \in CreateRequests
  BY DEF CreateRequests
<1>3. \A u \in Users, j \in Jobs :
        /\ RequestAt("balance", u, j, 0) \in PaymentRequests
        /\ RequestAt("record", u, j, 0) \in PaymentRequests
        /\ \A n \in Nat \ {0} : RequestAt("charge", u, j, n) \in ChargeRequests
  BY DEF PaymentRequests, ChargeRequests
<1> QED
  BY <1>1, <1>2, <1>3 DEF RequestRecords

\* The states of _process_job_with_timeout, with the status its job object has.
LEMMA TaskShapes ==
    /\ NoTask \in Tasks /\ NoTask.pc = "none"
    /\ Running \in Tasks /\ Running.pc = "running"
    /\ \A p \in {"saving", "saved", "rescuing"}, v \in Terminal :
        /\ TaskAt(p, v) \in Tasks
        /\ TaskAt(p, v).pc = p
        /\ TaskAt(p, v).verdict = v
    /\ "FAILURE" \in Terminal /\ Terminal \subseteq Statuses
    /\ \A t \in Tasks : t.pc \in {"saving", "saved", "rescuing"} => t.verdict \in Terminal
BY DEF Tasks, TaskAt, NoTask, Running, Terminal, Statuses

-----------------------------------------------------------------------------
(***************************************************************************)
(* Type correctness.                                                       *)
(***************************************************************************)

\* The tables, the loops with their tasks and the requests in flight keep their
\* types under every step of job_service.py and job_processor.py.
THEOREM TypeCorrect == Spec => []TypeOK
<1> USE ConstantsAssumption
<1>1. Init => TypeOK
  BY RequestShapes, TaskShapes DEF Init, TypeOK, Statuses, Ongoing, LoopStates
<1>2. TypeOK /\ [Next]_vars => TypeOK'
  <2> SUFFICES ASSUME TypeOK, [Next]_vars PROVE TypeOK'
    OBVIOUS
  <2> USE DEF TypeOK, tables, history
  <2>1. ASSUME NEW r \in Requests, NEW u \in Users, CreateJob(r, u) PROVE TypeOK'
    BY <2>1, RequestShapes DEF CreateJob, Goto
  <2>2. ASSUME NEW r \in Requests, CheckOngoing(r) PROVE TypeOK'
    BY <2>2, RequestShapes DEF CheckOngoing, Goto, Reply
  <2>3. ASSUME NEW r \in Requests, InsertJob(r) PROVE TypeOK'
    BY <2>3, RequestShapes DEF InsertJob, Goto, Reply, UpdateJobStatus, Statuses, Ongoing
  <2>4. ASSUME NEW r \in Requests, NEW j \in Jobs, FetchJobResult(r, j) PROVE TypeOK'
    BY <2>4, RequestShapes DEF FetchJobResult, Goto
  <2>5. ASSUME NEW r \in Requests, ReadBalance(r) PROVE TypeOK'
    <3>1. /\ request[r] \in RequestRecords /\ request[r].pc = "balance"
          /\ request[r].user \in Users /\ request[r].job \in Jobs
      BY <2>5, RequestShapes DEF ReadBalance
    <3>2. launches[request[r].user] \in Nat
      BY <3>1
    <3>3. request' \in [Requests -> RequestRecords]
      BY <2>5, <3>1, <3>2, RequestShapes DEF ReadBalance, Goto, Reply
    <3> QED
      BY <2>5, <3>3 DEF ReadBalance
  <2>6. ASSUME NEW r \in Requests, WriteBalance(r) PROVE TypeOK'
    BY <2>6, RequestShapes DEF WriteBalance, Goto
  <2>7. ASSUME NEW r \in Requests, RecordPayment(r) PROVE TypeOK'
    BY <2>7, RequestShapes DEF RecordPayment, Goto, Reply, UpdateJobStatus, Statuses, Terminal
  <2>8. ASSUME NEW r \in Requests, RequestFails(r) PROVE TypeOK'
    BY <2>8, RequestShapes DEF RequestFails, Goto, Reply, Fault
  <2>9. ASSUME NEW w \in Workers, SelectNewJobs(w) PROVE TypeOK'
    <3>1. ASSUME NEW S \in SUBSET FreeJobs, locked' = [locked EXCEPT ![w] = S]
          PROVE  locked' \in [Workers -> SUBSET Jobs]
      BY <3>1 DEF FreeJobs
    <3>2. locked' \in [Workers -> SUBSET Jobs]
      BY <2>9, <3>1 DEF SelectNewJobs
    <3>3. loop' \in [Workers -> LoopStates]
      BY <2>9 DEF SelectNewJobs, LoopStates
    <3> QED
      BY <2>9, <3>2, <3>3 DEF SelectNewJobs
  <2>10. ASSUME NEW w \in Workers, CommitClaim(w) PROVE TypeOK'
    BY <2>10, TaskShapes DEF CommitClaim, MarkClaimed, LoopStates, Statuses, Ongoing
  <2>11. ASSUME NEW w \in Workers, FetchFails(w) PROVE TypeOK'
    <3>1. status' \in [Jobs -> Statuses]
      BY <2>11 DEF FetchFails, MarkClaimed, Statuses, Ongoing
    <3>2. locked' \in [Workers -> SUBSET Jobs]
      BY <2>11 DEF FetchFails, MarkClaimed
    <3>3. loop' \in [Workers -> LoopStates] /\ faults' \in 0 .. MaxFaults
      BY <2>11 DEF FetchFails, LoopStates, Fault
    <3> QED
      BY <2>11, <3>1, <3>2, <3>3 DEF FetchFails
  <2>12. ASSUME NEW w \in Workers, BatchDone(w) \/ WakeUp(w) PROVE TypeOK'
    BY <2>12 DEF BatchDone, WakeUp, LoopStates
  <2>13. ASSUME NEW w \in Workers, NEW j \in Jobs, Work(w, j) PROVE TypeOK'
    BY <2>13, TaskShapes DEF Work, SetTask
  <2>14. ASSUME NEW w \in Workers, NEW j \in Jobs, SaveResult(w, j) PROVE TypeOK'
    BY <2>14, TaskShapes DEF SaveResult, SetTask, UpdateJobStatus
  <2>15. ASSUME NEW w \in Workers, NEW j \in Jobs, TaskReturns(w, j) PROVE TypeOK'
    BY <2>15, TaskShapes DEF TaskReturns, SetTask
  <2>16. ASSUME NEW w \in Workers, NEW j \in Jobs, TimeOut(w, j) PROVE TypeOK'
    BY <2>16, TaskShapes DEF TimeOut, SetTask, Rescue, Disown
  <2>17. ASSUME NEW w \in Workers, NEW j \in Jobs, SaveFails(w, j) PROVE TypeOK'
    <3>1. task[w][j].verdict \in Statuses
      BY <2>17, TaskShapes DEF SaveFails
    <3>2. /\ status' \in [Jobs -> Statuses]
          /\ paymentTaken' \in [Jobs -> BOOLEAN]
          /\ overturned' \subseteq Jobs
      BY <2>17, <3>1 DEF SaveFails, Disown, UpdateJobStatus
    <3>3. task' \in [Workers -> [Jobs -> Tasks]] /\ faults' \in 0 .. MaxFaults
      BY <2>17, TaskShapes DEF SaveFails, SetTask, Rescue, Fault
    <3> QED
      BY <2>17, <3>2, <3>3 DEF SaveFails
  <2>18. ASSUME NEW w \in Workers, NEW j \in Jobs, SaveFailure(w, j) PROVE TypeOK'
    BY <2>18, TaskShapes DEF SaveFailure, SetTask, UpdateJobStatus
  <2>19. ASSUME NEW w \in Workers, NEW j \in Jobs, RescueFails(w, j) PROVE TypeOK'
    BY <2>19, TaskShapes DEF RescueFails, SetTask, Fault
  <2>20. ASSUME NEW w \in Workers, Stop(w) PROVE TypeOK'
    BY <2>20, RequestShapes, TaskShapes DEF Stop, Fault, LoopStates
  <2>21. ASSUME NEW w \in Workers, Start(w) PROVE TypeOK'
    BY <2>21 DEF Start, LoopStates
  <2>22. ASSUME UNCHANGED vars PROVE TypeOK'
    BY <2>22 DEF vars
  <2> QED
    BY <2>1, <2>2, <2>3, <2>4, <2>5, <2>6, <2>7, <2>8, <2>9, <2>10, <2>11, <2>12,
       <2>13, <2>14, <2>15, <2>16, <2>17, <2>18, <2>19, <2>20, <2>21, <2>22
    DEF Next, Client, LoopStep, TaskStep, TaskTrouble
<1> QED
  BY <1>1, <1>2, PTL DEF Spec

-----------------------------------------------------------------------------
(***************************************************************************)
(* Claims: fetch_new_jobs gives a job to one process, once.                *)
(***************************************************************************)

\* A step that starts no task, claims no row and turns no row back keeps the
\* claims: what every step of a task and of a request but InsertJob does.
LEMMA ClaimKept ==
    ASSUME TypeOK, ClaimInv, loop' = loop, locked' = locked,
           \A j \in Jobs : \/ status'[j] = status[j]
                           \/ /\ status[j] \in {"PROCESSING"} \cup Terminal
                              /\ status'[j] \in Terminal,
           \A w \in Workers, j \in Jobs : Live(w, j)' => Live(w, j)
    PROVE  ClaimInv'
<1>1. \A w \in Workers : \A j \in locked[w] : j \in Jobs /\ status'[j] = "NEW"
  BY DEF TypeOK, ClaimInv, Terminal
<1>2. \A w \in Workers, j \in Jobs : Live(w, j)' =>
        /\ loop'[w] = "gather"
        /\ status'[j] \in {"PROCESSING"} \cup Terminal
        /\ \A x \in Workers \ {w} : ~Live(x, j)'
  BY DEF ClaimInv
<1> QED
  BY <1>1, <1>2 DEF ClaimInv

\* A task step only ever touches a task that exists, so it starts none.
LEMMA TaskStepsStartNone ==
    ASSUME TypeOK, NEW w \in Workers, NEW j \in Jobs, NEW t,
           Live(w, j), SetTask(w, j, t)
    PROVE  \A x \in Workers, k \in Jobs : Live(x, k)' => Live(x, k)
BY DEF TypeOK, Live, SetTask

\* Every step of the system keeps the claims exclusive.
LEMMA ClaimStep ==
    ASSUME TypeOK, ClaimInv, VerdictInv, [Next]_vars
    PROVE  ClaimInv'
<1> USE DEF tables, history
<1>1. ASSUME UNCHANGED <<status, loop, locked, task>> PROVE ClaimInv'
  BY <1>1, ClaimKept DEF Live
<1>2. ASSUME NEW r \in Requests, NEW u \in Users, CreateJob(r, u) PROVE ClaimInv'
  BY <1>1, <1>2 DEF CreateJob
<1>3. ASSUME NEW r \in Requests, CheckOngoing(r) \/ ReadBalance(r) PROVE ClaimInv'
  BY <1>1, <1>3 DEF CheckOngoing, ReadBalance
<1>4. ASSUME NEW r \in Requests, InsertJob(r) PROVE ClaimInv'
  <2>1. PICK k \in Jobs : /\ status[k] = "ABSENT"
                          /\ status' = [status EXCEPT ![k] = "NEW"]
    BY <1>4 DEF InsertJob, UpdateJobStatus
  <2>2. UNCHANGED <<loop, locked, task>>
    BY <1>4 DEF InsertJob
  <2>3. \A w \in Workers : \A j \in locked[w] : j \in Jobs /\ status'[j] = "NEW"
    BY <2>1 DEF TypeOK, ClaimInv
  <2>4. \A w \in Workers, j \in Jobs : Live(w, j)' =>
          /\ Live(w, j)
          /\ status'[j] = status[j]
    BY <2>1, <2>2 DEF Live, ClaimInv, TypeOK, Terminal
  <2>5. \A w \in Workers, j \in Jobs : Live(w, j) => Live(w, j)'
    BY <2>2 DEF Live
  <2> QED
    BY <2>2, <2>3, <2>4, <2>5 DEF ClaimInv
<1>5. ASSUME NEW r \in Requests, NEW j \in Jobs, FetchJobResult(r, j) PROVE ClaimInv'
  BY <1>1, <1>5 DEF FetchJobResult
<1>6. ASSUME NEW r \in Requests, WriteBalance(r) \/ RequestFails(r) PROVE ClaimInv'
  BY <1>1, <1>6 DEF WriteBalance, RequestFails
<1>7. ASSUME NEW r \in Requests, RecordPayment(r) PROVE ClaimInv'
  <2>1. request[r].job \in Jobs /\ status[request[r].job] \in Terminal
    BY <1>7, RequestShapes DEF TypeOK, RecordPayment, VerdictInv, Paying, Stands, Terminal
  <2>2. \A j \in Jobs : \/ status'[j] = status[j]
                        \/ /\ status[j] \in {"PROCESSING"} \cup Terminal
                           /\ status'[j] \in Terminal
    BY <1>7, <2>1 DEF TypeOK, RecordPayment, UpdateJobStatus, Terminal
  <2> QED
    BY <1>7, <2>2, ClaimKept DEF RecordPayment, Live
<1>8. ASSUME NEW w \in Workers, SelectNewJobs(w) PROVE ClaimInv'
  <2>1. UNCHANGED <<status, task>>
    BY <1>8 DEF SelectNewJobs
  <2>2. loop[w] = "fetch" /\ locked[w] = {} /\ \A j \in Jobs : ~Live(w, j)
    BY <1>8 DEF SelectNewJobs, ClaimInv
  <2>3. PICK S \in SUBSET FreeJobs :
          /\ locked' = [locked EXCEPT ![w] = S]
          /\ loop'[w] = "claiming" \/ S = {}
          /\ \A x \in Workers \ {w} : loop'[x] = loop[x]
    <3>1. CASE FreeJobs = {}
      <4>1. locked' = [locked EXCEPT ![w] = {}]
        BY <1>8, <2>2, <3>1 DEF SelectNewJobs, TypeOK
      <4> QED
        BY <1>8, <3>1, <4>1 DEF SelectNewJobs, TypeOK
    <3>2. CASE FreeJobs # {}
      BY <1>8, <3>2 DEF SelectNewJobs, TypeOK
    <3> QED
      BY <3>1, <3>2
  <2>4. /\ locked'[w] = S /\ \A x \in Workers \ {w} : locked'[x] = locked[x]
        /\ \A j \in S : status[j] = "NEW" /\ \A x \in Workers : j \notin locked[x]
    BY <2>3 DEF TypeOK, FreeJobs, LockedRows
  <2>5. \A x \in Workers :
          /\ locked'[x] # {} => loop'[x] = "claiming"
          /\ \A j \in locked'[x] : status'[j] = "NEW"
          /\ \A y \in Workers \ {x} : locked'[x] \cap locked'[y] = {}
    BY <2>1, <2>3, <2>4 DEF ClaimInv
  <2>6. \A x \in Workers, j \in Jobs : Live(x, j)' = Live(x, j)
    BY <2>1 DEF Live
  <2>7. \A x \in Workers, j \in Jobs : Live(x, j)' =>
          /\ loop'[x] = "gather"
          /\ status'[j] \in {"PROCESSING"} \cup Terminal
          /\ \A y \in Workers \ {x} : ~Live(y, j)'
    BY <2>1, <2>2, <2>3, <2>6 DEF ClaimInv
  <2> QED
    BY <2>5, <2>7 DEF ClaimInv
<1>9. ASSUME NEW w \in Workers, CommitClaim(w) PROVE ClaimInv'
  <2>1. /\ \A j \in Jobs : status'[j] = IF j \in locked[w] THEN "PROCESSING" ELSE status[j]
        /\ locked'[w] = {} /\ \A x \in Workers \ {w} : locked'[x] = locked[x]
        /\ loop[w] = "claiming" /\ loop'[w] = "gather"
        /\ \A x \in Workers \ {w} : loop'[x] = loop[x]
    BY <1>9 DEF CommitClaim, MarkClaimed, TypeOK
  <2>2. \A x \in Workers :
          /\ locked'[x] # {} => loop'[x] = "claiming"
          /\ \A j \in locked'[x] : status'[j] = "NEW"
          /\ \A y \in Workers \ {x} : locked'[x] \cap locked'[y] = {}
    BY <2>1 DEF ClaimInv, TypeOK
  <2>3. \A j \in Jobs : ~Live(w, j)
    BY <2>1 DEF ClaimInv
  <2>4. \A x \in Workers, j \in Jobs :
          Live(x, j)' => \/ x = w /\ j \in locked[w]
                         \/ x # w /\ Live(x, j)
    BY <1>9, <2>3 DEF CommitClaim, Live, TypeOK
  <2>5. \A j \in locked[w], x \in Workers : ~Live(x, j)
    BY DEF ClaimInv, TypeOK, Terminal
  <2>6. \A x \in Workers, j \in Jobs : Live(x, j)' =>
          /\ loop'[x] = "gather"
          /\ status'[j] \in {"PROCESSING"} \cup Terminal
          /\ \A y \in Workers \ {x} : ~Live(y, j)'
    <3> SUFFICES ASSUME NEW x \in Workers, NEW j \in Jobs, Live(x, j)'
                 PROVE  /\ loop'[x] = "gather"
                        /\ status'[j] \in {"PROCESSING"} \cup Terminal
                        /\ \A y \in Workers \ {x} : ~Live(y, j)'
      OBVIOUS
    <3>1. CASE x = w /\ j \in locked[w]
      BY <2>1, <2>4, <2>5, <3>1
    <3>2. CASE x # w /\ Live(x, j)
      BY <2>1, <2>4, <2>5, <3>2 DEF ClaimInv
    <3> QED
      BY <2>4, <3>1, <3>2
  <2> QED
    BY <2>2, <2>6 DEF ClaimInv
<1>10. ASSUME NEW w \in Workers, FetchFails(w) PROVE ClaimInv'
  <2>1. /\ locked'[w] = {} /\ \A x \in Workers \ {w} : locked'[x] = locked[x]
        /\ loop[w] \in {"fetch", "claiming"} /\ task' = task
        /\ \A x \in Workers \ {w} : loop'[x] = loop[x]
    BY <1>10 DEF FetchFails, MarkClaimed, TypeOK
  <2>2. \A j \in Jobs : \/ status'[j] = status[j]
                        \/ j \in locked[w] /\ status'[j] = "PROCESSING"
    BY <1>10 DEF FetchFails, MarkClaimed
  <2>3. \A x \in Workers :
          /\ locked'[x] # {} => loop'[x] = "claiming"
          /\ \A j \in locked'[x] : status'[j] = "NEW"
          /\ \A y \in Workers \ {x} : locked'[x] \cap locked'[y] = {}
    BY <2>1, <2>2 DEF ClaimInv, TypeOK
  <2>4. \A x \in Workers, j \in Jobs : Live(x, j)' = Live(x, j)
    BY <2>1 DEF Live
  <2>5. \A x \in Workers, j \in Jobs : Live(x, j)' =>
          /\ loop'[x] = "gather"
          /\ status'[j] \in {"PROCESSING"} \cup Terminal
          /\ \A y \in Workers \ {x} : ~Live(y, j)'
    BY <2>1, <2>2, <2>4 DEF ClaimInv
  <2> QED
    BY <2>3, <2>5 DEF ClaimInv
<1>11. ASSUME NEW w \in Workers, BatchDone(w) \/ WakeUp(w) \/ Start(w) PROVE ClaimInv'
  <2>1. /\ UNCHANGED <<status, locked, task>>
        /\ \A x \in Workers \ {w} : loop'[x] = loop[x]
        /\ \A j \in Jobs : ~Live(w, j)
        /\ locked[w] = {}
    BY <1>11 DEF BatchDone, WakeUp, Start, Up, TypeOK, ClaimInv, Live
  <2>2. \A x \in Workers, j \in Jobs : Live(x, j)' = Live(x, j)
    BY <2>1 DEF Live
  <2> QED
    BY <2>1, <2>2 DEF ClaimInv
<1>12. ASSUME NEW w \in Workers, Stop(w) PROVE ClaimInv'
  <2>1. /\ locked'[w] = {} /\ \A x \in Workers \ {w} : locked'[x] = locked[x]
        /\ \A x \in Workers \ {w} : loop'[x] = loop[x]
        /\ status' = status
    BY <1>12 DEF Stop, TypeOK
  <2>2. \A x \in Workers, j \in Jobs : Live(x, j)' => x # w /\ Live(x, j)
    BY <1>12 DEF Stop, Live, NoTask, TaskAt, TypeOK
  <2> QED
    BY <2>1, <2>2 DEF ClaimInv
<1>13. ASSUME NEW w \in Workers, NEW j \in Jobs, TaskStep(w, j) \/ TaskTrouble(w, j)
       PROVE  ClaimInv'
  <2>1. Live(w, j) /\ loop' = loop /\ locked' = locked /\ \E t : SetTask(w, j, t)
    BY <1>13 DEF TaskStep, TaskTrouble, Live, Rescue, Work, SaveResult, TaskReturns,
                 SaveFailure, TimeOut, SaveFails, RescueFails
  <2>2. \/ status' = status
        \/ status' = [status EXCEPT ![j] = task[w][j].verdict]
           /\ task[w][j].pc \in {"saving", "rescuing"}
    BY <1>13 DEF TaskStep, TaskTrouble, UpdateJobStatus, Work, SaveResult, TaskReturns,
                 SaveFailure, TimeOut, SaveFails, RescueFails
  <2>3. status[j] \in {"PROCESSING"} \cup Terminal
    BY <2>1 DEF ClaimInv
  <2>4. task[w][j].pc \in {"saving", "rescuing"} => task[w][j].verdict \in Terminal
    BY TaskShapes DEF TypeOK
  <2>5. \A k \in Jobs : \/ status'[k] = status[k]
                        \/ /\ status[k] \in {"PROCESSING"} \cup Terminal
                           /\ status'[k] \in Terminal
    BY <2>2, <2>3, <2>4 DEF TypeOK
  <2>6. \A x \in Workers, k \in Jobs : Live(x, k)' => Live(x, k)
    BY <2>1, TaskStepsStartNone
  <2> QED
    BY <2>1, <2>5, <2>6, ClaimKept
<1>14. ASSUME UNCHANGED vars PROVE ClaimInv'
  BY <1>1, <1>14 DEF vars
<1> QED
  BY <1>2, <1>3, <1>4, <1>5, <1>6, <1>7, <1>8, <1>9, <1>10, <1>11, <1>12, <1>13, <1>14
  DEF Next, Client, LoopStep

-----------------------------------------------------------------------------
(***************************************************************************)
(* Verdicts: what update_job_status may overwrite.                         *)
(***************************************************************************)

\* What a task writes over its row: its verdict over PROCESSING, or FAILURE
\* over what it decided itself.
LEMMA TaskWrites ==
    ASSUME TypeOK, VerdictInv, NEW w \in Workers, NEW j \in Jobs,
           TaskStep(w, j) \/ TaskTrouble(w, j)
    PROVE  \/ status' = status
           \/ /\ status' = [status EXCEPT ![j] = task[w][j].verdict]
              /\ task[w][j].verdict \in Terminal
              /\ \/ task[w][j].pc = "saving" /\ status[j] = "PROCESSING"
                 \/ /\ task[w][j].pc = "rescuing" /\ task[w][j].verdict = "FAILURE"
                    /\ status[j] = "PROCESSING" \/ Stands(j, "FAILURE")
<1>1. \/ status' = status
      \/ status' = [status EXCEPT ![j] = task[w][j].verdict]
         /\ task[w][j].pc \in {"saving", "rescuing"}
  BY DEF tables, TaskStep, TaskTrouble, UpdateJobStatus, Work, SaveResult, TaskReturns,
         SaveFailure, TimeOut, SaveFails, RescueFails
<1>2. task[w][j].pc \in {"saving", "rescuing"} => task[w][j].verdict \in Terminal
  BY TaskShapes DEF TypeOK
<1> QED
  BY <1>1, <1>2 DEF VerdictInv

\* The disowned results only become more, and by one task at a time.
LEMMA OverturnedGrows ==
    ASSUME [Next]_vars
    PROVE  \/ overturned' = overturned
           \/ \E w \in Workers, j \in Jobs :
                /\ TimeOut(w, j) \/ SaveFails(w, j)
                /\ overturned' = overturned \cup {j}
                /\ task[w][j].verdict = "SUCCESS"
                /\ \/ task[w][j].pc = "saved" /\ status' = status
                   \/ /\ task[w][j].pc = "saving"
                      /\ status' = [status EXCEPT ![j] = "SUCCESS"]
BY DEF Next, vars, Client, LoopStep, TaskStep, TaskTrouble, tables, history, Disown,
       UpdateJobStatus, CreateJob, CheckOngoing, InsertJob, FetchJobResult, ReadBalance,
       WriteBalance, RecordPayment, RequestFails, SelectNewJobs, CommitClaim, FetchFails,
       BatchDone, WakeUp, Work, SaveResult, TaskReturns, TimeOut, SaveFails, SaveFailure,
       RescueFails, Stop, Start

\* A row that holds a verdict keeps holding one, and the same one unless the
\* result was disowned before.
LEMMA VerdictKept ==
    ASSUME TypeOK, ClaimInv, VerdictInv, [Next]_vars, NEW j \in Jobs, status[j] \in Terminal
    PROVE  status'[j] \in Terminal /\ (status'[j] = status[j] \/ j \in overturned)
<1> USE DEF tables, Terminal
<1>1. ASSUME NEW r \in Requests, InsertJob(r) PROVE status'[j] = status[j]
  BY <1>1 DEF InsertJob, UpdateJobStatus, TypeOK
<1>2. ASSUME NEW r \in Requests, RecordPayment(r)
      PROVE  status'[j] = status[j] \/ (status'[j] = "SUCCESS" /\ j \in overturned)
  BY <1>2, RequestShapes
  DEF RecordPayment, UpdateJobStatus, TypeOK, VerdictInv, Paying, Stands
<1>3. ASSUME NEW w \in Workers, CommitClaim(w) \/ FetchFails(w)
      PROVE  status'[j] = status[j]
  BY <1>3 DEF CommitClaim, FetchFails, MarkClaimed, ClaimInv, TypeOK
<1>4. ASSUME NEW w \in Workers, NEW k \in Jobs, TaskStep(w, k) \/ TaskTrouble(w, k)
      PROVE  status'[j] = status[j] \/ (status'[j] \in Terminal /\ j \in overturned)
  BY <1>4, TaskWrites DEF TypeOK, Stands
<1>5. CASE status' = status
  BY <1>5
<1>6. ASSUME NEW r \in Requests, Client(r), ~InsertJob(r), ~RecordPayment(r)
      PROVE  status' = status
  BY <1>6 DEF Client, CreateJob, CheckOngoing, FetchJobResult, ReadBalance,
              WriteBalance, RequestFails
<1>7. ASSUME NEW w \in Workers,
             \/ SelectNewJobs(w) \/ BatchDone(w) \/ WakeUp(w) \/ Stop(w) \/ Start(w)
      PROVE  status' = status
  BY <1>7 DEF SelectNewJobs, BatchDone, WakeUp, Stop, Start
<1> QED
  BY <1>1, <1>2, <1>3, <1>4, <1>5, <1>6, <1>7 DEF Next, LoopStep, vars

\* So what stands keeps standing.
LEMMA StandsKept ==
    ASSUME TypeOK, ClaimInv, VerdictInv, [Next]_vars,
           NEW j \in Jobs, NEW v \in Terminal, Stands(j, v)
    PROVE  Stands(j, v)'
BY VerdictKept, OverturnedGrows DEF Stands

\* Where a task is and what it has in memory, next to the row of its job.
TaskAgrees(w, j) ==
    /\ task[w][j].pc \in {"running", "saving"} => status[j] = "PROCESSING"
    /\ task[w][j].pc = "saved" => Stands(j, task[w][j].verdict)
    /\ task[w][j].pc = "rescuing" =>
        /\ task[w][j].verdict = "FAILURE"
        /\ status[j] = "PROCESSING" \/ Stands(j, "FAILURE")

\* A step of a task is a step of a task that exists.
LEMMA TasksLive ==
    ASSUME NEW w \in Workers, NEW j \in Jobs, TaskStep(w, j) \/ TaskTrouble(w, j)
    PROVE  Live(w, j)
BY DEF TaskStep, TaskTrouble, Live, Work, SaveResult, TaskReturns, SaveFailure,
       TimeOut, SaveFails, RescueFails

\* Only the task of a job moves its row on from PROCESSING: no payment, no claim
\* and no other task touches it.
LEMMA ProcessingKept ==
    ASSUME TypeOK, ClaimInv, VerdictInv, [Next]_vars,
           NEW j \in Jobs, status[j] = "PROCESSING",
           \A x \in Workers : ~(TaskStep(x, j) \/ TaskTrouble(x, j))
    PROVE  status'[j] = "PROCESSING"
<1> USE DEF tables
<1>1. ASSUME NEW r \in Requests, Client(r) PROVE status'[j] = "PROCESSING"
  <2>1. CASE InsertJob(r)
    BY <2>1 DEF InsertJob, UpdateJobStatus, TypeOK
  <2>2. CASE RecordPayment(r)
    <3>1. request[r].job \in Jobs /\ status[request[r].job] \in Terminal
      BY <2>2, RequestShapes
      DEF TypeOK, RecordPayment, VerdictInv, Paying, Stands, Terminal
    <3> QED
      BY <2>2, <3>1 DEF RecordPayment, UpdateJobStatus, TypeOK, Terminal
  <2> QED
    BY <1>1, <2>1, <2>2 DEF Client, CreateJob, CheckOngoing, FetchJobResult,
                            ReadBalance, WriteBalance, RequestFails
<1>2. ASSUME NEW x \in Workers,
             \/ LoopStep(x) \/ FetchFails(x) \/ Stop(x) \/ Start(x)
      PROVE  status'[j] = "PROCESSING"
  BY <1>2 DEF LoopStep, SelectNewJobs, CommitClaim, FetchFails, MarkClaimed,
              BatchDone, WakeUp, Stop, Start
<1>3. ASSUME NEW x \in Workers, NEW k \in Jobs, TaskStep(x, k) \/ TaskTrouble(x, k)
      PROVE  status'[j] = "PROCESSING"
  <2>1. k # j
    BY <1>3
  <2> QED
    BY <1>3, <2>1, TaskWrites DEF TypeOK
<1>4. CASE UNCHANGED vars
  BY <1>4 DEF vars
<1> QED
  BY <1>1, <1>2, <1>3, <1>4 DEF Next

\* Steps of others cannot move the row of a job under the task that works on it.
LEMMA OtherTasksAgree ==
    ASSUME TypeOK, ClaimInv, VerdictInv, [Next]_vars,
           NEW w \in Workers, NEW j \in Jobs, Live(w, j),
           task'[w][j] = task[w][j],
           ~(TaskStep(w, j) \/ TaskTrouble(w, j))
    PROVE  TaskAgrees(w, j)'
<1>1. status[j] = "PROCESSING" => status'[j] = "PROCESSING"
  <2>1. \A x \in Workers : ~(TaskStep(x, j) \/ TaskTrouble(x, j))
    BY TasksLive DEF ClaimInv
  <2> QED
    BY <2>1, ProcessingKept
<1>2. task[w][j].pc = "saved" => task[w][j].verdict \in Terminal
  BY TaskShapes DEF TypeOK
<1>3. "FAILURE" \in Terminal
  BY DEF Terminal
<1>4. TaskAgrees(w, j)
  BY DEF TaskAgrees, VerdictInv
<1> QED
  BY <1>1, <1>2, <1>3, <1>4, StandsKept DEF TaskAgrees

\* A task's own step leaves it in agreement with its row.
LEMMA OwnStepAgrees ==
    ASSUME TypeOK, ClaimInv, VerdictInv, [Next]_vars,
           NEW w \in Workers, NEW j \in Jobs,
           TaskStep(w, j) \/ TaskTrouble(w, j)
    PROVE  TaskAgrees(w, j)'
<1> USE TaskShapes DEF tables, SetTask, TaskAgrees, TypeOK
<1>1. CASE Work(w, j)
  BY <1>1 DEF Work, VerdictInv
<1>2. CASE SaveResult(w, j)
  <2>1. task[w][j].verdict \in Terminal
    BY <1>2 DEF SaveResult
  <2> QED
    BY <1>2, <2>1 DEF SaveResult, UpdateJobStatus, Stands
<1>3. CASE TaskReturns(w, j) \/ SaveFailure(w, j) \/ RescueFails(w, j)
  <2>1. SetTask(w, j, NoTask)
    BY <1>3 DEF TaskReturns, SaveFailure, RescueFails
  <2>2. task'[w][j] = NoTask
    BY <2>1
  <2> QED
    BY <2>2
<1>4. CASE TimeOut(w, j)
  <2>1. task[w][j].pc = "saved" => task[w][j].verdict \in Terminal
    OBVIOUS
  <2>2. task'[w][j] = TaskAt("rescuing", "FAILURE") /\ status' = status
    BY <1>4 DEF TimeOut, Rescue
  <2>3. CASE task[w][j].pc = "saved"
    <3>1. overturned' = IF task[w][j].verdict = "SUCCESS" THEN overturned \cup {j}
                                                          ELSE overturned
      BY <1>4, <2>3 DEF TimeOut, Disown
    <3>2. Stands(j, "FAILURE")'
      BY <2>1, <2>2, <2>3, <3>1 DEF VerdictInv, Stands, Terminal
    <3> QED
      BY <2>2, <3>2
  <2>4. CASE task[w][j].pc # "saved"
    BY <1>4, <2>2, <2>4 DEF TimeOut, VerdictInv
  <2> QED
    BY <2>3, <2>4
<1>5. CASE SaveFails(w, j)
  <2>1. /\ task'[w][j] = TaskAt("rescuing", "FAILURE")
        /\ task[w][j].verdict \in Terminal
        /\ status[j] = "PROCESSING"
    BY <1>5 DEF SaveFails, Rescue, VerdictInv
  <2>2. status'[j] = "PROCESSING" \/ Stands(j, "FAILURE")'
    BY <1>5, <2>1 DEF SaveFails, Disown, UpdateJobStatus, Stands, Terminal
  <2> QED
    BY <2>1, <2>2
<1> QED
  BY <1>1, <1>2, <1>3, <1>4, <1>5 DEF TaskStep, TaskTrouble

\* The task a step starts or ends has nothing to disagree about yet.
LEMMA FreshTasksAgree ==
    ASSUME TypeOK, ClaimInv, [Next]_vars, NEW w \in Workers, NEW j \in Jobs,
           task'[w][j] # task[w][j],
           ~(TaskStep(w, j) \/ TaskTrouble(w, j))
    PROVE  TaskAgrees(w, j)'
<1> USE TaskShapes DEF tables, TypeOK
<1>1. ASSUME NEW r \in Requests, Client(r) PROVE task' = task
  BY <1>1 DEF Client, CreateJob, CheckOngoing, InsertJob, FetchJobResult, ReadBalance,
              WriteBalance, RecordPayment, RequestFails
<1>2. ASSUME NEW x \in Workers,
             \/ SelectNewJobs(x) \/ BatchDone(x) \/ WakeUp(x) \/ FetchFails(x) \/ Start(x)
      PROVE  task' = task
  BY <1>2 DEF SelectNewJobs, BatchDone, WakeUp, FetchFails, Start
<1>3. ASSUME NEW x \in Workers, NEW k \in Jobs, TaskStep(x, k) \/ TaskTrouble(x, k)
      PROVE  task'[w][j] = task[w][j]
  <2>1. PICK t : SetTask(x, k, t)
    BY <1>3 DEF TaskStep, TaskTrouble, Rescue, Work, SaveResult, TaskReturns,
                SaveFailure, TimeOut, SaveFails, RescueFails
  <2>2. x # w \/ k # j
    BY <1>3
  <2> QED
    BY <2>1, <2>2 DEF SetTask
<1>4. ASSUME NEW x \in Workers, CommitClaim(x) PROVE TaskAgrees(w, j)'
  <2>1. x = w /\ j \in locked[w] /\ task'[w][j] = Running /\ status'[j] = "PROCESSING"
    BY <1>4 DEF CommitClaim, MarkClaimed
  <2> QED
    BY <2>1 DEF TaskAgrees
<1>5. ASSUME NEW x \in Workers, Stop(x) PROVE TaskAgrees(w, j)'
  <2>1. task'[w][j] = NoTask
    BY <1>5 DEF Stop
  <2> QED
    BY <2>1 DEF TaskAgrees
<1>6. CASE UNCHANGED vars
  BY <1>6 DEF vars
<1> QED
  BY <1>1, <1>2, <1>3, <1>4, <1>5, <1>6 DEF Next, LoopStep

\* A payment in flight is for a job whose SUCCESS stands, or was disowned since.
LEMMA PaymentsStand ==
    ASSUME TypeOK, ClaimInv, VerdictInv, [Next]_vars, NEW r \in Requests, Paying(r)'
    PROVE  Stands(request[r].job, "SUCCESS")'
<1>1. ASSUME NEW j \in Jobs, Stands(j, "SUCCESS") PROVE Stands(j, "SUCCESS")'
  BY <1>1, StandsKept DEF Terminal
<1>2. \/ Paying(r) /\ request'[r].job = request[r].job
      \/ \E j \in Jobs : FetchJobResult(r, j)
  <2> USE DEF TypeOK, Paying, Goto, Reply, RequestAt, NoRequest
  <2>1. ASSUME NEW q \in Requests, NEW j \in Jobs, FetchJobResult(q, j)
        PROVE  q = r \/ request'[r] = request[r]
    BY <2>1 DEF FetchJobResult
  <2>2. ASSUME NEW q \in Requests, NEW u \in Users, CreateJob(q, u)
        PROVE  request'[r] = request[r]
    BY <2>2 DEF CreateJob
  <2>3. ASSUME NEW q \in Requests,
               \/ CheckOngoing(q) \/ InsertJob(q) \/ RecordPayment(q) \/ RequestFails(q)
        PROVE  request'[r] = request[r]
    <3>1. CASE CheckOngoing(q)
      BY <3>1 DEF CheckOngoing
    <3>2. CASE InsertJob(q) \/ RecordPayment(q) \/ RequestFails(q)
      <4>1. Reply(q)
        BY <3>2 DEF InsertJob, RecordPayment, RequestFails
      <4> QED
        BY <4>1
    <3> QED
      BY <2>3, <3>1, <3>2
  <2>4. ASSUME NEW q \in Requests, ReadBalance(q) \/ WriteBalance(q)
        PROVE  /\ q # r => request'[r] = request[r]
               /\ q = r => Paying(r) /\ request'[r].job = request[r].job
    BY <2>4 DEF ReadBalance, WriteBalance
  <2>5. ASSUME NEW w \in Workers, Stop(w) PROVE request'[r] = request[r]
    BY <2>5 DEF Stop
  <2>6. ASSUME NEW w \in Workers, LoopStep(w) \/ FetchFails(w) \/ Start(w)
        PROVE  request' = request
    BY <2>6 DEF LoopStep, SelectNewJobs, CommitClaim, BatchDone, WakeUp, FetchFails, Start
  <2>7. ASSUME NEW w \in Workers, NEW j \in Jobs, TaskStep(w, j) \/ TaskTrouble(w, j)
        PROVE  request' = request
    BY <2>7 DEF TaskStep, TaskTrouble, Work, SaveResult, TaskReturns, SaveFailure,
                TimeOut, SaveFails, RescueFails
  <2>8. CASE UNCHANGED vars
    BY <2>8 DEF vars
  <2> QED
    BY <2>1, <2>2, <2>3, <2>4, <2>5, <2>6, <2>7, <2>8 DEF Next, Client
<1>3. CASE Paying(r) /\ request'[r].job = request[r].job
  <2>1. request[r].job \in Jobs /\ Stands(request[r].job, "SUCCESS")
    BY <1>3, RequestShapes DEF Paying, TypeOK, VerdictInv
  <2>2. PICK j \in Jobs : j = request[r].job
    BY <2>1
  <2>3. Stands(j, "SUCCESS")'
    BY <1>1, <2>1, <2>2
  <2> QED
    BY <1>3, <2>2, <2>3 DEF Stands
<1>4. ASSUME NEW j \in Jobs, FetchJobResult(r, j) PROVE Stands(request[r].job, "SUCCESS")'
  BY <1>4 DEF FetchJobResult, Stands, RequestAt, TypeOK, Goto, tables
<1> QED
  BY <1>2, <1>3, <1>4

\* A job charged for is one whose SUCCESS stands, or was disowned since.
LEMMA ChargesStand ==
    ASSUME TypeOK, ClaimInv, VerdictInv, [Next]_vars
    PROVE  ChargedJobsSucceeded'
<1>1. ASSUME NEW j \in Jobs, Stands(j, "SUCCESS") PROVE Stands(j, "SUCCESS")'
  BY <1>1, StandsKept DEF Terminal
<1>2. \A j \in billed' : j \in billed
                         \/ \E r \in Requests : WriteBalance(r) /\ j = request[r].job
  BY DEF Next, vars, Client, LoopStep, TaskStep, TaskTrouble, history,
         CreateJob, CheckOngoing, InsertJob, FetchJobResult, ReadBalance,
         WriteBalance, RecordPayment, RequestFails, SelectNewJobs, CommitClaim, FetchFails,
         BatchDone, WakeUp, Work, SaveResult, TaskReturns, TimeOut, SaveFails, SaveFailure,
         RescueFails, Stop, Start
<1>3. \A j \in billed : j \in Jobs /\ Stands(j, "SUCCESS")
  BY DEF TypeOK, VerdictInv, ChargedJobsSucceeded, Stands
<1>4. ASSUME NEW r \in Requests, WriteBalance(r)
      PROVE  request[r].job \in Jobs /\ Stands(request[r].job, "SUCCESS")
  BY <1>4, RequestShapes DEF WriteBalance, TypeOK, VerdictInv, Paying
<1> QED
  BY <1>1, <1>2, <1>3, <1>4 DEF ChargedJobsSucceeded, Stands

\* Every step keeps the rows in agreement with what is about to overwrite them.
LEMMA VerdictStep ==
    ASSUME TypeOK, ClaimInv, VerdictInv, TypeOK', [Next]_vars
    PROVE  VerdictInv'
<1>1. \A w \in Workers, j \in Jobs : TaskAgrees(w, j)'
  <2> SUFFICES ASSUME NEW w \in Workers, NEW j \in Jobs PROVE TaskAgrees(w, j)'
    OBVIOUS
  <2>1. CASE TaskStep(w, j) \/ TaskTrouble(w, j)
    BY <2>1, OwnStepAgrees
  <2>2. CASE ~(TaskStep(w, j) \/ TaskTrouble(w, j)) /\ task'[w][j] # task[w][j]
    BY <2>2, FreshTasksAgree
  <2>3. CASE ~(TaskStep(w, j) \/ TaskTrouble(w, j)) /\ task'[w][j] = task[w][j]
    <3>1. CASE Live(w, j)
      BY <2>3, <3>1, OtherTasksAgree
    <3>2. CASE ~Live(w, j)
      BY <2>3, <3>2 DEF TaskAgrees, Live
    <3> QED
      BY <3>1, <3>2
  <2> QED
    BY <2>1, <2>2, <2>3
<1>2. \A r \in Requests : Paying(r)' => Stands(request[r].job, "SUCCESS")'
  BY PaymentsStand
<1>3. \A j \in overturned' : status'[j] \in Terminal
  <2>1. \A j \in overturned : status'[j] \in Terminal
    BY VerdictKept DEF TypeOK, VerdictInv
  <2>2. ASSUME NEW w \in Workers, NEW j \in Jobs, overturned' = overturned \cup {j},
               task[w][j].verdict = "SUCCESS", task[w][j].pc = "saved", status' = status
        PROVE  status'[j] \in Terminal
    BY <2>1, <2>2 DEF VerdictInv, Stands, Terminal
  <2> QED
    BY <2>1, <2>2, OverturnedGrows DEF TypeOK, Terminal
<1> QED
  BY <1>1, <1>2, <1>3, ChargesStand DEF VerdictInv, TaskAgrees

-----------------------------------------------------------------------------
(***************************************************************************)
(* The theorems about claims and verdicts.                                 *)
(***************************************************************************)

\* The invariant behind them: types, exclusive claims, rows in agreement with
\* what is about to overwrite them (fetch_new_jobs, update_job_status).
THEOREM ClaimsAndVerdicts == Spec => [](TypeOK /\ ClaimInv /\ VerdictInv)
<1>1. Init => ClaimInv /\ VerdictInv
  <2> SUFFICES ASSUME Init PROVE ClaimInv /\ VerdictInv
    OBVIOUS
  <2>1. /\ \A w \in Workers : locked[w] = {}
        /\ \A w \in Workers, j \in Jobs : task[w][j].pc = "none"
        /\ \A r \in Requests : request[r].pc = "idle"
        /\ billed = {} /\ overturned = {}
    BY DEF Init, NoTask, TaskAt, NoRequest, RequestAt
  <2> QED
    BY <2>1 DEF ClaimInv, VerdictInv, Live, Paying, ChargedJobsSucceeded
<1>2. TypeOK /\ TypeOK' /\ ClaimInv /\ VerdictInv /\ [Next]_vars => ClaimInv' /\ VerdictInv'
  BY ClaimStep, VerdictStep
<1> QED
  BY <1>1, <1>2, TypeCorrect, PTL DEF Spec

\* fetch_new_jobs gives every job to one processor loop: no two processes ever
\* work on one job, and no job that has a task can be claimed again.
THEOREM ExclusiveClaims == Spec => []NoDoubleProcessing
<1>1. TypeOK /\ ClaimInv => NoDoubleProcessing
  BY DEF TypeOK, ClaimInv, NoDoubleProcessing, LockedRows, Terminal
<1> QED
  BY <1>1, ClaimsAndVerdicts, PTL

\* _take_payment charges only jobs that ended well: a charged job reads SUCCESS,
\* unless its processor disowned that result after committing it.
THEOREM ChargesForSuccess == Spec => []ChargedJobsSucceeded
<1>1. VerdictInv => ChargedJobsSucceeded
  BY DEF VerdictInv
<1> QED
  BY <1>1, ClaimsAndVerdicts, PTL

\* Although update_job_status merges stale rows, SUCCESS and FAILURE are final
\* for every job whose SUCCESS was not disowned after its commit.
THEOREM FinalVerdicts == Spec => VerdictIsFinal
<1>1. TypeOK /\ ClaimInv /\ VerdictInv /\ [Next]_vars =>
        [\A j \in Jobs : status[j] \in Terminal /\ status'[j] # status[j]
                          => j \in overturned]_vars
  BY VerdictKept
<1> QED
  BY <1>1, ClaimsAndVerdicts, PTL DEF Spec, VerdictIsFinal

-----------------------------------------------------------------------------
(***************************************************************************)
(* The balance: decrement_available_launches loses updates, one way only.  *)
(***************************************************************************)

\* A balance in memory was the balance of the row at some earlier moment, and
\* charges only become more since.
LEMMA BalanceStep ==
    ASSUME TypeOK, BalanceInv, [Next]_vars
    PROVE  BalanceInv'
<1> USE ConstantsAssumption DEF TypeOK, tables, history
<1>1. ASSUME UNCHANGED <<launches, charged>>,
             \A r \in Requests : request'[r].pc = "charge" => request'[r] = request[r]
      PROVE  BalanceInv'
  BY <1>1, RequestShapes DEF BalanceInv, BalanceWithinCharges
<1>2. ASSUME NEW r \in Requests, ReadBalance(r) PROVE BalanceInv'
  <2>1. /\ request[r].user \in Users
        /\ UNCHANGED <<launches, charged>>
        /\ \A q \in Requests \ {r} : request'[q] = request[q]
        /\ \/ request'[r].pc = "idle"
           \/ /\ request'[r].balance = launches[request[r].user]
              /\ request'[r].user = request[r].user
    BY <1>2, RequestShapes DEF ReadBalance, Goto, Reply, RequestAt
  <2>2. request'[r].pc = "charge" =>
          /\ request'[r].balance <= BaseLaunches
          /\ request'[r].balance + charged'[request'[r].user] >= BaseLaunches
    BY <2>1 DEF BalanceInv, BalanceWithinCharges
  <2> QED
    BY <2>1, <2>2 DEF BalanceInv, BalanceWithinCharges
<1>3. ASSUME NEW r \in Requests, WriteBalance(r) PROVE BalanceInv'
  <2> DEFINE v == request[r].user
             n == request[r].balance
  <2>1. v \in Users /\ n \in Nat \ {0} /\ n <= BaseLaunches /\ n + charged[v] >= BaseLaunches
    BY <1>3, RequestShapes DEF WriteBalance, BalanceInv
  <2>2. /\ launches' = [launches EXCEPT ![v] = n - 1]
        /\ charged' = [charged EXCEPT ![v] = @ + 1]
        /\ \A q \in Requests \ {r} : request'[q] = request[q]
        /\ request'[r].pc = "record"
    BY <1>3 DEF WriteBalance, Goto, RequestAt
  <2>3. /\ launches'[v] = n - 1 /\ charged'[v] = charged[v] + 1
        /\ \A u \in Users \ {v} : launches'[u] = launches[u] /\ charged'[u] = charged[u]
    BY <2>1, <2>2
  <2>6. \A u \in Users : /\ charged[u] \in Nat /\ charged'[u] \in Nat
                        /\ charged'[u] >= charged[u]
    BY <2>1, <2>3
  <2>4. BalanceWithinCharges'
    <3> SUFFICES ASSUME NEW u \in Users
                 PROVE  /\ launches'[u] + charged'[u] >= BaseLaunches
                        /\ launches'[u] \in 0 .. BaseLaunches
      BY DEF BalanceWithinCharges
    <3>1. CASE u = v
      <4>1. /\ n \in Nat \ {0} /\ n <= BaseLaunches /\ n + charged[u] >= BaseLaunches
            /\ charged[u] \in Nat /\ BaseLaunches \in Nat
            /\ launches'[u] = n - 1 /\ charged'[u] = charged[u] + 1
        BY <2>1, <2>3, <2>6, <3>1
      <4> HIDE DEF n, TypeOK
      <4> QED
        BY ONLY <4>1
    <3>2. CASE u # v
      BY <2>3, <3>2 DEF BalanceInv, BalanceWithinCharges
    <3> QED
      BY <3>1, <3>2
  <2>5. ASSUME NEW q \in Requests, request'[q].pc = "charge"
        PROVE  /\ request'[q].balance <= BaseLaunches
               /\ request'[q].balance + charged'[request'[q].user] >= BaseLaunches
    <3>1. q # r /\ request'[q] = request[q]
      BY <2>2, <2>5
    <3>2. /\ request[q].balance \in Nat /\ request[q].user \in Users
          /\ request[q].balance <= BaseLaunches
          /\ request[q].balance + charged[request[q].user] >= BaseLaunches
      BY <2>5, <3>1, RequestShapes DEF BalanceInv
    <3>3. /\ charged[request[q].user] \in Nat /\ charged'[request[q].user] \in Nat
          /\ charged'[request[q].user] >= charged[request[q].user]
      BY <2>6, <3>2
    <3>4. request'[q].user = request[q].user /\ request'[q].balance = request[q].balance
      BY <3>1
    <3> QED
      BY <3>2, <3>3, <3>4
  <2> QED
    BY <2>4, <2>5 DEF BalanceInv
<1>4. ASSUME NEW r \in Requests, NEW u \in Users, CreateJob(r, u) PROVE BalanceInv'
  BY <1>1, <1>4 DEF CreateJob, Goto, RequestAt
<1>5. ASSUME NEW r \in Requests, NEW j \in Jobs, FetchJobResult(r, j) PROVE BalanceInv'
  BY <1>1, <1>5 DEF FetchJobResult, Goto, RequestAt
<1>6. ASSUME NEW r \in Requests,
             \/ CheckOngoing(r) \/ InsertJob(r) \/ RecordPayment(r) \/ RequestFails(r)
      PROVE  BalanceInv'
  <2>1. /\ UNCHANGED <<launches, charged>>
        /\ \/ Goto(r, NoRequest)
           \/ Goto(r, RequestAt("insert", request[r].user, None, 0))
    BY <1>6 DEF CheckOngoing, InsertJob, RecordPayment, RequestFails, Reply
  <2> QED
    BY <1>1, <2>1, RequestShapes DEF Goto, RequestAt
<1>7. ASSUME NEW w \in Workers, Stop(w) PROVE BalanceInv'
  BY <1>1, <1>7, RequestShapes DEF Stop
<1>8. ASSUME NEW w \in Workers, LoopStep(w) \/ FetchFails(w) \/ Start(w) PROVE BalanceInv'
  <2>1. UNCHANGED <<launches, charged, request>>
    BY <1>8 DEF LoopStep, SelectNewJobs, CommitClaim, BatchDone, WakeUp, FetchFails, Start
  <2> QED
    BY <1>1, <2>1
<1>9. ASSUME NEW w \in Workers, NEW j \in Jobs, TaskStep(w, j) \/ TaskTrouble(w, j)
      PROVE  BalanceInv'
  <2>1. UNCHANGED <<launches, charged, request>>
    BY <1>9 DEF TaskStep, TaskTrouble, Work, SaveResult, TaskReturns, SaveFailure,
                TimeOut, SaveFails, RescueFails
  <2> QED
    BY <1>1, <2>1
<1>10. CASE UNCHANGED vars
  BY <1>1, <1>10 DEF vars
<1> QED
  BY <1>2, <1>3, <1>4, <1>5, <1>6, <1>7, <1>8, <1>9, <1>10 DEF Next, Client

-----------------------------------------------------------------------------
(***************************************************************************)
(* Batches: what one process claims and works on at a time.                *)
(***************************************************************************)

\* Tasks are started by the claim of their process only.
LEMMA TasksStart ==
    ASSUME TypeOK, [Next]_vars, NEW w \in Workers, NEW j \in Jobs, Live(w, j)', ~Live(w, j)
    PROVE  CommitClaim(w) /\ j \in locked[w]
<1> USE DEF TypeOK, Live
<1>1. ASSUME NEW r \in Requests, Client(r) PROVE FALSE
  BY <1>1 DEF Client, CreateJob, CheckOngoing, InsertJob, FetchJobResult, ReadBalance,
              WriteBalance, RecordPayment, RequestFails
<1>2. ASSUME NEW x \in Workers,
             \/ SelectNewJobs(x) \/ BatchDone(x) \/ WakeUp(x) \/ FetchFails(x) \/ Start(x)
      PROVE  FALSE
  BY <1>2 DEF SelectNewJobs, BatchDone, WakeUp, FetchFails, Start
<1>3. ASSUME NEW x \in Workers, NEW k \in Jobs, TaskStep(x, k) \/ TaskTrouble(x, k)
      PROVE  FALSE
  <2>1. PICK t : SetTask(x, k, t)
    BY <1>3 DEF TaskStep, TaskTrouble, Rescue, Work, SaveResult, TaskReturns,
                SaveFailure, TimeOut, SaveFails, RescueFails
  <2> QED
    BY <1>3, <2>1, TasksLive, TaskStepsStartNone
<1>4. ASSUME NEW x \in Workers, Stop(x) PROVE FALSE
  BY <1>4, TaskShapes DEF Stop
<1>5. ASSUME NEW x \in Workers, CommitClaim(x) PROVE CommitClaim(w) /\ j \in locked[w]
  BY <1>5 DEF CommitClaim
<1>6. CASE UNCHANGED vars
  BY <1>6 DEF vars
<1> QED
  BY <1>1, <1>2, <1>3, <1>4, <1>5, <1>6 DEF Next, LoopStep

\* A task ends by itself, or with its process.
LEMMA TasksEnd ==
    ASSUME TypeOK, [Next]_vars, NEW w \in Workers, NEW j \in Jobs, Live(w, j), ~Live(w, j)'
    PROVE  TaskReturns(w, j) \/ SaveFailure(w, j) \/ RescueFails(w, j) \/ Stop(w)
<1> USE DEF TypeOK, Live
<1>1. ASSUME NEW r \in Requests, Client(r) PROVE FALSE
  BY <1>1 DEF Client, CreateJob, CheckOngoing, InsertJob, FetchJobResult, ReadBalance,
              WriteBalance, RecordPayment, RequestFails
<1>2. ASSUME NEW x \in Workers,
             \/ SelectNewJobs(x) \/ BatchDone(x) \/ WakeUp(x) \/ FetchFails(x) \/ Start(x)
      PROVE  FALSE
  BY <1>2 DEF SelectNewJobs, BatchDone, WakeUp, FetchFails, Start
<1>3. ASSUME NEW x \in Workers, CommitClaim(x) PROVE FALSE
  BY <1>3, TaskShapes DEF CommitClaim
<1>4. ASSUME NEW x \in Workers, NEW k \in Jobs,
             Work(x, k) \/ SaveResult(x, k) \/ TimeOut(x, k) \/ SaveFails(x, k)
      PROVE  FALSE
  <2>1. CASE Work(x, k)
    <3>1. PICK v \in Terminal : SetTask(x, k, TaskAt("saving", v))
      BY <2>1 DEF Work
    <3> QED
      BY <3>1, TaskShapes DEF SetTask
  <2>2. CASE SaveResult(x, k)
    BY <2>2, TaskShapes DEF SaveResult, SetTask
  <2>3. CASE TimeOut(x, k) \/ SaveFails(x, k)
    <3>1. SetTask(x, k, TaskAt("rescuing", "FAILURE"))
      BY <2>3 DEF Rescue, TimeOut, SaveFails
    <3> QED
      BY <3>1, TaskShapes DEF SetTask
  <2> QED
    BY <1>4, <2>1, <2>2, <2>3
<1>5. ASSUME NEW x \in Workers, NEW k \in Jobs,
             TaskReturns(x, k) \/ SaveFailure(x, k) \/ RescueFails(x, k)
      PROVE  x = w /\ k = j
  <2>1. SetTask(x, k, NoTask)
    BY <1>5 DEF TaskReturns, SaveFailure, RescueFails
  <2>2. CASE x # w \/ k # j
    <3>1. task'[w][j] = task[w][j]
      BY <2>1, <2>2 DEF SetTask
    <3> QED
      BY <3>1
  <2> QED
    BY <2>2
<1>6. ASSUME NEW x \in Workers, Stop(x) PROVE x = w
  BY <1>6 DEF Stop
<1>7. CASE UNCHANGED vars
  BY <1>7 DEF vars
<1> QED
  BY <1>1, <1>2, <1>3, <1>4, <1>5, <1>6, <1>7
  DEF Next, LoopStep, TaskStep, TaskTrouble

\* fetch_new_jobs never locks more rows than its LIMIT.
LEMMA LimitHolds ==
    ASSUME TypeOK, BatchInv, [Next]_vars, NEW w \in Workers
    PROVE  Cardinality(locked'[w]) <= BatchSize
<1> USE ConstantsAssumption DEF TypeOK
<1>1. Cardinality({}) <= BatchSize /\ Cardinality(locked[w]) <= BatchSize
  BY FS_EmptySet DEF BatchInv
<1>2. ASSUME NEW S \in SUBSET FreeJobs,
             Cardinality(S) = SmallerOf(Cardinality(FreeJobs), BatchSize)
      PROVE  Cardinality(S) <= BatchSize
  <2>1. FreeJobs \in SUBSET Jobs
    BY DEF FreeJobs
  <2>2. Cardinality(FreeJobs) \in Nat
    BY <2>1, FS_Subset, FS_CardinalityType
  <2> QED
    BY <1>2, <2>2 DEF SmallerOf
<1>3. ASSUME NEW x \in Workers, SelectNewJobs(x)
      PROVE  Cardinality(locked'[w]) <= BatchSize
  <2>1. PICK S \in SUBSET FreeJobs :
          /\ locked' \in {locked, [locked EXCEPT ![x] = S]}
          /\ locked' # locked
                => Cardinality(S) = SmallerOf(Cardinality(FreeJobs), BatchSize)
    BY <1>3 DEF SelectNewJobs
  <2> QED
    BY <1>1, <1>2, <2>1
<1>4. ASSUME NEW x \in Workers, CommitClaim(x) \/ FetchFails(x) \/ Stop(x)
      PROVE  Cardinality(locked'[w]) <= BatchSize
  <2>1. locked' = [locked EXCEPT ![x] = {}]
    BY <1>4 DEF CommitClaim, FetchFails, Stop, MarkClaimed
  <2> QED
    BY <1>1, <2>1
<1>5. ASSUME NEW x \in Workers, BatchDone(x) \/ WakeUp(x) \/ Start(x) PROVE locked' = locked
  BY <1>5 DEF BatchDone, WakeUp, Start
<1>6. ASSUME NEW x \in Workers, NEW j \in Jobs, TaskStep(x, j) \/ TaskTrouble(x, j)
      PROVE  locked' = locked
  BY <1>6 DEF TaskStep, TaskTrouble, Work, SaveResult, TaskReturns, SaveFailure,
              TimeOut, SaveFails, RescueFails
<1>7. ASSUME NEW r \in Requests, Client(r) PROVE locked' = locked
  BY <1>7 DEF Client, CreateJob, CheckOngoing, InsertJob, FetchJobResult,
              ReadBalance, WriteBalance, RecordPayment, RequestFails
<1>8. CASE UNCHANGED vars
  BY <1>1, <1>8 DEF vars
<1> QED
  BY <1>1, <1>3, <1>4, <1>5, <1>6, <1>7, <1>8 DEF Next, LoopStep

\* gather waits for the whole batch, so the tasks of a process are one claim's.
LEMMA BatchStep ==
    ASSUME TypeOK, ClaimInv, BatchInv, [Next]_vars
    PROVE  BatchInv'
<1> SUFFICES ASSUME NEW w \in Workers
             PROVE  Cardinality(locked'[w]) <= BatchSize /\ Cardinality(Batch(w)') <= BatchSize
  BY DEF BatchInv
<1>1. /\ Batch(w) \in SUBSET Jobs /\ locked[w] \in SUBSET Jobs
      /\ IsFiniteSet(Batch(w)) /\ IsFiniteSet(locked[w])
  <2>1. Batch(w) \in SUBSET Jobs /\ locked[w] \in SUBSET Jobs
    BY DEF Batch, TypeOK
  <2> QED
    BY <2>1, ConstantsAssumption, FS_Subset
<1>2. Batch(w)' \subseteq Batch(w) \/ Batch(w)' \subseteq locked[w]
  <2>1. CASE CommitClaim(w)
    <3>1. \A j \in Jobs : ~Live(w, j)
      BY <2>1 DEF CommitClaim, ClaimInv
    <3> QED
      BY <3>1, TasksStart DEF Batch
  <2>2. CASE ~CommitClaim(w)
    BY <2>2, TasksStart DEF Batch
  <2> QED
    BY <2>1, <2>2
<1>3. ASSUME NEW S, IsFiniteSet(S), Cardinality(S) <= BatchSize, Batch(w)' \subseteq S
      PROVE  Cardinality(Batch(w)') <= BatchSize
  <2>1. /\ IsFiniteSet(Batch(w)') /\ Cardinality(Batch(w)') <= Cardinality(S)
    BY <1>3, FS_Subset
  <2>2. Cardinality(Batch(w)') \in Nat /\ Cardinality(S) \in Nat /\ BatchSize \in Nat
    BY <1>3, <2>1, ConstantsAssumption, FS_CardinalityType
  <2> QED
    BY <1>3, <2>1, <2>2
<1>4. Cardinality(Batch(w)) <= BatchSize /\ Cardinality(locked[w]) <= BatchSize
  BY DEF BatchInv
<1> QED
  BY <1>1, <1>2, <1>3, <1>4, LimitHolds

\* The inductive invariant of the whole module: rows are locked once and NEW, a
\* claim stays within its batch, and whatever a task or a payment holds in memory
\* across an await agrees with the row it is about to overwrite (fetch_new_jobs,
\* update_job_status, decrement_available_launches).
THEOREM Inductive == Spec => []InductiveInv
<1>1. Init => BalanceInv
  BY ConstantsAssumption
  DEF Init, BalanceInv, BalanceWithinCharges, NoRequest, RequestAt
<1>2. TypeOK /\ BalanceInv /\ [Next]_vars => BalanceInv'
  BY BalanceStep
<1>3. Init => BatchInv
  <2> SUFFICES ASSUME Init, NEW w \in Workers
               PROVE  Cardinality(locked[w]) <= BatchSize /\ Cardinality(Batch(w)) <= BatchSize
    BY DEF BatchInv
  <2>1. locked[w] = {} /\ Batch(w) = {}
    BY TaskShapes DEF Init, Batch, Live
  <2> QED
    BY <2>1, ConstantsAssumption, FS_EmptySet
<1>4. TypeOK /\ ClaimInv /\ BatchInv /\ [Next]_vars => BatchInv'
  BY BatchStep
<1>5. Spec => [](BalanceInv /\ BatchInv)
  BY <1>1, <1>2, <1>3, <1>4, ClaimsAndVerdicts, PTL DEF Spec
<1> QED
  BY <1>5, ClaimsAndVerdicts, PTL DEF InductiveInv

\* The balance of a user never drops by more than the number of charges taken,
\* never below zero, and no stale write lifts it over the grant.
THEOREM BalanceAccounted == Spec => []BalanceWithinCharges
<1>1. InductiveInv => BalanceWithinCharges
  BY DEF InductiveInv, BalanceInv
<1> QED
  BY <1>1, Inductive, PTL

-----------------------------------------------------------------------------
(***************************************************************************)
(* Overlap: the check and the insert of create_job are two transactions.   *)
(***************************************************************************)

\* An ongoing job is one that was ongoing before, but for the one InsertJob adds.
LEMMA OngoingKept ==
    ASSUME TypeOK, ClaimInv, VerdictInv, [Next]_vars,
           \A r \in Requests : ~InsertJob(r),
           NEW j \in Jobs, status'[j] \in Ongoing
    PROVE  status[j] \in Ongoing
<1>1. status[j] \notin Terminal
  BY VerdictKept DEF Ongoing, Terminal
<1>2. SUFFICES ASSUME status[j] = "ABSENT" PROVE status'[j] = "ABSENT"
  BY <1>1 DEF TypeOK, Statuses, Ongoing
<1>3. ASSUME NEW r \in Requests, Client(r) PROVE status'[j] = "ABSENT"
  <2>1. CASE RecordPayment(r)
    <3>1. request[r].job \in Jobs /\ status[request[r].job] \in Terminal
      BY <2>1, RequestShapes
      DEF TypeOK, RecordPayment, VerdictInv, Paying, Stands, Terminal
    <3> QED
      BY <1>2, <2>1, <3>1 DEF RecordPayment, UpdateJobStatus, TypeOK, Terminal
  <2>2. CASE ~RecordPayment(r)
    BY <1>2, <1>3, <2>2
    DEF Client, CreateJob, CheckOngoing, FetchJobResult, ReadBalance, WriteBalance,
        RequestFails, tables
  <2> QED
    BY <2>1, <2>2
<1>4. ASSUME NEW w \in Workers, LoopStep(w) \/ FetchFails(w) \/ Stop(w) \/ Start(w)
      PROVE  status'[j] = "ABSENT"
  BY <1>2, <1>4 DEF LoopStep, SelectNewJobs, CommitClaim, FetchFails, MarkClaimed,
                    BatchDone, WakeUp, Stop, Start, tables, ClaimInv
<1>5. ASSUME NEW w \in Workers, NEW k \in Jobs, TaskStep(w, k) \/ TaskTrouble(w, k)
      PROVE  status'[j] = "ABSENT"
  <2>1. \/ status' = status
        \/ status' = [status EXCEPT ![k] = task[w][k].verdict] /\ status[k] # "ABSENT"
    BY <1>5, TaskWrites, VerdictKept DEF Stands, VerdictInv, Terminal
  <2> QED
    BY <1>2, <2>1 DEF TypeOK
<1>6. CASE UNCHANGED vars
  BY <1>2, <1>6 DEF vars, tables
<1> QED
  BY <1>3, <1>4, <1>5, <1>6 DEF Next

\* A request about to insert was so before, but for the one that just checked.
LEMMA InsertingKept ==
    ASSUME TypeOK, [Next]_vars,
           \A q \in Requests : ~CheckOngoing(q),
           NEW r \in Requests, request'[r].pc = "insert"
    PROVE  request'[r] = request[r]
<1> USE DEF TypeOK, Goto, Reply, RequestAt, NoRequest
<1>1. ASSUME NEW q \in Requests, NEW u \in Users, CreateJob(q, u)
      PROVE  request'[r] = request[r]
  BY <1>1 DEF CreateJob
<1>2. ASSUME NEW q \in Requests, NEW j \in Jobs, FetchJobResult(q, j)
      PROVE  request'[r] = request[r]
  BY <1>2 DEF FetchJobResult
<1>7. ASSUME NEW q \in Requests, InsertJob(q) \/ RecordPayment(q) \/ RequestFails(q)
      PROVE  request'[r] = request[r]
  <2>1. Reply(q)
    BY <1>7 DEF InsertJob, RecordPayment, RequestFails
  <2> QED
    BY <2>1
<1>8. ASSUME NEW q \in Requests, ReadBalance(q) \/ WriteBalance(q)
      PROVE  request'[r] = request[r]
  BY <1>8 DEF ReadBalance, WriteBalance
<1>3. ASSUME NEW w \in Workers, Stop(w) PROVE request'[r] = request[r]
  BY <1>3 DEF Stop
<1>4. ASSUME NEW w \in Workers, LoopStep(w) \/ FetchFails(w) \/ Start(w)
      PROVE  request' = request
  BY <1>4 DEF LoopStep, SelectNewJobs, CommitClaim, BatchDone, WakeUp, FetchFails, Start
<1>5. ASSUME NEW w \in Workers, NEW j \in Jobs, TaskStep(w, j) \/ TaskTrouble(w, j)
      PROVE  request' = request
  BY <1>5 DEF TaskStep, TaskTrouble, Work, SaveResult, TaskReturns, SaveFailure,
              TimeOut, SaveFails, RescueFails
<1>6. CASE UNCHANGED vars
  BY <1>6 DEF vars
<1> QED
  BY <1>1, <1>2, <1>3, <1>4, <1>5, <1>6, <1>7, <1>8 DEF Next, Client

\* The sets that are counted are finite.
LEMMA CountedSets ==
    ASSUME NEW u \in Users
    PROVE  /\ IsFiniteSet(OngoingJobs(u)) /\ Cardinality(OngoingJobs(u)) \in Nat
           /\ IsFiniteSet(Inserting(u)) /\ Cardinality(Inserting(u)) \in Nat
           /\ Cardinality(Inserting(u)) <= Cardinality(Requests)
           /\ Cardinality(Requests) \in Nat
<1>1. OngoingJobs(u) \in SUBSET Jobs /\ Inserting(u) \in SUBSET Requests
  BY DEF OngoingJobs, Inserting
<1> QED
  BY <1>1, ConstantsAssumption, FS_Subset, FS_CardinalityType

\* Each ongoing job of a user, and each insert on its way, stands for a request
\* that was in flight when the user had no ongoing job.
LEMMA OverlapStep ==
    ASSUME TypeOK, ClaimInv, VerdictInv, OverlapBoundsOngoing, [Next]_vars,
           NEW u \in Users
    PROVE  Cardinality(OngoingJobs(u)') + Cardinality(Inserting(u)')
             <= Cardinality(Requests)
<1>0. OngoingJobs(u)' \in SUBSET Jobs /\ Inserting(u)' \in SUBSET Requests
  BY DEF OngoingJobs, Inserting
<1>1. /\ IsFiniteSet(OngoingJobs(u)') /\ Cardinality(OngoingJobs(u)') \in Nat
      /\ IsFiniteSet(Inserting(u)') /\ Cardinality(Inserting(u)') \in Nat
      /\ Cardinality(Inserting(u)') <= Cardinality(Requests)
  BY <1>0, ConstantsAssumption, FS_Subset, FS_CardinalityType
<1>2. Cardinality(OngoingJobs(u)) + Cardinality(Inserting(u)) <= Cardinality(Requests)
  BY DEF OverlapBoundsOngoing
<1>3. CASE \E r \in Requests : InsertJob(r)
  <2>1. PICK r \in Requests : InsertJob(r)
    BY <1>3
  <2>2. PICK j \in Jobs : /\ Owner[j] = request[r].user /\ status[j] = "ABSENT"
                          /\ status' = [status EXCEPT ![j] = "NEW"]
    BY <2>1 DEF InsertJob, UpdateJobStatus
  <2>3. request' = [request EXCEPT ![r] = NoRequest] /\ request[r].pc = "insert"
    BY <2>1 DEF InsertJob, Reply, Goto
  <2>4. CASE request[r].user = u
    <3>1. OngoingJobs(u)' = OngoingJobs(u) \cup {j} /\ j \notin OngoingJobs(u)
      BY <2>2, <2>4 DEF OngoingJobs, TypeOK, Ongoing
    <3>2. Inserting(u)' = Inserting(u) \ {r} /\ r \in Inserting(u)
      BY <2>3, <2>4 DEF Inserting, TypeOK, NoRequest, RequestAt
    <3>3. Cardinality(OngoingJobs(u)') = Cardinality(OngoingJobs(u)) + 1
      BY <3>1, CountedSets, FS_AddElement
    <3>4. Cardinality(Inserting(u)') = Cardinality(Inserting(u)) - 1
      BY <3>2, CountedSets, FS_RemoveElement
    <3> QED
      BY <1>2, <3>3, <3>4, CountedSets
  <2>5. CASE request[r].user # u
    <3>1. OngoingJobs(u)' = OngoingJobs(u)
      BY <2>2, <2>5 DEF OngoingJobs, TypeOK
    <3>2. Inserting(u)' = Inserting(u)
      BY <2>3, <2>5 DEF Inserting, TypeOK, NoRequest, RequestAt
    <3> QED
      BY <1>2, <3>1, <3>2
  <2> QED
    BY <2>4, <2>5
<1>4. CASE \E r \in Requests : CheckOngoing(r)
  <2>1. PICK r \in Requests : CheckOngoing(r)
    BY <1>4
  <2>2. OngoingJobs(u)' = OngoingJobs(u)
    BY <2>1 DEF CheckOngoing, tables, OngoingJobs
  <2>3. CASE OngoingJobs(u) = {}
    BY <1>1, <2>2, <2>3, FS_EmptySet, CountedSets
  <2>4. CASE OngoingJobs(u) # {}
    <3>1. Inserting(u)' \subseteq Inserting(u)
      <4>1. \/ request' = [request EXCEPT ![r] = NoRequest]
            \/ /\ request' = [request EXCEPT ![r] = RequestAt("insert", request[r].user, None, 0)]
               /\ request[r].user # u
        BY <2>1, <2>4 DEF CheckOngoing, Goto, Reply
      <4>2. NoRequest.pc # "insert"
        BY DEF NoRequest, RequestAt
      <4>3. RequestAt("insert", request[r].user, None, 0).user = request[r].user
        BY DEF RequestAt
      <4> QED
        BY <4>1, <4>2, <4>3 DEF Inserting, TypeOK
    <3>2. Cardinality(Inserting(u)') <= Cardinality(Inserting(u))
      BY <3>1, CountedSets, FS_Subset
    <3> QED
      BY <1>1, <1>2, <2>2, <3>2, CountedSets
  <2> QED
    BY <2>3, <2>4
<1>5. CASE \A r \in Requests : ~InsertJob(r) /\ ~CheckOngoing(r)
  <2>1. OngoingJobs(u)' \subseteq OngoingJobs(u)
    BY <1>5, OngoingKept DEF OngoingJobs
  <2>2. Inserting(u)' \subseteq Inserting(u)
    BY <1>5, InsertingKept DEF Inserting
  <2>3. /\ Cardinality(OngoingJobs(u)') <= Cardinality(OngoingJobs(u))
        /\ Cardinality(Inserting(u)') <= Cardinality(Inserting(u))
    BY <2>1, <2>2, CountedSets, FS_Subset
  <2> QED
    BY <1>1, <1>2, <2>3, CountedSets
<1> QED
  BY <1>3, <1>4, <1>5

\* The two transactions of create_job let a user have several ongoing jobs, but
\* never more than there were requests in flight together.
THEOREM OngoingBounded == Spec => []OverlapBoundsOngoing
<1>1. Init => OverlapBoundsOngoing
  <2> SUFFICES ASSUME Init, NEW u \in Users
               PROVE  Cardinality(OngoingJobs(u)) + Cardinality(Inserting(u))
                        <= Cardinality(Requests)
    BY DEF OverlapBoundsOngoing
  <2>1. OngoingJobs(u) = {}
    BY DEF Init, OngoingJobs, Ongoing
  <2> QED
    BY <2>1, FS_EmptySet, CountedSets
<1>2. TypeOK /\ ClaimInv /\ VerdictInv /\ OverlapBoundsOngoing /\ [Next]_vars
        => OverlapBoundsOngoing'
  BY OverlapStep DEF OverlapBoundsOngoing
<1> QED
  BY <1>1, <1>2, ClaimsAndVerdicts, PTL DEF Spec

-----------------------------------------------------------------------------
(***************************************************************************)
(* Stranded jobs: PROCESSING with no process at work on them.              *)
(***************************************************************************)

\* A row becomes PROCESSING by the commit of a claim, the one whose answer is
\* lost included.
LEMMA ProcessingFrom ==
    ASSUME TypeOK, VerdictInv, [Next]_vars, NEW j \in Jobs,
           status[j] # "PROCESSING", status'[j] = "PROCESSING"
    PROVE  \E w \in Workers : j \in locked[w] /\ (CommitClaim(w) \/ FetchFails(w))
<1> USE DEF tables
<1>1. ASSUME NEW r \in Requests, Client(r) PROVE FALSE
  <2>1. CASE InsertJob(r) \/ RecordPayment(r)
    BY <2>1 DEF InsertJob, RecordPayment, UpdateJobStatus, TypeOK
  <2> QED
    BY <1>1, <2>1 DEF Client, CreateJob, CheckOngoing, FetchJobResult, ReadBalance,
                      WriteBalance, RequestFails
<1>2. ASSUME NEW x \in Workers,
             SelectNewJobs(x) \/ BatchDone(x) \/ WakeUp(x) \/ Stop(x) \/ Start(x)
      PROVE  FALSE
  BY <1>2 DEF SelectNewJobs, BatchDone, WakeUp, Stop, Start
<1>3. ASSUME NEW x \in Workers, CommitClaim(x) \/ FetchFails(x) PROVE j \in locked[x]
  BY <1>3 DEF CommitClaim, FetchFails, MarkClaimed
<1>4. ASSUME NEW x \in Workers, NEW k \in Jobs, TaskStep(x, k) \/ TaskTrouble(x, k)
      PROVE  FALSE
  BY <1>4, TaskWrites DEF TypeOK, Terminal
<1>5. CASE UNCHANGED vars
  BY <1>5 DEF vars
<1> QED
  BY <1>1, <1>2, <1>3, <1>4, <1>5 DEF Next, LoopStep

\* Nothing moves a stranded row: it is not NEW, so no claim sees it, and no
\* payment is under way for a job without a verdict.
LEMMA StrandedStays ==
    ASSUME TypeOK, ClaimInv, VerdictInv, [Next]_vars
    PROVE  Stranded \subseteq Stranded'
<1> SUFFICES ASSUME NEW j \in Jobs, j \in Stranded
             PROVE  status'[j] = "PROCESSING" /\ \A w \in Workers : ~Live(w, j)'
  BY DEF Stranded
<1>1. status[j] = "PROCESSING" /\ \A w \in Workers : ~Live(w, j)
  BY DEF Stranded
<1>2. status'[j] = "PROCESSING"
  BY <1>1, TasksLive, ProcessingKept
<1>3. ASSUME NEW w \in Workers, Live(w, j)' PROVE FALSE
  BY <1>1, <1>3, TasksStart DEF ClaimInv
<1> QED
  BY <1>2, <1>3

\* A job is stranded when its process stops, when the answer to its claim is lost
\* or when its rescue fails, and in no other way.
LEMMA WhoIsStranded ==
    ASSUME TypeOK, ClaimInv, VerdictInv, [Next]_vars,
           NEW j \in Jobs, j \in Stranded', j \notin Stranded
    PROVE  \E w \in Workers :
             \/ Stop(w) /\ j \in Batch(w)
             \/ FetchFails(w) /\ j \in locked[w]
             \/ RescueFails(w, j)
<1>1. status'[j] = "PROCESSING" /\ \A w \in Workers : ~Live(w, j)'
  BY DEF Stranded
<1>2. CASE status[j] = "PROCESSING"
  <2>1. PICK w \in Workers : Live(w, j)
    BY <1>2 DEF Stranded
  <2>2. CASE TaskReturns(w, j)
    <3>1. task[w][j].verdict \in Terminal /\ Stands(j, task[w][j].verdict)
      BY <2>2, TaskShapes DEF TaskReturns, VerdictInv, TypeOK
    <3> QED
      BY <1>2, <3>1 DEF Stands, VerdictInv, Terminal
  <2>3. CASE SaveFailure(w, j)
    BY <1>1, <2>3 DEF SaveFailure, UpdateJobStatus, VerdictInv, TypeOK
  <2>4. CASE Stop(w)
    BY <2>1, <2>4 DEF Batch
  <2> QED
    BY <1>1, <2>1, <2>2, <2>3, <2>4, TasksEnd
<1>3. CASE status[j] # "PROCESSING"
  <2>1. PICK w \in Workers : j \in locked[w] /\ (CommitClaim(w) \/ FetchFails(w))
    BY <1>1, <1>3, ProcessingFrom
  <2>2. CASE CommitClaim(w)
    <3>1. Live(w, j)'
      BY <2>1, <2>2, TaskShapes DEF CommitClaim, Live, TypeOK
    <3> QED
      BY <1>1, <3>1
  <2> QED
    BY <2>1, <2>2
<1> QED
  BY <1>2, <1>3

\* A step loses no job, or is a fault and loses no more than a batch.
LEMMA StrandedGrows ==
    ASSUME TypeOK, ClaimInv, VerdictInv, BatchInv, [Next]_vars
    PROVE  \/ Stranded' \subseteq Stranded
           \/ /\ faults' = faults + 1
              /\ \E L \in SUBSET Jobs :
                    Cardinality(L) <= BatchSize /\ Stranded' \subseteq Stranded \cup L
<1>1. Stranded' \subseteq Jobs
  BY DEF Stranded
<1>2. CASE \E w \in Workers : Stop(w)
  <2>1. PICK w \in Workers : Stop(w)
    BY <1>2
  <2>2. faults' = faults + 1
    BY <2>1 DEF Stop, Fault
  <2>3. Batch(w) \in SUBSET Jobs /\ Cardinality(Batch(w)) <= BatchSize
    BY DEF Batch, BatchInv
  <2>4. ASSUME NEW j \in Stranded', j \notin Stranded PROVE j \in Batch(w)
    <3>1. status'[j] = "PROCESSING" /\ status[j] = "PROCESSING"
      BY <1>1, <2>1, <2>4 DEF Stop, Stranded, tables
    <3>2. PICK x \in Workers : Live(x, j) /\ ~Live(x, j)'
      BY <1>1, <2>4, <3>1 DEF Stranded
    <3>3. x = w
      BY <1>1, <2>1, <3>2 DEF Stop, Live, TypeOK
    <3> QED
      BY <1>1, <3>2, <3>3 DEF Batch
  <2> QED
    BY <2>2, <2>3, <2>4
<1>3. CASE \E w \in Workers : FetchFails(w)
  <2>1. PICK w \in Workers : FetchFails(w)
    BY <1>3
  <2>2. faults' = faults + 1
    BY <2>1 DEF FetchFails, Fault
  <2>3. locked[w] \in SUBSET Jobs /\ Cardinality(locked[w]) <= BatchSize
    BY DEF TypeOK, BatchInv
  <2>4. ASSUME NEW j \in Stranded', j \notin Stranded PROVE j \in locked[w]
    <3>1. \A x \in Workers : Live(x, j)' = Live(x, j)
      BY <2>1 DEF FetchFails, Live
    <3>2. status'[j] = "PROCESSING" /\ status[j] # "PROCESSING"
      BY <1>1, <2>4, <3>1 DEF Stranded
    <3> QED
      BY <1>1, <2>1, <3>2 DEF FetchFails, MarkClaimed
  <2> QED
    BY <2>2, <2>3, <2>4
<1>4. CASE \E w \in Workers, j \in Jobs : RescueFails(w, j)
  <2>1. PICK w \in Workers, k \in Jobs : RescueFails(w, k)
    BY <1>4
  <2>2. faults' = faults + 1
    BY <2>1 DEF RescueFails, Fault
  <2>3. {k} \in SUBSET Jobs /\ Cardinality({k}) <= BatchSize
    BY ConstantsAssumption, FS_Singleton
  <2>4. ASSUME NEW j \in Stranded', j \notin Stranded PROVE j = k
    <3>1. SUFFICES ASSUME j # k PROVE FALSE
      OBVIOUS
    <3>2. \A x \in Workers : Live(x, j)' = Live(x, j)
      BY <1>1, <2>1, <3>1 DEF RescueFails, SetTask, Live, TypeOK
    <3>3. status' = status
      BY <2>1 DEF RescueFails, tables
    <3> QED
      BY <1>1, <2>4, <3>2, <3>3 DEF Stranded
  <2> QED
    BY <2>2, <2>3, <2>4
<1>5. CASE /\ \A w \in Workers : ~Stop(w) /\ ~FetchFails(w)
           /\ \A w \in Workers, j \in Jobs : ~RescueFails(w, j)
  BY <1>1, <1>5, WhoIsStranded
<1> QED
  BY <1>2, <1>3, <1>4, <1>5

\* Faults are only ever counted up.
LEMMA FaultsGrow ==
    ASSUME TypeOK, [Next]_vars
    PROVE  faults \in Nat /\ faults' \in {faults, faults + 1}
<1>1. faults' \in {faults, faults + 1}
  BY DEF Next, vars, Client, LoopStep, TaskStep, TaskTrouble, Fault,
         CreateJob, CheckOngoing, InsertJob, FetchJobResult, ReadBalance,
         WriteBalance, RecordPayment, RequestFails, SelectNewJobs, CommitClaim, FetchFails,
         BatchDone, WakeUp, Work, SaveResult, TaskReturns, TimeOut, SaveFails, SaveFailure,
         RescueFails, Stop, Start
<1> QED
  BY <1>1 DEF TypeOK

\* The rows a step may lose, counted.
LEMMA StrandedStep ==
    ASSUME TypeOK, ClaimInv, VerdictInv, BatchInv, [Next]_vars
    PROVE  /\ Stranded \subseteq Stranded'
           /\ Cardinality(Stranded')
                <= Cardinality(Stranded) + BatchSize * (faults' - faults)
           /\ Cardinality(Stranded) \in Nat /\ Cardinality(Stranded') \in Nat
<1>1. /\ Stranded \in SUBSET Jobs /\ Stranded' \in SUBSET Jobs
      /\ BatchSize \in Nat
  BY ConstantsAssumption DEF Stranded
<1>2. /\ IsFiniteSet(Stranded) /\ Cardinality(Stranded) \in Nat
      /\ IsFiniteSet(Stranded') /\ Cardinality(Stranded') \in Nat
  BY <1>1, ConstantsAssumption, FS_Subset, FS_CardinalityType
<1>3. CASE Stranded' \subseteq Stranded
  <2>1. Cardinality(Stranded') <= Cardinality(Stranded)
    BY <1>2, <1>3, FS_Subset
  <2>2. BatchSize * (faults' - faults) \in {0, BatchSize}
    BY <1>1, FaultsGrow
  <2> QED
    BY <1>1, <1>2, <2>1, <2>2, StrandedStays
<1>4. CASE /\ faults' = faults + 1
           /\ \E L \in SUBSET Jobs :
                 Cardinality(L) <= BatchSize /\ Stranded' \subseteq Stranded \cup L
  <2>1. PICK L \in SUBSET Jobs :
          Cardinality(L) <= BatchSize /\ Stranded' \subseteq Stranded \cup L
    BY <1>4
  <2>2. IsFiniteSet(L) /\ Cardinality(L) \in Nat
    BY ConstantsAssumption, FS_Subset, FS_CardinalityType
  <2>3. /\ IsFiniteSet(Stranded \cup L) /\ Cardinality(Stranded \cap L) \in Nat
        /\ Cardinality(Stranded \cup L)
             = Cardinality(Stranded) + Cardinality(L) - Cardinality(Stranded \cap L)
    <3>1. IsFiniteSet(Stranded \cap L)
      BY <1>2, FS_Intersection
    <3> QED
      BY <1>2, <2>2, <3>1, FS_Union, FS_CardinalityType
  <2>4. Cardinality(Stranded') <= Cardinality(Stranded \cup L)
    BY <2>1, <2>3, FS_Subset
  <2>5. BatchSize * (faults' - faults) = BatchSize
    BY <1>1, <1>4, FaultsGrow
  <2> QED
    BY <1>1, <1>2, <2>1, <2>2, <2>3, <2>4, <2>5, StrandedStays
<1> QED
  BY <1>3, <1>4, StrandedGrows

\* Only NEW rows are claimed, so a job whose process stopped stays PROCESSING for
\* good; only a fault loses jobs, no more of them than one claim takes.
THEOREM StrandedJobs == Spec => StrandedForGood
<1>1. InductiveInv /\ [Next]_vars =>
        [/\ Stranded \subseteq Stranded'
         /\ Cardinality(Stranded')
              <= Cardinality(Stranded) + BatchSize * (faults' - faults)]_vars
  BY StrandedStep DEF InductiveInv
<1> QED
  BY <1>1, Inductive, PTL DEF Spec, StrandedForGood

StrandedBounded == Cardinality(Stranded) <= BatchSize * faults

\* So every PROCESSING row has a process at work on it as long as there was no
\* fault, and all rows ever lost are bounded by the faults there were.
THEOREM StrandedCounted == Spec => [](StrandedBounded /\ (faults = 0 => Stranded = {}))
<1> USE ConstantsAssumption
<1>1. Init => StrandedBounded
  <2> SUFFICES ASSUME Init PROVE StrandedBounded
    OBVIOUS
  <2>1. Stranded = {} /\ faults = 0
    BY DEF Init, Stranded
  <2> QED
    BY <2>1, FS_EmptySet DEF StrandedBounded
<1>2. InductiveInv /\ StrandedBounded /\ [Next]_vars => StrandedBounded'
  <2> SUFFICES ASSUME InductiveInv, StrandedBounded, [Next]_vars
               PROVE  Cardinality(Stranded') <= BatchSize * faults'
    BY DEF StrandedBounded
  <2>1. /\ Cardinality(Stranded')
             <= Cardinality(Stranded) + BatchSize * (faults' - faults)
        /\ Cardinality(Stranded) \in Nat /\ Cardinality(Stranded') \in Nat
        /\ Cardinality(Stranded) <= BatchSize * faults
    BY StrandedStep DEF InductiveInv, StrandedBounded
  <2>2. BatchSize \in Nat /\ faults \in Nat /\ faults' \in {faults, faults + 1}
    BY FaultsGrow DEF InductiveInv
  <2>3. CASE faults' = faults
    BY <2>1, <2>2, <2>3
  <2>4. CASE faults' = faults + 1
    <3>1. BatchSize * (faults' - faults) = BatchSize
      BY <2>2, <2>4
    <3>2. BatchSize * faults' = BatchSize * faults + BatchSize
      BY <2>2, <2>4
    <3> QED
      BY <2>1, <2>2, <3>1, <3>2
  <2> QED
    BY <2>2, <2>3, <2>4
<1>3. StrandedBounded => (faults = 0 => Stranded = {})
  <2> SUFFICES ASSUME StrandedBounded, faults = 0 PROVE Stranded = {}
    OBVIOUS
  <2>1. Stranded \in SUBSET Jobs
    BY DEF Stranded
  <2>2. IsFiniteSet(Stranded) /\ Cardinality(Stranded) \in Nat
    BY <2>1, FS_Subset, FS_CardinalityType
  <2>3. Cardinality(Stranded) = 0
    BY <2>2 DEF StrandedBounded
  <2> QED
    BY <2>2, <2>3, FS_EmptySet
<1> QED
  BY <1>1, <1>2, <1>3, Inductive, PTL DEF Spec

=============================================================================
