---------------------------- MODULE JobLifecycle ----------------------------
(***************************************************************************)
(* The life of a background job of the service: the job API               *)
(* (services/job_service.py), the processor loop that every server process *)
(* runs (services/job_processor.py), the two tables they share through     *)
(* repositories/job_repository.py and repositories/profile_repository.py,  *)
(* and the payment of a finished job (services/profile_service.py).        *)
(*                                                                         *)
(* A repository call decorated with @connection is one database            *)
(* transaction, so it is one action here; every await between two calls is *)
(* a point where other requests, other tasks and other processes run.      *)
(***************************************************************************)
EXTENDS Integers, FiniteSets

CONSTANTS
    Workers,        \* server processes; each one runs a processor loop
    Users,          \* rows of profile.user
    Jobs,           \* identifiers user_launch rows may take (bounds the run)
    Owner,          \* Owner[j]: the user for whom identifier j is drawn
    TrainJobs,      \* identifiers drawn for jobs of type TRAIN
    Requests,       \* slots for HTTP requests in flight
    Host,           \* Host[r]: the process that serves slot r
    BaseLaunches,   \* settings: ProfileConf.base_available_launches
    BatchSize,      \* settings: JobConf.processing_batch_size
    MaxFaults,      \* bound: process stops and database errors in a run
    None            \* no job or no user in a request record

ASSUME ConstantsAssumption ==
    /\ IsFiniteSet(Jobs)
    /\ IsFiniteSet(Requests)
    /\ Owner \in [Jobs -> Users]
    /\ TrainJobs \subseteq Jobs
    /\ Host \in [Requests -> Workers]
    /\ BaseLaunches \in Nat
    /\ BatchSize \in Nat \ {0}
    /\ MaxFaults \in Nat
    /\ None \notin Jobs
    /\ None \notin Users

VARIABLES
    status,         \* user_launch.status, "ABSENT" before the row exists
    paymentTaken,   \* user_launch.is_payment_taken
    launches,       \* user.available_launches
    loop,           \* where the processor loop of a process is
    locked,         \* rows a process holds FOR UPDATE inside fetch_new_jobs
    task,           \* asyncio tasks: one per process and claimed job
    request,        \* HTTP requests in flight
    charged,        \* history: decrements written, per user
    billed,         \* history: jobs for which a decrement was written
    overturned,     \* history: jobs whose committed SUCCESS was then disowned
    faults          \* history: faults so far, bounded by MaxFaults

tables  == <<status, paymentTaken, launches>>
history == <<charged, billed, overturned>>
vars    == <<tables, loop, locked, task, request, history, faults>>

-----------------------------------------------------------------------------
Ongoing  == {"NEW", "PROCESSING"}
Terminal == {"SUCCESS", "FAILURE"}
Statuses == Ongoing \cup Terminal \cup {"ABSENT"}

LoopStates == {"down", "fetch", "claiming", "gather", "sleep", "restart"}

\* An asyncio task and the status its job object carries. "saved": the COMMIT
\* is done, the session is still being closed (an await). "rescuing": an except
\* branch of _process_job_with_timeout is about to save FAILURE.
TaskAt(pc, v) == [pc |-> pc, verdict |-> v]
NoTask  == TaskAt("none", "PROCESSING")
Running == TaskAt("running", "PROCESSING")
Tasks   == {NoTask, Running} \cup [pc : {"saving", "saved", "rescuing"}, verdict : Terminal]

\* What a request remembers between two of its transactions: create_job its
\* user, a payment also the job and, before the write, the balance it has read.
RequestAt(pc, u, j, n) == [pc |-> pc, user |-> u, job |-> j, balance |-> n]
NoRequest == RequestAt("idle", None, None, 0)

CreateRequests  == [pc : {"check", "insert"}, user : Users, job : {None}, balance : {0}]
PaymentRequests == [pc : {"balance", "record"}, user : Users, job : Jobs, balance : {0}]
ChargeRequests  == [pc : {"charge"}, user : Users, job : Jobs, balance : Nat \ {0}]

RequestRecords ==
    {NoRequest} \cup CreateRequests \cup PaymentRequests \cup ChargeRequests

OngoingJobs(u) == {j \in Jobs : Owner[j] = u /\ status[j] \in Ongoing}
LockedRows     == UNION {locked[w] : w \in Workers}
Up(w)          == loop[w] # "down"

Init ==
    /\ status = [j \in Jobs |-> "ABSENT"]
    /\ paymentTaken = [j \in Jobs |-> FALSE]
    /\ launches = [u \in Users |-> BaseLaunches]
    /\ loop = [w \in Workers |-> "fetch"]
    /\ locked = [w \in Workers |-> {}]
    /\ task = [w \in Workers |-> [j \in Jobs |-> NoTask]]
    /\ request = [r \in Requests |-> NoRequest]
    /\ charged = [u \in Users |-> 0]
    /\ billed = {}
    /\ overturned = {}
    /\ faults = 0

Fault == faults < MaxFaults /\ faults' = faults + 1

(***************************************************************************)
(* JobRepository.update_job_status: the whole row is merged from the       *)
(* caller's in-memory copy, whatever the row holds by now.                 *)
(***************************************************************************)
UpdateJobStatus(j, newStatus, isPaymentTaken) ==
    /\ status' = [status EXCEPT ![j] = newStatus]
    /\ paymentTaken' = [paymentTaken EXCEPT ![j] = isPaymentTaken]

-----------------------------------------------------------------------------
(* JobService.create_job: three transactions of one request.              *)

Goto(r, rec) == request' = [request EXCEPT ![r] = rec]
Reply(r)     == Goto(r, NoRequest)

\* The profile is read; a user without launches gets 403 and nothing changes.
CreateJob(r, u) ==
    /\ Up(Host[r]) /\ request[r].pc = "idle"
    /\ launches[u] > 0
    /\ Goto(r, RequestAt("check", u, None, 0))
    /\ UNCHANGED <<tables, loop, locked, task, history, faults>>

\* Mutant: only PROCESSING counts as ongoing, a NEW job is overlooked.
CheckProcessingOnly(r) ==
    /\ request[r].pc = "check"
    /\ \/ /\ \A j \in OngoingJobs(request[r].user) : status[j] # "PROCESSING"
          /\ Goto(r, RequestAt("insert", request[r].user, None, 0))
       \/ /\ \E j \in OngoingJobs(request[r].user) : status[j] = "PROCESSING"
          /\ Reply(r)
    /\ UNCHANGED <<tables, loop, locked, task, history, faults>>

\* The ongoing jobs are read; the request ends with 400 when there is one.
CheckOngoing(r) ==
    /\ request[r].pc = "check"
    /\ \/ /\ OngoingJobs(request[r].user) = {}
          /\ Goto(r, RequestAt("insert", request[r].user, None, 0))
       \/ /\ OngoingJobs(request[r].user) # {}
          /\ Reply(r)
    /\ UNCHANGED <<tables, loop, locked, task, history, faults>>

\* The row is inserted. With all identifiers used up the request waits: the
\* bound of the model, not of the code.
InsertJob(r) ==
    /\ request[r].pc = "insert"
    /\ \E j \in Jobs :
        /\ Owner[j] = request[r].user
        /\ status[j] = "ABSENT"
        /\ UpdateJobStatus(j, "NEW", FALSE)
    /\ Reply(r)
    /\ UNCHANGED <<launches, loop, locked, task, history, faults>>

-----------------------------------------------------------------------------
(* JobService.fetch_job_result and its payment, four transactions. A poll *)
(* of a job that is not an unpaid SUCCESS only reads.                     *)

\* Mutant: any job that has not failed is charged when it is polled.
ChargeUnlessFailed(r, j) ==
    /\ Up(Host[r]) /\ request[r].pc = "idle"
    /\ status[j] \in {"PROCESSING", "SUCCESS"}
    /\ ~paymentTaken[j]
    /\ Goto(r, RequestAt("balance", Owner[j], j, 0))
    /\ UNCHANGED <<tables, loop, locked, task, history, faults>>

\* Mutant: any finished job is charged, and written back as SUCCESS.
ChargeFinished(r, j) ==
    /\ Up(Host[r]) /\ request[r].pc = "idle"
    /\ status[j] \in Terminal
    /\ ~paymentTaken[j]
    /\ Goto(r, RequestAt("balance", Owner[j], j, 0))
    /\ UNCHANGED <<tables, loop, locked, task, history, faults>>

FetchJobResult(r, j) ==
    /\ Up(Host[r]) /\ request[r].pc = "idle"
    /\ status[j] = "SUCCESS"
    /\ ~paymentTaken[j]
    /\ Goto(r, RequestAt("balance", Owner[j], j, 0))
    /\ UNCHANGED <<tables, loop, locked, task, history, faults>>

\* Mutant: the balance is not compared with zero.
ReadBalanceUnchecked(r) ==
    /\ request[r].pc = "balance"
    /\ LET n == launches[request[r].user] IN
       Goto(r, RequestAt("charge", request[r].user, request[r].job, n))
    /\ UNCHANGED <<tables, loop, locked, task, history, faults>>

\* decrement_available_launches reads the profile; ValueError at zero (500).
ReadBalance(r) ==
    /\ request[r].pc = "balance"
    /\ LET n == launches[request[r].user] IN
       \/ n <= 0 /\ Reply(r)
       \/ n > 0 /\ Goto(r, RequestAt("charge", request[r].user, request[r].job, n))
    /\ UNCHANGED <<tables, loop, locked, task, history, faults>>

\* It then writes the profile back with the count read before, less one.
WriteBalance(r) ==
    /\ request[r].pc = "charge"
    /\ launches' = [launches EXCEPT ![request[r].user] = request[r].balance - 1]
    /\ charged' = [charged EXCEPT ![request[r].user] = @ + 1]
    /\ billed' = billed \cup {request[r].job}
    /\ Goto(r, RequestAt("record", request[r].user, request[r].job, 0))
    /\ UNCHANGED <<status, paymentTaken, loop, locked, task, overturned, faults>>

\* _take_payment merges the job as it was fetched: SUCCESS and not paid.
RecordPayment(r) ==
    /\ request[r].pc = "record"
    /\ UpdateJobStatus(request[r].job, "SUCCESS", FALSE)
    /\ Reply(r)
    /\ UNCHANGED <<launches, loop, locked, task, history, faults>>

\* A database error ends the request between two of its transactions.
RequestFails(r) ==
    /\ request[r].pc # "idle"
    /\ Reply(r)
    /\ Fault
    /\ UNCHANGED <<tables, loop, locked, task, history>>

-----------------------------------------------------------------------------
(* NewJobProcessor.process_new_jobs and JobRepository.fetch_new_jobs.     *)

\* Mutant: no FOR UPDATE SKIP LOCKED, rows another process is claiming are seen.
UnlockedSelect == {j \in Jobs : status[j] = "NEW"}

FreeJobs == {j \in Jobs : status[j] = "NEW"} \ LockedRows
SmallerOf(m, n) == IF m < n THEN m ELSE n

\* SELECT ... WHERE status = 'NEW' LIMIT n FOR UPDATE SKIP LOCKED, no ORDER BY.
SelectNewJobs(w) ==
    /\ loop[w] = "fetch"
    /\ \/ /\ FreeJobs = {}
          /\ loop' = [loop EXCEPT ![w] = "sleep"]
          /\ UNCHANGED locked
       \/ \E S \in SUBSET FreeJobs :
          /\ S # {}
          /\ Cardinality(S) = SmallerOf(Cardinality(FreeJobs), BatchSize)
          /\ locked' = [locked EXCEPT ![w] = S]
          /\ loop' = [loop EXCEPT ![w] = "claiming"]
    /\ UNCHANGED <<tables, task, request, history, faults>>

\* Mutant: the UPDATE to PROCESSING is left out of the claim.
MarkNothing(w) ==
    /\ UNCHANGED status
    /\ locked' = [locked EXCEPT ![w] = {}]

MarkClaimed(w) ==
    /\ status' = [j \in Jobs |-> IF j \in locked[w] THEN "PROCESSING" ELSE status[j]]
    /\ locked' = [locked EXCEPT ![w] = {}]

\* UPDATE ... SET status = 'PROCESSING', COMMIT, then one task per job.
CommitClaim(w) ==
    /\ loop[w] = "claiming"
    /\ MarkClaimed(w)
    /\ task' = [task EXCEPT ![w] = [j \in Jobs |->
                   IF j \in locked[w] THEN Running
                                      ELSE task[w][j]]]
    /\ loop' = [loop EXCEPT ![w] = "gather"]
    /\ UNCHANGED <<paymentTaken, launches, request, history, faults>>

\* fetch_new_jobs raises: rolled back, or committed with the answer lost. The
\* error leaves the loop; BackgroundTaskManager starts it again after a delay.
FetchFails(w) ==
    /\ \/ /\ loop[w] \in {"fetch", "claiming"}
          /\ locked' = [locked EXCEPT ![w] = {}]
          /\ UNCHANGED status
       \/ loop[w] = "claiming" /\ MarkClaimed(w)
    /\ loop' = [loop EXCEPT ![w] = "restart"]
    /\ Fault
    /\ UNCHANGED <<paymentTaken, launches, task, request, history>>

\* gather returns once every task of the batch has ended.
BatchDone(w) ==
    /\ loop[w] = "gather"
    /\ \A j \in Jobs : task[w][j].pc = "none"
    /\ loop' = [loop EXCEPT ![w] = "fetch"]
    /\ UNCHANGED <<tables, locked, task, request, history, faults>>

\* Mutant: the manager only waits again and never starts a failed loop.
WakeUpFromSleep(w) ==
    /\ loop[w] \in {"sleep", "restart"}
    /\ loop' = IF loop[w] = "sleep" THEN [loop EXCEPT ![w] = "fetch"] ELSE loop
    /\ UNCHANGED <<tables, locked, task, request, history, faults>>

\* The polling interval, or the manager's restart delay, is over.
WakeUp(w) ==
    /\ loop[w] \in {"sleep", "restart"}
    /\ loop' = [loop EXCEPT ![w] = "fetch"]
    /\ UNCHANGED <<tables, locked, task, request, history, faults>>

-----------------------------------------------------------------------------
(* _process_job_with_timeout(job), one task per claimed job.              *)

SetTask(w, j, t) == task' = [task EXCEPT ![w][j] = t]

\* The work ends: training may raise, other types only sleep.
Work(w, j) ==
    /\ task[w][j].pc = "running"
    /\ \E v \in Terminal :
        /\ v = "FAILURE" => j \in TrainJobs
        /\ SetTask(w, j, TaskAt("saving", v))
    /\ UNCHANGED <<tables, loop, locked, request, history, faults>>

SaveResult(w, j) ==
    /\ task[w][j].pc = "saving"
    /\ UpdateJobStatus(j, task[w][j].verdict, FALSE)
    /\ SetTask(w, j, TaskAt("saved", task[w][j].verdict))
    /\ UNCHANGED <<launches, loop, locked, request, history, faults>>

TaskReturns(w, j) ==
    /\ task[w][j].pc = "saved"
    /\ SetTask(w, j, NoTask)
    /\ UNCHANGED <<tables, loop, locked, request, history, faults>>

Rescue(w, j) == SetTask(w, j, TaskAt("rescuing", "FAILURE"))

Disown(w, j) ==
    overturned' = IF task[w][j].verdict = "SUCCESS" THEN overturned \cup {j}
                                                    ELSE overturned

\* Mutant: the timeout branch logs and returns without saving FAILURE.
TimeOutUnsaved(w, j) ==
    /\ task[w][j].pc \in {"running", "saving", "saved"}
    /\ SetTask(w, j, NoTask)
    /\ UNCHANGED <<tables, loop, locked, request, history, faults>>

\* wait_for cancels _process_job wherever it awaits, the close of a session
\* that has already committed included.
TimeOut(w, j) ==
    /\ task[w][j].pc \in {"running", "saving", "saved"}
    /\ IF task[w][j].pc = "saved" THEN Disown(w, j) ELSE UNCHANGED overturned
    /\ Rescue(w, j)
    /\ UNCHANGED <<tables, loop, locked, request, charged, billed, faults>>

\* The save raises: rolled back, or committed with the answer lost.
SaveFails(w, j) ==
    /\ task[w][j].pc = "saving"
    /\ \/ UNCHANGED <<status, paymentTaken, overturned>>
       \/ UpdateJobStatus(j, task[w][j].verdict, FALSE) /\ Disown(w, j)
    /\ Rescue(w, j)
    /\ Fault
    /\ UNCHANGED <<launches, loop, locked, request, charged, billed>>

SaveFailure(w, j) ==
    /\ task[w][j].pc = "rescuing"
    /\ UpdateJobStatus(j, task[w][j].verdict, FALSE)
    /\ SetTask(w, j, NoTask)
    /\ UNCHANGED <<launches, loop, locked, request, history, faults>>

\* The rescue raises too: gather(return_exceptions=True) drops the error.
RescueFails(w, j) ==
    /\ task[w][j].pc = "rescuing"
    /\ SetTask(w, j, NoTask)
    /\ Fault
    /\ UNCHANGED <<tables, loop, locked, request, history>>

-----------------------------------------------------------------------------
(* Processes stop (crash, or the lifespan's shutdown that cancels the     *)
(* loop and with it the gathered tasks) and are started again.            *)

\* Mutant: the claim transaction of a stopped process keeps its row locks.
StopKeepsLocks(w) ==
    /\ Up(w)
    /\ loop' = [loop EXCEPT ![w] = "down"]
    /\ task' = [task EXCEPT ![w] = [j \in Jobs |-> NoTask]]
    /\ request' = [r \in Requests |-> IF Host[r] = w THEN NoRequest ELSE request[r]]
    /\ Fault
    /\ UNCHANGED <<tables, locked, history>>

Stop(w) ==
    /\ Up(w)
    /\ loop' = [loop EXCEPT ![w] = "down"]
    /\ locked' = [locked EXCEPT ![w] = {}]
    /\ task' = [task EXCEPT ![w] = [j \in Jobs |-> NoTask]]
    /\ request' = [r \in Requests |-> IF Host[r] = w THEN NoRequest ELSE request[r]]
    /\ Fault
    /\ UNCHANGED <<tables, history>>

Start(w) ==
    /\ ~Up(w)
    /\ loop' = [loop EXCEPT ![w] = "fetch"]
    /\ UNCHANGED <<tables, locked, task, request, history, faults>>

-----------------------------------------------------------------------------
Client(r) ==
    \/ \E u \in Users : CreateJob(r, u)
    \/ \E j \in Jobs : FetchJobResult(r, j)
    \/ CheckOngoing(r) \/ InsertJob(r)
    \/ ReadBalance(r) \/ WriteBalance(r) \/ RecordPayment(r)
    \/ RequestFails(r)

LoopStep(w) ==
    SelectNewJobs(w) \/ CommitClaim(w) \/ BatchDone(w) \/ WakeUp(w)

TaskStep(w, j) ==
    Work(w, j) \/ SaveResult(w, j) \/ TaskReturns(w, j) \/ SaveFailure(w, j)

TaskTrouble(w, j) ==
    TimeOut(w, j) \/ SaveFails(w, j) \/ RescueFails(w, j)

Next ==
    \/ \E r \in Requests : Client(r)
    \/ \E w \in Workers :
        \/ LoopStep(w) \/ FetchFails(w) \/ Stop(w) \/ Start(w)
        \/ \E j \in Jobs : TaskStep(w, j) \/ TaskTrouble(w, j)

Spec == Init /\ [][Next]_vars

\* The event loop of a live process runs every ready task, the timeout ends
\* work that does not, and a stopped process is restarted by its supervisor.
\* Clients owe nothing.
Fairness ==
    \A w \in Workers :
        /\ WF_vars(LoopStep(w))
        /\ WF_vars(Start(w))
        /\ \A j \in Jobs : WF_vars(TaskStep(w, j))

FairSpec == Spec /\ Fairness

-----------------------------------------------------------------------------
\* The rows, loops, tasks and requests keep their shapes: a payment never writes
\* from a balance of zero, a task only ever saves a terminal verdict.
TypeOK ==
    /\ status \in [Jobs -> Statuses]
    /\ paymentTaken \in [Jobs -> BOOLEAN]
    /\ launches \in [Users -> Nat]
    /\ loop \in [Workers -> LoopStates]
    /\ locked \in [Workers -> SUBSET Jobs]
    /\ task \in [Workers -> [Jobs -> Tasks]]
    /\ request \in [Requests -> RequestRecords]
    /\ charged \in [Users -> Nat]
    /\ billed \subseteq Jobs
    /\ overturned \subseteq Jobs
    /\ faults \in 0 .. MaxFaults

-----------------------------------------------------------------------------
(* Properties.                                                            *)

Live(w, j) == task[w][j].pc # "none"

\* No job is worked on by two processes, and no job that has a task can be
\* claimed again: fetch_new_jobs (FOR UPDATE SKIP LOCKED, then PROCESSING, in
\* one transaction) gives every row to one processor loop.
NoDoubleProcessing ==
    \A w \in Workers, j \in Jobs :
        Live(w, j) => /\ status[j] \in {"PROCESSING"} \cup Terminal
                      /\ j \notin LockedRows
                      /\ \A x \in Workers \ {w} : ~Live(x, j)

\* Inductive form of NoDoubleProcessing: locked rows are NEW and locked once,
\* and a task exists only in the process that waits in gather for it.
ClaimInv ==
    /\ \A w \in Workers :
        /\ locked[w] # {} => loop[w] = "claiming"
        /\ \A j \in locked[w] : status[j] = "NEW"
        /\ \A x \in Workers \ {w} : locked[w] \cap locked[x] = {}
    /\ \A w \in Workers, j \in Jobs : Live(w, j) =>
        /\ loop[w] = "gather"
        /\ status[j] \in {"PROCESSING"} \cup Terminal
        /\ \A x \in Workers \ {w} : ~Live(x, j)

Inserting(u) == {r \in Requests : request[r].pc = "insert" /\ request[r].user = u}

\* create_job checks for an ongoing job and inserts in two transactions, so a
\* user may get several jobs at once, but never more ongoing ones than there
\* were requests in flight together. With one request at a time: one job.
OverlapBoundsOngoing ==
    \A u \in Users :
        Cardinality(OngoingJobs(u)) + Cardinality(Inserting(u)) <= Cardinality(Requests)

\* The check-then-write of decrement_available_launches loses updates, but only
\* in the user's favour: the balance never drops by more than the number of
\* charges, never below zero, and a stale write never lifts it over the grant.
BalanceWithinCharges ==
    \A u \in Users :
        /\ launches[u] + charged[u] >= BaseLaunches
        /\ launches[u] \in 0 .. BaseLaunches

\* A launch is charged only for a job that ended well: a charged job reads
\* SUCCESS, unless its processor disowned that result after committing it.
ChargedJobsSucceeded ==
    \A j \in billed : status[j] = "SUCCESS" \/ j \in overturned

\* SUCCESS and FAILURE are final, whatever stale rows update_job_status merges
\* back, except for a job whose SUCCESS was committed and then disowned by a
\* timeout or a lost commit acknowledgement.
VerdictIsFinal ==
    [][\A j \in Jobs : status[j] \in Terminal /\ status'[j] # status[j]
                          => j \in overturned]_vars

Paying(r) == request[r].pc \in {"balance", "charge", "record"}
Stands(j, v) == status[j] = v \/ j \in overturned

\* Inductive form of ChargedJobsSucceeded: how far the row of a job may be from
\* what a task or a payment that is about to write it has in memory.
VerdictInv ==
    /\ \A w \in Workers, j \in Jobs :
        /\ task[w][j].pc \in {"running", "saving"} => status[j] = "PROCESSING"
        /\ task[w][j].pc = "saved" => Stands(j, task[w][j].verdict)
        /\ task[w][j].pc = "rescuing" =>
            /\ task[w][j].verdict = "FAILURE"
            /\ status[j] = "PROCESSING" \/ Stands(j, "FAILURE")
    /\ \A r \in Requests : Paying(r) => Stands(request[r].job, "SUCCESS")
    /\ \A j \in overturned : status[j] \in Terminal
    /\ ChargedJobsSucceeded

\* Inductive form of BalanceWithinCharges: the same of a balance read earlier
\* and not yet written back.
BalanceInv ==
    /\ BalanceWithinCharges
    /\ \A r \in Requests : request[r].pc = "charge" =>
        /\ request[r].balance <= BaseLaunches
        /\ request[r].balance + charged[request[r].user] >= BaseLaunches

Batch(w) == {j \in Jobs : Live(w, j)}

\* Inductive form of the bound in StrandedForGood: the LIMIT of fetch_new_jobs
\* bounds the rows of a claim, and gather the tasks that live at one time.
BatchInv ==
    \A w \in Workers :
        /\ Cardinality(locked[w]) <= BatchSize
        /\ Cardinality(Batch(w)) <= BatchSize

\* What a step of the tables, loops, tasks and requests keeps, and what the
\* claims, verdicts and balances rest on: rows are locked once and NEW, a task or
\* a payment agrees with the row it is about to overwrite, a balance in memory is
\* no further from the row than the charges taken since, and a process never
\* claims or works on more jobs than a batch has.
InductiveInv == TypeOK /\ ClaimInv /\ VerdictInv /\ BalanceInv /\ BatchInv

Stranded == {j \in Jobs : status[j] = "PROCESSING" /\ \A w \in Workers : ~Live(w, j)}

\* A row that is PROCESSING with no process at work on it is lost: fetch_new_jobs
\* takes NEW rows only, no request and no restarted process ever moves it. Such
\* rows come from faults alone - never from a timeout, a cancelled save or an
\* overlapping claim - and one fault loses no more than the batch of one process.
StrandedForGood ==
    [][/\ Stranded \subseteq Stranded'
       /\ Cardinality(Stranded')
            <= Cardinality(Stranded) + BatchSize * (faults' - faults)]_vars

Board == INSTANCE JobBoard
    WITH Batches <- {S \in SUBSET Jobs : Cardinality(S) <= BatchSize},
         holders <- [j \in Jobs |-> {w \in Workers : Live(w, j)}]

\* The job table, seen as statuses and the processes at work on each job, keeps
\* the promise of JobBoard: every job is claimed once and decided by its holder.
BoardSpec == Board!Spec

\* Every job that is created reaches a verdict, or there was a fault: a processor
\* loop claims it although fetch_new_jobs has no order, and its task or its
\* timeout ends it.
JobsComplete ==
    \A j \in Jobs : status[j] = "NEW" ~> status[j] \in Terminal \/ faults > 0

\* With faults a new job is still claimed: a rolled back claim leaves it NEW and
\* the restarted loop finds it again.
NewJobsAreClaimed ==
    \A j \in Jobs : status[j] = "NEW" ~> status[j] # "NEW"

-----------------------------------------------------------------------------
(* What the repository says, and the code does not keep.                  *)

\* job_service.py:91 charges a successful job only while is_payment_taken is
\* False: one client that polls in sequence is charged once per job.
ChargedOncePerJob ==
    \A u \in Users : charged[u] <= Cardinality({j \in billed : Owner[j] = u})

=============================================================================
