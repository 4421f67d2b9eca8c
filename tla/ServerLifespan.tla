--------------------------- MODULE ServerLifespan ---------------------------
(***************************************************************************)
(* Worker processes from start to stop (app_lifespan.py, container.py,     *)
(* background_task_manager.py) over one MinIO bucket and one disk: which   *)
(* storage backend a process picks for its life, the loops that are        *)
(* restarted when they fail and cancelled at the stop, and the attempts of *)
(* minio_file_storage.py under uploads and deletions.                      *)
(***************************************************************************)
EXTENDS Integers, FiniteSets

CONSTANTS
    Servers,        \* worker processes
    Loops,          \* started at the lifespan: processor and, with a TTL, cleanup
    Catching,       \* those that catch their own exceptions: the cleanup
    Keys,           \* storage keys; an upload draws a new one
    Configured,     \* storage_backend
    RetryAttempts,  \* retry_attempts of MinIO
    MaxFaults       \* bound: failures of a run

Backends == {"local", "minio"}

ASSUME ServerAssumption ==
    /\ IsFiniteSet(Servers)
    /\ Catching \subseteq Loops
    /\ Configured \in Backends
    /\ RetryAttempts \in Int
    /\ MaxFaults \in Nat

VARIABLES
    phase,          \* of lifespan(), by process
    backend,        \* FileSaverService.storage, by process
    wrapper,        \* task_wrapper of each loop, by process
    request,        \* upload or deletion between two awaits, one per process
    bucket,         \* the bucket exists
    stored,         \* keys of the objects, by backend
    rows,           \* user_file: which backend file_url names, by key
    made,           \* history: the bucket was missing and made
    dropped,        \* history: keys that a failure let go
    misrouted,      \* history: keys deleted by a process with another backend
    faults          \* history: failures so far, bounded by MaxFaults

server  == <<phase, backend, wrapper, bucket, made>>
files   == <<request, stored, rows, dropped, misrouted>>
vars    == <<server, files, faults>>

-----------------------------------------------------------------------------
Phases == {"down", "build", "make", "verify", "serving", "stopping", "closing"}
\* "deaf": in its loop, with the only cancellation it will get behind it.
Places == {"none", "new", "body", "delay", "deaf", "done"}

NoRequest == [pc |-> "idle"]
Busy == [pc : {"put", "record", "remove"}, key : Keys, attempt : Nat]

Holding(k) == {p \in Servers : request[p].pc # "idle" /\ request[p].key = k}

\* Mutant: stop() leaves it set.
RunningTooLong(p) == phase[p] \in {"serving", "stopping"}

\* self.running, which start() sets and stop() clears before it cancels.
Running(p) == phase[p] = "serving"

Live(p)   == {l \in Loops : wrapper[p][l] \in {"new", "body", "delay", "deaf"}}
Bodies(p) == {l \in Loops : wrapper[p][l] \in {"body", "deaf"}}
Deaf(p)   == {l \in Loops : wrapper[p][l] = "deaf"}

Enter(p, ph)   == phase' = [phase EXCEPT ![p] = ph]
Move(p, l, pl) == wrapper' = [wrapper EXCEPT ![p][l] = pl]
MoveAll(p, pl) == wrapper' = [wrapper EXCEPT ![p] = [l \in Loops |-> pl]]
Choose(p, b)   == backend' = [backend EXCEPT ![p] = b]
Goto(p, rec)   == request' = [request EXCEPT ![p] = rec]
Reply(p)       == Goto(p, NoRequest)

Fault == faults < MaxFaults /\ faults' = faults + 1

Init ==
    /\ phase = [p \in Servers |-> "down"]
    /\ backend = [p \in Servers |-> "none"]
    /\ wrapper = [p \in Servers |-> [l \in Loops |-> "none"]]
    /\ request = [p \in Servers |-> NoRequest]
    /\ bucket \in BOOLEAN
    /\ stored = [b \in Backends |-> {}]
    /\ rows = [k \in Keys |-> "none"]
    /\ made = FALSE /\ dropped = {} /\ misrouted = {}
    /\ faults = 0

-----------------------------------------------------------------------------
(* Start: container.build, verify_connection, the loops.                   *)

Start(p) ==
    /\ phase[p] = "down"
    /\ Enter(p, "build")
    /\ UNCHANGED <<backend, wrapper, bucket, made, files, faults>>

\* Mutant: the bucket is made without a look.
MakeAlways(p) ==
    /\ phase[p] = "build" /\ Configured = "minio"
    /\ Enter(p, "make")
    /\ UNCHANGED <<backend, wrapper, bucket, made, files, faults>>

\* bucket_exists
ChooseStorage(p) ==
    /\ phase[p] = "build"
    /\ IF Configured = "minio" /\ ~bucket
       THEN Enter(p, "make") /\ UNCHANGED backend
       ELSE Enter(p, "verify") /\ Choose(p, Configured)
    /\ UNCHANGED <<wrapper, bucket, made, files, faults>>

\* make_bucket: of two processes that both missed it the second gets an error,
\* and build() falls back to the local storage.
MakeBucket(p) ==
    /\ phase[p] = "make"
    /\ Enter(p, "verify")
    /\ Choose(p, IF bucket THEN "local" ELSE "minio")
    /\ bucket' = TRUE /\ made' = TRUE
    /\ UNCHANGED <<wrapper, files, faults>>

\* Mutant: there is no fallback.
NoStorage(p) ==
    /\ phase[p] \in {"build", "make"} /\ Configured = "minio"
    /\ Enter(p, "verify")
    /\ Fault
    /\ UNCHANGED <<backend, bucket, made, wrapper, files>>

\* MinIO does not answer: the same fallback, the bucket may have been made.
StorageDown(p) ==
    /\ phase[p] \in {"build", "make"} /\ Configured = "minio"
    /\ Enter(p, "verify")
    /\ Choose(p, "local")
    /\ \/ UNCHANGED <<bucket, made>>
       \/ phase[p] = "make" /\ bucket' = TRUE /\ made' = TRUE
    /\ Fault
    /\ UNCHANGED <<wrapper, files>>

\* verify_connection, task_manager.start() and a task for every loop.
Serve(p) ==
    /\ phase[p] = "verify"
    /\ Enter(p, "serving")
    /\ MoveAll(p, "new")
    /\ UNCHANGED <<backend, bucket, made, files, faults>>

\* The finally of lifespan() stops what was never started.
StartFails(p) ==
    /\ phase[p] \in {"build", "verify"}
    /\ Enter(p, "stopping")
    /\ Fault
    /\ UNCHANGED <<backend, wrapper, bucket, made, files>>

-----------------------------------------------------------------------------
(* task_wrapper, and stop(), which cancels it wherever it is.              *)

RunBody(p, l) ==
    /\ wrapper[p][l] = "new" /\ Running(p)
    /\ Move(p, l, "body")
    /\ UNCHANGED <<phase, backend, bucket, made, files, faults>>

\* An exception that the loop lets out to its wrapper; at the stop, one that took
\* the cancellation's place.
BodyFails(p, l) ==
    /\ wrapper[p][l] = "body" /\ l \notin Catching
    /\ Move(p, l, IF Running(p) THEN "delay" ELSE "done")
    /\ Fault
    /\ UNCHANGED <<phase, backend, bucket, made, files>>

\* The same in the cleanup, which catches it, sleeps and goes on: while the process
\* serves nothing comes of it, but at the stop the cancellation is spent.
CycleFails(p, l) ==
    /\ wrapper[p][l] = "body" /\ l \in Catching /\ ~Running(p)
    /\ Move(p, l, "deaf")
    /\ Fault
    /\ UNCHANGED <<phase, backend, bucket, made, files>>

\* Mutant: the first failure is the last.
DelayEnds(p, l) ==
    /\ wrapper[p][l] = "delay" /\ Running(p)
    /\ Move(p, l, "done")
    /\ UNCHANGED <<phase, backend, bucket, made, files, faults>>

DelayOver(p, l) ==
    /\ wrapper[p][l] = "delay" /\ Running(p)
    /\ Move(p, l, "body")
    /\ UNCHANGED <<phase, backend, bucket, made, files, faults>>

\* Uvicorn lets the requests in flight end first.
Shutdown(p) ==
    /\ phase[p] = "serving" /\ request[p].pc = "idle"
    /\ Enter(p, "stopping")
    /\ UNCHANGED <<backend, wrapper, bucket, made, files, faults>>

\* Mutant: a cancellation in the delay is swallowed.
CancelledInBody(p, l) ==
    /\ phase[p] = "stopping" /\ wrapper[p][l] \in {"new", "body"}
    /\ Move(p, l, "done")
    /\ UNCHANGED <<phase, backend, bucket, made, files, faults>>

\* Before its first step, in its loop, or in the delay, where no handler of its
\* own catches it; stop() cancels each task once.
Cancelled(p, l) ==
    /\ phase[p] = "stopping" /\ l \in Live(p) \ Deaf(p)
    /\ Move(p, l, "done")
    /\ UNCHANGED <<phase, backend, bucket, made, files, faults>>

\* gather(return_exceptions=True)
AllStopped(p) ==
    /\ phase[p] = "stopping" /\ Live(p) = {}
    /\ Enter(p, "closing")
    /\ UNCHANGED <<backend, wrapper, bucket, made, files, faults>>

\* engine.dispose(), and the process ends.
CloseEngine(p) ==
    /\ phase[p] = "closing"
    /\ Enter(p, "down")
    /\ MoveAll(p, "none")
    /\ Choose(p, "none")
    /\ UNCHANGED <<bucket, made, files, faults>>

Drop(p) ==
    dropped' = dropped \cup IF request[p].pc = "idle" THEN {} ELSE {request[p].key}

\* The process is killed; the container restarts it.
Kill(p) ==
    /\ phase[p] # "down"
    /\ Enter(p, "down") /\ MoveAll(p, "none") /\ Choose(p, "none") /\ Reply(p)
    /\ Drop(p)
    /\ Fault
    /\ UNCHANGED <<bucket, made, stored, rows, misrouted>>

-----------------------------------------------------------------------------
(* FileSaverService.save and delete on the process's backend.              *)

\* range(max(1, retry_attempts)); the local storage tries once.
Attempts(p) ==
    IF backend[p] = "minio" /\ RetryAttempts > 1 THEN RetryAttempts ELSE 1

Save(p, k) ==
    /\ phase[p] = "serving" /\ request[p].pc = "idle"
    /\ rows[k] = "none" /\ Holding(k) = {}
    /\ k \notin dropped \cup misrouted
    /\ \A b \in Backends : k \notin stored[b]
    /\ Goto(p, [pc |-> "put", key |-> k, attempt |-> 1])
    /\ UNCHANGED <<server, stored, rows, dropped, misrouted, faults>>

PutFile(p) ==
    /\ request[p].pc = "put"
    /\ stored' = [stored EXCEPT ![backend[p]] = @ \cup {request[p].key}]
    /\ Goto(p, [request[p] EXCEPT !.pc = "record"])
    /\ UNCHANGED <<server, rows, dropped, misrouted, faults>>

Again(p) ==
    /\ request[p].attempt < Attempts(p)
    /\ Goto(p, [request[p] EXCEPT !.attempt = @ + 1])
    /\ UNCHANGED dropped

\* Mutant: after the last attempt the upload goes on, as the deletion does.
PutGivesUp(p) ==
    /\ request[p].pc = "put"
    /\ \/ Again(p)
       \/ /\ request[p].attempt = Attempts(p)
          /\ Goto(p, [request[p] EXCEPT !.pc = "record"])
          /\ UNCHANGED dropped
    /\ Fault
    /\ UNCHANGED <<server, stored, rows, misrouted>>

\* An attempt raises, though the object may have arrived; the last one raises.
PutFails(p) ==
    /\ request[p].pc = "put"
    /\ \/ UNCHANGED stored
       \/ stored' = [stored EXCEPT ![backend[p]] = @ \cup {request[p].key}]
    /\ Again(p) \/ (request[p].attempt = Attempts(p) /\ Reply(p) /\ Drop(p))
    /\ Fault
    /\ UNCHANGED <<server, rows, misrouted>>

Record(p) == rows' = [rows EXCEPT ![request[p].key] = backend[p]]

RecordFile(p) ==
    /\ request[p].pc = "record"
    /\ Record(p) /\ Reply(p)
    /\ UNCHANGED <<server, stored, dropped, misrouted, faults>>

\* Rolled back, or committed without an acknowledgement.
RecordFails(p) ==
    /\ request[p].pc = "record"
    /\ Record(p) \/ UNCHANGED rows
    /\ Reply(p) /\ Drop(p)
    /\ Fault
    /\ UNCHANGED <<server, stored, misrouted>>

\* The row goes first; nothing compares its backend with the process's.
DeleteRow(p, k) ==
    /\ phase[p] = "serving" /\ request[p].pc = "idle" /\ rows[k] # "none"
    /\ rows' = [rows EXCEPT ![k] = "none"]
    /\ misrouted' = misrouted \cup IF rows[k] = backend[p] THEN {} ELSE {k}
    /\ Goto(p, [pc |-> "remove", key |-> k, attempt |-> 1])
    /\ UNCHANGED <<server, stored, dropped, faults>>

\* Mutant: the service was given no storage and took the local one.
RemoveLocal(p) == stored' = [stored EXCEPT !["local"] = @ \ {request[p].key}]

Remove(p) == stored' = [stored EXCEPT ![backend[p]] = @ \ {request[p].key}]

\* An object that is not there is removed without an error.
RemoveFile(p) ==
    /\ request[p].pc = "remove"
    /\ Remove(p) /\ Reply(p)
    /\ UNCHANGED <<server, rows, dropped, misrouted, faults>>

\* The last attempt of MinIO is given up and answered as done; the local storage
\* raises.
RemoveFails(p) ==
    /\ request[p].pc = "remove"
    /\ Remove(p) \/ UNCHANGED stored
    /\ Again(p) \/ (request[p].attempt = Attempts(p) /\ Reply(p) /\ Drop(p))
    /\ Fault
    /\ UNCHANGED <<server, rows, misrouted>>

-----------------------------------------------------------------------------
Boot(p)     == ChooseStorage(p) \/ MakeBucket(p) \/ Serve(p)
Turn(p, l)  == RunBody(p, l) \/ DelayOver(p, l) \/ Cancelled(p, l)
Stop(p)     == AllStopped(p) \/ CloseEngine(p)
Work(p)     == PutFile(p) \/ RecordFile(p) \/ RemoveFile(p)
Trouble(p)  ==
    \/ StorageDown(p) \/ StartFails(p) \/ Kill(p)
    \/ PutFails(p) \/ RecordFails(p) \/ RemoveFails(p)
    \/ \E l \in Loops : BodyFails(p, l) \/ CycleFails(p, l)

Process(p) ==
    \/ Start(p) \/ Boot(p) \/ Shutdown(p) \/ Stop(p)
    \/ \E l \in Loops : Turn(p, l)
    \/ \E k \in Keys : Save(p, k) \/ DeleteRow(p, k)
    \/ Work(p) \/ Trouble(p)

Next == \E p \in Servers : Process(p)

\* The event loop runs what is ready: tasks, timers, answers. Nobody has to start
\* or stop a process.
Fairness == \A p \in Servers :
    /\ WF_vars(Boot(p)) /\ WF_vars(Stop(p)) /\ WF_vars(Work(p))
    /\ \A l \in Loops : WF_vars(Turn(p, l))

Spec == Init /\ [][Next]_vars /\ Fairness

TypeOK ==
    /\ phase \in [Servers -> Phases]
    /\ backend \in [Servers -> Backends \cup {"none"}]
    /\ wrapper \in [Servers -> [Loops -> Places]]
    /\ request \in [Servers -> {NoRequest} \cup Busy]
    /\ bucket \in BOOLEAN /\ made \in BOOLEAN
    /\ stored \in [Backends -> SUBSET Keys]
    /\ rows \in [Keys -> Backends \cup {"none"}]
    /\ dropped \subseteq Keys /\ misrouted \subseteq Keys
    /\ faults \in 0 .. MaxFaults
    /\ \A p \in Servers :
        /\ phase[p] \in {"verify", "serving"} => backend[p] # "none"
        /\ request[p].pc # "idle" => phase[p] = "serving"

-----------------------------------------------------------------------------
(* Properties.                                                             *)

\* A row's file is where its URL says, however attempts fail and whichever
\* process deletes what: a URL is recorded only after its object has arrived.
RowsAreStored == \A k \in Keys : rows[k] # "none" => k \in stored[rows[k]]

\* An object that no row names and no request has in hand was let go by the last
\* attempt, the commit or the process, or deleted through another backend.
StraysAreAccounted ==
    \A b \in Backends : \A k \in stored[b] :
        rows[k] = "none" /\ Holding(k) = {} => k \in dropped \cup misrouted

\* Processes serve from another backend than the configured one only after a
\* failure, or because they all missed the bucket and only one could make it.
FallbacksBounded ==
    Cardinality({p \in Servers : backend[p] \in Backends \ {Configured}})
        <= faults + IF made THEN Cardinality(Servers) - 1 ELSE 0

\* From stop() on no loop starts again, and the engine is closed after the last
\* of them has ended.
StopIsFinal == [][
    \A p \in Servers :
        /\ phase[p] = "stopping" => Live(p)' \subseteq Live(p) /\ Bodies(p)' \subseteq Bodies(p)
        /\ phase'[p] \in {"closing", "down"} => Live(p)' = {}]_vars

\* In a process that goes on serving every loop gets back to work.
LoopsRun ==
    \A p \in Servers, l \in Loops :
        phase[p] = "serving" ~> wrapper[p][l] = "body" \/ phase[p] # "serving"

\* A stop comes to its end wherever the loops were, with one exception: a cleanup
\* that caught what took its cancellation's place goes on in a process that waits
\* for it until it is killed, and then no other loop is left.
StopsEnd ==
    \A p \in Servers :
        phase[p] = "stopping"
            ~> phase[p] = "down" \/ (Deaf(p) # {} /\ Live(p) = Deaf(p))

=============================================================================
