------------------------------ MODULE JobBoard ------------------------------
(***************************************************************************)
(* What the job table promises its users, without requests, transactions, *)
(* tasks or timeouts: a submitted job is claimed at most once, by one      *)
(* process, only the claimant decides it, and a decision stands unless the *)
(* claimant disowns a SUCCESS it has already announced (a deadline that    *)
(* strikes between the commit of the result and the end of the task).     *)
(***************************************************************************)
CONSTANTS
    Workers,        \* who may claim jobs
    Jobs,           \* identifiers
    Batches         \* the sets of jobs one claim may take

VARIABLES
    status,         \* status of every job
    holders,        \* holders[j]: the processes working on job j
    overturned      \* jobs whose SUCCESS was disowned

boardVars == <<status, holders, overturned>>

Decided == {"SUCCESS", "FAILURE"}
HeldBy(w) == {j \in Jobs : w \in holders[j]}

Init ==
    /\ status = [j \in Jobs |-> "ABSENT"]
    /\ holders = [j \in Jobs |-> {}]
    /\ overturned = {}

Submit(j) ==
    /\ status[j] = "ABSENT"
    /\ status' = [status EXCEPT ![j] = "NEW"]
    /\ UNCHANGED <<holders, overturned>>

\* A process that holds nothing takes a batch of new jobs. The jobs may
\* be claimed and lost at once (C = {}), never claimed by two.
Claim(S, C) ==
    /\ S # {} /\ S \in Batches
    /\ \A j \in S : status[j] = "NEW" /\ holders[j] = {}
    /\ C = {} \/ \E w \in Workers : C = {w} /\ HeldBy(w) = {}
    /\ status' = [j \in Jobs |-> IF j \in S THEN "PROCESSING" ELSE status[j]]
    /\ holders' = [j \in Jobs |-> IF j \in S THEN C ELSE holders[j]]
    /\ UNCHANGED overturned

\* The holder decides, and may keep the job or let it go in the same step. A
\* decision is changed only for a job whose SUCCESS was disowned.
Decide(w, j, v) ==
    /\ holders[j] = {w}
    /\ v \in Decided
    /\ status[j] = "PROCESSING" \/ status[j] = v \/ j \in overturned
    /\ status' = [status EXCEPT ![j] = v]
    /\ holders' = [holders EXCEPT ![j] = {}] \/ UNCHANGED holders
    /\ overturned' \in {overturned, IF v = "SUCCESS" THEN overturned \cup {j}
                                                     ELSE overturned}

Disown(w, j) ==
    /\ holders[j] = {w}
    /\ status[j] = "SUCCESS"
    /\ overturned' = overturned \cup {j}
    /\ UNCHANGED <<status, holders>>

\* A process lets jobs go: one whose task ended, or all of them when it stops.
LetGo(w, S) ==
    /\ S \subseteq HeldBy(w)
    /\ holders' = [j \in Jobs |-> IF j \in S THEN holders[j] \ {w} ELSE holders[j]]
    /\ UNCHANGED <<status, overturned>>

\* A payment under way writes back the SUCCESS it was taken for.
Restore(j) ==
    /\ status[j] = "SUCCESS" \/ (status[j] = "FAILURE" /\ j \in overturned)
    /\ status' = [status EXCEPT ![j] = "SUCCESS"]
    /\ UNCHANGED <<holders, overturned>>

Next ==
    \/ \E j \in Jobs : Submit(j) \/ Restore(j)
    \/ \E S \in SUBSET Jobs : \E C \in {{}} \cup {{w} : w \in Workers} : Claim(S, C)
    \/ \E w \in Workers :
        \/ \E S \in SUBSET Jobs : LetGo(w, S)
        \/ \E j \in Jobs : Disown(w, j) \/ \E v \in Decided : Decide(w, j, v)

Spec == Init /\ [][Next]_boardVars

=============================================================================
