----------------------------- MODULE FileCatalogue -----------------------------
(***************************************************************************)
(* What uploads, deletions, trainings and cleanups promise of the files    *)
(* together, without transactions, calls in flight or failures: a file is  *)
(* stored before it is listed and listed once; a dataset is registered on  *)
(* a file that has been listed, is cleaned up once and never comes back;   *)
(* and a file goes only after it has lost its listing, or after a dataset  *)
(* that used it was cleaned up.                                            *)
(***************************************************************************)
EXTENDS Integers

CONSTANTS
    Files,          \* what may be uploaded
    Datasets        \* what may be registered: 1 .. n for some n

VARIABLES
    stage,          \* the life of each file: absent, pending, listed, unlisted
    present,        \* files that the storage holds
    registered,     \* datasets registered so far: 1 .. registered
    uses,           \* the file of each dataset, 0 if there is no such dataset
    released        \* files whose datasets were cleaned up

catalogue == <<stage, present>>
shelves   == <<registered, uses, released>>
fileVars  == <<catalogue, shelves>>

Init ==
    /\ stage = [k \in Files |-> "absent"]
    /\ present = {}
    /\ registered = 0
    /\ uses = [i \in Datasets |-> 0]
    /\ released = {}

Turn(k, from, to) ==
    /\ stage[k] = from
    /\ stage' = [stage EXCEPT ![k] = to]

Upload(k) ==
    /\ Turn(k, "absent", "pending")
    /\ present' = present \cup {k}
    /\ UNCHANGED shelves

\* The file may be there all the same.
UploadFails(k) ==
    /\ Turn(k, "absent", "unlisted")
    /\ present' \in {present, present \cup {k}}
    /\ UNCHANGED shelves

List(k) == Turn(k, "pending", "listed") /\ UNCHANGED <<present, shelves>>

\* The file stays, and nobody will know of it.
GiveUp(k) == Turn(k, "pending", "unlisted") /\ UNCHANGED <<present, shelves>>

Unlist(k) == Turn(k, "listed", "unlisted") /\ UNCHANGED <<present, shelves>>

Remove(k) ==
    /\ stage[k] = "unlisted"
    /\ present' = present \ {k}
    /\ UNCHANGED <<stage, shelves>>

\* The file may have been deleted while its dataset was being registered.
Register(k) ==
    /\ stage[k] \in {"listed", "unlisted"}
    /\ registered + 1 \in Datasets
    /\ registered' = registered + 1
    /\ uses' = [uses EXCEPT ![registered + 1] = k]
    /\ UNCHANGED <<catalogue, released>>

Cleanup(S) ==
    /\ \A i \in S : uses[i] # 0
    /\ uses' = [i \in Datasets |-> IF i \in S THEN 0 ELSE uses[i]]
    /\ released' = released \cup {uses[i] : i \in S}
    /\ UNCHANGED <<catalogue, registered>>

\* The file of a cleaned up dataset, listed or not.
Sweep(k) ==
    /\ k \in released
    /\ present' = present \ {k}
    /\ UNCHANGED <<stage, shelves>>

Next ==
    \/ \E k \in Files :
        \/ Upload(k) \/ UploadFails(k) \/ List(k) \/ GiveUp(k)
        \/ Unlist(k) \/ Remove(k) \/ Register(k) \/ Sweep(k)
    \/ \E S \in SUBSET Datasets : Cleanup(S)

Spec == Init /\ [][Next]_fileVars

=============================================================================
