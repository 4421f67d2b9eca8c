------------------------------ MODULE ModelShelf ------------------------------
(***************************************************************************)
(* What the trainings, their retentions and DELETE /artifacts/{id} promise *)
(* of a user's models together, without transactions, selections, failures *)
(* or files in hand: a model has one life and goes through it one way. It  *)
(* is stored before it is listed, unlisted before it is removed, and never *)
(* comes back; a job reports a model only after it has been listed.        *)
(***************************************************************************)
CONSTANT
    Models          \* what trainings may produce

VARIABLES
    stage,          \* where each model is in its life
    reported        \* models that a finished run names

shelfVars == <<stage, reported>>

Listed(m) == stage[m] \in {"listed", "unlisted", "removed"}

Init ==
    /\ stage = [m \in Models |-> "absent"]
    /\ reported = {}

Advance(S, from, to) ==
    /\ \A m \in S : stage[m] = from
    /\ stage' = [m \in Models |-> IF m \in S THEN to ELSE stage[m]]
    /\ UNCHANGED reported

\* A file is written; some are never listed.
Store(m) == Advance({m}, "absent", "stored")

List(m) == Advance({m}, "stored", "listed")

\* A user deletes one, or a retention any number at once.
Unlist(S) == Advance(S, "listed", "unlisted")

Remove(m) == Advance({m}, "unlisted", "removed")

\* The run is finished, though the model may have been deleted meanwhile.
Report(m) ==
    /\ Listed(m)
    /\ reported' = reported \cup {m}
    /\ UNCHANGED stage

Next ==
    \/ \E m \in Models : Store(m) \/ List(m) \/ Remove(m) \/ Report(m)
    \/ \E S \in SUBSET Models : Unlist(S)

Spec == Init /\ [][Next]_shelfVars

=============================================================================
