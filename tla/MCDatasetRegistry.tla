------------------------- MODULE MCDatasetRegistry -------------------------
(***************************************************************************)
(* Instances of DatasetRegistry for TLC: who trains.                       *)
(***************************************************************************)
EXTENDS DatasetRegistry, TLC

CONSTANTS u1, u2, q1, q2, t1, t2, l1, s1

MCTrainer == [t \in Trainings |-> u1]

\* Nothing tells one request from another; used by the safety run only.
MCSymmetry == Permutations(Requests)

=============================================================================
