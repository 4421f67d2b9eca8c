-------------------------- MODULE MCModelArtifacts --------------------------
(***************************************************************************)
(* Instances of ModelArtifacts for TLC: who trains.                        *)
(***************************************************************************)
EXTENDS ModelArtifacts, TLC

CONSTANTS u1, t1, t2, t3, d1

MCTrainer == [t \in Trainings |-> u1]

\* The trainings are of one user and otherwise alike.
MCSymmetry == Permutations(Trainings)

=============================================================================
