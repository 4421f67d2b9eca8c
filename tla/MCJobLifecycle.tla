--------------------------- MODULE MCJobLifecycle ---------------------------
(***************************************************************************)
(* Instances of JobLifecycle for TLC: who owns which job identifier, which *)
(* ones are training jobs, and which process serves which request slot.    *)
(***************************************************************************)
EXTENDS JobLifecycle, TLC

CONSTANTS w1, w2, j1, j2, j3, r1, r2, u1, u2

MCOwner == [j \in Jobs |-> IF j = j3 /\ u2 \in Users THEN u2 ELSE u1]
MCTrainJobs == Jobs \cap {j1, j3}
MCHost == [r \in Requests |-> IF r = r2 /\ w2 \in Workers THEN w2 ELSE w1]

=============================================================================
