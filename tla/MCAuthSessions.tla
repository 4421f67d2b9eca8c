--------------------------- MODULE MCAuthSessions ---------------------------
(***************************************************************************)
(* Instances of AuthSessions for TLC.                                      *)
(***************************************************************************)
EXTENDS AuthSessions, TLC

CONSTANTS r1, r2, ann, empty, p1, p2, weak

MCSymmetry == Permutations(Requests)

=============================================================================
