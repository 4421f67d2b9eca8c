-------------------------- MODULE MCServerLifespan --------------------------
(***************************************************************************)
(* Instances of ServerLifespan for TLC.                                    *)
(***************************************************************************)
EXTENDS ServerLifespan

CONSTANTS s1, s2, jobs, ttl, k1

=============================================================================
