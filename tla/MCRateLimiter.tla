---------------------------- MODULE MCRateLimiter ----------------------------
(***************************************************************************)
(* Small instances of RateLimiter for TLC.                                 *)
(***************************************************************************)
EXTENDS RateLimiter, TLC

CONSTANTS k1, k2, k3, k4, k5

FiveCalls == {k1, k2, k3, k4, k5}
Symmetry == Permutations(FiveCalls)
=============================================================================
