----------------------------- MODULE MCSessions -----------------------------
(***************************************************************************)
(* Small instances of Sessions for TLC.                                    *)
(***************************************************************************)
EXTENDS Sessions, TLC

CONSTANTS p1, p2, r1, r2

TwoPairs == {p1, p2}
TwoRequests == {r1, r2}
Symmetry == Permutations(TwoPairs) \cup Permutations(TwoRequests)
=============================================================================
