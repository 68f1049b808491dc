---------------------------- MODULE MCCategories ----------------------------
(***************************************************************************)
(* Small instances of Categories for TLC.                                  *)
(***************************************************************************)
EXTENDS Categories, TLC

CONSTANTS c1, c2, c3, c4, n1, n2, i1, i2, r1, r2

FourCats == {c1, c2, c3, c4}
TwoNames == {n1, n2}
TwoImages == {i1, i2}
TwoRequests == {r1, r2}
Symmetry == Permutations(FourCats) \cup Permutations(TwoNames) \cup Permutations(TwoImages)
            \cup Permutations(TwoRequests)
=============================================================================
