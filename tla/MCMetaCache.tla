---------------------------- MODULE MCMetaCache ----------------------------
(***************************************************************************)
(* Small instances of MetaCache for TLC.                                   *)
(***************************************************************************)
EXTENDS MetaCache

CONSTANTS i1, n1, n2, c1, r1, r2, q1, q2

OneImage == {i1}
TwoNames == {n1, n2}
OneCategory == {c1}
TwoReaders == {r1, r2}
TwoRequests == {q1, q2}
=============================================================================
