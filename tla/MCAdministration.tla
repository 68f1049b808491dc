-------------------------- MODULE MCAdministration --------------------------
(***************************************************************************)
(* Administration for TLC.  Two configuration requests of three meet in    *)
(* every order, also within one second, and a crash leaves an empty file   *)
(* to the next; two requests for statistics meet two changes and two       *)
(* lapses of a hash.                                                       *)
(***************************************************************************)
EXTENDS Administration, TLC

CONSTANTS r1, r2, v1, v2, v3, w1, w2

TwoSites == {<<"me", "local">>, <<"other", "rustfs">>}

\* Requests for the configuration are interchangeable: sound for invariants.
Symmetry == Permutations({r1, r2})

=============================================================================
