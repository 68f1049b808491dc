----------------------------- MODULE MCAccounts -----------------------------
(***************************************************************************)
(* Small instances of Accounts for TLC.                                    *)
(***************************************************************************)
EXTENDS Accounts, TLC

CONSTANTS u1, u2, u3, c1, r1, r2

ThreeUsers == {u1, u2, u3}
OneCode == {c1}
TwoRequests == {r1, r2}
Symmetry == Permutations(ThreeUsers) \cup Permutations(TwoRequests)
=============================================================================
