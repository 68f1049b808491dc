----------------------------- MODULE MCProfiles -----------------------------
(***************************************************************************)
(* Small instances of Profiles for TLC.                                    *)
(***************************************************************************)
EXTENDS Profiles, TLC

CONSTANTS u1, u2, v1, v2, v3, p1, p2, x1, x2, r1, r2

TwoUsers == {u1, u2}
NameAndMark == {"username", "watermark_config"}
Named == {"username"}
ThreeValues == {v1, v2, v3}
TwoPasswords == {p1, p2}
TwoAccounts == {x1, x2}
TwoRequests == {r1, r2}

\* The users are called v1 and v2, v3 is free; a watermark is v1 or v2, at first v1.
NamesAndMarks == [k \in NameAndMark |-> IF k = "username" THEN {v1, v2, v3} ELSE {v1, v2}]
FirstValues == [k \in TwoUsers \X NameAndMark |-> IF k = <<u2, "username">> THEN v2 ELSE v1]
EditsOrLogins == {{"profile", "admin"}, {"password", "admin"}, {"callback"}}
Symmetry == Permutations(TwoRequests) \cup Permutations(TwoAccounts)
            \cup Permutations(TwoPasswords)
=============================================================================
