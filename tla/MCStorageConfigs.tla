-------------------------- MODULE MCStorageConfigs --------------------------
(***************************************************************************)
(* Small instances of StorageConfigs for TLC.                              *)
(***************************************************************************)
EXTENDS StorageConfigs, TLC

CONSTANTS c1, c2, g1, g2, i1, r1, r2

HomeAndTwo == {Home, c1, c2}
TwoRepos == {g1, g2}
OneImage == {i1}
TwoRequests == {r1, r2}

\* Two requests on two configs of which one is allowed; or a Git config beside
\* Home, an image and one request at a time, in both deployments.
TwoOrImage ==
    {[mode |-> "full", limit |-> 1, configs |-> {c1, c2}, requests |-> TwoRequests,
      images |-> {}]}
    \cup
    {[mode |-> m, limit |-> 2, configs |-> {Home, c}, requests |-> {r}, images |-> OneImage] :
        m \in {"full", "lite"}, c \in {c1, c2}, r \in TwoRequests}

Symmetry == Permutations({c1, c2}) \cup Permutations(TwoRepos) \cup Permutations(TwoRequests)
=============================================================================
