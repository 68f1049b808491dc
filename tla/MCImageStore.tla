--------------------------- MODULE MCImageStore ---------------------------
(***************************************************************************)
(* Small instances of ImageStore for TLC.                                  *)
(***************************************************************************)
EXTENDS ImageStore, TLC

CONSTANTS u1, u2, c1, c2, k1, k2, d1, d2, g1

TwoUploads == {u1, u2}
TwoContents == {c1, c2}
TwoKeys == {k1, k2}
OneReader == {g1}
TwoDeletes == {d1, d2}

\* Two deletes without a read, or a reader and a delete.
Scope ==
    \/ Cardinality({d \in Deletes : del[d] # "new"}) <= 1
    \/ \A g \in Readers : rd[g] = "new" /\ \A s \in Uploads \cup Keys : cached[s] = NoFile

\* Requests, contents and keys are interchangeable: sound for invariants.
Symmetry ==
    Permutations(Uploads) \cup Permutations(Contents) \cup Permutations(Keys)
    \cup Permutations(Deletes)
=============================================================================
