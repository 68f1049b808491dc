-------------------------- MODULE ImageStoreProofs --------------------------
(***************************************************************************)
(* Proofs about ImageStore, for any uploads, contents, keys, deletes,      *)
(* readers, quota, attempts and events.                                    *)
(***************************************************************************)
EXTENDS ImageStore, FiniteSetTheorems, TLAPS

(***************************************************************************)
(* The parts of the inductive invariants.                                  *)
(***************************************************************************)
\* An upload draws its key before it stores, has a row once it was inserted, and a
\* task once it was enqueued; nothing is made of an image that has no row yet.
UploadsKnown ==
    \A u \in Uploads :
        /\ up[u] \in {"new", "dedup", "dedupfetch", "keygen"} => key[u] = NoKey
        /\ up[u] \in {"put", "insert", "enqueue"} \/ status[u] # "none" => key[u] \in Keys
        /\ status[u] # "none" => up[u] \in {"enqueue", "done"}
        /\ up[u] = "enqueue" => status[u] # "none" /\ job[u] = "none"
        /\ job[u] # "none" => status[u] # "none"
        /\ status[u] = "none" => variant[u] = NoFile /\ read[u] = NoFile /\ u \notin recorded

\* A delete works through rows it has fetched; a row is deleted by one or by a stranger.
DeletesKnown ==
    /\ \A d \in Deletes :
          /\ batch[d] \subseteq touched
          /\ rest[d] \subseteq batch[d]
          /\ del[d] \in {"source", "variant"} => target[d] \in batch[d] \ rest[d]
          /\ del[d] = "row" => rest[d] = {}
    /\ \A i \in touched : status[i] # "none"
    /\ \A i \in Uploads : status[i] = "deleted" => i \in touched \cup disowned

\* A read has found a row; no thumbnail of an image without one is cached.
ReadsKnown ==
    /\ \A g \in Readers :
          /\ rd[g] # "new" => found[g] \in Uploads /\ status[found[g]] # "none"
          /\ rd[g] \in {"lookup", "keep"} => route[g] # "source"
    /\ \A i \in Uploads : status[i] = "none" => cached[i] = NoFile

TypeInv == TypeOK /\ UploadsKnown /\ DeletesKnown /\ ReadsKnown

\* Uploads that have a public key in use.
Holder(i) == HoldsKey(i) \/ Live(i)

\* A key is in use by one image, ...
KeyHeldOnce ==
    \A i, j \in Uploads :
        i # j /\ Holder(i) /\ Holder(j) /\ key[i] = key[j] => key[i] \in reused

\* ... and not by an image whose files are being removed, unless it was drawn while in use.
KeyCleanedAlone ==
    \A d \in Deletes : \A j \in batch[d] : \A i \in Uploads :
        Cleaning(d) /\ i # j /\ Holder(i) /\ key[i] = key[j] => key[i] \in reused

\* A key of two images was drawn twice; a file, or a thumbnail in the cache, under a key is
\* there because the key was drawn.
KeyDrawnOnce ==
    /\ \A i, j \in Uploads : i # j /\ key[i] = key[j] /\ key[i] # NoKey => key[i] \in recycled
    /\ reused \subseteq recycled
    /\ \A k \in Keys : file[k] # NoFile \/ cached[k] # NoFile => \E i \in Uploads : key[i] = k

\* The inductive invariant about public keys.
KeysInv == TypeInv /\ KeyHeldOnce /\ KeyCleanedAlone /\ KeyDrawnOnce

\* Under the key of an image that was stored is its content, and it stays there until
\* some delete fetches the row.
SourceOwn ==
    \A i \in Uploads :
        (up[i] = "insert" \/ Live(i)) /\ key[i] \notin reused =>
            /\ file[key[i]] \in {content[i], NoFile}
            /\ i \notin touched => file[key[i]] # NoFile

\* Under a key drawn once is the content of its image.
SourceOfKey ==
    \A i \in Uploads : key[i] \in Keys \ recycled => file[key[i]] \in {content[i], NoFile}

\* A delete leaves no source behind it.
SourcesCleaned ==
    \A d \in Deletes : \A i \in batch[d] \ rest[d] :
        Cleaning(d) /\ ~(del[d] = "source" /\ i = target[d])
            => file[key[i]] = NoFile \/ key[i] \in leaked \cup reused

\* The inductive invariant about source files.
SourcesInv == KeysInv /\ SourceOwn /\ SourceOfKey /\ SourcesCleaned /\ OrphansAccounted

\* What is known of an image by its key: nobody else has stored under it.
Unmixed(i) == (Live(i) /\ key[i] \notin reused) \/ key[i] \in Keys \ recycled

\* A task reads the content of its image and makes the variant of it.
VariantOwn ==
    \A i \in Uploads : Unmixed(i) => /\ variant[i] \in {content[i], NoFile}
                                     /\ read[i] \in {content[i], NoFile}

\* Keys of variants are recorded when the variant was written, and it stays there until
\* some delete fetches the row.
VariantThere ==
    \A i \in Uploads :
        /\ job[i] = "read" => read[i] # NoFile
        /\ i \notin touched /\ (job[i] = "written" \/ i \in recorded) => variant[i] # NoFile

\* Unless the delete raced with the image's task, the task is over and the fetched row
\* has the variant's keys, ...
SettledUnlessRaced ==
    /\ \A i \in touched \ raced : job[i] = "over"
    /\ \A d \in Deletes : batch[d] \ raced \subseteq seen[d]

\* ... and the delete leaves no variant behind it whose removal worked.
VariantsCleaned ==
    \A d \in Deletes : \A i \in (batch[d] \ rest[d]) \ (raced \cup left) :
        Cleaning(d) /\ ~(del[d] # "row" /\ i = target[d]) => variant[i] = NoFile

\* The inductive invariant about variants.
VariantsInv ==
    SourcesInv /\ VariantOwn /\ VariantThere /\ SettledUnlessRaced /\ VariantsCleaned
      /\ VariantsAccounted

\* A thumbnail in the cache is the image's own, ...
CachedOwn ==
    \A i \in Uploads :
        /\ Unmixed(i) => cached[i] \in {content[i], NoFile}
        /\ key[i] \in Keys \ recycled => cached[key[i]] \in {content[i], NoFile}

\* ... and so is what a read is about to answer.
AnswerOwn ==
    \A g \in Readers :
        LET i == found[g] IN
        /\ rd[g] \in {"keep", "over"}
        /\ (route[g] = "id" /\ Live(i) /\ key[i] \notin reused) \/ key[i] \in Keys \ recycled
        => answer[g] \in {content[i], NoFile}

\* The inductive invariant about reads.
ReadsInv == VariantsInv /\ CachedOwn /\ AnswerOwn

\* Without overlap one upload at most is past the quota check, and there is room for it.
RoomKept ==
    /\ IsFiniteSet({i \in Uploads : Live(i)})
    /\ ~overlap => /\ \A u, v \in Uploads : Uncounted(u) /\ Uncounted(v) => u = v
                   /\ (\E u \in Uploads : Uncounted(u)) => Used + 1 <= Quota

\* The inductive invariant about the quota.
QuotaInv == TypeInv /\ RoomKept /\ QuotaUnlessOverlap
-----------------------------------------------------------------------------
(***************************************************************************)
(* The type invariant.                                                     *)
(***************************************************************************)
LEMMA InitType == Init => TypeInv
<1> SUFFICES ASSUME Init PROVE TypeInv
  OBVIOUS
<1>1. TypeOK
  BY StoreNames, StoreBounds DEF Init, TypeOK
<1>2. UploadsKnown /\ DeletesKnown
  BY DEF Init, UploadsKnown, DeletesKnown
<1>3. ReadsKnown
  BY DEF Init, ReadsKnown
<1> QED
  BY <1>1, <1>2, <1>3 DEF TypeInv

\* Where a read looks in the cache.
LEMMA SlotType ==
    ASSUME TypeInv, NEW g \in Readers, rd[g] \in {"lookup", "keep"}
    PROVE  Slot(g) \in Uploads \cup Keys
  BY DEF Slot, TypeInv, TypeOK, UploadsKnown, ReadsKnown

LEMMA NextType == TypeInv /\ [Next]_vars => TypeInv'
<1> SUFFICES ASSUME TypeInv, [Next]_vars PROVE TypeInv'
  OBVIOUS
<1> USE StoreNames, StoreBounds
    DEF TypeInv, TypeOK, UploadsKnown, DeletesKnown, ReadsKnown, Live, Cleaning,
        db, storage, uploads, jobs, deletes, readers, reads, hist
<1>1. ASSUME NEW u \in Uploads, CheckQuota(u) PROVE TypeInv'
  BY <1>1, SMTT(30) DEF CheckQuota, UpTo
<1>2. ASSUME NEW u \in Uploads, DedupExists(u) PROVE TypeInv'
  BY <1>2 DEF DedupExists, UpTo
<1>3. ASSUME NEW u \in Uploads, FetchDedupRow(u) PROVE TypeInv'
  BY <1>3 DEF FetchDedupRow, UpTo
<1>4. ASSUME NEW u \in Uploads, NEW k \in Keys, GenerateKey(u, k) PROVE TypeInv'
  BY <1>4 DEF GenerateKey, UpTo
<1>5. ASSUME NEW u \in Uploads, PutSource(u) PROVE TypeInv'
  BY <1>5 DEF PutSource, UpTo
<1>6. ASSUME NEW u \in Uploads, InsertRow(u) PROVE TypeInv'
  BY <1>6 DEF InsertRow, UpTo
<1>7. ASSUME NEW u \in Uploads, InsertConflict(u) PROVE TypeInv'
  BY <1>7 DEF InsertConflict, UpTo
<1>8. ASSUME NEW u \in Uploads, EnqueueTask(u) PROVE TypeInv'
  BY <1>8 DEF EnqueueTask, UpTo
<1>9. ASSUME NEW u \in Uploads, UploadStops(u) PROVE TypeInv'
  BY <1>9 DEF UploadStops, UpTo
<1>10. ASSUME NEW i \in Uploads, ReadSource(i) PROVE TypeInv'
  BY <1>10 DEF ReadSource, JobTo
<1>11. ASSUME NEW i \in Uploads, WriteVariant(i) PROVE TypeInv'
  BY <1>11 DEF WriteVariant, JobTo
<1>12. ASSUME NEW i \in Uploads, CommitVariant(i) PROVE TypeInv'
  BY <1>12 DEF CommitVariant, JobTo
<1>13. ASSUME NEW i \in Uploads, AttemptFails(i) PROVE TypeInv'
  BY <1>13 DEF AttemptFails, JobTo
<1>14. ASSUME NEW i \in Uploads, Nack(i) PROVE TypeInv'
  BY <1>14, SMTT(30) DEF Nack, JobTo
<1>15. ASSUME NEW i \in Uploads, Redeliver(i) PROVE TypeInv'
  BY <1>15 DEF Redeliver, JobTo
<1>16. ASSUME NEW d \in Deletes, NEW I \in SUBSET Uploads, FetchTargets(d, I) PROVE TypeInv'
  BY <1>16, SMTT(30) DEF FetchTargets, DelTo
<1>17. ASSUME NEW d \in Deletes, DeleteSource(d) PROVE TypeInv'
  BY <1>17 DEF DeleteSource, DelTo
<1>18. ASSUME NEW d \in Deletes, DeleteSourceFails(d) PROVE TypeInv'
  BY <1>18 DEF DeleteSourceFails, DelTo
<1>19. ASSUME NEW d \in Deletes, DeleteVariant(d) PROVE TypeInv'
  <2>1. target[d] \in batch[d] \ rest[d] /\ target[d] \in Uploads
    BY <1>19 DEF DeleteVariant
  <2>2. /\ variant' = [variant EXCEPT ![target[d]] = IF target[d] \in seen[d] THEN NoFile ELSE @]
        /\ UNCHANGED <<db, file, uploads, jobs, batch, seen, reads, events, hist>>
    BY <1>19 DEF DeleteVariant
  <2>3. variant' \in [Uploads -> Contents \cup {NoFile}]
        /\ \A i \in Uploads : variant'[i] \in {variant[i], NoFile}
    BY <2>1, <2>2
  <2>4. CASE rest[d] = {} /\ DelTo(d, "row") /\ UNCHANGED <<target, rest>>
    BY <2>2, <2>3, <2>4 DEF DelTo
  <2>5. ASSUME NEW i \in rest[d], DelTo(d, "source"), target' = [target EXCEPT ![d] = i],
               rest' = [rest EXCEPT ![d] = @ \ {i}]
        PROVE  TypeInv'
    BY <2>2, <2>3, <2>5 DEF DelTo
  <2> QED
    BY <1>19, <2>4, <2>5 DEF DeleteVariant, NextTarget
<1>20. ASSUME NEW d \in Deletes, DeleteRows(d) PROVE TypeInv'
  BY <1>20 DEF DeleteRows, DelTo
<1>21. ASSUME NEW d \in Deletes, DeleteStops(d) PROVE TypeInv'
  BY <1>21 DEF DeleteStops, DelTo
<1>22. ASSUME NEW g \in Readers, NEW i \in Uploads, NEW r \in {"id", "key", "source"}, Resolve(g, i, r)
      PROVE  TypeInv'
  <2>1. rd' = [rd EXCEPT ![g] = IF r = "source" THEN "fetch" ELSE "lookup"]
        /\ route' = [route EXCEPT ![g] = r] /\ found' = [found EXCEPT ![g] = i]
    BY <1>22 DEF Resolve
  <2>2. status[i] # "none"
    BY <1>22 DEF Resolve, Served
  <2>3. UNCHANGED <<db, storage, uploads, jobs, deletes, cached, answer, hist>> /\ events' \in Nat
    BY <1>22 DEF Resolve
  <2> QED
    BY <2>1, <2>2, <2>3
<1>23. ASSUME NEW g \in Readers, CacheGet(g) PROVE TypeInv'
  <2>1. cached[Slot(g)] \in Contents \cup {NoFile}
    BY <1>23, SlotType DEF CacheGet
  <2> QED
    BY <1>23, <2>1, SMTT(30) DEF CacheGet
<1>24. ASSUME NEW g \in Readers, StorageGet(g) PROVE TypeInv'
  BY <1>24 DEF StorageGet
<1>25. ASSUME NEW g \in Readers, CacheSet(g) PROVE TypeInv'
  <2>1. rd[g] = "keep" /\ status[found[g]] # "none" /\ Slot(g) \in Uploads \cup Keys
    BY <1>25, SlotType DEF CacheSet
  <2>2. Slot(g) \in Uploads => Slot(g) = found[g]
    BY <2>1, SlotsApart DEF Slot
  <2> QED
    BY <1>25, <2>1, <2>2, SMTT(30) DEF CacheSet
<1>26. ASSUME NEW g \in Readers, ReadOver(g) PROVE TypeInv'
  BY <1>26 DEF ReadOver
<1>27. ASSUME NEW s \in Uploads \cup Keys, Lapse(s) PROVE TypeInv'
  BY <1>27 DEF Lapse
<1>28. CASE UNCHANGED vars
  BY <1>28 DEF vars
<1>29. ASSUME NEW d \in Deletes, DeleteVariantFails(d) PROVE TypeInv'
  <2>1. target[d] \in batch[d] \ rest[d] /\ target[d] \in Uploads
    BY <1>29 DEF DeleteVariantFails
  <2>2. /\ left' = left \cup {target[d]} /\ events' = events + 1
        /\ UNCHANGED <<db, storage, uploads, jobs, batch, seen, reads, overlap, reused, recycled,
                       leaked, touched, raced, disowned>>
    BY <1>29 DEF DeleteVariantFails
  <2>3. left' \in SUBSET Uploads /\ events' \in Nat
    BY <2>1, <2>2
  <2>4. CASE rest[d] = {} /\ DelTo(d, "row") /\ UNCHANGED <<target, rest>>
    BY <2>2, <2>3, <2>4 DEF DelTo
  <2>5. ASSUME NEW i \in rest[d], DelTo(d, "source"), target' = [target EXCEPT ![d] = i],
               rest' = [rest EXCEPT ![d] = @ \ {i}]
        PROVE  TypeInv'
    BY <2>2, <2>3, <2>5 DEF DelTo
  <2> QED
    BY <1>29, <2>4, <2>5 DEF DeleteVariantFails, NextTarget
<1>30. ASSUME NEW I \in SUBSET Uploads, DeleteForeignRows(I) PROVE TypeInv'
  BY <1>30 DEF DeleteForeignRows
<1> HIDE DEF TypeInv
<1> QED
  BY <1>1, <1>2, <1>3, <1>4, <1>5, <1>6, <1>7, <1>8, <1>9, <1>10, <1>11, <1>12, <1>13,
     <1>14, <1>15, <1>16, <1>17, <1>18, <1>19, <1>20, <1>21, <1>22, <1>23, <1>24, <1>25,
     <1>26, <1>27, <1>28, <1>29, <1>30
     DEF Next, Upload, Work, Delete, Read

\* Tables, files, requests and tasks keep their types.
THEOREM TypeCorrect == Spec => []TypeOK
<1>1. Spec => []TypeInv
  BY InitType, NextType, PTL DEF Spec
<1>2. TypeInv => TypeOK
  BY DEF TypeInv
<1> QED
  BY <1>1, <1>2, PTL
-----------------------------------------------------------------------------
(***************************************************************************)
(* Public keys.                                                            *)
(***************************************************************************)
LEMMA InitKeys == Init => KeysInv
<1> SUFFICES ASSUME Init PROVE KeysInv
  OBVIOUS
<1>1. KeyHeldOnce /\ KeyCleanedAlone /\ KeyDrawnOnce
  BY DEF Init, KeyHeldOnce, KeyCleanedAlone, KeyDrawnOnce, Holder, HoldsKey, Live
<1> QED
  BY <1>1, InitType DEF KeysInv

LEMMA NextKeys == KeysInv /\ [Next]_vars => KeysInv'
<1> DEFINE Kept == KeyHeldOnce /\ KeyCleanedAlone /\ KeyDrawnOnce
<1> SUFFICES ASSUME KeysInv, [Next]_vars PROVE Kept'
  BY NextType DEF KeysInv
<1>0. TypeInv /\ TypeOK /\ UploadsKnown /\ DeletesKnown /\ ReadsKnown /\ Kept
  BY DEF KeysInv, TypeInv
<1> USE <1>0, StoreNames
    DEF TypeOK, UploadsKnown, DeletesKnown, ReadsKnown, KeyHeldOnce, KeyCleanedAlone, KeyDrawnOnce,
        Holder, HoldsKey, Live, Cleaning, db, storage, uploads, jobs, deletes, readers, reads, hist
<1>1. ASSUME NEW u \in Uploads, CheckQuota(u) PROVE Kept'
  BY <1>1 DEF CheckQuota, UpTo
<1>2. ASSUME NEW u \in Uploads, DedupExists(u) PROVE Kept'
  BY <1>2 DEF DedupExists, UpTo
<1>3. ASSUME NEW u \in Uploads, FetchDedupRow(u) PROVE Kept'
  BY <1>3 DEF FetchDedupRow, UpTo
<1>4. ASSUME NEW u \in Uploads, NEW k \in Keys, GenerateKey(u, k) PROVE Kept'
  BY <1>4 DEF GenerateKey, UpTo
<1>5. ASSUME NEW u \in Uploads, PutSource(u) PROVE Kept'
  BY <1>5 DEF PutSource, UpTo
<1>6. ASSUME NEW u \in Uploads, InsertRow(u) PROVE Kept'
  BY <1>6 DEF InsertRow, UpTo
<1>7. ASSUME NEW u \in Uploads, InsertConflict(u) PROVE Kept'
  BY <1>7 DEF InsertConflict, UpTo
<1>8. ASSUME NEW u \in Uploads, EnqueueTask(u) PROVE Kept'
  BY <1>8 DEF EnqueueTask, UpTo
<1>9. ASSUME NEW u \in Uploads, UploadStops(u) PROVE Kept'
  BY <1>9 DEF UploadStops, UpTo
<1>10. ASSUME NEW i \in Uploads, ReadSource(i) PROVE Kept'
  BY <1>10 DEF ReadSource, JobTo
<1>11. ASSUME NEW i \in Uploads, WriteVariant(i) PROVE Kept'
  BY <1>11 DEF WriteVariant, JobTo
<1>12. ASSUME NEW i \in Uploads, CommitVariant(i) PROVE Kept'
  BY <1>12 DEF CommitVariant, JobTo
<1>13. ASSUME NEW i \in Uploads, AttemptFails(i) PROVE Kept'
  BY <1>13 DEF AttemptFails, JobTo
<1>14. ASSUME NEW i \in Uploads, Nack(i) PROVE Kept'
  BY <1>14 DEF Nack, JobTo
<1>15. ASSUME NEW i \in Uploads, Redeliver(i) PROVE Kept'
  BY <1>15 DEF Redeliver, JobTo
<1>16. ASSUME NEW d \in Deletes, NEW I \in SUBSET Uploads, FetchTargets(d, I) PROVE Kept'
  BY <1>16 DEF FetchTargets, DelTo
<1>17. ASSUME NEW d \in Deletes, DeleteSource(d) PROVE Kept'
  BY <1>17 DEF DeleteSource, DelTo
<1>18. ASSUME NEW d \in Deletes, DeleteSourceFails(d) PROVE Kept'
  BY <1>18 DEF DeleteSourceFails, DelTo
<1>19. ASSUME NEW d \in Deletes, DeleteVariant(d) PROVE Kept'
  BY <1>19 DEF DeleteVariant, DelTo, NextTarget
<1>20. ASSUME NEW d \in Deletes, DeleteRows(d) PROVE Kept'
  BY <1>20 DEF DeleteRows, DelTo
<1>21. ASSUME NEW d \in Deletes, DeleteStops(d) PROVE Kept'
  BY <1>21 DEF DeleteStops, DelTo
<1>22. ASSUME NEW g \in Readers, NEW i \in Uploads, NEW r \in {"id", "key", "source"}, Resolve(g, i, r)
      PROVE  Kept'
  BY <1>22 DEF Resolve
<1>23. ASSUME NEW g \in Readers, CacheGet(g) PROVE Kept'
  BY <1>23 DEF CacheGet
<1>24. ASSUME NEW g \in Readers, StorageGet(g) PROVE Kept'
  BY <1>24 DEF StorageGet
<1>25. ASSUME NEW g \in Readers, CacheSet(g) PROVE Kept'
  <2>1. rd[g] = "keep" /\ found[g] \in Uploads /\ Slot(g) \in Uploads \cup Keys
    BY <1>25, SlotType DEF CacheSet
  <2>2. Slot(g) \in Keys => Slot(g) = key[found[g]]
    BY <2>1, SlotsApart DEF Slot
  <2>3. UNCHANGED <<db, storage, uploads, deletes, hist>>
    BY <1>25 DEF CacheSet
  <2>4. \A k \in Keys : cached'[k] = cached[k] \/ k = Slot(g)
    BY <2>1, <1>25 DEF CacheSet
  <2> QED
    BY <2>1, <2>2, <2>3, <2>4
<1>26. ASSUME NEW g \in Readers, ReadOver(g) PROVE Kept'
  BY <1>26 DEF ReadOver
<1>27. ASSUME NEW s \in Uploads \cup Keys, Lapse(s) PROVE Kept'
  BY <1>27 DEF Lapse
<1>28. CASE UNCHANGED vars
  BY <1>28 DEF vars
<1>29. ASSUME NEW d \in Deletes, DeleteVariantFails(d) PROVE Kept'
  BY <1>29 DEF DeleteVariantFails, DelTo, NextTarget
<1>30. ASSUME NEW I \in SUBSET Uploads, DeleteForeignRows(I) PROVE Kept'
  BY <1>30 DEF DeleteForeignRows
<1> HIDE DEF Kept, TypeOK, UploadsKnown, DeletesKnown, ReadsKnown
<1> QED
  BY <1>1, <1>2, <1>3, <1>4, <1>5, <1>6, <1>7, <1>8, <1>9, <1>10, <1>11, <1>12, <1>13,
     <1>14, <1>15, <1>16, <1>17, <1>18, <1>19, <1>20, <1>21, <1>22, <1>23, <1>24, <1>25,
     <1>26, <1>27, <1>28, <1>29, <1>30
     DEF Next, Upload, Work, Delete, Read
-----------------------------------------------------------------------------
(***************************************************************************)
(* Source files.                                                           *)
(***************************************************************************)
LEMMA InitSources == Init => SourcesInv
<1> SUFFICES ASSUME Init PROVE SourcesInv
  OBVIOUS
<1>1. SourceOwn /\ SourceOfKey /\ SourcesCleaned /\ OrphansAccounted
  BY StoreNames DEF Init, SourceOwn, SourceOfKey, SourcesCleaned, OrphansAccounted, Live
<1> QED
  BY <1>1, InitKeys DEF SourcesInv

LEMMA NextSources == SourcesInv /\ [Next]_vars => SourcesInv'
<1> DEFINE Kept == SourceOwn /\ SourceOfKey /\ SourcesCleaned /\ OrphansAccounted
<1> SUFFICES ASSUME SourcesInv, [Next]_vars PROVE Kept'
  BY NextKeys DEF SourcesInv
<1>0. /\ TypeOK /\ UploadsKnown /\ DeletesKnown
      /\ KeyHeldOnce /\ KeyCleanedAlone /\ KeyDrawnOnce /\ Kept
  BY DEF SourcesInv, KeysInv, TypeInv
<1> USE <1>0, StoreNames
    DEF TypeOK, UploadsKnown, DeletesKnown, KeyHeldOnce, KeyCleanedAlone, KeyDrawnOnce,
        SourceOwn, SourceOfKey, SourcesCleaned, OrphansAccounted,
        Holder, HoldsKey, Live, Cleaning, db, storage, uploads, jobs, deletes, readers, reads, hist
<1>1. ASSUME NEW u \in Uploads, CheckQuota(u) PROVE Kept'
  BY <1>1 DEF CheckQuota, UpTo
<1>2. ASSUME NEW u \in Uploads, DedupExists(u) PROVE Kept'
  BY <1>2 DEF DedupExists, UpTo
<1>3. ASSUME NEW u \in Uploads, FetchDedupRow(u) PROVE Kept'
  BY <1>3 DEF FetchDedupRow, UpTo
<1>4. ASSUME NEW u \in Uploads, NEW k \in Keys, GenerateKey(u, k) PROVE Kept'
  BY <1>4 DEF GenerateKey, UpTo
<1>5. ASSUME NEW u \in Uploads, PutSource(u) PROVE Kept'
  <2>1. up[u] = "put" /\ key[u] \in Keys /\ status[u] = "none" /\ Holder(u)
    BY <1>5 DEF PutSource
  <2>2. /\ up' = [up EXCEPT ![u] = "insert"]
        /\ file' = [file EXCEPT ![key[u]] = content[u]]
        /\ UNCHANGED <<status, content, key, deletes, hist>>
    BY <1>5 DEF PutSource, UpTo
  <2>3. content[u] # NoFile
    OBVIOUS
  <2>4. \A i \in Uploads \ {u} : key[i] = key[u] =>
          /\ key[i] \in recycled
          /\ Holder(i) => key[i] \in reused
    BY <2>1
  <2>5. \A d \in Deletes : \A i \in batch[d] : Cleaning(d) /\ key[i] = key[u] => key[i] \in reused
    BY <2>1
  <2>6. SourceOwn'
    BY <2>1, <2>2, <2>3, <2>4
  <2>7. SourceOfKey'
    BY <2>1, <2>2, <2>4
  <2>8. SourcesCleaned'
    BY <2>1, <2>2, <2>5
  <2>9. OrphansAccounted'
    BY <2>1, <2>2
  <2> QED
    BY <2>6, <2>7, <2>8, <2>9
<1>6. ASSUME NEW u \in Uploads, InsertRow(u) PROVE Kept'
  BY <1>6 DEF InsertRow, UpTo
<1>7. ASSUME NEW u \in Uploads, InsertConflict(u) PROVE Kept'
  BY <1>7 DEF InsertConflict, UpTo
<1>8. ASSUME NEW u \in Uploads, EnqueueTask(u) PROVE Kept'
  BY <1>8 DEF EnqueueTask, UpTo
<1>9. ASSUME NEW u \in Uploads, UploadStops(u) PROVE Kept'
  BY <1>9 DEF UploadStops, UpTo
<1>10. ASSUME NEW i \in Uploads, ReadSource(i) PROVE Kept'
  BY <1>10 DEF ReadSource, JobTo
<1>11. ASSUME NEW i \in Uploads, WriteVariant(i) PROVE Kept'
  BY <1>11 DEF WriteVariant, JobTo
<1>12. ASSUME NEW i \in Uploads, CommitVariant(i) PROVE Kept'
  <2>1. \A j \in Uploads : (Live(j)' <=> Live(j)) /\ (status'[j] = "none" <=> status[j] = "none")
    BY <1>12 DEF CommitVariant
  <2>2. UNCHANGED <<content, key, up, file, batch, rest, target, del, hist>>
    BY <1>12 DEF CommitVariant
  <2> QED
    BY <2>1, <2>2
<1>13. ASSUME NEW i \in Uploads, AttemptFails(i) PROVE Kept'
  BY <1>13 DEF AttemptFails, JobTo
<1>14. ASSUME NEW i \in Uploads, Nack(i) PROVE Kept'
  <2>1. \A j \in Uploads : (Live(j)' <=> Live(j)) /\ (status'[j] = "none" <=> status[j] = "none")
    BY <1>14 DEF Nack
  <2>2. UNCHANGED <<content, key, up, file, batch, rest, target, del, hist>>
    BY <1>14 DEF Nack
  <2> QED
    BY <2>1, <2>2
<1>15. ASSUME NEW i \in Uploads, Redeliver(i) PROVE Kept'
  BY <1>15 DEF Redeliver, JobTo
<1>16. ASSUME NEW d \in Deletes, NEW I \in SUBSET Uploads, FetchTargets(d, I) PROVE Kept'
  BY <1>16 DEF FetchTargets, DelTo
<1>17. ASSUME NEW d \in Deletes, DeleteSource(d) PROVE Kept'
  BY <1>17 DEF DeleteSource, DelTo
<1>18. ASSUME NEW d \in Deletes, DeleteSourceFails(d) PROVE Kept'
  BY <1>18 DEF DeleteSourceFails, DelTo
<1>19. ASSUME NEW d \in Deletes, DeleteVariant(d) PROVE Kept'
  BY <1>19 DEF DeleteVariant, DelTo, NextTarget
<1>20. ASSUME NEW d \in Deletes, DeleteRows(d) PROVE Kept'
  BY <1>20, SMTT(30) DEF DeleteRows, DelTo
<1>21. ASSUME NEW d \in Deletes, DeleteStops(d) PROVE Kept'
  BY <1>21 DEF DeleteStops, DelTo
<1>22. ASSUME NEW g \in Readers, NEW i \in Uploads, NEW r \in {"id", "key", "source"}, Resolve(g, i, r)
      PROVE  Kept'
  BY <1>22 DEF Resolve
<1>23. ASSUME NEW g \in Readers, CacheGet(g) PROVE Kept'
  BY <1>23 DEF CacheGet
<1>24. ASSUME NEW g \in Readers, StorageGet(g) PROVE Kept'
  BY <1>24 DEF StorageGet
<1>25. ASSUME NEW g \in Readers, CacheSet(g) PROVE Kept'
  BY <1>25 DEF CacheSet
<1>26. ASSUME NEW g \in Readers, ReadOver(g) PROVE Kept'
  BY <1>26 DEF ReadOver
<1>27. ASSUME NEW s \in Uploads \cup Keys, Lapse(s) PROVE Kept'
  BY <1>27 DEF Lapse
<1>28. CASE UNCHANGED vars
  BY <1>28 DEF vars
<1>29. ASSUME NEW d \in Deletes, DeleteVariantFails(d) PROVE Kept'
  BY <1>29 DEF DeleteVariantFails, DelTo, NextTarget
<1>30. ASSUME NEW I \in SUBSET Uploads, DeleteForeignRows(I) PROVE Kept'
  BY <1>30 DEF DeleteForeignRows
<1> HIDE DEF Kept, TypeOK, UploadsKnown, DeletesKnown, KeyHeldOnce, KeyCleanedAlone, KeyDrawnOnce
<1> QED
  BY <1>1, <1>2, <1>3, <1>4, <1>5, <1>6, <1>7, <1>8, <1>9, <1>10, <1>11, <1>12, <1>13,
     <1>14, <1>15, <1>16, <1>17, <1>18, <1>19, <1>20, <1>21, <1>22, <1>23, <1>24, <1>25,
     <1>26, <1>27, <1>28, <1>29, <1>30
     DEF Next, Upload, Work, Delete, Read

\* A file without a row comes from a request that stopped half-way or lost the race for
\* the unique indexes, from a removal that failed, or from another user's batch delete, or
\* lay under a key that was drawn while in use.
THEOREM OrphansAccountedCorrect == Spec => []OrphansAccounted
<1>1. Spec => []SourcesInv
  BY InitSources, NextSources, PTL DEF Spec
<1>2. SourcesInv => OrphansAccounted
  BY DEF SourcesInv
<1> QED
  BY <1>1, <1>2, PTL
-----------------------------------------------------------------------------
(***************************************************************************)
(* Variants.                                                               *)
(***************************************************************************)
LEMMA InitVariants == Init => VariantsInv
<1> SUFFICES ASSUME Init PROVE VariantsInv
  OBVIOUS
<1>1. VariantOwn /\ VariantThere /\ SettledUnlessRaced /\ VariantsCleaned /\ VariantsAccounted
  BY DEF Init, VariantOwn, VariantThere, SettledUnlessRaced, VariantsCleaned, VariantsAccounted
<1> QED
  BY <1>1, InitSources DEF VariantsInv

LEMMA NextVariants == VariantsInv /\ [Next]_vars => VariantsInv'
<1> DEFINE Kept == VariantOwn /\ VariantThere /\ SettledUnlessRaced /\ VariantsCleaned
                     /\ VariantsAccounted
<1> SUFFICES ASSUME VariantsInv, [Next]_vars PROVE Kept'
  BY NextSources DEF VariantsInv
<1>0. /\ TypeOK /\ UploadsKnown /\ DeletesKnown /\ KeyDrawnOnce
      /\ SourceOwn /\ SourceOfKey /\ Kept
  BY DEF VariantsInv, SourcesInv, KeysInv, TypeInv
<1> USE <1>0, StoreNames
    DEF TypeOK, UploadsKnown, DeletesKnown, KeyDrawnOnce, SourceOwn, SourceOfKey,
        VariantOwn, VariantThere, SettledUnlessRaced, VariantsCleaned, VariantsAccounted, Unmixed,
        Live, Cleaning, db, storage, uploads, jobs, deletes, readers, reads, hist
<1>1. ASSUME NEW u \in Uploads, CheckQuota(u) PROVE Kept'
  BY <1>1 DEF CheckQuota, UpTo
<1>2. ASSUME NEW u \in Uploads, DedupExists(u) PROVE Kept'
  BY <1>2 DEF DedupExists, UpTo
<1>3. ASSUME NEW u \in Uploads, FetchDedupRow(u) PROVE Kept'
  BY <1>3 DEF FetchDedupRow, UpTo
<1>4. ASSUME NEW u \in Uploads, NEW k \in Keys, GenerateKey(u, k) PROVE Kept'
  BY <1>4 DEF GenerateKey, UpTo
<1>5. ASSUME NEW u \in Uploads, PutSource(u) PROVE Kept'
  BY <1>5 DEF PutSource, UpTo
<1>6. ASSUME NEW u \in Uploads, InsertRow(u) PROVE Kept'
  BY <1>6 DEF InsertRow, UpTo
<1>7. ASSUME NEW u \in Uploads, InsertConflict(u) PROVE Kept'
  BY <1>7 DEF InsertConflict, UpTo
<1>8. ASSUME NEW u \in Uploads, EnqueueTask(u) PROVE Kept'
  BY <1>8 DEF EnqueueTask, UpTo
<1>9. ASSUME NEW u \in Uploads, UploadStops(u) PROVE Kept'
  BY <1>9 DEF UploadStops, UpTo
<1>10. ASSUME NEW i \in Uploads, ReadSource(i) PROVE Kept'
  BY <1>10 DEF ReadSource, JobTo
<1>11. ASSUME NEW i \in Uploads, WriteVariant(i) PROVE Kept'
  BY <1>11 DEF WriteVariant, JobTo
<1>12. ASSUME NEW i \in Uploads, CommitVariant(i) PROVE Kept'
  BY <1>12 DEF CommitVariant, JobTo
<1>13. ASSUME NEW i \in Uploads, AttemptFails(i) PROVE Kept'
  BY <1>13 DEF AttemptFails, JobTo
<1>14. ASSUME NEW i \in Uploads, Nack(i) PROVE Kept'
  BY <1>14 DEF Nack, JobTo
<1>15. ASSUME NEW i \in Uploads, Redeliver(i) PROVE Kept'
  BY <1>15 DEF Redeliver, JobTo
<1>16. ASSUME NEW d \in Deletes, NEW I \in SUBSET Uploads, FetchTargets(d, I) PROVE Kept'
  BY <1>16 DEF FetchTargets, DelTo
<1>17. ASSUME NEW d \in Deletes, DeleteSource(d) PROVE Kept'
  BY <1>17 DEF DeleteSource, DelTo
<1>18. ASSUME NEW d \in Deletes, DeleteSourceFails(d) PROVE Kept'
  BY <1>18 DEF DeleteSourceFails, DelTo
<1>19. ASSUME NEW d \in Deletes, DeleteVariant(d) PROVE Kept'
  BY <1>19, SMTT(30) DEF DeleteVariant, DelTo, NextTarget
<1>20. ASSUME NEW d \in Deletes, DeleteRows(d) PROVE Kept'
  BY <1>20 DEF DeleteRows, DelTo
<1>21. ASSUME NEW d \in Deletes, DeleteStops(d) PROVE Kept'
  BY <1>21 DEF DeleteStops, DelTo
<1>22. ASSUME NEW g \in Readers, NEW i \in Uploads, NEW r \in {"id", "key", "source"}, Resolve(g, i, r)
      PROVE  Kept'
  BY <1>22 DEF Resolve
<1>23. ASSUME NEW g \in Readers, CacheGet(g) PROVE Kept'
  BY <1>23 DEF CacheGet
<1>24. ASSUME NEW g \in Readers, StorageGet(g) PROVE Kept'
  BY <1>24 DEF StorageGet
<1>25. ASSUME NEW g \in Readers, CacheSet(g) PROVE Kept'
  BY <1>25 DEF CacheSet
<1>26. ASSUME NEW g \in Readers, ReadOver(g) PROVE Kept'
  BY <1>26 DEF ReadOver
<1>27. ASSUME NEW s \in Uploads \cup Keys, Lapse(s) PROVE Kept'
  BY <1>27 DEF Lapse
<1>28. CASE UNCHANGED vars
  BY <1>28 DEF vars
<1>29. ASSUME NEW d \in Deletes, DeleteVariantFails(d) PROVE Kept'
  BY <1>29 DEF DeleteVariantFails, DelTo, NextTarget
<1>30. ASSUME NEW I \in SUBSET Uploads, DeleteForeignRows(I) PROVE Kept'
  BY <1>30 DEF DeleteForeignRows
<1> HIDE DEF Kept, TypeOK, UploadsKnown, DeletesKnown, KeyDrawnOnce, SourceOwn, SourceOfKey
<1> QED
  BY <1>1, <1>2, <1>3, <1>4, <1>5, <1>6, <1>7, <1>8, <1>9, <1>10, <1>11, <1>12, <1>13,
     <1>14, <1>15, <1>16, <1>17, <1>18, <1>19, <1>20, <1>21, <1>22, <1>23, <1>24, <1>25,
     <1>26, <1>27, <1>28, <1>29, <1>30
     DEF Next, Upload, Work, Delete, Read

\* What a row's key leads to, source and variant, is what was uploaded, unless the key was
\* drawn while another request was still using it.
THEOREM ContentIntactCorrect == Spec => []ContentIntact
<1>1. Spec => []VariantsInv
  BY InitVariants, NextVariants, PTL DEF Spec
<1>2. VariantsInv => ContentIntact
  BY DEF VariantsInv, SourcesInv, SourceOwn, VariantOwn, Unmixed, ContentIntact
<1> QED
  BY <1>1, <1>2, PTL

\* As long as no delete request has fetched a row its files are there.
THEOREM FilesBehindRowsCorrect == Spec => []FilesBehindRows
<1>1. Spec => []VariantsInv
  BY InitVariants, NextVariants, PTL DEF Spec
<1>2. VariantsInv => FilesBehindRows
  BY DEF VariantsInv, SourcesInv, SourceOwn, VariantThere, FilesBehindRows
<1> QED
  BY <1>1, <1>2, PTL

\* A variant outlives its image only if the delete raced with the image's task or could not
\* remove it, or another user's batch delete removed the row.
THEOREM VariantsAccountedCorrect == Spec => []VariantsAccounted
<1>1. Spec => []VariantsInv
  BY InitVariants, NextVariants, PTL DEF Spec
<1>2. VariantsInv => VariantsAccounted
  BY DEF VariantsInv
<1> QED
  BY <1>1, <1>2, PTL
-----------------------------------------------------------------------------
(***************************************************************************)
(* Public reads.                                                           *)
(***************************************************************************)
LEMMA InitReads == Init => ReadsInv
<1> SUFFICES ASSUME Init PROVE ReadsInv
  OBVIOUS
<1>1. CachedOwn /\ AnswerOwn
  BY StoreNames DEF Init, CachedOwn, AnswerOwn
<1> QED
  BY <1>1, InitVariants DEF ReadsInv

LEMMA NextReads == ReadsInv /\ [Next]_vars => ReadsInv'
<1> DEFINE Kept == CachedOwn /\ AnswerOwn
<1> SUFFICES ASSUME ReadsInv, [Next]_vars PROVE Kept'
  BY NextVariants DEF ReadsInv
<1>0. /\ TypeInv /\ TypeOK /\ UploadsKnown /\ DeletesKnown /\ ReadsKnown /\ KeyDrawnOnce
      /\ SourceOfKey /\ VariantOwn /\ Kept
  BY DEF ReadsInv, VariantsInv, SourcesInv, KeysInv, TypeInv
<1> USE <1>0, StoreNames
    DEF TypeOK, UploadsKnown, DeletesKnown, ReadsKnown, KeyDrawnOnce, SourceOfKey, VariantOwn,
        CachedOwn, AnswerOwn, Unmixed, Live, Cleaning,
        db, storage, uploads, jobs, deletes, readers, reads, hist
<1>1. ASSUME NEW u \in Uploads, CheckQuota(u) PROVE Kept'
  BY <1>1 DEF CheckQuota, UpTo
<1>2. ASSUME NEW u \in Uploads, DedupExists(u) PROVE Kept'
  BY <1>2 DEF DedupExists, UpTo
<1>3. ASSUME NEW u \in Uploads, FetchDedupRow(u) PROVE Kept'
  BY <1>3 DEF FetchDedupRow, UpTo
<1>4. ASSUME NEW u \in Uploads, NEW k \in Keys, GenerateKey(u, k) PROVE Kept'
  BY <1>4 DEF GenerateKey, UpTo
<1>5. ASSUME NEW u \in Uploads, PutSource(u) PROVE Kept'
  BY <1>5 DEF PutSource, UpTo
<1>6. ASSUME NEW u \in Uploads, InsertRow(u) PROVE Kept'
  BY <1>6 DEF InsertRow, UpTo
<1>7. ASSUME NEW u \in Uploads, InsertConflict(u) PROVE Kept'
  BY <1>7 DEF InsertConflict, UpTo
<1>8. ASSUME NEW u \in Uploads, EnqueueTask(u) PROVE Kept'
  BY <1>8 DEF EnqueueTask, UpTo
<1>9. ASSUME NEW u \in Uploads, UploadStops(u) PROVE Kept'
  BY <1>9 DEF UploadStops, UpTo
<1>10. ASSUME NEW i \in Uploads, ReadSource(i) PROVE Kept'
  BY <1>10 DEF ReadSource, JobTo
<1>11. ASSUME NEW i \in Uploads, WriteVariant(i) PROVE Kept'
  BY <1>11 DEF WriteVariant, JobTo
<1>12. ASSUME NEW i \in Uploads, CommitVariant(i) PROVE Kept'
  BY <1>12 DEF CommitVariant, JobTo
<1>13. ASSUME NEW i \in Uploads, AttemptFails(i) PROVE Kept'
  BY <1>13 DEF AttemptFails, JobTo
<1>14. ASSUME NEW i \in Uploads, Nack(i) PROVE Kept'
  BY <1>14 DEF Nack, JobTo
<1>15. ASSUME NEW i \in Uploads, Redeliver(i) PROVE Kept'
  BY <1>15 DEF Redeliver, JobTo
<1>16. ASSUME NEW d \in Deletes, NEW I \in SUBSET Uploads, FetchTargets(d, I) PROVE Kept'
  BY <1>16 DEF FetchTargets, DelTo
<1>17. ASSUME NEW d \in Deletes, DeleteSource(d) PROVE Kept'
  BY <1>17 DEF DeleteSource, DelTo
<1>18. ASSUME NEW d \in Deletes, DeleteSourceFails(d) PROVE Kept'
  BY <1>18 DEF DeleteSourceFails, DelTo
<1>19. ASSUME NEW d \in Deletes, DeleteVariant(d) PROVE Kept'
  BY <1>19 DEF DeleteVariant, DelTo, NextTarget
<1>20. ASSUME NEW d \in Deletes, DeleteRows(d) PROVE Kept'
  BY <1>20 DEF DeleteRows, DelTo
<1>21. ASSUME NEW d \in Deletes, DeleteStops(d) PROVE Kept'
  BY <1>21 DEF DeleteStops, DelTo
<1>22. ASSUME NEW g \in Readers, NEW i \in Uploads, NEW r \in {"id", "key", "source"}, Resolve(g, i, r)
      PROVE  Kept'
  BY <1>22 DEF Resolve
<1>23. ASSUME NEW g \in Readers, CacheGet(g) PROVE Kept'
  <2>1. /\ rd[g] = "lookup" /\ found[g] \in Uploads /\ key[found[g]] \in Keys
        /\ Slot(g) = IF route[g] = "id" THEN found[g] ELSE key[found[g]]
    BY <1>23 DEF CacheGet, Slot
  <2>2. Slot(g) \in Uploads \cup Keys
    BY <2>1
  <2>3. /\ \/ rd' = [rd EXCEPT ![g] = "over"] /\ answer' = [answer EXCEPT ![g] = cached[Slot(g)]]
           \/ rd' = [rd EXCEPT ![g] = "fetch"] /\ UNCHANGED answer
        /\ UNCHANGED <<db, storage, uploads, jobs, deletes, cached, route, found, events, hist>>
    BY <1>23 DEF CacheGet
  <2>4. AnswerOwn'
    BY <2>1, <2>2, <2>3
  <2> QED
    BY <2>3, <2>4
<1>24. ASSUME NEW g \in Readers, StorageGet(g) PROVE Kept'
  BY <1>24 DEF StorageGet
<1>25. ASSUME NEW g \in Readers, CacheSet(g) PROVE Kept'
  <2>1. /\ rd[g] = "keep" /\ found[g] \in Uploads /\ key[found[g]] \in Keys
        /\ Slot(g) = IF route[g] = "id" THEN found[g] ELSE key[found[g]]
    BY <1>25 DEF CacheSet, Slot
  <2>2. Slot(g) \in Uploads \cup Keys
    BY <2>1
  <2>3. /\ rd' = [rd EXCEPT ![g] = "over"]
        /\ cached' \in {cached, [cached EXCEPT ![Slot(g)] = answer[g]]}
        /\ UNCHANGED <<db, storage, uploads, jobs, deletes, route, found, answer, events, hist>>
    BY <1>25 DEF CacheSet
  <2>4. \A i \in Uploads :
          /\ cached'[i] = cached[i] \/ (route[g] = "id" /\ i = found[g] /\ cached'[i] = answer[g])
          /\ key[i] \in Keys =>
                cached'[key[i]] = cached[key[i]]
                  \/ (key[i] = key[found[g]] /\ cached'[key[i]] = answer[g])
    BY <2>1, <2>2, <2>3, SlotsApart
  <2>5. CachedOwn'
    BY <2>1, <2>3, <2>4
  <2>6. AnswerOwn'
    <3> SUFFICES ASSUME NEW h \in Readers PROVE AnswerOwn!(h)'
      OBVIOUS
    <3>1. rd'[h] \in {"keep", "over"} => rd[h] \in {"keep", "over"}
      BY <2>1, <2>3
    <3> QED
      BY <2>3, <3>1
  <2> QED
    BY <2>5, <2>6
<1>26. ASSUME NEW g \in Readers, ReadOver(g) PROVE Kept'
  BY <1>26 DEF ReadOver
<1>27. ASSUME NEW s \in Uploads \cup Keys, Lapse(s) PROVE Kept'
  BY <1>27 DEF Lapse
<1>28. CASE UNCHANGED vars
  BY <1>28 DEF vars
<1>29. ASSUME NEW d \in Deletes, DeleteVariantFails(d) PROVE Kept'
  BY <1>29 DEF DeleteVariantFails, DelTo, NextTarget
<1>30. ASSUME NEW I \in SUBSET Uploads, DeleteForeignRows(I) PROVE Kept'
  BY <1>30 DEF DeleteForeignRows
<1> HIDE DEF Kept, TypeOK, UploadsKnown, DeletesKnown, ReadsKnown, KeyDrawnOnce, SourceOfKey, VariantOwn
<1> QED
  BY <1>1, <1>2, <1>3, <1>4, <1>5, <1>6, <1>7, <1>8, <1>9, <1>10, <1>11, <1>12, <1>13,
     <1>14, <1>15, <1>16, <1>17, <1>18, <1>19, <1>20, <1>21, <1>22, <1>23, <1>24, <1>25,
     <1>26, <1>27, <1>28, <1>29, <1>30
     DEF Next, Upload, Work, Delete, Read

\* A public read is answered with the bytes of the image whose row it found, unless a key
\* was drawn while in use, or a second time once the row is gone or by the key's route.
THEOREM AnswersOwnCorrect == Spec => []AnswersOwn
<1>1. Spec => []ReadsInv
  BY InitReads, NextReads, PTL DEF Spec
<1>2. ReadsInv => AnswersOwn
  <2> SUFFICES ASSUME ReadsInv, NEW g \in Readers, rd[g] = "over", answer[g] # NoFile,
                      key[found[g]] \notin
                        (IF route[g] = "id" /\ Live(found[g]) THEN reused ELSE recycled)
               PROVE  answer[g] = content[found[g]]
    BY DEF AnswersOwn
  <2>1. key[found[g]] \in Keys
    BY DEF ReadsInv, VariantsInv, SourcesInv, KeysInv, TypeInv, ReadsKnown, UploadsKnown
  <2> QED
    BY <2>1 DEF ReadsInv, AnswerOwn
<1> QED
  BY <1>1, <1>2, PTL
-----------------------------------------------------------------------------
(***************************************************************************)
(* The quota.                                                              *)
(***************************************************************************)
LEMMA InitQuota == Init => QuotaInv
<1> SUFFICES ASSUME Init PROVE QuotaInv
  OBVIOUS
<1>1. {i \in Uploads : Live(i)} = {}
  BY DEF Init, Live
<1>2. IsFiniteSet({i \in Uploads : Live(i)}) /\ Used = 0 /\ 0 <= Quota
  BY <1>1, FS_EmptySet, StoreBounds DEF Used
<1>3. \A u \in Uploads : ~Uncounted(u)
  BY DEF Init, Uncounted
<1> QED
  BY <1>2, <1>3, InitType DEF QuotaInv, RoomKept, QuotaUnlessOverlap

\* A step that adds no row and lets no upload past the check keeps what is known of the quota.
LEMMA QuotaFrame ==
    ASSUME TypeOK, RoomKept, QuotaUnlessOverlap,
           \A i \in Uploads : Live(i)' => Live(i),
           \A u \in Uploads : Uncounted(u)' => Uncounted(u),
           overlap => overlap'
    PROVE  RoomKept' /\ QuotaUnlessOverlap'
<1> DEFINE S == {i \in Uploads : Live(i)}
<1>1. IsFiniteSet(S) /\ S' \subseteq S
  BY DEF RoomKept
<1>2. IsFiniteSet(S') /\ Used' <= Used
  BY <1>1, FS_Subset DEF Used
<1>5. Used \in Nat /\ Used' \in Nat
  BY <1>1, <1>2, FS_CardinalityType DEF Used
<1>3. ASSUME ~overlap' PROVE Used' <= Quota
  BY <1>2, <1>5, <1>3, StoreBounds DEF QuotaUnlessOverlap
<1>4. ASSUME ~overlap', NEW u \in Uploads, Uncounted(u)'
      PROVE  Used' + 1 <= Quota /\ \A v \in Uploads : Uncounted(v)' => v = u
  <2>1. ~overlap /\ Uncounted(u) /\ \A v \in Uploads : Uncounted(v)' => Uncounted(v)
    BY <1>4
  <2>2. Used + 1 <= Quota
    BY <2>1 DEF RoomKept
  <2>3. \A v \in Uploads : Uncounted(v) => v = u
    BY <2>1 DEF RoomKept
  <2>4. Used' + 1 <= Quota
    BY <1>2, <1>5, <2>2, StoreBounds DEF Used
  <2> QED
    BY <2>1, <2>3, <2>4
<1> QED
  BY <1>2, <1>3, <1>4 DEF RoomKept, QuotaUnlessOverlap

LEMMA NextQuota == QuotaInv /\ [Next]_vars => QuotaInv'
<1> DEFINE Kept == RoomKept /\ QuotaUnlessOverlap
<1> SUFFICES ASSUME QuotaInv, [Next]_vars PROVE Kept'
  BY NextType DEF QuotaInv
<1>0. TypeOK /\ UploadsKnown /\ RoomKept /\ QuotaUnlessOverlap
  BY DEF QuotaInv, TypeInv
<1>f. ASSUME \A i \in Uploads : Live(i)' => Live(i), \A u \in Uploads : Uncounted(u)' => Uncounted(u),
             overlap => overlap'
      PROVE  Kept'
  BY <1>0, <1>f, QuotaFrame
<1> HIDE DEF Kept
<1> USE <1>0
    DEF TypeOK, UploadsKnown, Live, Uncounted,
        db, storage, uploads, jobs, deletes, readers, reads, hist
<1>1. ASSUME NEW u \in Uploads, CheckQuota(u) PROVE Kept'
  <2> DEFINE S == {i \in Uploads : Live(i)}
  <2>1. S' = S /\ Used' = Used
    BY <1>1 DEF CheckQuota, Used
  <2>2. IsFiniteSet(S) /\ Used \in Nat
    BY FS_CardinalityType DEF RoomKept, Used
  <2>3. CASE up' = [up EXCEPT ![u] = "refused"]
    BY <1>1, <2>3, <1>f DEF CheckQuota
  <2>4. CASE Used + 1 <= Quota /\ up' = [up EXCEPT ![u] = "dedup"]
    <3>1. ASSUME ~overlap' PROVE \A v \in Uploads : Uncounted(v)' => v = u
      BY <1>1, <2>4, <3>1 DEF CheckQuota
    <3> QED
      BY <1>1, <2>1, <2>2, <2>4, <3>1, StoreBounds DEF CheckQuota, Kept, RoomKept, QuotaUnlessOverlap
  <2> QED
    BY <1>1, <2>3, <2>4 DEF CheckQuota, UpTo
<1>2. ASSUME NEW u \in Uploads, DedupExists(u) PROVE Kept'
  BY <1>2, <1>f DEF DedupExists, UpTo
<1>3. ASSUME NEW u \in Uploads, FetchDedupRow(u) PROVE Kept'
  BY <1>3, <1>f DEF FetchDedupRow, UpTo
<1>4. ASSUME NEW u \in Uploads, NEW k \in Keys, GenerateKey(u, k) PROVE Kept'
  BY <1>4, <1>f DEF GenerateKey, UpTo
<1>5. ASSUME NEW u \in Uploads, PutSource(u) PROVE Kept'
  BY <1>5, <1>f DEF PutSource, UpTo
<1>6. ASSUME NEW u \in Uploads, InsertRow(u) PROVE Kept'
  <2> DEFINE S == {i \in Uploads : Live(i)}
  <2>1. Uncounted(u) /\ ~Live(u) /\ UNCHANGED overlap
    BY <1>6 DEF InsertRow
  <2>2. S' = S \cup {u} /\ u \notin S
    BY <1>6, <2>1 DEF InsertRow, UpTo
  <2>3. IsFiniteSet(S)
    BY DEF RoomKept
  <2> HIDE DEF S
  <2>3a. IsFiniteSet(S \cup {u}) /\ Cardinality(S \cup {u}) = Cardinality(S) + 1
         /\ Cardinality(S) \in Nat
    BY <2>2, <2>3, FS_AddElement, FS_CardinalityType
  <2>4. IsFiniteSet(S') /\ Used' = Used + 1 /\ Used \in Nat
    BY <2>2, <2>3a DEF S, Used
  <2>5. \A v \in Uploads : Uncounted(v)' => Uncounted(v) /\ v # u
    BY <1>6 DEF InsertRow, UpTo
  <2>6. ~overlap => Used + 1 <= Quota /\ \A v \in Uploads : ~Uncounted(v)'
    BY <2>1, <2>5 DEF RoomKept
  <2>7. ~overlap => Used' <= Quota
    BY <2>4, <2>6
  <2>8. RoomKept'
    BY <2>1, <2>4, <2>6 DEF RoomKept, S
  <2>9. QuotaUnlessOverlap'
    BY <2>1, <2>7 DEF QuotaUnlessOverlap
  <2> QED
    BY <2>8, <2>9 DEF Kept
<1>7. ASSUME NEW u \in Uploads, InsertConflict(u) PROVE Kept'
  BY <1>7, <1>f DEF InsertConflict, UpTo
<1>8. ASSUME NEW u \in Uploads, EnqueueTask(u) PROVE Kept'
  BY <1>8, <1>f DEF EnqueueTask, UpTo
<1>9. ASSUME NEW u \in Uploads, UploadStops(u) PROVE Kept'
  BY <1>9, <1>f DEF UploadStops, UpTo
<1>10. ASSUME NEW i \in Uploads, ReadSource(i) PROVE Kept'
  BY <1>10, <1>f DEF ReadSource, JobTo
<1>11. ASSUME NEW i \in Uploads, WriteVariant(i) PROVE Kept'
  BY <1>11, <1>f DEF WriteVariant, JobTo
<1>12. ASSUME NEW i \in Uploads, CommitVariant(i) PROVE Kept'
  BY <1>12, <1>f DEF CommitVariant, JobTo
<1>13. ASSUME NEW i \in Uploads, AttemptFails(i) PROVE Kept'
  BY <1>13, <1>f DEF AttemptFails, JobTo
<1>14. ASSUME NEW i \in Uploads, Nack(i) PROVE Kept'
  BY <1>14, <1>f DEF Nack, JobTo
<1>15. ASSUME NEW i \in Uploads, Redeliver(i) PROVE Kept'
  BY <1>15, <1>f DEF Redeliver, JobTo
<1>16. ASSUME NEW d \in Deletes, NEW I \in SUBSET Uploads, FetchTargets(d, I) PROVE Kept'
  BY <1>16, <1>f DEF FetchTargets, DelTo
<1>17. ASSUME NEW d \in Deletes, DeleteSource(d) PROVE Kept'
  BY <1>17, <1>f DEF DeleteSource, DelTo
<1>18. ASSUME NEW d \in Deletes, DeleteSourceFails(d) PROVE Kept'
  BY <1>18, <1>f DEF DeleteSourceFails, DelTo
<1>19. ASSUME NEW d \in Deletes, DeleteVariant(d) PROVE Kept'
  BY <1>19, <1>f DEF DeleteVariant, DelTo, NextTarget
<1>20. ASSUME NEW d \in Deletes, DeleteRows(d) PROVE Kept'
  BY <1>20, <1>f DEF DeleteRows, DelTo
<1>21. ASSUME NEW d \in Deletes, DeleteStops(d) PROVE Kept'
  BY <1>21, <1>f DEF DeleteStops, DelTo
<1>22. ASSUME NEW g \in Readers, NEW i \in Uploads, NEW r \in {"id", "key", "source"}, Resolve(g, i, r)
      PROVE  Kept'
  BY <1>22, <1>f DEF Resolve
<1>23. ASSUME NEW g \in Readers, CacheGet(g) PROVE Kept'
  BY <1>23, <1>f DEF CacheGet
<1>24. ASSUME NEW g \in Readers, StorageGet(g) PROVE Kept'
  BY <1>24, <1>f DEF StorageGet
<1>25. ASSUME NEW g \in Readers, CacheSet(g) PROVE Kept'
  BY <1>25, <1>f DEF CacheSet
<1>26. ASSUME NEW g \in Readers, ReadOver(g) PROVE Kept'
  BY <1>26, <1>f DEF ReadOver
<1>27. ASSUME NEW s \in Uploads \cup Keys, Lapse(s) PROVE Kept'
  BY <1>27, <1>f DEF Lapse
<1>28. CASE UNCHANGED vars
  BY <1>28, <1>f DEF vars
<1>29. ASSUME NEW d \in Deletes, DeleteVariantFails(d) PROVE Kept'
  BY <1>29, <1>f DEF DeleteVariantFails, DelTo, NextTarget
<1>30. ASSUME NEW I \in SUBSET Uploads, DeleteForeignRows(I) PROVE Kept'
  BY <1>30, <1>f DEF DeleteForeignRows
<1> HIDE DEF TypeOK, UploadsKnown
<1> QED
  BY <1>1, <1>2, <1>3, <1>4, <1>5, <1>6, <1>7, <1>8, <1>9, <1>10, <1>11, <1>12, <1>13,
     <1>14, <1>15, <1>16, <1>17, <1>18, <1>19, <1>20, <1>21, <1>22, <1>23, <1>24, <1>25,
     <1>26, <1>27, <1>28, <1>29, <1>30
     DEF Next, Upload, Work, Delete, Read

\* Only uploads that overlap can exceed the quota.
THEOREM QuotaUnlessOverlapCorrect == Spec => []QuotaUnlessOverlap
<1>1. Spec => []QuotaInv
  BY InitQuota, NextQuota, PTL DEF Spec
<1>2. QuotaInv => QuotaUnlessOverlap
  BY DEF QuotaInv
<1> QED
  BY <1>1, <1>2, PTL
=============================================================================
