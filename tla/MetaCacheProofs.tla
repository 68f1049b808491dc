-------------------------- MODULE MetaCacheProofs --------------------------
(***************************************************************************)
(* Proofs about MetaCache: the type invariant, and that a cached entry     *)
(* nobody is about to delete equals its row unless one of the three named  *)
(* causes applies.                                                         *)
(***************************************************************************)
EXTENDS MetaCache, TLAPS

\* Some request will still delete the entry: it is past its re-fetch, or the
\* re-fetch will find the row.
Owed(i) ==
    \E q \in Requests :
        /\ i \in todo[q]
        /\ req[q] = "clear" \/ (req[q] = "refetch" /\ row[i] # None)

Excused == raced \cup missed \cup silent

\* What a reader is about to store is the current row.
ReadersFresh ==
    \A r \in Readers :
        rd[r] = "fill" => img[r] \in Excused \/ got[r] = row[img[r]]

\* An entry that is not current is owed a DEL.
EntriesFresh ==
    \A i \in Images : i \in Excused \/ Owed(i) \/ entry[i] \in {row[i], None}

\* Only rename_image re-fetches, and it edits one image.
RefetchesOne ==
    \A q \in Requests : req[q] = "refetch" => \A i, j \in todo[q] : i = j

\* StaleAccounted is not inductive: a reader between SELECT and SETEX holds a
\* row the entry will become, and a rename whose image was deleted gives up its
\* invalidation.
FreshInv == TypeOK /\ RefetchesOne /\ ReadersFresh /\ EntriesFresh

-----------------------------------------------------------------------------
\* Changing one column of a row gives a row.
LEMMA RowEdits ==
    ASSUME NEW x \in Rows
    PROVE  /\ \A n \in Names : WithName(x, n) \in Rows /\ WithName(x, n).cat = x.cat
           /\ \A c \in Categories \cup {None} : WithCat(x, c) \in Rows /\ WithCat(x, c).cat = c
           /\ \A s \in {"active", "ready", "failed"} :
                WithStatus(x, s) \in Rows /\ WithStatus(x, s).cat = x.cat
           /\ x # None
  BY CacheNames DEF Rows, WithName, WithCat, WithStatus

LEMMA InitType == Init => TypeOK
  BY CacheNames DEF Init, TypeOK, Rows

LEMMA NextType == TypeOK /\ [Next]_vars => TypeOK'
<1> SUFFICES ASSUME TypeOK, [Next]_vars PROVE TypeOK'
  OBVIOUS
<1> USE DEF TypeOK, db, cache, readers, requests, hist
<1>0. CASE UNCHANGED vars
  BY <1>0 DEF vars
<1>1. ASSUME NEW r \in Readers, NEW i \in Images, CacheMiss(r, i) PROVE TypeOK'
  BY <1>1 DEF CacheMiss
<1>2. ASSUME NEW r \in Readers, NEW i \in Images, CacheGetFails(r, i) PROVE TypeOK'
  BY <1>2 DEF CacheGetFails, Fault
<1>3. ASSUME NEW r \in Readers, FetchRow(r) PROVE TypeOK'
  BY <1>3 DEF FetchRow
<1>4. ASSUME NEW r \in Readers, FetchNotFound(r) PROVE TypeOK'
  BY <1>4 DEF FetchNotFound, ReaderIdle
<1>5. ASSUME NEW r \in Readers, Fill(r) PROVE TypeOK'
  BY <1>5 DEF Fill, ReaderIdle
<1>6. ASSUME NEW r \in Readers, ReadStops(r) PROVE TypeOK'
  BY <1>6 DEF ReadStops, ReaderIdle, Fault
<1>7. ASSUME NEW i \in Images, Expire(i) PROVE TypeOK'
  BY <1>7 DEF Expire
<1>8. ASSUME NEW q \in Requests, NEW i \in Images, NEW c \in Categories \cup {None}, NotFound(q, i, c) PROVE TypeOK'
  BY <1>8 DEF NotFound, ReqTo
<1>9. ASSUME NEW q \in Requests, NEW i \in Images, NEW n \in Names, RenameImage(q, i, n) PROVE TypeOK'
  <2>1. row[i] \in Rows
    BY <1>9 DEF RenameImage
  <2>2. WithName(row[i], n) \in Rows /\ WithName(row[i], n).cat = row[i].cat
    BY <2>1, RowEdits
  <2>3. row' = [row EXCEPT ![i] = WithName(row[i], n)] /\ cats' = cats
    BY <1>9 DEF RenameImage
  <2>4. row' \in [Images -> Rows \cup {None}]
    BY <2>2, <2>3
  <2>5. \A j \in Images : row'[j] # None => row'[j].cat \in cats' \cup {None}
    BY <2>1, <2>2, <2>3, RowEdits, <1>9 DEF RenameImage
  <2> QED
    BY <1>9, <2>4, <2>5 DEF RenameImage, ReqTo, Overtaken
<1>10. ASSUME NEW q \in Requests, Refetch(q) PROVE TypeOK'
  BY <1>10 DEF Refetch, ReqTo
<1>11. ASSUME NEW q \in Requests, NEW i \in Images, NEW c \in Categories \cup {None}, MoveImage(q, i, c) PROVE TypeOK'
  <2>1. row[i] \in Rows
    BY <1>11 DEF MoveImage
  <2>2. WithCat(row[i], c) \in Rows /\ WithCat(row[i], c).cat = c
    BY <2>1, RowEdits
  <2>3. row' = [row EXCEPT ![i] = WithCat(row[i], c)] /\ cats' = cats
    BY <1>11 DEF MoveImage
  <2>4. row' \in [Images -> Rows \cup {None}]
    BY <2>2, <2>3
  <2>5. \A j \in Images : row'[j] # None => row'[j].cat \in cats' \cup {None}
    BY <2>1, <2>2, <2>3, RowEdits, <1>11 DEF MoveImage
  <2> QED
    BY <1>11, <2>4, <2>5 DEF MoveImage, ReqTo, Overtaken
<1>12. ASSUME NEW q \in Requests, NEW S \in SUBSET Images, NEW c \in Categories, BatchMoveImages(q, S, c) PROVE TypeOK'
  <2>0. \A j \in Images : row[j] # None => row[j] \in Rows
    OBVIOUS
  <2>1. \A j \in Images : row[j] # None => WithCat(row[j], c) \in Rows /\ WithCat(row[j], c).cat = c
    <3> SUFFICES ASSUME NEW j \in Images, row[j] # None
                 PROVE  WithCat(row[j], c) \in Rows /\ WithCat(row[j], c).cat = c
      OBVIOUS
    <3>1. c \in Categories \cup {None}
      OBVIOUS
    <3> QED
      BY <2>0, <3>1, RowEdits, ZenonT(40)
  <2>2. row' \in [Images -> Rows \cup {None}]
    BY <1>12, <2>1 DEF BatchMoveImages
  <2>3. \A j \in Images : row'[j] # None => row'[j].cat \in cats' \cup {None}
    BY <1>12, <2>1 DEF BatchMoveImages
  <2> QED
    BY <1>12, <2>2, <2>3 DEF BatchMoveImages, ReqTo, Overtaken
<1>13. ASSUME NEW q \in Requests, NEW S \in SUBSET Images, DeleteImages(q, S) PROVE TypeOK'
  BY <1>13 DEF DeleteImages, ReqTo, Overtaken
<1>14. ASSUME NEW q \in Requests, NEW i \in Images, ClearEntry(q, i) PROVE TypeOK'
  BY <1>14 DEF ClearEntry, Cleared, ReqTo
<1>15. ASSUME NEW q \in Requests, NEW i \in Images, ClearFails(q, i) PROVE TypeOK'
  BY <1>15 DEF ClearFails, Cleared, ReqTo, Fault
<1>16. ASSUME NEW q \in Requests, RequestStops(q) PROVE TypeOK'
  BY <1>16 DEF RequestStops, ReqTo, Fault
<1>17. ASSUME NEW i \in Images, NEW s \in {"ready", "failed"}, WorkerUpdate(i, s) PROVE TypeOK'
  <2>1. row[i] \in Rows
    BY <1>17 DEF WorkerUpdate
  <2>2. WithStatus(row[i], s) \in Rows /\ WithStatus(row[i], s).cat = row[i].cat
    BY <2>1, RowEdits
  <2>3. row' = [row EXCEPT ![i] = WithStatus(row[i], s)] /\ cats' = cats
    BY <1>17 DEF WorkerUpdate
  <2>4. row' \in [Images -> Rows \cup {None}]
    BY <2>2, <2>3
  <2>5. \A j \in Images : row'[j] # None => row'[j].cat \in cats' \cup {None}
    BY <2>1, <2>2, <2>3, RowEdits, <1>17 DEF WorkerUpdate
  <2> QED
    BY <1>17, <2>4, <2>5 DEF WorkerUpdate
<1>18. ASSUME NEW c \in Categories, DeleteCategory(c) PROVE TypeOK'
  <2>1. \A j \in Images :
          row[j] # None => WithCat(row[j], None) \in Rows /\ WithCat(row[j], None).cat = None
    BY RowEdits
  <2>2. row' \in [Images -> Rows \cup {None}]
    BY <1>18, <2>1 DEF DeleteCategory, InCategory
  <2>3. \A j \in Images : row'[j] # None => row'[j].cat \in cats' \cup {None}
    BY <1>18, <2>1 DEF DeleteCategory, InCategory
  <2> QED
    BY <1>18, <2>2, <2>3 DEF DeleteCategory, InCategory
<1> QED
  BY <1>0, <1>1, <1>2, <1>3, <1>4, <1>5, <1>6, <1>7, <1>8, <1>9, <1>10, <1>11, <1>12, <1>13, <1>14, <1>15, <1>16, <1>17, <1>18
     DEF Next, ReadStep, RequestStep, NewRequest

\* Type correctness of the cache model, for any images, readers and requests:
\* among others, a row's category exists and a reader stores a real row.
THEOREM TypeCorrect == Spec => []TypeOK
<1>1. QED
  BY InitType, NextType, PTL DEF Spec

-----------------------------------------------------------------------------
LEMMA InitFresh == Init => FreshInv
  BY InitType DEF Init, FreshInv, RefetchesOne, ReadersFresh, EntriesFresh

\* A handler that changes the rows of S and then owes their DELs keeps the
\* cache accounted for.
LEMMA EditFresh ==
    ASSUME TypeOK, ReadersFresh, EntriesFresh,
           NEW q \in Requests, NEW S \in SUBSET Images, NEW l \in {"clear", "refetch"},
           req[q] = "new", ReqTo(q, l, S),
           \A i \in Images \ S : row'[i] = row[i],
           l = "refetch" => \A i \in S : row'[i] # None,
           raced' = raced \cup Overtaken(S),
           UNCHANGED <<entry, readers, missed, silent>>
    PROVE  ReadersFresh' /\ EntriesFresh'
<1>1. ReadersFresh'
  <2> SUFFICES ASSUME NEW r \in Readers, rd'[r] = "fill"
               PROVE  img'[r] \in Excused' \/ got'[r] = row'[img'[r]]
    BY DEF ReadersFresh
  <2>1. rd[r] = "fill" /\ img'[r] = img[r] /\ got'[r] = got[r] /\ img[r] \in Images
    BY DEF readers, TypeOK
  <2>2. CASE img[r] \in S
    BY <2>1, <2>2 DEF Excused, Overtaken
  <2>3. CASE img[r] \notin S
    BY <2>1, <2>3 DEF Excused, ReadersFresh
  <2> QED
    BY <2>2, <2>3
<1>2. EntriesFresh'
  <2> SUFFICES ASSUME NEW i \in Images
               PROVE  i \in Excused' \/ Owed(i)' \/ entry'[i] \in {row'[i], None}
    BY DEF EntriesFresh
  <2>1. req' = [req EXCEPT ![q] = l] /\ todo' = [todo EXCEPT ![q] = S]
    BY DEF ReqTo
  <2>2. CASE i \in S
    BY <2>1, <2>2 DEF Owed, TypeOK
  <2>3. CASE i \notin S
    <3>1. row'[i] = row[i] /\ entry'[i] = entry[i] /\ Excused \subseteq Excused'
      BY <2>3 DEF Excused
    <3>2. Owed(i) => Owed(i)'
      BY <2>1, <3>1 DEF Owed, TypeOK
    <3> QED
      BY <3>1, <3>2 DEF EntriesFresh
  <2> QED
    BY <2>2, <2>3
<1> QED
  BY <1>1, <1>2

\* So does a change of the rows of S that nobody announces.
LEMMA SilentFresh ==
    ASSUME TypeOK, ReadersFresh, EntriesFresh,
           NEW S \in SUBSET Images,
           \A i \in Images : row'[i] # row[i] => i \in S,
           silent' = silent \cup S,
           UNCHANGED <<entry, readers, requests, raced, missed>>
    PROVE  ReadersFresh' /\ EntriesFresh'
<1>1. ReadersFresh'
  <2> SUFFICES ASSUME NEW r \in Readers, rd'[r] = "fill"
               PROVE  img'[r] \in Excused' \/ got'[r] = row'[img'[r]]
    BY DEF ReadersFresh
  <2>1. rd[r] = "fill" /\ img'[r] = img[r] /\ got'[r] = got[r] /\ img[r] \in Images
    BY DEF readers, TypeOK
  <2> QED
    BY <2>1 DEF Excused, ReadersFresh
<1>2. EntriesFresh'
  BY DEF EntriesFresh, Excused, Owed, requests
<1> QED
  BY <1>1, <1>2

LEMMA NextFresh == FreshInv /\ [Next]_vars => FreshInv'
<1> SUFFICES ASSUME FreshInv, [Next]_vars PROVE FreshInv'
  OBVIOUS
<1> USE DEF db, cache, readers, requests, hist
<1>a. TypeOK /\ RefetchesOne /\ ReadersFresh /\ EntriesFresh
  BY DEF FreshInv
<1>b. TypeOK'
  BY <1>a, NextType
<1> DEFINE Fresh == RefetchesOne /\ ReadersFresh /\ EntriesFresh
<1>0. ASSUME UNCHANGED vars PROVE Fresh'
  BY <1>0, <1>a DEF vars, RefetchesOne, ReadersFresh, EntriesFresh, Excused, Owed
<1>1. ASSUME NEW r \in Readers, NEW i \in Images, CacheMiss(r, i) PROVE Fresh'
  BY <1>1, <1>a DEF CacheMiss, TypeOK, RefetchesOne, ReadersFresh, EntriesFresh, Excused, Owed
<1>2. ASSUME NEW r \in Readers, NEW i \in Images, CacheGetFails(r, i) PROVE Fresh'
  BY <1>2, <1>a DEF CacheGetFails, TypeOK, RefetchesOne, ReadersFresh, EntriesFresh, Excused, Owed
<1>3. ASSUME NEW r \in Readers, FetchRow(r) PROVE Fresh'
  BY <1>3, <1>a DEF FetchRow, TypeOK, RefetchesOne, ReadersFresh, EntriesFresh, Excused, Owed
<1>4. ASSUME NEW r \in Readers, FetchNotFound(r) PROVE Fresh'
  BY <1>4, <1>a DEF FetchNotFound, ReaderIdle, TypeOK, RefetchesOne, ReadersFresh, EntriesFresh, Excused, Owed
<1>5. ASSUME NEW r \in Readers, Fill(r) PROVE Fresh'
  <2>1. RefetchesOne'
    BY <1>5, <1>a DEF Fill, RefetchesOne
  <2>2. ReadersFresh'
    BY <1>5, <1>a DEF Fill, ReaderIdle, TypeOK, ReadersFresh, Excused
  <2>3. EntriesFresh'
    <3>1. img[r] \in Excused \/ got[r] = row[img[r]]
      BY <1>5, <1>a DEF Fill, ReadersFresh
    <3>2. entry' = [entry EXCEPT ![img[r]] = got[r]]
      BY <1>5 DEF Fill
    <3> QED
      BY <1>5, <1>a, <3>1, <3>2 DEF Fill, TypeOK, EntriesFresh, Excused, Owed
  <2> QED
    BY <2>1, <2>2, <2>3
<1>6. ASSUME NEW r \in Readers, ReadStops(r) PROVE Fresh'
  BY <1>6, <1>a DEF ReadStops, ReaderIdle, TypeOK, RefetchesOne, ReadersFresh, EntriesFresh, Excused, Owed
<1>7. ASSUME NEW i \in Images, Expire(i) PROVE Fresh'
  BY <1>7, <1>a DEF Expire, TypeOK, RefetchesOne, ReadersFresh, EntriesFresh, Excused, Owed
<1>8. ASSUME NEW q \in Requests, NEW i \in Images, NEW c \in Categories \cup {None}, NotFound(q, i, c) PROVE Fresh'
  BY <1>8, <1>a DEF NotFound, ReqTo, TypeOK, RefetchesOne, ReadersFresh, EntriesFresh, Excused, Owed
<1>9. ASSUME NEW q \in Requests, NEW i \in Images, NEW n \in Names, RenameImage(q, i, n) PROVE Fresh'
  <2>1. RefetchesOne'
    BY <1>9, <1>a DEF RenameImage, ReqTo, TypeOK, RefetchesOne
  <2>2. row'[i] # None
    <3>1. row[i] \in Rows
      BY <1>9, <1>a DEF RenameImage, TypeOK
    <3>2. WithName(row[i], n) \in Rows
      BY <3>1, RowEdits
    <3> QED
      BY <1>9, <1>a, <3>2, CacheNames DEF RenameImage, TypeOK
  <2>3. \A j \in Images \ {i} : row'[j] = row[j]
    BY <1>9, <1>a DEF RenameImage, TypeOK
  <2>4. ReqTo(q, "refetch", {i}) /\ req[q] = "new" /\ raced' = raced \cup Overtaken({i})
        /\ UNCHANGED <<entry, readers, missed, silent>>
    BY <1>9 DEF RenameImage
  <2>5. ReadersFresh' /\ EntriesFresh'
    BY <1>a, <2>2, <2>3, <2>4, EditFresh
  <2> QED
    BY <2>1, <2>5
<1>10. ASSUME NEW q \in Requests, Refetch(q) PROVE Fresh'
  <2>1. RefetchesOne' /\ ReadersFresh'
    BY <1>10, <1>a DEF Refetch, ReqTo, TypeOK, RefetchesOne, ReadersFresh, Excused
  <2>2. \A i \in Images : Owed(i) => Owed(i)'
    BY <1>10, <1>a DEF Refetch, ReqTo, TypeOK, RefetchesOne, Owed
  <2>3. EntriesFresh'
    BY <1>10, <1>a, <2>2 DEF Refetch, EntriesFresh, Excused
  <2> QED
    BY <2>1, <2>3
<1>11. ASSUME NEW q \in Requests, NEW i \in Images, NEW c \in Categories \cup {None}, MoveImage(q, i, c) PROVE Fresh'
  <2>1. RefetchesOne'
    BY <1>11, <1>a DEF MoveImage, ReqTo, TypeOK, RefetchesOne
  <2>2. \A j \in Images \ {i} : row'[j] = row[j]
    BY <1>11, <1>a DEF MoveImage, TypeOK
  <2>3. ReqTo(q, "clear", {i}) /\ req[q] = "new" /\ raced' = raced \cup Overtaken({i})
        /\ UNCHANGED <<entry, readers, missed, silent>>
    BY <1>11 DEF MoveImage
  <2>4. ReadersFresh' /\ EntriesFresh'
    BY <1>a, <2>2, <2>3, EditFresh
  <2> QED
    BY <2>1, <2>4
<1>12. ASSUME NEW q \in Requests, NEW S \in SUBSET Images, NEW c \in Categories, BatchMoveImages(q, S, c) PROVE Fresh'
  <2>1. RefetchesOne'
    BY <1>12, <1>a DEF BatchMoveImages, ReqTo, TypeOK, RefetchesOne
  <2>2. \A j \in Images \ S : row'[j] = row[j]
    BY <1>12 DEF BatchMoveImages
  <2>3. ReqTo(q, "clear", S) /\ req[q] = "new" /\ raced' = raced \cup Overtaken(S)
        /\ UNCHANGED <<entry, readers, missed, silent>>
    BY <1>12 DEF BatchMoveImages
  <2>4. ReadersFresh' /\ EntriesFresh'
    BY <1>a, <2>2, <2>3, EditFresh
  <2> QED
    BY <2>1, <2>4
<1>13. ASSUME NEW q \in Requests, NEW S \in SUBSET Images, DeleteImages(q, S) PROVE Fresh'
  <2>1. RefetchesOne'
    BY <1>13, <1>a DEF DeleteImages, ReqTo, TypeOK, RefetchesOne
  <2>2. \A j \in Images \ S : row'[j] = row[j]
    BY <1>13 DEF DeleteImages
  <2>3. ReqTo(q, "clear", S) /\ req[q] = "new" /\ raced' = raced \cup Overtaken(S)
        /\ UNCHANGED <<entry, readers, missed, silent>>
    BY <1>13 DEF DeleteImages
  <2>4. ReadersFresh' /\ EntriesFresh'
    BY <1>a, <2>2, <2>3, EditFresh
  <2> QED
    BY <2>1, <2>4
<1>14. ASSUME NEW q \in Requests, NEW i \in Images, ClearEntry(q, i) PROVE Fresh'
  <2>1. RefetchesOne' /\ ReadersFresh'
    BY <1>14, <1>a DEF ClearEntry, Cleared, ReqTo, TypeOK, RefetchesOne, ReadersFresh, Excused
  <2>2. \A j \in Images \ {i} : Owed(j) => Owed(j)'
    BY <1>14, <1>a DEF ClearEntry, Cleared, ReqTo, TypeOK, Owed
  <2>3. EntriesFresh'
    BY <1>14, <1>a, <2>2 DEF ClearEntry, TypeOK, EntriesFresh, Excused
  <2> QED
    BY <2>1, <2>3
<1>15. ASSUME NEW q \in Requests, NEW i \in Images, ClearFails(q, i) PROVE Fresh'
  <2>1. RefetchesOne' /\ ReadersFresh'
    BY <1>15, <1>a DEF ClearFails, Cleared, ReqTo, TypeOK, RefetchesOne, ReadersFresh, Excused
  <2>2. \A j \in Images \ {i} : Owed(j) => Owed(j)'
    BY <1>15, <1>a DEF ClearFails, Cleared, ReqTo, TypeOK, Owed
  <2>3. EntriesFresh'
    BY <1>15, <1>a, <2>2 DEF ClearFails, EntriesFresh, Excused
  <2> QED
    BY <2>1, <2>3
<1>16. ASSUME NEW q \in Requests, RequestStops(q) PROVE Fresh'
  <2>1. RefetchesOne' /\ ReadersFresh'
    BY <1>16, <1>a DEF RequestStops, ReqTo, TypeOK, RefetchesOne, ReadersFresh, Excused
  <2>2. \A j \in Images \ todo[q] : Owed(j) => Owed(j)'
    BY <1>16, <1>a DEF RequestStops, ReqTo, TypeOK, Owed
  <2>3. EntriesFresh'
    BY <1>16, <1>a, <2>2 DEF RequestStops, EntriesFresh, Excused
  <2> QED
    BY <2>1, <2>3
<1>17. ASSUME NEW i \in Images, NEW s \in {"ready", "failed"}, WorkerUpdate(i, s) PROVE Fresh'
  <2>1. RefetchesOne'
    BY <1>17, <1>a DEF WorkerUpdate, RefetchesOne
  <2>2. \A j \in Images : row'[j] # row[j] => j \in {i}
    BY <1>17, <1>a DEF WorkerUpdate, TypeOK
  <2>3. silent' = silent \cup {i} /\ UNCHANGED <<entry, readers, requests, raced, missed>>
    BY <1>17 DEF WorkerUpdate
  <2>4. ReadersFresh' /\ EntriesFresh'
    BY <1>a, <2>2, <2>3, SilentFresh
  <2> QED
    BY <2>1, <2>4
<1>18. ASSUME NEW c \in Categories, DeleteCategory(c) PROVE Fresh'
  <2>1. RefetchesOne'
    BY <1>18, <1>a DEF DeleteCategory, RefetchesOne
  <2>2. \A j \in Images : row'[j] # row[j] => j \in InCategory(c)
    BY <1>18 DEF DeleteCategory
  <2>3. silent' = silent \cup InCategory(c) /\ UNCHANGED <<entry, readers, requests, raced, missed>>
    BY <1>18 DEF DeleteCategory
  <2>4. InCategory(c) \in SUBSET Images
    BY DEF InCategory
  <2>5. ReadersFresh' /\ EntriesFresh'
    BY <1>a, <2>2, <2>3, <2>4, SilentFresh
  <2> QED
    BY <2>1, <2>5
<1>c. Fresh'
  BY <1>0, <1>1, <1>2, <1>3, <1>4, <1>5, <1>6, <1>7, <1>8, <1>9, <1>10, <1>11, <1>12, <1>13, <1>14, <1>15, <1>16, <1>17, <1>18
     DEF Next, ReadStep, RequestStep, NewRequest
<1> QED
  BY <1>b, <1>c DEF FreshInv

\* For any number of images, readers, requests and faults: a cached entry that no
\* handler is still about to delete equals the row, unless a reader overtook the
\* change, a DEL failed or was skipped, or the worker or a deleted category
\* changed the row.
THEOREM StaleAccountedCorrect == Spec => []StaleAccounted
<1>1. FreshInv => StaleAccounted
  BY DEF FreshInv, EntriesFresh, StaleAccounted, Excused, Owed, Clearing
<1>2. QED
  BY InitFresh, NextFresh, <1>1, PTL DEF Spec
=============================================================================
