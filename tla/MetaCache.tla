----------------------------- MODULE MetaCache -----------------------------
(***************************************************************************)
(* The metadata cache of the full deployment (cached_meta of               *)
(* pichost-api/src/cache/mod.rs), read by get_image and invalidated by the *)
(* handlers of pichost-api/src/routes/images.rs that edit or delete rows,  *)
(* while the worker and delete_category change rows without telling it.    *)
(*                                                                         *)
(* A row is what get_image selects: the display name, the category and the *)
(* processing status; one user owns every image.  A cache hit changes no   *)
(* state, so a read is an action only when it misses.                      *)
(***************************************************************************)
EXTENDS Naturals

CONSTANTS
    Images,       \* image ids
    Names,        \* values of original_name
    Categories,   \* category ids
    Readers,      \* get_image requests running at once
    Requests,     \* edit and delete requests
    None,         \* no row, no entry, no category
    MaxFaults     \* bound: failed calls and abandoned requests together

ASSUME CacheBounds == MaxFaults \in Nat

Rows == [name : Names, cat : Categories \cup {None}, status : {"active", "ready", "failed"}]

ASSUME CacheNames == None \notin Rows /\ None \notin Categories /\ None \notin Images

VARIABLES
    \* Postgres
    row,          \* table images
    cats,         \* table categories
    \* Redis
    entry,        \* pichost:meta:{id}
    ttl,          \* entries that carry an expiry
    \* get_image requests
    rd,           \* where the reader is: "idle", "fetch" or "fill"
    img,          \* the image it reads
    got,          \* the row it fetched
    \* edit and delete requests
    req,          \* where the request is: "new", "refetch", "clear" or "over"
    todo,         \* images whose entry it has still to delete
    \* environment
    faults,
    \* history, read by no action
    raced,        \* images changed while a reader was about to store their old row
    missed,       \* images whose invalidation failed or was skipped
    silent        \* images changed by the worker or a deleted category

db       == <<row, cats>>
cache    == <<entry, ttl>>
readers  == <<rd, img, got>>
requests == <<req, todo>>
hist     == <<raced, missed, silent>>
vars     == <<db, cache, readers, requests, faults, hist>>

Init ==
    /\ row \in [Images -> {r \in Rows : r.cat = None /\ r.status = "active"}]
    /\ cats = Categories
    /\ entry = [i \in Images |-> None]
    /\ ttl = {}
    /\ rd = [r \in Readers |-> "idle"]
    /\ img = [r \in Readers |-> None]
    /\ got = [r \in Readers |-> None]
    /\ req = [q \in Requests |-> "new"]
    /\ todo = [q \in Requests |-> {}]
    /\ faults = 0
    /\ raced = {} /\ missed = {} /\ silent = {}

\* An UPDATE of one column.
WithName(x, n)   == [name |-> n, cat |-> x.cat, status |-> x.status]
WithCat(x, c)    == [name |-> x.name, cat |-> c, status |-> x.status]
WithStatus(x, s) == [name |-> x.name, cat |-> x.cat, status |-> s]

Fault == faults < MaxFaults /\ faults' = faults + 1

(***************************************************************************)
(* get_image through cached_meta: GET, on a miss the SELECT, then SETEX.   *)
(***************************************************************************)
\* A miss, ...
CacheMiss(r, i) ==
    /\ rd[r] = "idle"
    /\ entry[i] = None
    /\ rd' = [rd EXCEPT ![r] = "fetch"]
    /\ img' = [img EXCEPT ![r] = i]
    /\ UNCHANGED <<db, cache, got, requests, faults, hist>>

\* ... or a GET that fails and is treated as one.
CacheGetFails(r, i) ==
    /\ rd[r] = "idle"
    /\ entry[i] # None
    /\ Fault
    /\ rd' = [rd EXCEPT ![r] = "fetch"]
    /\ img' = [img EXCEPT ![r] = i]
    /\ UNCHANGED <<db, cache, got, requests, hist>>

ReaderIdle(r) ==
    /\ rd' = [rd EXCEPT ![r] = "idle"]
    /\ img' = [img EXCEPT ![r] = None]
    /\ got' = [got EXCEPT ![r] = None]

FetchRow(r) ==
    /\ rd[r] = "fetch"
    /\ row[img[r]] # None
    /\ got' = [got EXCEPT ![r] = row[img[r]]]
    /\ rd' = [rd EXCEPT ![r] = "fill"]
    /\ UNCHANGED <<db, cache, img, requests, faults, hist>>

FetchNotFound(r) ==
    /\ rd[r] = "fetch"
    /\ row[img[r]] = None
    /\ ReaderIdle(r)
    /\ UNCHANGED <<db, cache, requests, faults, hist>>

\* Mutant: SET instead of SETEX.
FillForever(r) ==
    /\ rd[r] = "fill"
    /\ entry' = [entry EXCEPT ![img[r]] = got[r]]
    /\ ttl' = ttl \ {img[r]}
    /\ ReaderIdle(r)
    /\ UNCHANGED <<db, requests, faults, hist>>

Fill(r) ==
    /\ rd[r] = "fill"
    /\ entry' = [entry EXCEPT ![img[r]] = got[r]]
    /\ ttl' = ttl \cup {img[r]}
    /\ ReaderIdle(r)
    /\ UNCHANGED <<db, requests, faults, hist>>

\* The SELECT or the SETEX fails, or the client goes away.
ReadStops(r) ==
    /\ rd[r] # "idle"
    /\ Fault
    /\ ReaderIdle(r)
    /\ UNCHANGED <<db, cache, requests, hist>>

\* Redis drops the entry once its 600 seconds are over.
Expire(i) ==
    /\ i \in ttl
    /\ entry' = [entry EXCEPT ![i] = None]
    /\ ttl' = ttl \ {i}
    /\ UNCHANGED <<db, readers, requests, faults, hist>>

(***************************************************************************)
(* The handlers that change rows and then delete their entries.            *)
(***************************************************************************)
\* Images of S some reader is about to store as they were.
Overtaken(S) == {i \in S : \E r \in Readers : rd[r] = "fill" /\ img[r] = i}

ReqTo(q, l, S) ==
    /\ req' = [req EXCEPT ![q] = l]
    /\ todo' = [todo EXCEPT ![q] = S]

\* No such image, or no such category to move it to (ensure_category_owned; a
\* category deleted after that check fails the UPDATE by its foreign key).
NotFound(q, i, c) ==
    /\ req[q] = "new"
    /\ row[i] = None \/ c \notin cats \cup {None}
    /\ ReqTo(q, "over", {})
    /\ UNCHANGED <<db, cache, readers, faults, hist>>

\* Mutant: the new name is committed and the entry kept.
RenameForgets(q, i, n) ==
    /\ req[q] = "new"
    /\ row[i] # None
    /\ row' = [row EXCEPT ![i] = WithName(@, n)]
    /\ ReqTo(q, "over", {})
    /\ raced' = raced \cup Overtaken({i})
    /\ UNCHANGED <<cats, cache, readers, faults, missed, silent>>

\* rename_image: the UPDATE; the re-fetch comes before the invalidation.
RenameImage(q, i, n) ==
    /\ req[q] = "new"
    /\ row[i] # None
    /\ row' = [row EXCEPT ![i] = WithName(@, n)]
    /\ ReqTo(q, "refetch", {i})
    /\ raced' = raced \cup Overtaken({i})
    /\ UNCHANGED <<cats, cache, readers, faults, missed, silent>>

\* refetch_image_row: an image deleted meanwhile ends the request here, the
\* delete itself invalidates.
Refetch(q) ==
    /\ req[q] = "refetch"
    /\ IF \E i \in todo[q] : row[i] = None
       THEN ReqTo(q, "over", {})
       ELSE ReqTo(q, "clear", todo[q])
    /\ UNCHANGED <<db, cache, readers, faults, hist>>

\* move_image, to a category the user has or out of any.
MoveImage(q, i, c) ==
    /\ req[q] = "new"
    /\ row[i] # None
    /\ c \in cats \cup {None}
    /\ row' = [row EXCEPT ![i] = WithCat(@, c)]
    /\ ReqTo(q, "clear", {i})
    /\ raced' = raced \cup Overtaken({i})
    /\ UNCHANGED <<cats, cache, readers, faults, missed, silent>>

\* batch_move_images: one UPDATE, then a DEL for every id of the request.
BatchMoveImages(q, S, c) ==
    /\ req[q] = "new"
    /\ S # {} /\ c \in cats
    /\ row' = [i \in Images |->
                 IF i \in S /\ row[i] # None THEN WithCat(row[i], c) ELSE row[i]]
    /\ ReqTo(q, "clear", S)
    /\ raced' = raced \cup Overtaken(S)
    /\ UNCHANGED <<cats, cache, readers, faults, missed, silent>>

\* delete_image (one id) and batch_delete: one DELETE, then the DELs.
DeleteImages(q, S) ==
    /\ req[q] = "new"
    /\ S # {}
    /\ row' = [i \in Images |-> IF i \in S THEN None ELSE row[i]]
    /\ ReqTo(q, "clear", S)
    /\ raced' = raced \cup Overtaken(S)
    /\ UNCHANGED <<cats, cache, readers, faults, missed, silent>>

Cleared(q, i) ==
    ReqTo(q, IF todo[q] = {i} THEN "over" ELSE "clear", todo[q] \ {i})

ClearEntry(q, i) ==
    /\ req[q] = "clear"
    /\ i \in todo[q]
    /\ Cleared(q, i)
    /\ entry' = [entry EXCEPT ![i] = None]
    /\ ttl' = ttl \ {i}
    /\ UNCHANGED <<db, readers, faults, hist>>

\* The error of the DEL is ignored.
ClearFails(q, i) ==
    /\ req[q] = "clear"
    /\ i \in todo[q]
    /\ Fault
    /\ Cleared(q, i)
    /\ missed' = missed \cup {i}
    /\ UNCHANGED <<db, cache, readers, raced, silent>>

\* A statement fails and its early return skips the DEL, or the client goes away
\* and the handler is dropped.
RequestStops(q) ==
    /\ req[q] # "over"
    /\ Fault
    /\ missed' = missed \cup todo[q]
    /\ ReqTo(q, "over", {})
    /\ UNCHANGED <<db, cache, readers, raced, silent>>

(***************************************************************************)
(* Changes that leave the cache alone.                                     *)
(***************************************************************************)
\* update_image_record and handle_dead_letter; with a task delivered twice they
\* may follow each other in either order.
WorkerUpdate(i, s) ==
    /\ row[i] # None
    /\ row[i].status # s
    /\ row' = [row EXCEPT ![i] = WithStatus(@, s)]
    /\ silent' = silent \cup {i}
    /\ UNCHANGED <<cats, cache, readers, requests, faults, raced, missed>>

\* Mutant: images of the deleted category keep pointing to it.
DropCategoryOnly(c) ==
    /\ c \in cats
    /\ cats' = cats \ {c}
    /\ UNCHANGED <<row, cache, readers, requests, faults, hist>>

InCategory(c) == {i \in Images : row[i] # None /\ row[i].cat = c}

\* delete_category, with ON DELETE SET NULL.
DeleteCategory(c) ==
    /\ c \in cats
    /\ cats' = cats \ {c}
    /\ row' = [i \in Images |->
                 IF i \in InCategory(c) THEN WithCat(row[i], None) ELSE row[i]]
    /\ silent' = silent \cup InCategory(c)
    /\ UNCHANGED <<cache, readers, requests, faults, raced, missed>>

-----------------------------------------------------------------------------
ReadStep(r) == FetchRow(r) \/ FetchNotFound(r) \/ Fill(r)

RequestStep(q) == Refetch(q) \/ \E i \in Images : ClearEntry(q, i)

NewRequest(q) ==
    \/ \E i \in Images :
          \/ \E n \in Names : RenameImage(q, i, n)
          \/ \E c \in Categories \cup {None} : NotFound(q, i, c) \/ MoveImage(q, i, c)
    \/ \E S \in SUBSET Images :
          DeleteImages(q, S) \/ \E c \in Categories : BatchMoveImages(q, S, c)

Next ==
    \/ \E r \in Readers :
          \/ ReadStep(r) \/ ReadStops(r)
          \/ \E i \in Images : CacheMiss(r, i) \/ CacheGetFails(r, i)
    \/ \E q \in Requests :
          \/ NewRequest(q) \/ RequestStep(q) \/ RequestStops(q)
          \/ \E i \in Images : ClearFails(q, i)
    \/ \E i \in Images : Expire(i) \/ \E s \in {"ready", "failed"} : WorkerUpdate(i, s)
    \/ \E c \in Categories : DeleteCategory(c)

Spec == Init /\ [][Next]_vars

(***************************************************************************)
(* Fairness: a request that was begun goes on (its future is polled), and  *)
(* Redis expires what has an expiry.  Nobody has to read or edit.          *)
(***************************************************************************)
FairSpec ==
    /\ Spec
    /\ \A r \in Readers : WF_vars(ReadStep(r))
    /\ \A q \in Requests : WF_vars(RequestStep(q))
    /\ \A i \in Images : WF_vars(Expire(i))

-----------------------------------------------------------------------------
\* Type invariant; a row's category exists (the foreign key), and a reader past
\* its fetch holds a row.
TypeOK ==
    /\ row \in [Images -> Rows \cup {None}]
    /\ cats \in SUBSET Categories
    /\ entry \in [Images -> Rows \cup {None}]
    /\ ttl \in SUBSET Images
    /\ rd \in [Readers -> {"idle", "fetch", "fill"}]
    /\ img \in [Readers -> Images \cup {None}]
    /\ got \in [Readers -> Rows \cup {None}]
    /\ req \in [Requests -> {"new", "refetch", "clear", "over"}]
    /\ todo \in [Requests -> SUBSET Images]
    /\ faults \in Nat
    /\ raced \in SUBSET Images
    /\ missed \in SUBSET Images
    /\ silent \in SUBSET Images
    /\ \A r \in Readers : rd[r] # "idle" => img[r] \in Images
    /\ \A r \in Readers : rd[r] = "fill" => got[r] \in Rows
    /\ \A i \in Images : row[i] # None => row[i].cat \in cats \cup {None}

Clearing(i) == \E q \in Requests : i \in todo[q]

\* Once every handler that changed an image has deleted its entry, an entry
\* equals the row: UPDATE-then-DEL suffices unless a reader that fetched before
\* a change stores after it (raced), a DEL failed or was skipped (missed), or
\* the change came from the worker or a deleted category (silent).
StaleAccounted ==
    \A i \in Images \ (raced \cup missed \cup silent) :
        ~Clearing(i) => entry[i] \in {row[i], None}

\* Every stale entry goes away, whatever was raced, missed or silent and however
\* often the row is read or changed meanwhile.
EventuallyFresh ==
    \A i \in Images : entry[i] \notin {row[i], None} ~> entry[i] \in {row[i], None}
=============================================================================
