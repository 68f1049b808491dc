----------------------------- MODULE ImageStore -----------------------------
(***************************************************************************)
(* One user's images: the images table and the storage backend, with the   *)
(* upload requests (pichost-api/src/services/upload.rs), the worker's      *)
(* pipeline (pichost-worker/src/pipeline.rs) and the delete requests       *)
(* (pichost-api/src/routes/images.rs) that change them concurrently, and   *)
(* the public read requests with their cache of thumbnails.  No operation  *)
(* runs in a transaction: every SQL statement and every storage call is a  *)
(* step of its own.                                                        *)
(*                                                                         *)
(* An image is named by the upload that creates it.  Every file has size   *)
(* one, so the quota counts images.  The thumbnail and the WebP copy of an *)
(* image are one "variant": they are written, recorded and removed         *)
(* together.  The storage config is the local pseudo-config, the only one  *)
(* validate_upload_configs lets through alone.                             *)
(***************************************************************************)
EXTENDS Integers, FiniteSets

CONSTANTS
    Uploads,      \* upload requests
    Contents,     \* what they carry (sha256)
    Keys,         \* public keys generate_public_key can draw
    Deletes,      \* delete requests
    Readers,      \* public read requests
    Quota,        \* storage_quota of the user, in images
    MaxTries,     \* attempts a task gets before it is dead-lettered
    MaxEvents     \* bound: reads, failed calls, abandoned requests and other users'
                  \* batch deletes together

ASSUME StoreBounds == Quota \in Nat /\ MaxTries \in Nat /\ MaxEvents \in Nat

NoFile == "no file"
NoKey == "no key"
NoImage == "no image"
ASSUME StoreNames == NoFile \notin Contents /\ NoKey \notin Keys /\ NoImage \notin Uploads

\* thumb:{id} and thumb:pk:{key} are different keys of Redis.
ASSUME SlotsApart == Uploads \cap Keys = {}

VARIABLES
    \* table images
    status,       \* status column; "none" before the INSERT, "deleted" after the DELETE
    recorded,     \* images whose thumbnail_key and webp_key are set
    \* storage
    file,         \* the source file stored under each public key
    variant,      \* the content each image's variant was made from
    \* upload requests
    up,           \* where the request is
    content,      \* what it carries
    key,          \* the public key it drew; also column public_key of its image
    \* the worker
    job,          \* where the image's task is
    tries,        \* attempts begun
    read,         \* the content the running attempt read
    \* delete requests
    del,          \* where the request is
    batch,        \* the images it deletes
    rest,         \* those of them whose files it has not come to yet
    target,       \* the one whose files it removes
    seen,         \* seen[d]: the fetched rows that had variant keys
    \* public reads
    cached,       \* thumbnails in Redis, under an image's id or under a public key
    rd,           \* where the request is
    route,        \* by "id" or by "key" for the variant, "source" for the source
    found,        \* the image whose row it found
    answer,       \* what it will send
    \* environment
    events,
    \* history, read by no action
    overlap,      \* two uploads were between quota check and INSERT at once
    reused,       \* keys drawn while another request still used them
    recycled,     \* keys drawn a second time
    leaked,       \* keys whose upload or delete stopped half-way
    touched,      \* images some delete request fetched
    raced,        \* images fetched for deletion before their keys were recorded, or
                  \* whose task ran again after the fetch
    left,         \* images with a variant that a delete failed to remove
    disowned      \* images whose row another user's batch delete removed

db      == <<status, recorded>>
storage == <<file, variant>>
uploads == <<up, content, key>>
jobs    == <<job, tries, read>>
deletes == <<del, batch, rest, target, seen>>
readers == <<rd, route, found, answer>>
reads   == <<cached, readers>>
hist    == <<overlap, reused, recycled, leaked, touched, raced, left, disowned>>
vars    == <<db, storage, uploads, jobs, deletes, reads, events, hist>>

Live(i) == status[i] \in {"active", "ready", "failed"}
Used == Cardinality({i \in Uploads : Live(i)})

\* Past the quota check, before the INSERT.
Uncounted(u) == up[u] \in {"dedup", "dedupfetch", "keygen", "put", "insert"}
HoldsKey(u) == up[u] \in {"put", "insert"}
Cleaning(d) == del[d] \in {"source", "variant", "row"}

Init ==
    /\ status = [i \in Uploads |-> "none"]
    /\ recorded = {}
    /\ file = [k \in Keys |-> NoFile]
    /\ variant = [i \in Uploads |-> NoFile]
    /\ up = [u \in Uploads |-> "new"]
    /\ content \in [Uploads -> Contents]
    /\ key = [u \in Uploads |-> NoKey]
    /\ job = [i \in Uploads |-> "none"]
    /\ tries = [i \in Uploads |-> 0]
    /\ read = [i \in Uploads |-> NoFile]
    /\ del = [d \in Deletes |-> "new"]
    /\ batch = [d \in Deletes |-> {}]
    /\ rest = [d \in Deletes |-> {}]
    /\ target = [d \in Deletes |-> NoImage]
    /\ seen = [d \in Deletes |-> {}]
    /\ cached = [s \in Uploads \cup Keys |-> NoFile]
    /\ rd = [g \in Readers |-> "new"]
    /\ route = [g \in Readers |-> "id"]
    /\ found = [g \in Readers |-> NoImage]
    /\ answer = [g \in Readers |-> NoFile]
    /\ events = 0
    /\ overlap = FALSE
    /\ reused = {} /\ recycled = {} /\ leaked = {} /\ touched = {} /\ raced = {}
    /\ left = {} /\ disowned = {}

(***************************************************************************)
(* process_upload                                                          *)
(***************************************************************************)
UpTo(u, l) == up' = [up EXCEPT ![u] = l]

\* Mutant: the size of the new file is not counted.
CheckQuotaBefore(u) ==
    /\ up[u] = "new"
    /\ \/ Used <= Quota /\ UpTo(u, "dedup")
       \/ Used > Quota /\ UpTo(u, "refused")
    /\ overlap' = (overlap \/ \E v \in Uploads \ {u} : Uncounted(v))
    /\ UNCHANGED <<db, storage, content, key, jobs, deletes, reads, events, reused, recycled, leaked,
                   touched, raced, left, disowned>>

\* check_upload_quotas: SUM(file_size) + size > quota is refused.
CheckQuota(u) ==
    /\ up[u] = "new"
    /\ \/ Used + 1 <= Quota /\ UpTo(u, "dedup")
       \/ Used + 1 > Quota /\ UpTo(u, "refused")
    /\ overlap' = (overlap \/ \E v \in Uploads \ {u} : Uncounted(v))
    /\ UNCHANGED <<db, storage, content, key, jobs, deletes, reads, events, reused, recycled, leaked,
                   touched, raced, left, disowned>>

SameContent(u) == {i \in Uploads : Live(i) /\ content[i] = content[u]}

\* dedup_exists
DedupExists(u) ==
    /\ up[u] = "dedup"
    /\ \/ SameContent(u) # {} /\ UpTo(u, "dedupfetch")
       \/ SameContent(u) = {} /\ UpTo(u, "keygen")
    /\ UNCHANGED <<db, storage, content, key, jobs, deletes, reads, events, hist>>

\* fetch_dedup_row: fetch_one fails when the row is gone meanwhile.
FetchDedupRow(u) ==
    /\ up[u] = "dedupfetch"
    /\ UpTo(u, IF SameContent(u) # {} THEN "done" ELSE "failed")
    /\ UNCHANGED <<db, storage, content, key, jobs, deletes, reads, events, hist>>

\* Mutant: the drawn key is not looked up.
GenerateAnyKey(u, k) ==
    /\ up[u] = "keygen"
    /\ UpTo(u, "put")
    /\ key' = [key EXCEPT ![u] = k]
    /\ reused' = reused \cup
         {q \in {k} : \/ \E v \in Uploads \ {u} : HoldsKey(v) /\ key[v] = k
                      \/ \E d \in Deletes : Cleaning(d) /\ \E i \in batch[d] : key[i] = k}
    /\ recycled' = recycled \cup {q \in {k} : \E v \in Uploads \ {u} : key[v] = k}
    /\ UNCHANGED <<db, storage, content, jobs, deletes, reads, events, overlap, leaked, touched,
                   raced, left, disowned>>

\* generate_public_key: draw until no row has the key.
GenerateKey(u, k) ==
    /\ up[u] = "keygen"
    /\ \A i \in Uploads : Live(i) => key[i] # k
    /\ UpTo(u, "put")
    /\ key' = [key EXCEPT ![u] = k]
    /\ reused' = reused \cup
         {q \in {k} : \/ \E v \in Uploads \ {u} : HoldsKey(v) /\ key[v] = k
                      \/ \E d \in Deletes : Cleaning(d) /\ \E i \in batch[d] : key[i] = k}
    /\ recycled' = recycled \cup {q \in {k} : \E v \in Uploads \ {u} : key[v] = k}
    /\ UNCHANGED <<db, storage, content, jobs, deletes, reads, events, overlap, leaked, touched,
                   raced, left, disowned>>

\* write_to_storage
PutSource(u) ==
    /\ up[u] = "put"
    /\ UpTo(u, "insert")
    /\ file' = [file EXCEPT ![key[u]] = content[u]]
    /\ UNCHANGED <<db, variant, content, key, jobs, deletes, reads, events, hist>>

\* insert_image_record under UNIQUE(user_id, sha256) and UNIQUE(public_key)
Unique(u) == \A i \in Uploads : Live(i) => content[i] # content[u] /\ key[i] # key[u]

InsertRow(u) ==
    /\ up[u] = "insert"
    /\ Unique(u)
    /\ UpTo(u, "enqueue")
    /\ status' = [status EXCEPT ![u] = "active"]
    /\ UNCHANGED <<recorded, storage, content, key, jobs, deletes, reads, events, hist>>

\* The violated index makes the request fail; the stored file stays.
InsertConflict(u) ==
    /\ up[u] = "insert"
    /\ ~Unique(u)
    /\ UpTo(u, "failed")
    /\ leaked' = leaked \cup {key[u]}
    /\ UNCHANGED <<db, storage, content, key, jobs, deletes, reads, events, overlap, reused, recycled,
                   touched, raced, left, disowned>>

\* enqueue_processing_task
EnqueueTask(u) ==
    /\ up[u] = "enqueue"
    /\ UpTo(u, "done")
    /\ job' = [job EXCEPT ![u] = "queued"]
    /\ UNCHANGED <<db, storage, content, key, tries, read, deletes, reads, events, hist>>

\* A call returns an error, or the client goes away and axum drops the handler.
\* After the INSERT only the enqueue is lost, and that error is only logged.
UploadStops(u) ==
    /\ up[u] \notin {"new", "refused", "failed", "done"}
    /\ events < MaxEvents /\ events' = events + 1
    /\ UpTo(u, IF up[u] = "enqueue" THEN "done" ELSE "failed")
    /\ leaked' = leaked \cup {k \in {key[u]} : up[u] = "insert"}
    /\ UNCHANGED <<db, storage, content, key, jobs, deletes, reads, overlap, reused, recycled, touched,
                   raced, left, disowned>>

(***************************************************************************)
(* process_task, run by a worker for the image's task                      *)
(***************************************************************************)
JobTo(i, l) == job' = [job EXCEPT ![i] = l]

\* read_source_image
ReadSource(i) ==
    /\ job[i] = "queued"
    /\ tries' = [tries EXCEPT ![i] = @ + 1]
    /\ read' = [read EXCEPT ![i] = file[key[i]]]
    /\ JobTo(i, IF file[key[i]] = NoFile THEN "error" ELSE "read")
    /\ UNCHANGED <<db, storage, uploads, deletes, reads, events, hist>>

\* Mutant: the variant is recorded although nothing was written.
SkipVariant(i) ==
    /\ job[i] = "read"
    /\ JobTo(i, "written")
    /\ UNCHANGED <<db, storage, uploads, tries, read, deletes, reads, events, hist>>

\* process_image_variants
WriteVariant(i) ==
    /\ job[i] = "read"
    /\ JobTo(i, "written")
    /\ variant' = [variant EXCEPT ![i] = read[i]]
    /\ UNCHANGED <<db, file, uploads, tries, read, deletes, reads, events, hist>>

\* update_image_record: UPDATE ... WHERE id matches no row after a delete.
CommitVariant(i) ==
    /\ job[i] = "written"
    /\ JobTo(i, "over")
    /\ status' = [status EXCEPT ![i] = IF Live(i) THEN "ready" ELSE @]
    /\ recorded' = recorded \cup {j \in {i} : Live(j)}
    /\ UNCHANGED <<storage, uploads, tries, read, deletes, reads, events, hist>>

\* A storage call or a query of the attempt fails, or the attempt times out.
AttemptFails(i) ==
    /\ job[i] \in {"read", "written"}
    /\ events < MaxEvents /\ events' = events + 1
    /\ JobTo(i, "error")
    /\ UNCHANGED <<db, storage, uploads, tries, read, deletes, reads, hist>>

\* nack: another attempt, or the dead letter, which marks the image failed
\* unless the attempt timed out.
Nack(i) ==
    /\ job[i] = "error"
    /\ \/ /\ tries[i] < MaxTries
          /\ JobTo(i, "queued")
          /\ UNCHANGED status
       \/ /\ tries[i] >= MaxTries
          /\ JobTo(i, "over")
          /\ \/ status' = [status EXCEPT ![i] = IF Live(i) THEN "failed" ELSE @]
             \/ UNCHANGED status
    /\ UNCHANGED <<recorded, storage, uploads, tries, read, deletes, reads, events, hist>>

\* The queue delivers at least once: the worker stopped before its ack, or the
\* deadline fired after the UPDATE, and the task runs again.
Redeliver(i) ==
    /\ job[i] = "over"
    /\ events < MaxEvents /\ events' = events + 1
    /\ JobTo(i, "queued")
    /\ raced' = raced \cup ({i} \cap touched)
    /\ UNCHANGED <<db, storage, uploads, tries, read, deletes, reads, overlap, reused, recycled, leaked,
                   touched, left, disowned>>

(***************************************************************************)
(* delete_image                                                            *)
(***************************************************************************)
DelTo(d, l) == del' = [del EXCEPT ![d] = l]

\* fetch_delete_target, fetch_batch_delete_targets
FetchTargets(d, I) ==
    /\ del[d] = "new"
    /\ \A i \in I : Live(i)
    /\ DelTo(d, "source")
    /\ batch' = [batch EXCEPT ![d] = I]
    /\ \E i \in I : /\ target' = [target EXCEPT ![d] = i]
                    /\ rest' = [rest EXCEPT ![d] = I \ {i}]
    /\ seen' = [seen EXCEPT ![d] = I \cap recorded]
    /\ touched' = touched \cup I
    /\ raced' = raced \cup {i \in I : i \notin recorded \/ job[i] # "over"}
    /\ UNCHANGED <<db, storage, uploads, jobs, reads, events, overlap, reused, recycled, leaked,
                   left, disowned>>

\* Mutant: only the variant is cleaned up.
KeepSource(d) ==
    /\ del[d] = "source"
    /\ DelTo(d, "variant")
    /\ UNCHANGED <<db, storage, uploads, jobs, batch, rest, target, seen, reads, events, hist>>

\* cleanup_storage_files: the source ...
DeleteSource(d) ==
    /\ del[d] = "source"
    /\ DelTo(d, "variant")
    /\ file' = [file EXCEPT ![key[target[d]]] = NoFile]
    /\ UNCHANGED <<db, variant, uploads, jobs, batch, rest, target, seen, reads, events, hist>>

\* ... whose error is ignored, ...
DeleteSourceFails(d) ==
    /\ del[d] = "source"
    /\ events < MaxEvents /\ events' = events + 1
    /\ DelTo(d, "variant")
    /\ leaked' = leaked \cup {key[target[d]]}
    /\ UNCHANGED <<db, storage, uploads, jobs, batch, rest, target, seen, reads, overlap, reused,
                   recycled, touched, raced, left, disowned>>

\* The next image of a batch, or the rows.
NextTarget(d) ==
    \/ rest[d] = {} /\ DelTo(d, "row") /\ UNCHANGED <<target, rest>>
    \/ \E i \in rest[d] :
          /\ DelTo(d, "source")
          /\ target' = [target EXCEPT ![d] = i]
          /\ rest' = [rest EXCEPT ![d] = @ \ {i}]

\* Mutant: the variant is not cleaned up.
KeepVariant(d) ==
    /\ del[d] = "variant"
    /\ NextTarget(d)
    /\ UNCHANGED <<db, storage, uploads, jobs, batch, seen, reads, events, hist>>

\* ... and the variant, if the fetched row named one.
DeleteVariant(d) ==
    /\ del[d] = "variant"
    /\ NextTarget(d)
    /\ variant' = [variant EXCEPT ![target[d]] = IF target[d] \in seen[d] THEN NoFile ELSE @]
    /\ UNCHANGED <<db, file, uploads, jobs, batch, seen, reads, events, hist>>

\* ... and whose error is ignored as well.
DeleteVariantFails(d) ==
    /\ del[d] = "variant" /\ target[d] \in seen[d]
    /\ events < MaxEvents /\ events' = events + 1
    /\ NextTarget(d)
    /\ left' = left \cup {target[d]}
    /\ UNCHANGED <<db, storage, uploads, jobs, batch, seen, reads, overlap, reused, recycled, leaked,
                   touched, raced, disowned>>

\* DELETE FROM images WHERE id = $1, or WHERE id IN the batch.
DeleteRows(d) ==
    /\ del[d] = "row"
    /\ DelTo(d, "done")
    /\ status' = [i \in Uploads |-> IF i \in batch[d] THEN "deleted" ELSE status[i]]
    /\ recorded' = recorded \ batch[d]
    /\ UNCHANGED <<storage, uploads, jobs, batch, rest, target, seen, reads, events, hist>>

\* batch_delete by a user who neither owns the images nor is an administrator.
\* fetch_batch_delete_targets finds none of their rows, so no file is removed and
\* nothing changes before the DELETE, which takes every id of the body and does
\* not ask whose the row is.
DeleteForeignRows(I) ==
    /\ I # {} /\ \A i \in I : Live(i)
    /\ events < MaxEvents /\ events' = events + 1
    /\ status' = [i \in Uploads |-> IF i \in I THEN "deleted" ELSE status[i]]
    /\ recorded' = recorded \ I
    /\ disowned' = disowned \cup I
    /\ UNCHANGED <<storage, uploads, jobs, deletes, reads, overlap, reused, recycled, leaked, touched,
                   raced, left>>

\* The DELETE fails, or the client goes away.
DeleteStops(d) ==
    /\ Cleaning(d)
    /\ events < MaxEvents /\ events' = events + 1
    /\ DelTo(d, "stopped")
    /\ UNCHANGED <<db, storage, uploads, jobs, batch, rest, target, seen, reads, hist>>

(***************************************************************************)
(* public_get, public_get_thumb, public_get_thumb_by_key, public_get_webp. *)
(* A request that finds no row, or no keys in it, is answered at once and  *)
(* changes nothing.                                                        *)
(***************************************************************************)
Served(i) == status[i] \in {"active", "ready"}

Resolve(g, i, r) ==
    /\ rd[g] = "new"
    /\ events < MaxEvents /\ events' = events + 1
    /\ Served(i) /\ (r # "source" => i \in recorded)
    /\ rd' = [rd EXCEPT ![g] = IF r = "source" THEN "fetch" ELSE "lookup"]
    /\ route' = [route EXCEPT ![g] = r]
    /\ found' = [found EXCEPT ![g] = i]
    /\ UNCHANGED <<db, storage, uploads, jobs, deletes, cached, answer, hist>>

\* Mutant: both routes share the entry of the public key.
SlotShared(g) == key[found[g]]

\* thumb:{id}, webp:{id} or thumb:pk:{key}
Slot(g) == IF route[g] = "id" THEN found[g] ELSE key[found[g]]

\* cached_thumb: an entry is the answer; an error of Redis counts as a miss.
CacheGet(g) ==
    /\ rd[g] = "lookup"
    /\ \/ /\ cached[Slot(g)] # NoFile
          /\ rd' = [rd EXCEPT ![g] = "over"]
          /\ answer' = [answer EXCEPT ![g] = cached[Slot(g)]]
       \/ /\ rd' = [rd EXCEPT ![g] = "fetch"]
          /\ UNCHANGED answer
    /\ UNCHANGED <<db, storage, uploads, jobs, deletes, cached, route, found, events, hist>>

\* The file the row named; without it the answer is an error.
StorageGet(g) ==
    LET bytes == IF route[g] = "source" THEN file[key[found[g]]] ELSE variant[found[g]] IN
    /\ rd[g] = "fetch"
    /\ answer' = [answer EXCEPT ![g] = bytes]
    /\ rd' = [rd EXCEPT ![g] = IF route[g] = "source" \/ bytes = NoFile THEN "over" ELSE "keep"]
    /\ UNCHANGED <<db, storage, uploads, jobs, deletes, cached, route, found, events, hist>>

\* SETEX with 3600 seconds, best effort.
CacheSet(g) ==
    /\ rd[g] = "keep"
    /\ rd' = [rd EXCEPT ![g] = "over"]
    /\ cached' \in {cached, [cached EXCEPT ![Slot(g)] = answer[g]]}
    /\ UNCHANGED <<db, storage, uploads, jobs, deletes, route, found, answer, events, hist>>

\* The answer is sent, and the next request comes.
ReadOver(g) ==
    /\ rd[g] = "over"
    /\ rd' = [rd EXCEPT ![g] = "new"]
    /\ route' = [route EXCEPT ![g] = "id"]
    /\ found' = [found EXCEPT ![g] = NoImage]
    /\ answer' = [answer EXCEPT ![g] = NoFile]
    /\ UNCHANGED <<db, storage, uploads, jobs, deletes, cached, events, hist>>

\* The TTL of an entry ends; nothing else removes it.
Lapse(s) ==
    /\ cached[s] # NoFile
    /\ cached' = [cached EXCEPT ![s] = NoFile]
    /\ UNCHANGED <<db, storage, uploads, jobs, deletes, readers, events, hist>>

-----------------------------------------------------------------------------
Upload(u) ==
    \/ CheckQuota(u) \/ DedupExists(u) \/ FetchDedupRow(u) \/ PutSource(u)
    \/ InsertRow(u) \/ InsertConflict(u) \/ EnqueueTask(u) \/ UploadStops(u)
    \/ \E k \in Keys : GenerateKey(u, k)

Work(i) ==
    \/ ReadSource(i) \/ WriteVariant(i) \/ CommitVariant(i) \/ AttemptFails(i)
    \/ Nack(i) \/ Redeliver(i)

Delete(d) ==
    \/ \E I \in SUBSET Uploads : FetchTargets(d, I)
    \/ DeleteSource(d) \/ DeleteSourceFails(d) \/ DeleteVariant(d) \/ DeleteVariantFails(d)
    \/ DeleteRows(d) \/ DeleteStops(d)

Read(g) ==
    \/ \E i \in Uploads, r \in {"id", "key", "source"} : Resolve(g, i, r)
    \/ CacheGet(g) \/ StorageGet(g) \/ CacheSet(g) \/ ReadOver(g)

Next ==
    \/ \E u \in Uploads : Upload(u) \/ Work(u)
    \/ \E d \in Deletes : Delete(d)
    \/ \E I \in SUBSET Uploads : DeleteForeignRows(I)
    \/ \E g \in Readers : Read(g)
    \/ \E s \in Uploads \cup Keys : Lapse(s)

Spec == Init /\ [][Next]_vars

-----------------------------------------------------------------------------
\* Type invariant of the table, the storage and the three kinds of process.
TypeOK ==
    /\ status \in [Uploads -> {"none", "active", "ready", "failed", "deleted"}]
    /\ recorded \in SUBSET Uploads
    /\ file \in [Keys -> Contents \cup {NoFile}]
    /\ variant \in [Uploads -> Contents \cup {NoFile}]
    /\ up \in [Uploads -> {"new", "dedup", "dedupfetch", "keygen", "put", "insert",
                           "enqueue", "refused", "failed", "done"}]
    /\ content \in [Uploads -> Contents]
    /\ key \in [Uploads -> Keys \cup {NoKey}]
    /\ job \in [Uploads -> {"none", "queued", "read", "written", "error", "over"}]
    /\ tries \in [Uploads -> Nat]
    /\ read \in [Uploads -> Contents \cup {NoFile}]
    /\ del \in [Deletes -> {"new", "source", "variant", "row", "done", "stopped"}]
    /\ batch \in [Deletes -> SUBSET Uploads] /\ rest \in [Deletes -> SUBSET Uploads]
    /\ target \in [Deletes -> Uploads \cup {NoImage}]
    /\ seen \in [Deletes -> SUBSET Uploads]
    /\ cached \in [Uploads \cup Keys -> Contents \cup {NoFile}]
    /\ rd \in [Readers -> {"new", "lookup", "fetch", "keep", "over"}]
    /\ route \in [Readers -> {"id", "key", "source"}]
    /\ found \in [Readers -> Uploads \cup {NoImage}]
    /\ answer \in [Readers -> Contents \cup {NoFile}]
    /\ events \in Nat
    /\ overlap \in BOOLEAN
    /\ reused \in SUBSET Keys /\ recycled \in SUBSET Keys
    /\ leaked \in SUBSET Keys
    /\ touched \in SUBSET Uploads
    /\ raced \in SUBSET Uploads /\ left \in SUBSET Uploads /\ disowned \in SUBSET Uploads

\* What a row's key leads to is what was uploaded, also in the variant, unless
\* the key was drawn while another request was still using it.
ContentIntact ==
    \A i \in Uploads :
        Live(i) /\ key[i] \notin reused =>
            /\ file[key[i]] \in {content[i], NoFile}
            /\ variant[i] \in {content[i], NoFile}

\* A row without its source file, or with variant keys but no variant, is one
\* some delete request has fetched: nothing an upload or a worker does to other
\* images takes a file away.
FilesBehindRows ==
    \A i \in Uploads \ touched :
        Live(i) =>
            /\ key[i] \notin reused => file[key[i]] # NoFile
            /\ i \in recorded => variant[i] # NoFile

\* The quota check is not atomic with the INSERT, but only uploads that overlap
\* can exceed the quota.
QuotaUnlessOverlap == ~overlap => Used <= Quota

\* A source file without a row comes from a request that stopped half-way or
\* lost the race for the unique indexes, from a removal that failed (leaked), or
\* from another user's batch delete (disowned), never from a delete of the owner
\* whose storage calls worked.
OrphansAccounted ==
    \A k \in Keys \ (leaked \cup reused) :
        file[k] # NoFile =>
            \E i \in Uploads : key[i] = k /\ (Live(i) \/ up[i] = "insert" \/ i \in disowned)

\* A variant outlives its image only if a delete fetched the row before the
\* variant's keys were recorded in it, or the task ran again after the fetch, or
\* its removal failed, or the row was removed by another user's batch delete.
VariantsAccounted ==
    \A i \in Uploads \ (raced \cup left \cup disowned) :
        status[i] = "deleted" => variant[i] = NoFile

\* A public read is answered with the bytes of the image whose row it found, not with those
\* of an image that was deleted before.  By id, as long as the row is there, the only
\* exception is a key that was drawn while another request still used it.  By public key,
\* or once the row is gone, it is any key that was drawn a second time: the thumbnail of its
\* first image may still be cached, and a late task of the first makes a variant of the second.
AnswersOwn ==
    \A g \in Readers :
        rd[g] = "over" /\ answer[g] # NoFile
          /\ key[found[g]] \notin
               (IF route[g] = "id" /\ Live(found[g]) THEN reused ELSE recycled)
        => answer[g] = content[found[g]]
=============================================================================
