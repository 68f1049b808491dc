--------------------------- MODULE StorageConfigs ---------------------------
(***************************************************************************)
(* A user's storage configs and where images go: the handlers of           *)
(* pichost-api/src/routes/storage_configs.rs, StorageRouter of             *)
(* pichost-core/src/storage/router.rs, the choice of a backend by          *)
(* services/upload.rs, routes/images.rs and the worker's pipeline.rs.      *)
(*                                                                         *)
(* One user's rows are modelled: every statement is restricted to a user.  *)
(* Of a row the repository and the default flag are kept; of its name only *)
(* that it may turn out to be taken.  The images are those sent to a Git   *)
(* config, each with a twin sent to the default backend; of the twin only  *)
(* the row is kept.  Rows of provider "local" cannot be created, only      *)
(* inserted by hand as the tests do: Home is such a row.  Only in lite     *)
(* mode does an image in Git get its row, and with it a task: the worker   *)
(* of this module is the one embedded in the API, with the API's router.   *)
(***************************************************************************)
EXTENDS Naturals, FiniteSets

CONSTANTS
    Configs,      \* ids of storage configs
    Home,         \* the config of provider "local"
    Repos,        \* Git repositories
    Local,        \* the default backend
    Images,       \* images sent to a Git config
    Requests,     \* requests
    Settings,     \* bound: what occurs together in a behaviour
    None,
    MaxFaults     \* bound: restarts, failed calls and abandoned requests together

ASSUME FaultBound == MaxFaults \in Nat

ASSUME ConfigNames == Home \in Configs /\ Local \notin Repos
                      /\ None \notin Configs \cup Repos \cup Images \cup {Local}

\* mode "full": PostgreSQL; "lite": SQLite, and the worker runs within the API.
\* limit: storage_max_user_configs.  Home is among the configs if it was inserted.
ASSUME SettingsKnown ==
    \A s \in Settings : /\ s.mode \in {"full", "lite"} /\ s.limit \in Nat \ {0}
                        /\ s.configs \subseteq Configs
                        /\ s.requests \subseteq Requests /\ s.images \subseteq Images

VARIABLES
    setting,      \* deployment, and what occurs in this behaviour
    \* table user_storage_configs
    cfg,          \* "none", "live" or "deleted"
    repo,         \* config.repo
    default,      \* the rows with is_default
    \* routers, images, tasks
    router,       \* the repository the API has a backend for, or None
    up,           \* how far an image has come
    at,           \* its storage_config_id
    snap,         \* the repository in the row its upload has read
    file,         \* the repository that has its file, or None
    job,          \* its task
    jat,          \* the backend its task has resolved
    made,         \* the repositories that have its variant, under the path of the day
    twin,         \* the row of the copy in Home: "none", "up" (not yet), "live" or "gone"
    \* requests
    pc, target, given, keeps,
    faults,
    \* history, read by no action
    want,         \* the repository last given for a config
    edited,       \* configs whose repository an update has changed
    overlap,      \* configs with two updates at once
    crowded,      \* two creations were past the limit check at once
    undone,       \* the default was cleared by a request that did not finish
    chosen,       \* a default was chosen
    risk,         \* images that were there when the API restarted
    leaked,       \* images whose row was not written or whose file was not removed
    unnamed,      \* images whose row was refused for the name of its backend
    removed,      \* images whose deletion has begun
    clashed,      \* images of which one copy's row was refused because of the other's
    missed,       \* images whose source or config an attempt has not found
    refused,      \* images whose variant Git has refused
    again         \* images whose task was delivered again after an attempt had written

rows     == <<cfg, repo, default>>
images   == <<router, up, at, snap, file, job, jat, made, twin>>
requests == <<pc, target, given, keeps>>
uploaded == <<leaked, unnamed, clashed>>
attempts == <<missed, refused, again>>
hist     == <<want, edited, overlap, crowded, undone, chosen, risk, removed, uploaded, attempts>>
vars     == <<setting, rows, images, requests, faults, hist>>

Live == {c \in Configs : cfg[c] = "live"}

Init ==
    /\ setting \in Settings
    /\ cfg = [c \in Configs |-> IF c = Home /\ Home \in setting.configs THEN "live" ELSE "none"]
    /\ repo = [c \in Configs |-> None]
    /\ default = {}
    /\ router = [c \in Configs |-> None]
    /\ up = [i \in Images |-> "none"]
    /\ at = [i \in Images |-> None]
    /\ snap = [i \in Images |-> None]
    /\ file = [i \in Images |-> None]
    /\ job = [i \in Images |-> "none"]
    /\ jat = [i \in Images |-> None]
    /\ made = [i \in Images |-> {}]
    /\ twin = [i \in Images |-> "none"]
    /\ pc = [r \in Requests |-> "idle"]
    /\ target = [r \in Requests |-> None]
    /\ given = [r \in Requests |-> None]
    /\ keeps = [r \in Requests |-> FALSE]
    /\ faults = 0
    /\ want = [c \in Configs |-> None]
    /\ edited = {} /\ overlap = {} /\ risk = {} /\ removed = {}
    /\ leaked = {} /\ unnamed = {} /\ clashed = {}
    /\ missed = {} /\ refused = {} /\ again = {}
    /\ crowded = FALSE /\ undone = FALSE /\ chosen = FALSE

Fault == faults < MaxFaults /\ faults' = faults + 1

To(r, l) == pc' = [pc EXCEPT ![r] = l]

Begin(r, x, l) ==
    /\ pc[r] = "idle"
    /\ To(r, l)
    /\ target' = [target EXCEPT ![r] = x]

Done(r) ==
    /\ To(r, "idle")
    /\ target' = [target EXCEPT ![r] = None]
    /\ given' = [given EXCEPT ![r] = None]
    /\ keeps' = [keeps EXCEPT ![r] = FALSE]

(***************************************************************************)
(* create_config: limit, name and repository access are checked, other     *)
(* defaults are cleared if this one shall be the default, then the INSERT. *)
(***************************************************************************)
Creating == {q \in Requests : pc[q] \in {"name", "clear", "insert", "insertdef"}}

\* check_config_limit.
CreateCheck(r) ==
    /\ Cardinality(Live) < setting.limit
    /\ Begin(r, None, "name")
    /\ crowded' = (crowded \/ Creating # {})
    /\ UNCHANGED <<setting, rows, images, given, keeps, faults, want, edited, overlap, undone,
                   chosen, risk, removed, uploaded, attempts>>

\* check_name_unique and verify_repo_access have answered.
CreateVerified(r, l) ==
    /\ pc[r] = "name"
    /\ To(r, l)
    /\ UNCHANGED <<setting, rows, images, target, given, keeps, faults, hist>>

\* The INSERT violates neither UNIQUE(user_id, name) nor idx_default_per_user.
CreateInsert(r, c, q) ==
    /\ pc[r] \in {"insert", "insertdef"}
    /\ cfg[c] = "none" /\ c # Home
    /\ pc[r] = "insertdef" => default = {}
    /\ cfg' = [cfg EXCEPT ![c] = "live"]
    /\ repo' = [repo EXCEPT ![c] = q]
    /\ default' = IF pc[r] = "insertdef" THEN {c} ELSE default
    /\ want' = [want EXCEPT ![c] = q]
    /\ chosen' = (chosen \/ pc[r] = "insertdef")
    /\ Done(r)
    /\ UNCHANGED <<setting, images, faults, edited, overlap, crowded, undone, risk, removed,
                   uploaded, attempts>>

\* It violates one of them: 500, the defaults stay cleared.
CreateConflict(r) ==
    /\ pc[r] \in {"insert", "insertdef"}
    /\ Live # {}
    /\ undone' = (undone \/ pc[r] = "insertdef")
    /\ Done(r)
    /\ UNCHANGED <<setting, rows, images, faults, want, edited, overlap, crowded, chosen, risk,
                   removed, uploaded, attempts>>

(***************************************************************************)
(* set_default: the row is fetched, all defaults are cleared, one is set.  *)
(***************************************************************************)
DefaultFetch(r, c) ==
    /\ c \in Live
    /\ Begin(r, c, "clear")
    /\ UNCHANGED <<setting, rows, images, given, keeps, faults, hist>>

\* unset_other_defaults, for create_config (no target yet) and set_default.
UnsetDefaults(r) ==
    /\ pc[r] = "clear"
    /\ default' = {}
    /\ To(r, IF target[r] = None THEN "insertdef" ELSE "set")
    /\ UNCHANGED <<setting, cfg, repo, images, target, given, keeps, faults, hist>>

\* Mutant: idx_default_per_user is missing.
SetDefaultUnindexed(r) ==
    LET c == target[r] IN
    /\ pc[r] = "set"
    /\ cfg[c] = "live"
    /\ default' = default \cup {c}
    /\ chosen' = TRUE
    /\ Done(r)
    /\ UNCHANGED <<setting, cfg, repo, images, faults, want, edited, overlap, crowded, undone,
                   risk, removed, uploaded, attempts>>

SetDefault(r) ==
    LET c == target[r] IN
    /\ pc[r] = "set"
    /\ cfg[c] = "live" /\ default \subseteq {c}
    /\ default' = default \cup {c}
    /\ chosen' = TRUE
    /\ Done(r)
    /\ UNCHANGED <<setting, cfg, repo, images, faults, want, edited, overlap, crowded, undone,
                   risk, removed, uploaded, attempts>>

\* The row is gone, or idx_default_per_user refuses a second default: 500.
SetDefaultFails(r) ==
    /\ pc[r] = "set"
    /\ cfg[target[r]] # "live" \/ ~(default \subseteq {target[r]})
    /\ undone' = (undone \/ cfg[target[r]] # "live")
    /\ Done(r)
    /\ UNCHANGED <<setting, rows, images, faults, want, edited, overlap, crowded, chosen, risk,
                   removed, uploaded, attempts>>

(***************************************************************************)
(* update_config: fetch, check a new name, write name and config together. *)
(***************************************************************************)
Updating(c) == {q \in Requests : target[q] = c /\ pc[q] \in {"rename", "write"}}

\* merge_config_detail: without a repo in the body the fetched one is written back.
Merged(c, keep, q) == IF keep THEN repo[c] ELSE q

UpdateFetch(r, c, l, keep, q) ==
    /\ c \in Live
    /\ Begin(r, c, l)
    /\ given' = [given EXCEPT ![r] = Merged(c, keep, q)]
    /\ keeps' = [keeps EXCEPT ![r] = keep]
    /\ overlap' = IF Updating(c) # {} THEN overlap \cup {c} ELSE overlap
    /\ UNCHANGED <<setting, rows, images, faults, want, edited, crowded, undone, chosen, risk,
                   removed, uploaded, attempts>>

\* The new name is free.
UpdateName(r) ==
    /\ pc[r] = "rename"
    /\ To(r, "write")
    /\ UNCHANGED <<setting, rows, images, target, given, keeps, faults, hist>>

\* Mutant: the router's backend is replaced when its config changes.
UpdateWriteEvicts(r) ==
    LET c == target[r] IN
    /\ pc[r] = "write"
    /\ cfg[c] = "live"
    /\ repo' = [repo EXCEPT ![c] = given[r]]
    /\ router' = [router EXCEPT ![c] = given[r]]
    /\ want' = IF keeps[r] THEN want ELSE [want EXCEPT ![c] = given[r]]
    /\ edited' = IF repo[c] # given[r] THEN edited \cup {c} ELSE edited
    /\ Done(r)
    /\ UNCHANGED <<setting, cfg, default, up, at, snap, file, job, jat, made, twin, faults,
                   overlap, crowded, undone, chosen, risk, removed, uploaded, attempts>>

\* Mutant: fields that are not in the body are reset.
UpdateWriteResets(r) ==
    LET c == target[r] IN
    /\ pc[r] = "write"
    /\ cfg[c] = "live"
    /\ repo' = [repo EXCEPT ![c] = IF keeps[r] THEN None ELSE given[r]]
    /\ want' = IF keeps[r] THEN want ELSE [want EXCEPT ![c] = given[r]]
    /\ edited' = IF repo[c] # given[r] THEN edited \cup {c} ELSE edited
    /\ Done(r)
    /\ UNCHANGED <<setting, cfg, default, images, faults, overlap, crowded, undone, chosen,
                   risk, removed, uploaded, attempts>>

UpdateWrite(r) ==
    LET c == target[r] IN
    /\ pc[r] = "write"
    /\ cfg[c] = "live"
    /\ repo' = [repo EXCEPT ![c] = given[r]]
    /\ want' = IF keeps[r] THEN want ELSE [want EXCEPT ![c] = given[r]]
    /\ edited' = IF repo[c] # given[r] THEN edited \cup {c} ELSE edited
    /\ Done(r)
    /\ UNCHANGED <<setting, cfg, default, images, faults, overlap, crowded, undone, chosen,
                   risk, removed, uploaded, attempts>>

\* The name is taken, or the row is gone.
UpdateFails(r) ==
    /\ \/ pc[r] \in {"rename", "write"} /\ Live \ {target[r]} # {}
       \/ pc[r] = "write" /\ cfg[target[r]] # "live"
    /\ Done(r)
    /\ UNCHANGED <<setting, rows, images, faults, hist>>

(***************************************************************************)
(* delete_config: fetch, count the images that refer to it, DELETE.        *)
(***************************************************************************)
Referenced(c) ==
    \E i \in Images : (at[i] = c /\ up[i] = "live") \/ (c = Home /\ twin[i] = "live")

DeleteFetch(r, c) ==
    /\ c \in Live
    /\ Begin(r, c, "count")
    /\ UNCHANGED <<setting, rows, images, given, keeps, faults, hist>>

DeleteCount(r) ==
    /\ pc[r] = "count"
    /\ IF Referenced(target[r])
       THEN Done(r)
       ELSE To(r, "delete") /\ UNCHANGED <<target, given, keeps>>
    /\ UNCHANGED <<setting, rows, images, faults, hist>>

\* The foreign key of images refuses the DELETE of a config that is referred to.
DeleteRow(r) ==
    LET c == target[r] IN
    /\ pc[r] = "delete"
    /\ IF Referenced(c)
       THEN UNCHANGED <<cfg, default, undone>>
       ELSE /\ cfg' = [cfg EXCEPT ![c] = "deleted"]
            /\ default' = default \ {c}
            /\ undone' = (undone \/ c \in default)
    /\ Done(r)
    /\ UNCHANGED <<setting, repo, images, faults, want, edited, overlap, crowded, chosen, risk,
                   removed, uploaded, attempts>>

(***************************************************************************)
(* StorageRouter.                                                          *)
(***************************************************************************)
\* for_config: the cached backend, or a new one from the row at hand.
Backend(c, q) == IF router[c] = None THEN q ELSE router[c]

\* for_backend: the cached backend, or the default one.
Routed(c) == IF router[c] = None THEN Local ELSE router[c]

(***************************************************************************)
(* Upload.  validate_upload_configs wants a local config among the one or  *)
(* two chosen, so a Git config is used together with Home, and an upload   *)
(* without a choice never goes to Git.  The two copies are written in      *)
(* parallel; their rows have the same user and the same sha256.            *)
(***************************************************************************)
UploadResolve(i, c) ==
    /\ up[i] = "none"
    /\ c \in Live \ {Home} /\ Home \in Live
    /\ up' = [up EXCEPT ![i] = "resolved"]
    /\ at' = [at EXCEPT ![i] = c]
    /\ snap' = [snap EXCEPT ![i] = repo[c]]
    /\ twin' = [twin EXCEPT ![i] = "up"]
    /\ UNCHANGED <<setting, rows, router, file, job, jat, made, requests, faults, hist>>

\* for_config, a free public key, put.
UploadPut(i) ==
    LET c == at[i]
        b == Backend(c, snap[i])
    IN
    /\ up[i] = "resolved"
    /\ router' = [router EXCEPT ![c] = b]
    /\ \/ /\ file' = [file EXCEPT ![i] = b]
          /\ up' = [up EXCEPT ![i] = "stored"]
          /\ UNCHANGED faults
       \/ /\ Fault
          /\ up' = [up EXCEPT ![i] = "gone"]
          /\ UNCHANGED file
    /\ UNCHANGED <<setting, rows, at, snap, job, jat, made, twin, requests, hist>>

\* images.storage_backend is the id of the Git config, of 36 characters: TEXT in
\* SQLite, VARCHAR(32) in PostgreSQL, which refuses the row.
NameFits == setting.mode = "lite"

\* insert_image_record and the task.  The INSERT is also refused if the config is
\* gone or, by idx_images_user_sha256, if the twin's row is there.  The file stays.
UploadInsert(i) ==
    /\ up[i] = "stored"
    /\ IF NameFits /\ cfg[at[i]] = "live" /\ twin[i] # "live"
       THEN /\ up' = [up EXCEPT ![i] = "live"]
            /\ job' = [job EXCEPT ![i] = "queued"]
            /\ UNCHANGED <<leaked, unnamed, clashed>>
       ELSE /\ up' = [up EXCEPT ![i] = "gone"]
            /\ IF NameFits
               THEN /\ leaked' = leaked \cup {i}
                    /\ clashed' = IF twin[i] = "live" THEN clashed \cup {i} ELSE clashed
                    /\ UNCHANGED unnamed
               ELSE unnamed' = unnamed \cup {i} /\ UNCHANGED <<leaked, clashed>>
            /\ UNCHANGED job
    /\ UNCHANGED <<setting, rows, router, at, snap, file, jat, made, twin, requests, faults,
                   want, edited, overlap, crowded, undone, chosen, risk, removed, attempts>>

\* The same of the twin, which any of its steps may end.
TwinInsert(i) ==
    /\ twin[i] = "up"
    /\ \/ /\ twin' = [twin EXCEPT ![i] = IF Home \in Live /\ up[i] # "live" THEN "live" ELSE "gone"]
          /\ clashed' = IF up[i] = "live" THEN clashed \cup {i} ELSE clashed
          /\ UNCHANGED faults
       \/ /\ Fault
          /\ twin' = [twin EXCEPT ![i] = "gone"]
          /\ UNCHANGED clashed
    /\ UNCHANGED <<setting, rows, router, up, at, snap, file, job, jat, made, requests, want,
                   edited, overlap, crowded, undone, chosen, risk, leaked, unnamed, removed,
                   attempts>>

\* The twin is deleted.
TwinRemove(i) ==
    /\ twin[i] = "live"
    /\ twin' = [twin EXCEPT ![i] = "gone"]
    /\ UNCHANGED <<setting, rows, router, up, at, snap, file, job, jat, made, requests, faults,
                   hist>>

(***************************************************************************)
(* The worker: resolve_backend with the row as it is now, then the source  *)
(* is read; the variants go where the source is.                           *)
(***************************************************************************)
\* Mutant: the worker routes by name, as the API's reads do.
JobResolveByName(i) ==
    LET c == at[i]
        b == Routed(c)
    IN
    /\ job[i] = "queued"
    /\ cfg[c] = "live"
    /\ jat' = [jat EXCEPT ![i] = b]
    /\ job' = [job EXCEPT ![i] = "resolved"]
    /\ UNCHANGED <<setting, rows, router, up, at, snap, file, made, twin, requests, faults,
                   hist>>

JobResolve(i) ==
    LET c == at[i]
        b == Backend(c, repo[c])
    IN
    /\ job[i] = "queued"
    /\ cfg[c] = "live"
    /\ router' = [router EXCEPT ![c] = b]
    /\ jat' = [jat EXCEPT ![i] = b]
    /\ job' = [job EXCEPT ![i] = "resolved"]
    /\ UNCHANGED <<setting, rows, up, at, snap, file, made, twin, requests, faults, hist>>

\* GitStorage::get by the path the row has: no other repository has the file.
Found(i) == file[i] = jat[i]

\* GitStorage::put creates a file and never replaces one: Git refuses it as long
\* as there is one of that path, which is until the date in the path changes.
Taken(i) == jat[i] \in made[i]

\* The source is read, the variants are written; the paths put returns are dropped.
JobWrite(i) ==
    /\ job[i] = "resolved" /\ Found(i)
    /\ made' = [made EXCEPT ![i] = @ \cup {jat[i]}]
    /\ job' = [job EXCEPT ![i] = "written"]
    /\ UNCHANGED <<setting, rows, router, up, at, snap, file, jat, twin, requests, faults,
                   hist>>

\* update_image_record: 'ready', if the row is there.
JobPublish(i) ==
    /\ job[i] = "written"
    /\ job' = [job EXCEPT ![i] = "published"]
    /\ UNCHANGED <<setting, rows, router, up, at, snap, file, jat, made, twin, requests,
                   faults, hist>>

\* ack.  If it fails the task stays claimed, until the next start reclaims it.
JobAck(i) ==
    /\ job[i] = "published"
    /\ job' = [job EXCEPT ![i] = "done"]
    /\ UNCHANGED <<setting, rows, router, up, at, snap, file, jat, made, twin, requests,
                   faults, hist>>

\* The config or the source is not found: the embedded worker tries again, without
\* end.
JobFails(i) ==
    /\ \/ job[i] = "queued" /\ cfg[at[i]] # "live"
       \/ job[i] = "resolved" /\ ~Found(i)
    /\ job' = [job EXCEPT ![i] = "queued"]
    /\ missed' = missed \cup {i}
    /\ UNCHANGED <<setting, rows, router, up, at, snap, file, jat, made, twin, requests,
                   faults, want, edited, overlap, crowded, undone, chosen, risk, removed,
                   uploaded, refused, again>>

\* Git refuses a variant that an earlier attempt has written: tried again as well.
JobRefused(i) ==
    /\ job[i] = "resolved" /\ Found(i) /\ Taken(i)
    /\ job' = [job EXCEPT ![i] = "queued"]
    /\ refused' = refused \cup {i}
    /\ UNCHANGED <<setting, rows, router, up, at, snap, file, jat, made, twin, requests,
                   faults, want, edited, overlap, crowded, undone, chosen, risk, removed,
                   uploaded, missed, again>>

\* The second variant or the UPDATE fails after a variant was written: nack, the
\* task is delivered again.
JobStops(i) ==
    /\ job[i] = "written"
    /\ Fault
    /\ job' = [job EXCEPT ![i] = "queued"]
    /\ again' = again \cup {i}
    /\ UNCHANGED <<setting, rows, router, up, at, snap, file, jat, made, twin, requests, want,
                   edited, overlap, crowded, undone, chosen, risk, removed, uploaded, missed,
                   refused>>

(***************************************************************************)
(* delete_image: cleanup_storage_files by backend name, then the row.      *)
(***************************************************************************)
RemoveFetch(r, i) ==
    /\ up[i] = "live"
    /\ Begin(r, i, "file")
    /\ removed' = removed \cup {i}
    /\ UNCHANGED <<setting, rows, images, given, keeps, faults, want, edited, overlap, crowded,
                   undone, chosen, risk, uploaded, attempts>>

\* Mutant: a backend that is not cached is no place to delete from.
RemoveFileSkips(r) ==
    LET i == target[r] IN
    /\ pc[r] = "file"
    /\ UNCHANGED <<file, leaked>>
    /\ To(r, "row")
    /\ UNCHANGED <<setting, rows, router, up, at, snap, job, jat, made, twin, target, given,
                   keeps, faults, want, edited, overlap, crowded, undone, chosen, risk,
                   removed, unnamed, clashed, attempts>>

\* GitStorage::delete of the row's path: what is not there is as good as deleted;
\* otherwise the file's sha is asked for and the file deleted, or a call fails.
Deleted(i) ==
    \/ /\ file' = [file EXCEPT ![i] = IF Routed(at[i]) = @ THEN None ELSE @]
       /\ UNCHANGED <<leaked, faults>>
    \/ /\ Fault
       /\ leaked' = leaked \cup {i}
       /\ UNCHANGED file

\* Errors of the storage are ignored.  The variants are looked for under the keys
\* in the row, where Git has nothing: they stay.
RemoveFile(r) ==
    LET i == target[r] IN
    /\ pc[r] = "file"
    /\ Deleted(i)
    /\ To(r, "row")
    /\ UNCHANGED <<setting, rows, router, up, at, snap, job, jat, made, twin, target, given,
                   keeps, want, edited, overlap, crowded, undone, chosen, risk, removed,
                   unnamed, clashed, attempts>>

RemoveRow(r) ==
    /\ pc[r] = "row"
    /\ up' = [up EXCEPT ![target[r]] = "gone"]
    /\ Done(r)
    /\ UNCHANGED <<setting, rows, router, at, snap, file, job, jat, made, twin, faults, hist>>

(***************************************************************************)
(* A request is abandoned, a process restarts.                             *)
(***************************************************************************)
RequestStops(r) ==
    /\ pc[r] # "idle"
    /\ Fault
    /\ undone' = (undone \/ pc[r] \in {"insertdef", "set"})
    /\ Done(r)
    /\ UNCHANGED <<setting, rows, images, want, edited, overlap, crowded, chosen, risk,
                   removed, uploaded, attempts>>

UploadStops(i) ==
    /\ up[i] \in {"resolved", "stored"}
    /\ Fault
    /\ up' = [up EXCEPT ![i] = "gone"]
    /\ leaked' = leaked \cup {i}
    /\ UNCHANGED <<setting, rows, router, at, snap, file, job, jat, made, twin, requests, want,
                   edited, overlap, crowded, undone, chosen, risk, removed, unnamed, clashed,
                   attempts>>

\* What SqliteQueue has claimed for the worker.
Claimed == {"resolved", "written", "published"}

\* The API restarts, and with it its worker: the router is built anew without Git
\* backends (init_storage_backends), the tasks that were claimed are reclaimed.
Restart ==
    LET ends == {i \in Images : up[i] \in {"resolved", "stored"}} IN
    /\ Fault
    /\ router' = [c \in Configs |-> None]
    /\ job' = [i \in Images |-> IF job[i] \in Claimed THEN "queued" ELSE job[i]]
    /\ again' = again \cup {i \in Images : job[i] \in {"written", "published"}}
    /\ up' = [i \in Images |-> IF i \in ends THEN "gone" ELSE up[i]]
    /\ twin' = [i \in Images |-> IF twin[i] = "up" THEN "gone" ELSE twin[i]]
    /\ leaked' = leaked \cup ends
    /\ risk' = risk \cup {i \in Images : up[i] = "live"}
    /\ undone' = (undone \/ \E r \in Requests : pc[r] \in {"insertdef", "set"})
    /\ pc' = [r \in Requests |-> "idle"]
    /\ target' = [r \in Requests |-> None]
    /\ given' = [r \in Requests |-> None]
    /\ keeps' = [r \in Requests |-> FALSE]
    /\ UNCHANGED <<setting, rows, at, snap, file, jat, made, want, edited, overlap, crowded,
                   chosen, removed, unnamed, clashed, missed, refused>>

ConfigStep(r) ==
    \/ CreateCheck(r) \/ CreateConflict(r)
    \/ \E l \in {"clear", "insert"} : CreateVerified(r, l)
    \/ \E c \in setting.configs, q \in Repos : CreateInsert(r, c, q)
    \/ UnsetDefaults(r) \/ SetDefault(r) \/ SetDefaultFails(r)
    \/ UpdateName(r) \/ UpdateWrite(r) \/ UpdateFails(r)
    \/ DeleteCount(r) \/ DeleteRow(r)
    \/ \E c \in Configs :
          \/ DefaultFetch(r, c) \/ DeleteFetch(r, c)
          \/ \E l \in {"rename", "write"}, k \in BOOLEAN, q \in Repos : UpdateFetch(r, c, l, k, q)

ImageStep(i) ==
    \/ \E c \in Configs : UploadResolve(i, c)
    \/ UploadPut(i) \/ UploadInsert(i) \/ UploadStops(i)
    \/ TwinInsert(i) \/ TwinRemove(i)
    \/ JobResolve(i) \/ JobWrite(i) \/ JobPublish(i) \/ JobAck(i)
    \/ JobStops(i) \/ JobFails(i) \/ JobRefused(i)

Next ==
    \/ \E r \in setting.requests :
          \/ ConfigStep(r) \/ RemoveFile(r) \/ RemoveRow(r) \/ RequestStops(r)
          \/ \E i \in setting.images : RemoveFetch(r, i)
    \/ \E i \in setting.images : ImageStep(i)
    \/ Restart

Spec == Init /\ [][Next]_vars

(***************************************************************************)
(* Properties                                                              *)
(***************************************************************************)
\* Every variable has its type, a row of images refers to a row of configs, and
\* no two rows have the same content.
TypeOK ==
    /\ setting \in Settings
    /\ cfg \in [Configs -> {"none", "live", "deleted"}]
    /\ repo \in [Configs -> Repos \cup {None}]
    /\ default \subseteq Live
    /\ router \in [Configs -> Repos \cup {None}]
    /\ up \in [Images -> {"none", "resolved", "stored", "live", "gone"}]
    /\ at \in [Images -> Configs \cup {None}]
    /\ snap \in [Images -> Repos \cup {None}]
    /\ file \in [Images -> Repos \cup {None}]
    /\ job \in [Images -> {"none", "queued", "resolved", "written", "published", "done"}]
    /\ jat \in [Images -> Repos \cup {Local, None}]
    /\ made \in [Images -> SUBSET (Repos \cup {Local})]
    /\ twin \in [Images -> {"none", "up", "live", "gone"}]
    /\ pc \in [Requests -> {"idle", "name", "clear", "insert", "insertdef", "set", "rename",
                            "write", "count", "delete", "file", "row"}]
    /\ target \in [Requests -> Configs \cup Images \cup {None}]
    /\ given \in [Requests -> Repos \cup {None}]
    /\ keeps \in [Requests -> BOOLEAN]
    /\ faults \in 0 .. MaxFaults
    /\ want \in [Configs -> Repos \cup {None}]
    /\ edited \subseteq Configs /\ overlap \subseteq Configs
    /\ risk \subseteq Images /\ removed \subseteq Images /\ leaked \subseteq Images
    /\ unnamed \subseteq Images /\ clashed \subseteq Images
    /\ missed \subseteq Images /\ refused \subseteq Images /\ again \subseteq Images
    /\ crowded \in BOOLEAN /\ undone \in BOOLEAN /\ chosen \in BOOLEAN
    /\ \A i \in Images : /\ up[i] = "live" => at[i] \in Live
                         /\ twin[i] = "live" => Home \in Live
                         /\ ~(up[i] = "live" /\ twin[i] = "live")

\* A user has one default config at most; once one was chosen there is one,
\* unless a request is between clearing and setting or did not get from the one
\* to the other, or the default was deleted.
DefaultKept ==
    /\ \A c, d \in default : c = d
    /\ chosen => \/ default # {} \/ undone
                 \/ \E r \in Requests : pc[r] \in {"insertdef", "set"}

\* There are no more configs than the limit, unless creations overlap.
LimitUnlessOverlap == Cardinality(Live) > setting.limit => crowded

\* A user's rows are in order, however requests overlap or end.
ConfigRowsKept == DefaultKept /\ LimitUnlessOverlap

\* An update changes the repository only if its body has one, unless updates of
\* one config overlap: name and config are written together.
RepoAsGiven == \A c \in Live \ overlap : repo[c] = want[c]

\* Whatever is done to configs, an image is read where it was stored as long as
\* the API is not restarted: the router keeps the backend it has used.  In full
\* mode there is no row to read by.
ReadableUntilRestart ==
    \A i \in Images \ risk : up[i] = "live" /\ file[i] # None => Routed(at[i]) = file[i]

\* The worker looks for a source where the API has put it, unless the API was
\* restarted and the config's repository changed, or the image is being deleted.
WorkerFindsSource == \A i \in missed \ removed : i \in risk /\ at[i] \in edited

\* Git refuses a variant only if the task was delivered again after an attempt had
\* written one: at-least-once delivery meets a put that is not idempotent.
RefusedOnlyRedelivered == refused \subseteq again

\* What keeps the worker from an image has its cause.
AttemptsAccounted == WorkerFindsSource /\ RefusedOnlyRedelivered

\* A file without a row is left by an upload that ended early, by a failed
\* storage call, by a delete after a restart, which asks the default backend, or
\* by an upload whose row was refused for the name of its backend.
OrphansAccounted ==
    \A i \in Images : up[i] = "gone" /\ file[i] # None => i \in risk \cup leaked \cup unnamed

\* "每个后端各插入一条 images 记录": an upload to two configs makes a row for each,
\* so neither row stands in the way of the other.
EachBackendRecorded == clashed = {}
=============================================================================
