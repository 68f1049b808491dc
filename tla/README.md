# A TLA+ verification of PicHost

PicHost is a self-hosted image host: an HTTP API (`pichost-api`), background
workers (`pichost-worker`), shared types and storage backends (`pichost-core`)
and a browser front end (`web-ui`). It runs in two modes. The *full* mode uses
PostgreSQL, Redis and separate worker processes; *lite* mode uses one SQLite
file and a worker inside the API process.

No handler runs in a transaction. Every SQL statement, Redis command and
storage call is awaited on its own, so between any two of them other requests
and workers run, a connection can fail and a process can stop. That is what the
modules model: one action per awaited call, everything between two calls in one
step.

## Inventory

| Component | State | Operations | What is hard | What makes it correct |
|---|---|---|---|---|
| Redis queue and workers (`queue.rs`, `main.rs`) | lists `pending`, `processing`, `dead`; a hash per task | enqueue, dequeue, ack, nack, start-up scan | crashes and failed commands between `LREM` and `LPUSH`; a scan that requeues a task somebody still holds; timeouts | no task is lost, retries are bounded and paid for, duplicates and stranded entries have known causes, everything settles |
| SQLite queue and embedded worker (`sqlite_queue.rs`, `app.rs`) | table `pending_tasks` | the same, one statement each, and `reclaim_stale` | crash after publication; the retry count inside the payload; oldest-first claims | claimed rows and worker agree, rows leave only after publication, a task waits for ever only behind one that fails for ever |
| Upload, pipeline, delete (`upload.rs`, `pipeline.rs`, `images.rs`) | table `images`, storage | upload, process, delete | check-then-act on quota, key and duplicate; files without rows and rows without files | rows lead to the uploaded bytes; orphans have known causes |
| Metadata and thumbnail cache (`cache/mod.rs`, `images.rs`) | Redis strings with a TTL | cache-aside read, rename, move, delete | stale fill after an invalidation | an edit is visible, stale entries expire |
| Tokens (`routes/auth.rs`, `middleware/auth.rs`, the blacklists) | token pairs at clients, blacklist entries with an expiry | login, refresh, logout, authentication | two refreshes of one token, best-effort revocation, entries that lapse before the decoder stops accepting the token | a stored revocation is respected; a refresh token is exchanged once |
| Accounts (`routes/auth.rs`, `routes/admin.rs`, the invite stores) | users and roles, invites | register, create invites, update and delete users | first-user race, an invite verified before and consumed after the insert, administrators acting on each other with claims that are no longer true | one invite admits one user, one founder, an administrator remains |
| Rate limiting (`rate_limit.rs`, `sqlite_rate_limiter.rs`) | counters | check | every call renews the TTL; window boundary; the wait is asked for in a second command | the limit holds; a refusal has its cause; the announced wait is enough |
| Storage configs, router and Git storage (`storage_configs.rs`, `router.rs`, `git.rs`) | configs, cached backends, repositories | create, update, delete, set default, resolve, put, get, delete | two statements for one default; stale backends; a put that is not idempotent | at most one default; images are found where they were stored |
| Categories (`categories.rs`) | a tree per user | create, rename, delete, move images | depth check then insert; cascades | every category is listed; images stay where they were moved |
| Profile, password, OAuth (`users.rs`, `admin.rs`, `oauth.rs`) | columns of users, linked identities | update, change password, link, log in | check then write; full-row updates | updates do not undo each other; an identity belongs to who linked it |
| Administration (`admin.rs`, `services/config.rs`, `i18n.rs`) | statistics cache, config.toml, language | statistics, config write, backup, restore | files that are empty while written; a pipeline that is no transaction | keys are kept, updates can be undone, cached figures were true |
| Web UI (`useUploadQueue.ts`, `stores/auth.ts`, `client.ts`) | upload tasks, tokens | add files, upload, refresh | one worker answering many listeners, stale references, parallel refreshes | every file is uploaded once as itself |

The parts interact as follows. The API inserts an image row, writes the file and
enqueues a task; a worker takes the task, reads the file, writes the variants,
updates the row and acknowledges the task; deletes and edits change the same rows
meanwhile; reads go through the cache. `PROJECT.json` lists every part, the ones
left out included, and the hazards at their lines.

## Modules

| Module | Models | State and actions |
|---|---|---|
| `RedisQueue` | `pichost-worker/src/queue.rs`, the loops of `pichost-worker/src/main.rs` | the lists `pending` (a sequence) and `processing`, `dead` (how often an id is listed), the hash fields `data` (retry count) and `updated`; per process the start-up scan, per loop its position and the payload it read. One action per Redis command. |
| `SqliteQueue` | `pichost-core/src/state/sqlite_queue.rs`, `lite_worker_task` and `handle_task` of `pichost-api/src/app.rs` | the columns of `pending_tasks`, the process (`down`, `starting`, `up`) and its only worker. One action per SQL statement. |
| `ImageStore` | `services/upload.rs`, `pipeline.rs`, `delete_image`, `batch_delete`, the public routes of `routes/images.rs` with `cached_thumb` | the rows of one user, the files under public keys, the variants and the cached thumbnails; uploads, jobs, single and batch deletes and a reader as processes over them, and batch deletes by other users. One action per SQL statement, storage call or Redis command. |
| `MetaCache` | `cached_meta`, `get_image` and the handlers of `routes/images.rs` that invalidate; `update_image_record` and `delete_category`, which do not | the rows, the cached records and which of them expire, the readers between `GET`, `SELECT` and `SETEX`, the requests with the `DEL`s they still owe. |
| `Sessions` | `generate_tokens`, `refresh`, `logout` of `routes/auth.rs`, `require_auth`, `RedisBlacklist`, `SqliteBlacklist` | the pairs descending from one login, the client's share of them, when each token's blacklist entry lapses, a clock; a refresh request between its blacklist check, its first and its second revocation. |
| `Accounts` | `register`, `RedisInviteStore`, `SqliteInviteStore`, and `create_invite`, `update_user`, `delete_user` of `routes/admin.rs` | the role of every user, the state of every invite, who may hold a token that says `is_admin`; requests between their statements. |
| `StorageConfigs` | `routes/storage_configs.rs`, `StorageRouter`, `resolve_upload_configs`, `resolve_backend`, `GitStorage`, the worker's writes of variants | the rows of `user_storage_configs`, the backends cached by the router, an image on its way into a Git repository and through the embedded worker, its twin in the default backend; config requests and a delete between their statements. |
| `RateLimiter` | `rate_limit.rs`, `Cache::incr`, `sqlite_rate_limiter.rs` | the Redis counter with its TTL and the rows by window, calls between `INCR`, `GET` and `TTL`, a clock. |
| `SlidingLimit` | the promise of a limiter | which calls were admitted when, and the bound. `RateLimiter` implements it. |
| `Profiles` | `routes/users.rs`, `update_user` and `delete_user` of `routes/admin.rs`, `routes/oauth.rs` | the columns of users' rows, the password, `oauth_accounts`; requests with the columns they have read. |
| `Categories` | `routes/categories.rs`, `move_image` and `batch_move_images` | rows of the tree and where images are filed; requests between check and write. |
| `SystemConfig` | `services/config.rs`, the config handlers of `routes/admin.rs`, `i18n.rs` | `config.toml` and its backups as keys (empty while being written), the language; requests between open and fill. |
| `Statistics` | `get_my_stats`, `get_admin_stats`, the Redis hash | what is counted, the hash and its expiry; requests between queries. |
| `Queues` | `build_state_components`, `build_lite_state_components` | composes `RedisQueue` and `SqliteQueue`: a deployment has one of them. Fairness is that of the queue in use. |
| `Administration` | | composes `SystemConfig` and `Statistics`, which share no state: a behaviour is `about` one of the two. |
| `QueueProofs`, `ImageStoreProofs`, `MetaCacheProofs`, `SessionsProofs`, `AccountsProofs`, `StorageConfigsProofs`, `RateLimiterProofs`, `EditProofs` | | the theorems; `QueueProofs` is about both queues, `EditProofs` about `Profiles`, `Categories`, `SystemConfig` and `Statistics` |
| `MC*` | | the small instances |

Every module keeps *history variables*, which no action reads: they record that a
fault or a race of a certain kind happened (`dropped`, `evicted`, `stranded`,
`leaked`, `raced`, `disowned`, `overlap`, `risk`, `again`, ...), so that a property can say
"this goes wrong only if ...", which is what the code really guarantees.
`PROJECT.json` gives the source lines of every definition.

What is abstracted: payloads are the fields the queues and handlers compare;
file contents are values; sizes are counted in images; the clock of the Redis
queue ticks only as far as the ten-minute staleness threshold needs. The two
variants of an image, which the pipeline writes and records together, are one.
Local storage, S3 and Redis are maps whose calls may fail.

`MetaCache` speaks of the full mode; in lite mode the cache is a no-op. The
record's joined storage-config columns and `admin`'s delete of a user's images,
which change rows without invalidation like the worker does, are left out.

`Sessions` follows one login, since tokens of different logins meet nowhere:
the blacklist is keyed by jti and no handler looks at another session. Its clock
is discrete; `Minute` is the granularity at which SQLite's string comparison of
expiry times is exact. `require_auth` does not look at the user's row, so the
rows are in `Accounts` only; there a token is reduced to its `is_admin` claim,
which whoever was an administrator may still hold. The invite's code comes from
the request and may be any code, one that was never created included. Usernames
are reduced to the outcome "taken", possible as soon as there is a user.

`StorageConfigs` keeps of a config the repository and the default flag. Git
storage differs from the others in that `put` creates a file under the path of
the day and Git refuses a path that is there already; `made` records the
repositories that have an image's variant, and an attempt that finds one there may
be refused or, if the date has changed, succeed. The images of its runs go to a Git
config, since those of the default backend are in `ImageStore`. The name under which
their row keeps the backend is the config's id; `NameFits` says that only SQLite's
column takes it, so in full mode the row is refused and no task is ever made. The
worker of this module is therefore the one of lite mode, which uses the API's router,
claims a task, acknowledges it in a step of its own and retries without end.

`RateLimiter` has one counter, since keys do not interact. `RateLimiter` refines
`SlidingLimit` with `INSTANCE SlidingLimit WITH`: a call is admitted at the tick at
which it was counted, and the bound is the limit for Redis and twice the limit for
SQLite, whose fixed windows admit one limit before a boundary and one after.

In `SystemConfig` a write is two steps, since `fs::write` and `fs::copy` empty a
file before they fill it and an empty file is valid TOML; the keys the handlers do
not write are one key. A body's language is stored without validation, and
`LanguageOf` (`Language::from_str_opt`) takes any value that names no language for
English. A restore reads the file it has filled (`RestoreRead`) before it reloads
(`RestoreReload`), so another update may write and reload in between. In `Statistics` every image has size one.

## Runs

Every failure (a crash, a failed command, statement or storage call, a client
that goes away) costs one of `MaxFaults` (`MaxEvents` in `ImageStore`, where reads
and other users' batch deletes count as well); faults may hit at any step.

| Run | Instance | What it shows |
|---|---|---|
| `queues` | in full mode 1 task, 2 processes of 1 loop, 1 retry, 2 clock ticks, 1 fault; in lite mode 2 tasks, retry limits 0 and 1, 3 faults | Full mode: `TypeOK`; `NoTaskLost`: an id leaves the lists only inside the `LREM`/`LPUSH` window or with its hash; `RetryBudgetSpent`: a dead letter has failed `max_retries + 1` times, even with copies and stale retry counts; `ListsAccounted`: two loops share a task only after a scan (`OnlyRecoveryDuplicates`), and an entry is stranded only by a fault (`StrandedOnlyByFault`); `EventuallySettled`: a task no fault stranded is done or dead-lettered at last, and the lists drain for good. Lite mode: `ClaimsAccounted`, `DeliveredAtLeastOnce`; `StarvedOnlyByFailing`: a queued task is published or dead-lettered at last, unless a task queued no later than it (itself included) fails again and again |
| `sqlite_retries` | lite mode alone, 1 fault | **violated** `RetriesRunOut`: a task that fails every time is nacked for ever, although its retries are meant to run out |
| `image_store` | 2 uploads of 2 contents, 2 keys, 2 deletes, or 1 and a reader, quota 1, 2 attempts, 2 events | `ContentIntact`, `FilesBehindRows`, `QuotaUnlessOverlap`; `OrphansAccounted`, `VariantsAccounted`: a source without a row, or a variant of a deleted image, comes from a request that stopped or raced, from a removal that failed, or from another user's batch delete; `AnswersOwn`: a thumbnail that is served belongs to the image asked for, unless a key was drawn again |
| `meta_cache` | 1 image, 2 names, 1 category, 2 readers, 2 requests, 1 fault | `TypeOK`; `StaleAccounted`: a cached record differs from its row only if a known race or an unannounced change (the worker, a deleted category, a failed `DEL`) explains it; `EventuallyFresh` |
| `sessions` | 2 pairs, 2 refreshes, lifetimes 2 and 5, leeway 3, minute 3, clock up to 8, 1 fault | `TypeOK`; `RevokedRefused`: a stored revocation is never overruled; `RotationOnce`: a refresh token passes for one exchange unless two refreshes overlap, a revocation is not stored, or the entry has lapsed while the token still decodes |
| `accounts` | 3 users, 1 code, 2 requests, 1 fault | `TypeOK`; `InviteAdmitsOne`, `OneFounder`, `AdminRemains`, each with the races that are its only exceptions |
| `storage_configs` | 2 requests on 2 configs with limit 1; or 1 request, a Git config beside the local one and 1 image, in both modes; 2 repositories, 1 fault | `ConfigRowsKept`: one default at most and none only after an unfinished request (`DefaultKept`), the limit exceeded only by creations at once (`LimitUnlessOverlap`); `RepoAsGiven`; `ReadableUntilRestart` and `OrphansAccounted`: which caches lead to the file; `AttemptsAccounted`: the embedded worker misses the source of an image nobody deletes only after a restart and an edit of its config (`WorkerFindsSource`), and Git refuses it a variant only after its task was delivered again (`RefusedOnlyRedelivered`) |
| `storage_copies` | the same | **violated** `EachBackendRecorded`: in lite mode the second row of an upload to two configs is refused by the unique index over user and content |
| `rate_limiter` | 5 calls, limit 2, window 3, 8 ticks, a check waits up to 1, 1 fault | `AdmitsAtMost`: `SlidingLimit`; `DenialEarned`: a refusal is explained by the calls of its window; `RetryEnough`: waiting `retry_after` is enough |
| `profiles` | 2 users, a unique column and another, 3 values, 2 passwords, 2 provider accounts, 2 requests, 1 answer without id | `SignInKept`: a password is replaced by who knew it and a login ends at a user who linked the account, with the named exceptions; the action property `OthersKept`: no edit undoes what another has given, the administrator's full-row update excepted, and an account stays with who linked it first |
| `categories` | 4 categories, 2 names, 2 images, 2 requests | `TreeComplete`: the two-level listing shows every category; `FiledAsMoved`: images are where the last move put them, or in none after a delete |
| `administration` | 3 config calls by 2 requests in 1 second or 2, bodies with a language that does not exist, backups, restores, 1 restart; 3 statistics requests by 2, 2 ticks, 1 change | `KeysKept`, `UndoPossible`: an update keeps other keys and its backup can undo it, unless requests meet; `LanguageFollows`: after a reload the language is the one the file names, English for a value that names none, unless requests met in the file or the reload came after another write; `FiguresTrue`: a cached figure was true within its time (`CountsRecent`), and totals cover what they add up (`TotalCoversBackends`) |

Every module has a type invariant (`TypeOK`, with a prefix in modules that a proof
module extends together with others). Four runs check it, where it says more than
types, for instance that a claimed task carries the hash fields the loops use. The
others are proved and hold in the same instances.

Why the bounds are enough. A duplicate in the Redis queue needs a loop that holds
a task and a second process that starts, finds it stale and requeues it: one task,
two processes and the fault that lets the scan find it. In the SQLite queue two
tasks give an order for oldest-first claims, and three faults a failed `ack`, a
crash and a failed reclaim. In the image store every race is between two uploads,
an upload or a job and a delete, two deletes, or a read and one of these; another
user's batch delete is one step, since the query before its `DELETE` finds nothing
and changes nothing. A reader races with a delete and a second upload, so `Scope`
leaves the second delete out once there was a read; two reads of one reader fill the
cache and are answered from it. The cache
properties relate one entry to one row; the second image that a batch could name
is covered by the proof, which holds for any set of images. Two pairs suffice for
`RotationOnce` because a second exchange counts as soon as its check has passed;
lifetimes, leeway and minute are chosen so that an entry can lapse while its token
still decodes, and a clock of 8 reaches past the last moment a refresh token
decodes. In `accounts` three users are a founder and two who can be admitted,
promoted, demoted and deleted; the exceptions of the three properties each need
two requests. In `storage_configs` two creations exceed a limit of one, two updates
or defaults of two configs overlap, and the path of one image through the caches
needs one edit (two repositories) and one restart; the two parts of the instance
keep requests among themselves apart from images because the statements about the one
do not mention the other. Five calls fill a limit of two twice and leave one to
refuse, and eight ticks are more than two windows. Four categories are two parents
with a child each. Two updates of the configuration and a restore are the shortest
history in which a backup of one is overwritten by the other. Three values are the
language at start, English and one that names no language, which is what bodies give.

`CHECK_DEADLOCK FALSE` stands in every configuration because requests and tasks are
finite: when all are done and the bounds are used up, the modelled system rests.
Symmetry is used where only invariants and action properties are checked, over sets
whose members no action tells apart.

Fairness. Liveness assumes weak fairness of the steps of something already
running: a loop keeps polling, an awaited call returns, a started process runs
its scan, Redis drops expired keys. Tokio polls ready futures and all awaited
calls have timeouts or return, so the code justifies that. No user has to upload,
read, edit or delete, no pipeline run has to succeed, and no crash or fault is
fair. The embedded worker has no last attempt, so one image that fails every time
occupies it for ever: `StarvedOnlyByFailing` names that as its only exception,
and the exception is the violation `sqlite_retries`.

Each property of a passing run is shown to depend on the code by a mutant, an
operator whose comment starts with "Mutant" and that stands next to the action
it changes (a dropped guard, a forgotten removal, a swapped order). TLC finds the
property violated once it replaces the action.

### Known deviations

The models describe what the code does, which is in places not what one expects.
No property hides these; the exceptions of the properties name them.

- `batch_delete` looks for the files of the caller's images only, but its `DELETE` takes
  every id of the body: the rows of another user's images go and their files stay
  (`disowned`). Errors of the file removals are ignored, so that source (`leaked`) and
  variants (`left`) may stay as well.
- An upload to two storage configs never gets both rows in lite mode
  (`storage_copies`).
- In full mode no image in a Git config gets its row: `images.storage_backend` is
  `VARCHAR(32)` and the config's id has 36 characters. The file was put into the
  repository before (`unnamed` in `OrphansAccounted`).
- Git refuses to overwrite a file and tasks are delivered at least once, so the
  attempt after one that wrote a variant is refused, again and again, until the date
  changes.
- The path under which Git stores a variant is dropped and the row gets the key: the
  variants of images in Git are never served from there and never deleted.
- The routers know a Git backend only after it was used by this process: after a
  restart reads and deletes of an image in Git ask the default backend.
- A task's last attempt that times out leaves its image `active`: only the error
  path reaches `handle_dead_letter`.
- In lite mode the retry count that `nack` compares is never increased, so a failing
  task is retried for ever and, as the oldest row, before all younger ones
  (`sqlite_retries`, `StarvedOnlyByFailing`).
- Stale tasks are recovered at start-up only; the design speaks of a periodic scan.
- The language of an update is not validated: `"fr"` stays in `config.toml`, and the
  process uses English (`LanguageOf`).
- `load_config` reads `config.toml` with `nested()`, where a section is a profile, so
  what the administrator's handlers write has no effect at the next start; only the
  language is taken over at run time, until then.
- The limiter's comment says that the TTL is set when a key is created; the code sets
  it at every call, so the window of a client that keeps calling never ends
  (`IncrKeepsTtl`, the documented behaviour, is the mutant of `AdmitsAtMost`).
- `logout` revokes the access token; the refresh token of the pair remains
  exchangeable.
- A category at the root has no parent, NULLs are distinct in a UNIQUE constraint,
  and so two root categories created at once may share a name.
- `populate_stats_cache` leaves out the number of images in RustFS, so a cached
  answer reports none.

## Proofs

Every invariant and action property that a passing run checks is proved with TLAPS
for all values of the constants, and so is the refinement of `SlidingLimit`. What
follows names for each module the theorems, the inductive invariant and the reason
why the property needs it. The proof modules name the parts of each invariant and
have one lemma per invariant for the initial states and one for the steps.

`QueueProofs`, first part (`RedisQueue`, any tasks, processes and loops):

- `TypeCorrect`: the type invariant, inductive as it stands.
- `RetryBudgetCorrect`: `RetryBudgetSpent`. It needs `RetriesPaid`: the retry count
  in the hash and in every loop's copy is at most the number of attempts that
  failed, and a loop on the nack path is one failure ahead of its copy. Without
  it a stale copy could bury a task early.
- `NoTaskLostCorrect`: `NoTaskLost`. It needs `OnlyQueued` (lists, loops and scans
  hold only tasks that were queued, and a queued task without data lost its hash)
  and `LoopKnows` (a loop that acknowledges has published; a loop that drops an
  orphan saw a lost hash). Facts about `LPUSH` and `BRPOPLPUSH` on sequences are
  lemmas.
- `ListsAccountedCorrect`: `ListsAccounted`. That two loops share a task only after
  a scan needs `OnePlace`: until a scan requeues a task it is on `pending`, or with
  one loop, or stranded. That an entry of `processing` is stranded only by a fault
  needs counting, since a scan may leave several entries of one id: by
  `HoldersEnough` each task has at most as many entries as there are loops that
  will still remove one, unless a fault took a loop.

`QueueProofs`, second part (`SqliteQueue`, any rows, limits and number of faults):

- `LiteTypeCorrect`.
- `LiteClaimsAccountedCorrect`: needs `StrandedClaimed`, that a stranded row is still
  claimed; otherwise the reclaim could clear the record of one that is not.
- `LiteDeliveredAtLeastOnceCorrect`: needs `OutcomeKnown`: a worker on its way to
  `ack` has published and one on its way to `nack` has failed, and a published image
  whose row is still claimed is about to be acknowledged or was stranded.

`ImageStoreProofs` (any uploads, contents, keys, deletes, readers, quota, attempts).
The invariants are layered, each on the one before:

- `TypeCorrect`, with the stages of uploads, deletes and reads.
- `KeysInv`: outside the exceptions (a key drawn again while it was in use, or drawn
  twice) a key is in use by one image (`KeyHeldOnce`) and not by one whose files are
  being removed (`KeyCleanedAlone`).
- `ContentIntactCorrect`, `FilesBehindRowsCorrect`, `OrphansAccountedCorrect`:
  `SourcesInv` adds what lies under a key from the upload's write to the delete, and
  that a delete past its removal leaves no source unless the removal failed.
- `VariantsAccountedCorrect`: `VariantsInv` adds that a task works on its image's
  content, that recorded variant keys have a file, and that a delete which did not
  race with the task has fetched a row in which the keys were complete
  (`SettledUnlessRaced`).
- `AnswersOwnCorrect`: `ReadsInv` follows a thumbnail from storage through the reader
  into the cache and back.
- `QuotaUnlessOverlapCorrect`: `RoomKept`, that without overlap one upload at most is
  past its check and there is room for it.

`MetaCacheProofs` (any images, names, categories, readers, requests):

- `TypeCorrect`: with the foreign key, and that a reader past its fetch has a row.
- `StaleAccountedCorrect`: `StaleAccounted`. A state may satisfy it and yet hold a
  reader that is about to store an old row, or a rename that will give up its
  `DEL` because the image is gone. `FreshInv` therefore adds `ReadersFresh` (what a
  reader is about to store is current or excused), `EntriesFresh` (an entry is
  current, excused, or owed a `DEL` by a request that will really send it) and
  `RefetchesOne`. One lemma treats the handlers that announce their change, one
  the changes that do not.

`SessionsProofs` (any pairs, requests, lifetimes, leeway and minute):

- `TypeCorrect`: needs that the pair a refresh will hand out is signed
  (`RotatedSigned`).
- `RevokedRefusedCorrect`: `RevokedRefused`. `SessionInv` adds `EntriesHold` (the
  entry of every revoked token lapses no earlier than its revocation must hold) and
  `ReadingPast` (a refresh computes the remaining lifetime from an earlier clock
  reading, so it errs on the long side). `LapsesHold` carries the arithmetic:
  rounding to a minute is monotone, so an entry written for at least the
  remaining lifetime lasts wherever in the minute SQLite drops it.
- `RotationOnceCorrect`: `RotationOnce`. For a pair outside its exceptions `OnceOnly`
  says that one refresh at most is past its check, that the pair has no successor
  while there is one, and that a pair with a successor is `Spent`: revoked, or no
  longer decodable.

`AccountsProofs` (any users, codes and requests):

- `TypeCorrect`: with the codes of registrations and the targets of updates.
- `AdminRemainsCorrect`: `AdminRemains`. `AdminInv` counts deleted rows as well
  (`AdminEver`: once a row existed there is an administrator or somebody acted on a
  claim that was no longer true), because a registration that was not the first
  may insert its row after the others are deleted; `LaterSafe` says so of the
  registrations under way, `SelfSafe` that no request demotes or deletes its own
  sender, unless it fetched her row when she was no administrator.
- `InviteAdmitsOneCorrect`: `InviteAdmitsOne`. Outside the exceptions a code is in use
  by one registration at most, has admitted nobody while that one is still to insert
  its row, and once it has admitted somebody is marked or about to be (`OneUse`);
  `CodeFound` says that the code of a registration past its check exists.
- `OneFounderCorrect`: `OneFounder`, from `OneFounding`: one registration at most is
  about to insert an administrator, and none after there is a founder.

The invariants of the last two and of `RotationOnce` say "at most one" by the equality
of any two members; from it lemmas get the cardinalities in the properties.

`StorageConfigsProofs` (any configs, requests, images, repositories and settings):

- `TypeCorrect`, with the targets of requests and the repositories of configs, images
  and tasks.
- `ConfigRowsKeptCorrect`, `RepoAsGivenCorrect`: `RowsInv` adds `RoomKept` (there is
  room for a creation that no other one overlaps) and `UpdatesAlone` (an update that
  nothing overlaps and whose body has no repository holds that of the row).
- `ReadableUntilRestartCorrect`, `OrphansAccountedCorrect`: `FilesInv` adds
  `RoutedWhereStored` (an image stored since the start of the API is where the router
  has its backend) and `RemovalsExcused`.
- `AttemptsAccountedCorrect`: `WorkInv` adds to `FilesInv` `OneRepo` (while a config is
  not edited, router, uploads and tasks agree on its repository), `AttemptsRouted` (an
  attempt works with the backend the router has), `RemovalsSeen` and
  `WrittenPublished` (an attempt that has written a variant publishes, unless the
  task runs again). The first two are the two halves of the exception: outside `risk`
  the router leads to the file, outside `edited` the row does.

`RateLimiterProofs` (any limit, window and number of calls):

- `DenialEarnedCorrect`, `RetryEnoughCorrect`. Every call renews the TTL of the Redis
  counter, so the counter spans an unbounded stretch of time. `LimiterInv` says that
  there is an `s` such that it counts exactly the calls since `s`, that the calls
  before `s` are a window away, and that each window since `s` has a call
  (`Stretch`); for SQLite a row counts the calls of its window.
- `TypeCorrect`: for finitely many calls.
- `AdmitsAtMostCorrect`: the refinement `SlidingLimit` under the mapping of
  `RateLimiter`. Initial states map to initial states and each step to a step or a
  stutter; a window of time meets one stretch in Redis, whose members beyond the
  limit are refused, and two rows in SQLite.

`EditProofs` (any sets of rows, values and requests):

- `FilingTypeCorrect`, `TreeCompleteCorrect`: the depth is checked before the
  insert, and a parent that was a root then is a root or gone (`ParentsChecked`),
  because a row's parent never changes and ids are not used again.
- `FiledAsMovedCorrect`: needs `MovedToUsed`, so that a new id is not where an image
  was once moved to.
- `ProfileTypeCorrect`, `OthersKeptCorrect`: an action property, from `Merged`: what an
  administrator's edit will write differs from the row only in columns that its body
  gives or that were written since it has read the row.
- `SignInKeptCorrect`: `Verified` (the password a change has verified is still there
  or was replaced since) and `LinkedByOwner`.
- `ConfigTypeCorrect`, `KeysKeptCorrect`, `UndoPossibleCorrect`,
  `LanguageFollowsCorrect`: as long as no request has met another in a file,
  `Undisturbed` (config.toml and the backups are complete unless somebody is filling
  them), `KeysRead` (an update holds every key of the file it backed up),
  `BackupsKept` (a backup is what the update has read, and nobody is about to write
  it), `FoundKeys` (what a restore has read is no emptied file) and `LanguageKept`
  (the language is the one the file names, or a request is on its way to reload it),
  the last with `HotFollows` for hot checks.
- `StatsTypeCorrect`, `FiguresTrueCorrect`: `RecentInv` says of every request that
  its figures are true now, or are from a hash and were true at most `StatsTtl` ago,
  unless it was slow or pipelines met; `OneFills` that one request fills a hash at a
  time; `TotalInv` that the figures that are added up were true together.

Two of the proofs corrected a model. The figures of a statistics request were given by
a `CASE` with overlapping guards, whose value is not determined when two are true; it
has disjoint ones now. And some statements hold only if markers and values are apart,
which TLC had taken from its model values: that is now assumed where it is used
(`SlotsApart` in `ImageStore`, `ContentsApart` in `SystemConfig`, `StatsApart` in
`Statistics`).

The assumptions are those in the modules and nothing else: bounds are naturals,
markers for "nothing" are not members of the sets they complete, sets from which
one table or array takes its indices are disjoint, settings are made of the sets they
choose from. TLC evaluates them in every run. `SqliteQueue`, `Categories` and
`Profiles` have names of their own for what other modules call `Init`, `Next`, `pc`
or `Requests`, so that one proof module can extend several components.

Model-checked only: liveness (`EventuallySettled`, `StarvedOnlyByFailing`,
`EventuallyFresh`), because fairness and `ENABLED` are out of the prover's reach, and
the violations `storage_copies` and `sqlite_retries`, which are counterexamples.

## Plan

Done: both queues, the image store with the thumbnail cache, the metadata cache,
sessions, accounts, rate limiting with its abstract specification, storage configs
with the router and Git storage, profiles and OAuth links, categories, the system
configuration and statistics, and the proofs of all their safety properties. Next:

1. An abstract at-least-once queue that `RedisQueue` and `SqliteQueue` implement,
   with the refinements proved: `OnePlace`, `RetriesPaid` and `OutcomeKnown` are the
   facts the mapping needs.
2. The upload queue of the web UI (the shared preprocessing worker, references
   refreshed on render) and its session store, composed with `Sessions`.

## Not modelled

Rendering of pixels, watermarks and fonts; parsing and validation of input;
wording, logging, metrics and health; configuration parsing; cryptography
(a library); the download behind a URL upload; the exchange with OAuth providers;
the setup wizard, CLI and service wrapper. They keep no state of their own that
other parts depend on, or are calls to systems outside the repository. Listings of
images and invites are reads; the web UI is left to the plan. Two errors are left
out of modelled parts: a pipeline of the statistics cache that is cut between its `HSET`s
and `EXPIRE`, after which the hash stays without an expiry, and a row of
the SQLite queue whose payload is no JSON, which `dequeue` has claimed before it
fails and `reclaim_stale` gives back at the next start.
