---------------------------- MODULE SqliteQueue ----------------------------
(***************************************************************************)
(* The task queue of lite mode (pichost-core/src/state/sqlite_queue.rs)    *)
(* and the worker embedded in the API process (lite_worker_task and        *)
(* handle_task of pichost-api/src/app.rs).                                 *)
(*                                                                         *)
(* Every queue operation is one SQL statement and therefore one step.  A   *)
(* statement that fails changes nothing; the callers log and carry on.     *)
(* claimed_at is not NULL exactly while status is 'processing', so it is   *)
(* not kept apart.                                                         *)
(***************************************************************************)
EXTENDS Integers, FiniteSets

CONSTANTS
    Rows,        \* task ids; each task processes one image
    Limits,      \* the max_retries values payloads carry
    MaxFailures  \* bound: crashes and failed statements together

ASSUME LiteLimitsAssumption == Limits \subseteq Nat
ASSUME LiteFaultsAssumption == MaxFailures \in Nat

NoRow == "no task"
ASSUME LiteTasksAssumption == NoRow \notin Rows

VARIABLES
    \* table pending_tasks
    status,       \* status of the row, "none" before the INSERT, "deleted" after the ack
    retries,      \* column retry_count
    payload,      \* retry_count inside payload_json
    limit,        \* max_retries inside payload_json
    created,      \* column created_at; two rows of one millisecond are equal
    clock,        \* the time the next INSERT stamps
    \* the API process with its worker
    server,       \* "down", "starting" (before reclaim_stale) or "up"
    step,         \* worker: "idle", "working", "ack" or "nack"
    row,          \* the task it dequeued
    \* environment
    failures,
    \* history, read by no action
    published,    \* tasks whose pipeline published the image
    nacks,        \* tasks with a failed attempt
    stranded,     \* claimed rows whose worker stopped or whose ack/nack failed
    everStranded  \* the same, not cleared by a reclaim

table == <<status, retries, payload, limit, created, clock>>
proc == <<server, step, row>>
liteHist == <<published, nacks, stranded, everStranded>>
liteVars == <<table, proc, failures, liteHist>>

Statuses == {"none", "pending", "processing", "dead", "deleted"}

LiteInit ==
    /\ status = [t \in Rows |-> "none"]
    /\ retries = [t \in Rows |-> 0]
    /\ payload = [t \in Rows |-> 0]
    /\ limit = [t \in Rows |-> 0]
    /\ created = [t \in Rows |-> 0]
    /\ clock = 0
    /\ server = "starting" /\ step = "idle" /\ row = NoRow
    /\ failures = 0
    /\ published = {} /\ nacks = {} /\ stranded = {} /\ everStranded = {}

NextPoll == step' = "idle" /\ row' = NoRow

\* enqueue: INSERT (task_id, payload_json, 'pending'); the payload comes with
\* retry_count 0 and the column defaults to 0.
LiteEnqueue(t) ==
    /\ server = "up"
    /\ status[t] = "none"
    /\ status' = [status EXCEPT ![t] = "pending"]
    /\ payload' = [payload EXCEPT ![t] = 0]
    /\ \E m \in Limits : limit' = [limit EXCEPT ![t] = m]
    /\ created' = [created EXCEPT ![t] = clock]
    /\ \E later \in {0, 1} : clock' = clock + later
    /\ UNCHANGED <<retries, proc, failures, liteHist>>

\* build_lite_app_state: reclaim_stale, then the worker is spawned.
Reclaim ==
    /\ server = "starting"
    /\ server' = "up"
    /\ status' = [t \in Rows |-> IF status[t] = "processing" THEN "pending" ELSE status[t]]
    /\ stranded' = {}
    /\ UNCHANGED <<retries, payload, limit, created, clock, step, row, failures, published, nacks,
                   everStranded>>

\* Mutant: no ORDER BY, any pending row is claimed.
AnyPending(t) == status[t] = "pending"

\* The row ORDER BY created_at LIMIT 1 picks among the pending ones.
Oldest(t) ==
    /\ status[t] = "pending"
    /\ \A u \in Rows : status[u] = "pending" => created[t] <= created[u]

\* Mutant: the claim takes the row out of the table.
DequeueDeletes(t) ==
    /\ server = "up" /\ step = "idle"
    /\ Oldest(t)
    /\ status' = [status EXCEPT ![t] = "deleted"]
    /\ step' = "working" /\ row' = t
    /\ UNCHANGED <<retries, payload, limit, created, clock, server, failures, liteHist>>

\* dequeue: one UPDATE ... RETURNING
Dequeue(t) ==
    /\ server = "up" /\ step = "idle"
    /\ Oldest(t)
    /\ status' = [status EXCEPT ![t] = "processing"]
    /\ step' = "working" /\ row' = t
    /\ UNCHANGED <<retries, payload, limit, created, clock, server, failures, liteHist>>

\* handle_task: process_task published the image; ack next.
ProcessOk ==
    /\ step = "working"
    /\ step' = "ack"
    /\ published' = published \cup {row}
    /\ UNCHANGED <<table, server, row, failures, nacks, stranded, everStranded>>

\* handle_task: process_task returned an error; nack next.
ProcessError ==
    /\ step = "working"
    /\ step' = "nack"
    /\ nacks' = nacks \cup {row}
    /\ UNCHANGED <<table, server, row, failures, published, stranded, everStranded>>

\* Mutant: the finished row is not deleted.
AckForgets ==
    /\ step = "ack"
    /\ NextPoll
    /\ UNCHANGED <<table, server, failures, liteHist>>

\* ack: DELETE
Ack ==
    /\ step = "ack"
    /\ status' = [status EXCEPT ![row] = "deleted"]
    /\ NextPoll
    /\ UNCHANGED <<retries, payload, limit, created, clock, server, failures, liteHist>>

\* Mutant: the retry counts up but leaves the row claimed.
NackKeepsClaim ==
    /\ step = "nack"
    /\ retries' = [retries EXCEPT ![row] = payload[row] + 1]
    /\ NextPoll
    /\ UNCHANGED <<status, payload, limit, created, clock, server, failures, liteHist>>

\* nack, called with the retry_count of the dequeued payload_json.
Nack ==
    /\ step = "nack"
    /\ \/ /\ payload[row] < limit[row]
          /\ status' = [status EXCEPT ![row] = "pending"]
          /\ retries' = [retries EXCEPT ![row] = payload[row] + 1]
       \/ /\ payload[row] >= limit[row]
          /\ status' = [status EXCEPT ![row] = "dead"]
          /\ UNCHANGED retries
    /\ NextPoll
    /\ UNCHANGED <<payload, limit, created, clock, server, failures, liteHist>>

Strand(ts) ==
    /\ stranded' = stranded \cup ts
    /\ everStranded' = everStranded \cup ts

\* The DELETE or UPDATE fails.  handle_task logs it (a failed nack counts as
\* NackAction::DeadLetter, which is only logged too) and polls again.
SettleFault ==
    /\ step \in {"ack", "nack"}
    /\ failures < MaxFailures /\ failures' = failures + 1
    /\ Strand({row})
    /\ NextPoll
    /\ UNCHANGED <<table, server, published, nacks>>

\* reclaim_stale fails: build_lite_app_state logs it and starts the worker.
ReclaimFault ==
    /\ server = "starting"
    /\ failures < MaxFailures /\ failures' = failures + 1
    /\ server' = "up"
    /\ UNCHANGED <<table, step, row, liteHist>>

\* The process dies with whatever its worker was doing.
LiteCrash ==
    /\ server # "down"
    /\ failures < MaxFailures /\ failures' = failures + 1
    /\ server' = "down"
    /\ Strand({t \in {row} : step # "idle"})
    /\ NextPoll
    /\ UNCHANGED <<table, published, nacks>>

Restart ==
    /\ server = "down"
    /\ server' = "starting"
    /\ UNCHANGED <<table, step, row, failures, liteHist>>

-----------------------------------------------------------------------------
Startup == Reclaim \/ Restart
Worker == (\E t \in Rows : Dequeue(t)) \/ Ack \/ Nack
Pipeline == ProcessOk \/ ProcessError
LiteFault == SettleFault \/ ReclaimFault \/ LiteCrash

LiteNext == (\E t \in Rows : LiteEnqueue(t)) \/ Startup \/ Worker \/ Pipeline \/ LiteFault

LiteSpec == LiteInit /\ [][LiteNext]_liteVars

(***************************************************************************)
(* Fairness: the process is restarted, tokio polls the worker, every       *)
(* pipeline run returns.  Nothing is said about how it returns.            *)
(***************************************************************************)
LiteFairSpec ==
    LiteSpec /\ WF_liteVars(Startup) /\ WF_liteVars(Worker) /\ WF_liteVars(Pipeline)

-----------------------------------------------------------------------------
\* Type invariant: columns have their types and a worker that is not idle runs
\* inside a live process and holds a task.
LiteTypeOK ==
    /\ status \in [Rows -> Statuses]
    /\ retries \in [Rows -> Nat]
    /\ payload \in [Rows -> Nat]
    /\ limit \in [Rows -> Nat]
    /\ created \in [Rows -> Nat]
    /\ clock \in Nat
    /\ server \in {"down", "starting", "up"}
    /\ step \in {"idle", "working", "ack", "nack"}
    /\ row \in Rows \cup {NoRow}
    /\ failures \in Nat
    /\ published \in SUBSET Rows
    /\ nacks \in SUBSET Rows
    /\ stranded \in SUBSET Rows
    /\ everStranded \in SUBSET Rows
    /\ step # "idle" => row \in Rows /\ server = "up"

\* The worker and the table agree on who is being processed: the held row is
\* claimed, and a claimed row nobody holds was stranded by a failed ack or nack
\* or by a crash, and not reclaimed since.  In particular a start-up whose
\* reclaim works leaves no claimed row behind for ever.
ClaimsAccounted ==
    /\ step # "idle" => status[row] = "processing" /\ row \notin stranded
    /\ \A t \in Rows :
          status[t] = "processing" /\ ~(step # "idle" /\ row = t) => t \in stranded

\* A row leaves the table only after its image was published, is dead-lettered
\* only after a failed attempt, and is queued or claimed again after publishing
\* only because of a fault (at-least-once, duplicates only after a fault).
DeliveredAtLeastOnce ==
    \A t \in Rows :
        /\ status[t] = "deleted" => t \in published
        /\ status[t] = "dead" => t \in nacks
        /\ status[t] = "pending" /\ t \in published => t \in everStranded

\* Oldest-first claiming starves a task only behind one that fails for ever: a
\* queued task is published or dead-lettered, or stranded by a fault, unless a
\* task queued no later than it (itself included) is nacked again and again.
StarvedOnlyByFailing ==
    \A t \in Rows :
        \/ status[t] = "pending" ~> t \in published \cup everStranded \/ status[t] = "dead"
        \/ []<>(step = "nack" /\ created[row] <= created[t])

\* What the comment on handle_task says, "dead-lettering once retries are
\* exhausted" (app.rs:177-178): no task is nacked for ever.  It is violated:
\* nack is called with the retry_count of payload_json, which no retry raises.
RetriesRunOut == \A t \in Rows : <>[]~(step = "nack" /\ row = t)
=============================================================================
