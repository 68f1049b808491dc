----------------------------- MODULE RedisQueue -----------------------------
(***************************************************************************)
(* The Redis task queue of the full deployment and the worker processes    *)
(* that drain it: pichost-worker/src/queue.rs and the control flow of      *)
(* pichost-worker/src/main.rs.                                             *)
(*                                                                         *)
(* Every Redis command is awaited separately, so every command is a step   *)
(* of its own: other processes run, and a connection error or a crash may  *)
(* come, between any two of them.  HSETs of fields the program never reads *)
(* back (status, error, created_at) are part of the neighbouring step.     *)
(*                                                                         *)
(* Time is counted in task_timeout units: one Tick means that more than    *)
(* task_timeout seconds went by, so a task is stale at a scan exactly when *)
(* its updated_at is smaller than the scan's cutoff.                       *)
(***************************************************************************)
EXTENDS Integers, Sequences

CONSTANTS
    Tasks,        \* task ids; each task processes one image
    Procs,        \* worker processes
    Slots,        \* concurrent worker loops inside a process
    MaxRetries,   \* max_retries of every payload
    MaxTime,      \* bound: number of Ticks
    MaxFaults     \* bound: crashes, Redis/DB errors and lost hashes together

ASSUME RetriesAssumption == MaxRetries \in Nat
ASSUME BoundsAssumption == MaxTime \in Nat /\ MaxFaults \in Nat

Workers == Procs \X Slots
ProcOf(w) == w[1]

Missing == -1     \* an absent hash field

NoTask == "no task"
ASSUME TasksAssumption == NoTask \notin Tasks

VARIABLES
    \* Redis
    pending,      \* list pichost:tasks:pending; LPUSH appends, BRPOPLPUSH takes the head
    processing,   \* list pichost:tasks:processing, as the number of copies of each id
    dead,         \* list pichost:tasks:dead, as the number of copies of each id
    data,         \* hash field "data": the payload's retry_count, or Missing
    updated,      \* hash field "updated_at", or Missing
    \* Postgres
    image,        \* images.status of the task's image
    \* processes
    producer,     \* the API's enqueue_task for each task
    phase,        \* each worker process: where its start-up scan is,
    todo,         \* the copies of each id it has still to look at,
    cand,         \* the id it is moving,
    cutoff,       \* and its cutoff time
    pc,           \* each worker loop: where it is,
    task,         \* the task it holds,
    retry,        \* the retry_count of the payload it read,
    cause,        \* and why it nacks
    \* environment
    now, faults,
    \* history, read by no action
    fails,        \* how often an attempt at the task ended in a nack
    processed,    \* tasks whose pipeline committed 'ready'
    recovered,    \* tasks re-enqueued by a start-up scan
    dropped,      \* tasks whose mover stopped between LREM and LPUSH
    abandoned,    \* tasks whose holder stopped before its LREM
    evicted       \* tasks whose hash was lost

redis == <<pending, processing, dead, data, updated>>
scan == <<phase, todo, cand, cutoff>>
loop == <<pc, task, retry, cause>>
actors == <<producer, scan, loop>>
hist  == <<fails, processed, recovered, dropped, abandoned, evicted>>
vars  == <<redis, image, actors, now, faults, hist>>

\* The id is in no list: its mover took it out and has not put it back yet.
MovingPcs    == {"nackstore", "requeue", "bury"}
MovingPhases == {"reset", "push"}
\* The loop still owes the processing list one LREM for the task it holds.
HoldingPcs == {"popped", "orphan", "read", "working", "written", "ack",
               "nack", "nackrem"}
Pcs == {"idle", "ackmark", "buried", "record"} \cup HoldingPcs \cup MovingPcs
Phases == {"down", "scan", "remove", "running"} \cup MovingPhases

NoneLeft == [t \in Tasks |-> 0]

Init ==
    /\ pending = << >>
    /\ processing = NoneLeft
    /\ dead = NoneLeft
    /\ data = [t \in Tasks |-> Missing]
    /\ updated = [t \in Tasks |-> Missing]
    /\ image = [t \in Tasks |-> "active"]
    /\ producer = [t \in Tasks |-> "new"]
    /\ phase = [p \in Procs |-> "down"]
    /\ todo = [p \in Procs |-> NoneLeft]
    /\ cand = [p \in Procs |-> NoTask]
    /\ cutoff = [p \in Procs |-> 0]
    /\ pc = [w \in Workers |-> "idle"]
    /\ task = [w \in Workers |-> NoTask]
    /\ retry = [w \in Workers |-> 0]
    /\ cause = [w \in Workers |-> "none"]
    /\ now = 0
    /\ faults = 0
    /\ fails = NoneLeft
    /\ processed = {} /\ recovered = {} /\ dropped = {}
    /\ abandoned = {} /\ evicted = {}

(***************************************************************************)
(* Redis list commands.                                                    *)
(***************************************************************************)
Lpush(list, t) == Append(list, t)
Lrem(bag, t) == [bag EXCEPT ![t] = IF @ > 0 THEN @ - 1 ELSE 0]
Add(bag, t) == [bag EXCEPT ![t] = @ + 1]

(***************************************************************************)
(* enqueue_task, called by the API after the image row is inserted.  The   *)
(* caller only logs an error.                                              *)
(***************************************************************************)
EnqueueStore(t) ==
    /\ producer[t] = "new"
    /\ producer' = [producer EXCEPT ![t] = "stored"]
    /\ data' = [data EXCEPT ![t] = 0]
    /\ updated' = [updated EXCEPT ![t] = now]
    /\ UNCHANGED <<pending, processing, dead, image, scan, loop, now, faults, hist>>

EnqueuePush(t) ==
    /\ producer[t] = "stored"
    /\ producer' = [producer EXCEPT ![t] = "queued"]
    /\ pending' = Lpush(pending, t)
    /\ UNCHANGED <<processing, dead, data, updated, image, scan, loop, now, faults, hist>>

EnqueueFail(t) ==
    /\ producer[t] \in {"new", "stored"}
    /\ faults < MaxFaults
    /\ faults' = faults + 1
    /\ producer' = [producer EXCEPT ![t] = "failed"]
    /\ UNCHANGED <<redis, image, scan, loop, now, hist>>

(***************************************************************************)
(* recover_stale_tasks, run once by init_worker_state when a process       *)
(* starts: LRANGE snapshot, then per id HGET updated_at, HGET data, LREM,  *)
(* HSET updated_at, LPUSH.  retry_count is left as it is.                  *)
(***************************************************************************)
InPhase(p, ph) == phase[p] = ph
ToPhase(p, ph) == phase' = [phase EXCEPT ![p] = ph]

StartProc(p) ==
    /\ InPhase(p, "down")
    /\ ToPhase(p, "scan")
    /\ todo' = [todo EXCEPT ![p] = processing]
    /\ cutoff' = [cutoff EXCEPT ![p] = now]
    /\ UNCHANGED <<redis, image, producer, cand, loop, now, faults, hist>>

IsStale(p, t) == updated[t] # Missing /\ updated[t] < cutoff[p]

RecoverSkip(p, t) ==
    /\ InPhase(p, "scan")
    /\ todo[p][t] > 0
    /\ ~IsStale(p, t) \/ data[t] = Missing
    /\ todo' = [todo EXCEPT ![p] = Lrem(@, t)]
    /\ UNCHANGED <<redis, image, producer, phase, cand, cutoff, loop, now, faults, hist>>

RecoverPick(p, t) ==
    /\ InPhase(p, "scan")
    /\ todo[p][t] > 0
    /\ IsStale(p, t)
    /\ data[t] # Missing
    /\ todo' = [todo EXCEPT ![p] = Lrem(@, t)]
    /\ cand' = [cand EXCEPT ![p] = t]
    /\ ToPhase(p, "remove")
    /\ UNCHANGED <<redis, image, producer, cutoff, loop, now, faults, hist>>

RecoverRemove(p) ==
    /\ InPhase(p, "remove")
    /\ ToPhase(p, "reset")
    /\ processing' = Lrem(processing, cand[p])
    /\ recovered' = recovered \cup {cand[p]}
    /\ UNCHANGED <<pending, dead, data, updated, image, producer, todo, cand, cutoff, loop,
                   now, faults, fails, processed, dropped, abandoned, evicted>>

RecoverReset(p) ==
    /\ InPhase(p, "reset")
    /\ ToPhase(p, "push")
    /\ updated' = [updated EXCEPT ![cand[p]] = now]
    /\ UNCHANGED <<pending, processing, dead, data, image, producer, todo, cand, cutoff,
                   loop, now, faults, hist>>

RecoverPush(p) ==
    /\ InPhase(p, "push")
    /\ ToPhase(p, "scan")
    /\ cand' = [cand EXCEPT ![p] = NoTask]
    /\ pending' = Lpush(pending, cand[p])
    /\ UNCHANGED <<processing, dead, data, updated, image, producer, todo, cutoff, loop,
                   now, faults, hist>>

\* The scan is over: spawn_workers starts the process's loops.
RecoverDone(p) ==
    /\ InPhase(p, "scan")
    /\ todo[p] = NoneLeft
    /\ ToPhase(p, "running")
    /\ cutoff' = [cutoff EXCEPT ![p] = 0]
    /\ UNCHANGED <<redis, image, producer, todo, cand, loop, now, faults, hist>>

(***************************************************************************)
(* worker_loop: dequeue_task.                                              *)
(***************************************************************************)
At(w, l) == phase[ProcOf(w)] = "running" /\ pc[w] = l
Goto(w, l) ==
    /\ pc' = [pc EXCEPT ![w] = l]
    /\ UNCHANGED <<task, retry, cause>>
PollAgain(w) ==
    /\ pc' = [pc EXCEPT ![w] = "idle"]
    /\ task' = [task EXCEPT ![w] = NoTask]
    /\ retry' = [retry EXCEPT ![w] = 0]
    /\ cause' = [cause EXCEPT ![w] = "none"]

\* Mutant: BRPOP, which does not push the id to processing.
DequeuePopOnly(w) ==
    /\ At(w, "idle")
    /\ pending # << >>
    /\ pc' = [pc EXCEPT ![w] = "popped"]
    /\ task' = [task EXCEPT ![w] = Head(pending)]
    /\ pending' = Tail(pending)
    /\ UNCHANGED <<processing, dead, data, updated, image, producer, scan, retry, cause,
                   now, faults, hist>>

\* BRPOPLPUSH pending processing
DequeuePop(w) ==
    /\ At(w, "idle")
    /\ pending # << >>
    /\ pc' = [pc EXCEPT ![w] = "popped"]
    /\ task' = [task EXCEPT ![w] = Head(pending)]
    /\ pending' = Tail(pending)
    /\ processing' = Add(processing, Head(pending))
    /\ UNCHANGED <<dead, data, updated, image, producer, scan, retry, cause, now, faults,
                   hist>>

\* Mutant: a missing payload is not noticed.
DequeueReadBlind(w) ==
    /\ At(w, "popped")
    /\ pc' = [pc EXCEPT ![w] = "read"]
    /\ retry' = [retry EXCEPT ![w] = data[task[w]]]
    /\ UNCHANGED <<redis, image, producer, scan, task, cause, now, faults, hist>>

\* HGET data
DequeueRead(w) ==
    /\ At(w, "popped")
    /\ data[task[w]] # Missing
    /\ pc' = [pc EXCEPT ![w] = "read"]
    /\ retry' = [retry EXCEPT ![w] = data[task[w]]]
    /\ UNCHANGED <<redis, image, producer, scan, task, cause, now, faults, hist>>

\* HGET data found nothing ...
DequeueMiss(w) ==
    /\ At(w, "popped")
    /\ data[task[w]] = Missing
    /\ Goto(w, "orphan")
    /\ UNCHANGED <<redis, image, producer, scan, now, faults, hist>>

\* ... so the id is dropped from processing
DequeueOrphan(w) ==
    /\ At(w, "orphan")
    /\ processing' = Lrem(processing, task[w])
    /\ PollAgain(w)
    /\ UNCHANGED <<pending, dead, data, updated, image, producer, scan, now, faults, hist>>

\* HSET status processing, HSET updated_at
DequeueMark(w) ==
    /\ At(w, "read")
    /\ updated' = [updated EXCEPT ![task[w]] = now]
    /\ Goto(w, "working")
    /\ UNCHANGED <<pending, processing, dead, data, image, producer, scan, now, faults,
                   hist>>

(***************************************************************************)
(* The pipeline under tokio::time::timeout, and handle_task_result.  The   *)
(* pipeline's last await is the UPDATE that publishes the image, so the    *)
(* deadline can fire before it or after it.                                *)
(***************************************************************************)
PipelineCommit(w) ==
    /\ At(w, "working")
    /\ image' = [image EXCEPT ![task[w]] = "ready"]
    /\ processed' = processed \cup {task[w]}
    /\ Goto(w, "written")
    /\ UNCHANGED <<redis, producer, scan, now, faults, fails, recovered, dropped,
                   abandoned, evicted>>

PipelineOk(w) ==
    /\ At(w, "written")
    /\ Goto(w, "ack")
    /\ UNCHANGED <<redis, image, producer, scan, now, faults, hist>>

AttemptFailed(w, why) ==
    /\ pc' = [pc EXCEPT ![w] = "nack"]
    /\ cause' = [cause EXCEPT ![w] = why]
    /\ fails' = [fails EXCEPT ![task[w]] = @ + 1]
    /\ UNCHANGED <<redis, image, producer, scan, task, retry, now, faults, processed,
                   recovered, dropped, abandoned, evicted>>

PipelineError(w) == At(w, "working") /\ AttemptFailed(w, "error")

PipelineTimeout(w) ==
    /\ At(w, "working") \/ At(w, "written")
    /\ AttemptFailed(w, "timeout")

(***************************************************************************)
(* ack_task: LREM processing 1; HSET status done, updated_at.              *)
(***************************************************************************)
AckRemove(w) ==
    /\ At(w, "ack")
    /\ processing' = Lrem(processing, task[w])
    /\ Goto(w, "ackmark")
    /\ UNCHANGED <<pending, dead, data, updated, image, producer, scan, now, faults, hist>>

AckMark(w) ==
    /\ At(w, "ackmark")
    /\ updated' = [updated EXCEPT ![task[w]] = now]
    /\ PollAgain(w)
    /\ UNCHANGED <<pending, processing, dead, data, image, producer, scan, now, faults,
                   hist>>

(***************************************************************************)
(* RedisQueue::nack and nack_task: HGET data, LREM processing 1, HSET      *)
(* error and updated_at, then either HSET data with retry_count + 1 and    *)
(* LPUSH pending, or LPUSH dead and HSET status dead.  The retry_count is  *)
(* the one of the payload the loop dequeued.                               *)
(***************************************************************************)
NackRead(w) ==
    /\ At(w, "nack")
    /\ data[task[w]] # Missing
    /\ Goto(w, "nackrem")
    /\ UNCHANGED <<redis, image, producer, scan, now, faults, hist>>

\* "missing task data": nack returns an error, the id stays in processing
NackMiss(w) ==
    /\ At(w, "nack")
    /\ data[task[w]] = Missing
    /\ PollAgain(w)
    /\ abandoned' = abandoned \cup {task[w]}
    /\ UNCHANGED <<redis, image, producer, scan, now, faults, fails, processed, recovered,
                   dropped, evicted>>

\* Mutant: nack re-queues the id without the LREM.
NackKeeps(w) ==
    /\ At(w, "nackrem")
    /\ Goto(w, "nackstore")
    /\ UNCHANGED <<redis, image, producer, scan, now, faults, hist>>

NackRemove(w) ==
    /\ At(w, "nackrem")
    /\ processing' = Lrem(processing, task[w])
    /\ Goto(w, "nackstore")
    /\ UNCHANGED <<pending, dead, data, updated, image, producer, scan, now, faults, hist>>

\* Mutant: the retry limit is off by one.
NackStoreEarly(w) ==
    /\ At(w, "nackstore")
    /\ updated' = [updated EXCEPT ![task[w]] = now]
    /\ \/ /\ retry[w] + 1 < MaxRetries
          /\ data' = [data EXCEPT ![task[w]] = retry[w] + 1]
          /\ Goto(w, "requeue")
       \/ /\ retry[w] + 1 >= MaxRetries
          /\ UNCHANGED data
          /\ Goto(w, "bury")
    /\ UNCHANGED <<pending, processing, dead, image, producer, scan, now, faults, hist>>

NackStore(w) ==
    /\ At(w, "nackstore")
    /\ updated' = [updated EXCEPT ![task[w]] = now]
    /\ \/ /\ retry[w] < MaxRetries
          /\ data' = [data EXCEPT ![task[w]] = retry[w] + 1]
          /\ Goto(w, "requeue")
       \/ /\ retry[w] >= MaxRetries
          /\ UNCHANGED data
          /\ Goto(w, "bury")
    /\ UNCHANGED <<pending, processing, dead, image, producer, scan, now, faults, hist>>

\* Mutant: the id is not pushed back.
NackForgets(w) ==
    /\ At(w, "requeue")
    /\ PollAgain(w)
    /\ UNCHANGED <<redis, image, producer, scan, now, faults, hist>>

NackRequeue(w) ==
    /\ At(w, "requeue")
    /\ pending' = Lpush(pending, task[w])
    /\ PollAgain(w)
    /\ UNCHANGED <<processing, dead, data, updated, image, producer, scan, now, faults,
                   hist>>

NackBury(w) ==
    /\ At(w, "bury")
    /\ dead' = Add(dead, task[w])
    /\ Goto(w, "buried")
    /\ UNCHANGED <<pending, processing, data, updated, image, producer, scan, now, faults,
                   hist>>

\* HSET status dead, and what the caller does with NackAction::DeadLetter: the
\* error path goes on to handle_dead_letter, the timeout path ignores it.
NackDead(w) ==
    /\ At(w, "buried")
    /\ \/ cause[w] = "error" /\ Goto(w, "record")
       \/ cause[w] = "timeout" /\ PollAgain(w)
    /\ UNCHANGED <<redis, image, producer, scan, now, faults, hist>>

\* handle_dead_letter: nobody reads the upload_tasks row; the image is taken
\* out of service.
MarkImageFailed(w) ==
    /\ At(w, "record")
    /\ image' = [image EXCEPT ![task[w]] = "failed"]
    /\ PollAgain(w)
    /\ UNCHANGED <<redis, producer, scan, now, faults, hist>>

(***************************************************************************)
(* Faults and time.                                                        *)
(***************************************************************************)
\* A command of the running operation returns an error: the operation ends
\* there, the error is logged (or ignored) and the loop polls again.
SlotFault(w) ==
    /\ phase[ProcOf(w)] = "running"
    /\ pc[w] \notin {"idle", "working", "written"}
    /\ faults < MaxFaults
    /\ faults' = faults + 1
    /\ dropped' = dropped \cup {t \in {task[w]} : pc[w] \in MovingPcs}
    /\ abandoned' = abandoned \cup {t \in {task[w]} : pc[w] \in HoldingPcs}
    /\ PollAgain(w)
    /\ UNCHANGED <<redis, image, producer, scan, now, fails, processed, recovered, evicted>>

\* A process dies, or its start-up scan fails and main returns the error.
Crash(p) ==
    /\ phase[p] # "down"
    /\ faults < MaxFaults
    /\ faults' = faults + 1
    /\ pc' = [w \in Workers |-> IF ProcOf(w) = p THEN "idle" ELSE pc[w]]
    /\ task' = [w \in Workers |-> IF ProcOf(w) = p THEN NoTask ELSE task[w]]
    /\ retry' = [w \in Workers |-> IF ProcOf(w) = p THEN 0 ELSE retry[w]]
    /\ cause' = [w \in Workers |-> IF ProcOf(w) = p THEN "none" ELSE cause[w]]
    /\ dropped' = dropped
         \cup {t \in Tasks : \E w \in Workers :
                 ProcOf(w) = p /\ task[w] = t /\ pc[w] \in MovingPcs}
         \cup {t \in {cand[p]} : phase[p] \in MovingPhases}
    /\ abandoned' = abandoned
         \cup {t \in Tasks : \E w \in Workers :
                 ProcOf(w) = p /\ task[w] = t /\ pc[w] \in HoldingPcs}
    /\ ToPhase(p, "down")
    /\ todo' = [todo EXCEPT ![p] = NoneLeft]
    /\ cand' = [cand EXCEPT ![p] = NoTask]
    /\ cutoff' = [cutoff EXCEPT ![p] = 0]
    /\ UNCHANGED <<redis, image, producer, now, fails, processed, recovered, evicted>>

\* The task's hash disappears (Redis eviction or an operator's DEL): what the
\* "orphaned task" branches of queue.rs are written for.
EvictHash(t) ==
    /\ producer[t] = "queued"
    /\ data[t] # Missing
    /\ faults < MaxFaults
    /\ faults' = faults + 1
    /\ data' = [data EXCEPT ![t] = Missing]
    /\ updated' = [updated EXCEPT ![t] = Missing]
    /\ evicted' = evicted \cup {t}
    /\ UNCHANGED <<pending, processing, dead, image, actors, now, fails, processed,
                   recovered, dropped, abandoned>>

Tick ==
    /\ now < MaxTime
    /\ now' = now + 1
    /\ UNCHANGED <<redis, image, actors, faults, hist>>

-----------------------------------------------------------------------------
Enqueue(t) == EnqueueStore(t) \/ EnqueuePush(t)

Recover(p) ==
    \/ StartProc(p) \/ RecoverRemove(p) \/ RecoverReset(p) \/ RecoverPush(p)
    \/ RecoverDone(p)
    \/ \E t \in Tasks : RecoverSkip(p, t) \/ RecoverPick(p, t)

\* Everything a loop does on its own, except how the pipeline ends.
LoopStep(w) ==
    \/ DequeuePop(w) \/ DequeueRead(w) \/ DequeueMiss(w) \/ DequeueOrphan(w)
    \/ DequeueMark(w) \/ PipelineOk(w) \/ AckRemove(w) \/ AckMark(w)
    \/ NackRead(w) \/ NackMiss(w) \/ NackRemove(w) \/ NackStore(w) \/ NackRequeue(w)
    \/ NackBury(w) \/ NackDead(w) \/ MarkImageFailed(w)

PipelineStep(w) == PipelineCommit(w) \/ PipelineError(w) \/ PipelineTimeout(w)

Fault ==
    \/ \E t \in Tasks : EnqueueFail(t) \/ EvictHash(t)
    \/ \E w \in Workers : SlotFault(w)
    \/ \E p \in Procs : Crash(p)

Next ==
    \/ \E t \in Tasks : Enqueue(t)
    \/ \E p \in Procs : Recover(p)
    \/ \E w \in Workers : LoopStep(w) \/ PipelineStep(w)
    \/ Fault
    \/ Tick

Spec == Init /\ [][Next]_vars

(***************************************************************************)
(* Fairness: tokio keeps polling every loop, a supervisor restarts a dead  *)
(* process, the timeout wrapper ends every pipeline run, and time passes.  *)
(* Nothing is assumed about faults or about the API.                       *)
(***************************************************************************)
FairSpec ==
    /\ Spec
    /\ \A p \in Procs : WF_vars(Recover(p))
    /\ \A w \in Workers : WF_vars(LoopStep(w)) /\ WF_vars(PipelineStep(w))
    /\ WF_vars(Tick)

-----------------------------------------------------------------------------
(***************************************************************************)
(* Properties.                                                             *)
(***************************************************************************)
\* Type invariant: every list holds task ids, every hash field is a value or
\* Missing, a loop that is not idle holds a task, and a scan that is moving an
\* id knows which.
TypeOK ==
    /\ pending \in Seq(Tasks)
    /\ processing \in [Tasks -> Nat]
    /\ dead \in [Tasks -> Nat]
    /\ data \in [Tasks -> Nat \cup {Missing}]
    /\ updated \in [Tasks -> Nat \cup {Missing}]
    /\ image \in [Tasks -> {"active", "ready", "failed"}]
    /\ producer \in [Tasks -> {"new", "stored", "queued", "failed"}]
    /\ phase \in [Procs -> Phases]
    /\ todo \in [Procs -> [Tasks -> Nat]]
    /\ cand \in [Procs -> Tasks \cup {NoTask}]
    /\ cutoff \in [Procs -> Nat]
    /\ pc \in [Workers -> Pcs]
    /\ task \in [Workers -> Tasks \cup {NoTask}]
    /\ retry \in [Workers -> Nat]
    /\ cause \in [Workers -> {"none", "error", "timeout"}]
    /\ now \in Nat
    /\ faults \in Nat
    /\ fails \in [Tasks -> Nat]
    /\ processed \in SUBSET Tasks
    /\ recovered \in SUBSET Tasks
    /\ dropped \in SUBSET Tasks
    /\ abandoned \in SUBSET Tasks
    /\ evicted \in SUBSET Tasks
    /\ \A w \in Workers : pc[w] # "idle" => task[w] \in Tasks
    /\ \A p \in Procs :
          phase[p] \in MovingPhases \cup {"remove"} => cand[p] \in Tasks

InPending(t) == \E i \in 1..Len(pending) : pending[i] = t
Moving(t) ==
    \/ \E w \in Workers : task[w] = t /\ pc[w] \in MovingPcs
    \/ \E p \in Procs : cand[p] = t /\ phase[p] \in MovingPhases
Holding(w, t) == task[w] = t /\ pc[w] \in HoldingPcs

\* No queued task is lost: until it is processed or dead-lettered its id is in
\* pending or processing or between the LREM and the LPUSH of nack_task or
\* recover_single_task.  The only ways out are a stop inside that window
\* (dropped) and a lost hash (evicted).
NoTaskLost ==
    \A t \in Tasks :
        producer[t] = "queued" =>
            \/ InPending(t) \/ processing[t] > 0 \/ dead[t] > 0
            \/ Moving(t)
            \/ t \in processed \cup dropped \cup evicted

\* nack_task dead-letters a task only after max_retries + 1 attempts really
\* failed, however often start-up scans re-enqueued it and however many loops
\* nacked copies of it with stale retry counts; and the image is marked failed
\* only for such a task.
RetryBudgetSpent ==
    \A t \in Tasks :
        /\ dead[t] > 0 => fails[t] > MaxRetries
        /\ image[t] = "failed" => dead[t] > 0

\* BRPOPLPUSH hands an id to one loop: two loops work on the same task, or one
\* works on it while it is queued as well, only if a start-up scan re-enqueued
\* it from under its holder.
OnlyRecoveryDuplicates ==
    \A t \in Tasks \ recovered :
        /\ \A v, w \in Workers : Holding(v, t) /\ Holding(w, t) => v = w
        /\ InPending(t) => ~Moving(t) /\ \A w \in Workers : ~Holding(w, t)
        /\ processing[t] <= 1

\* An id stays in the processing list without a loop that will remove it only
\* after a fault of its holder: LREM by the wrong copy (an ack or nack after a
\* scan) never strands the entry of another loop.
StrandedOnlyByFault ==
    \A t \in Tasks \ abandoned :
        processing[t] > 0 => \E w \in Workers : Holding(w, t)

\* What is on the lists has its cause: ids listed twice, and ids nobody will remove.
ListsAccounted == OnlyRecoveryDuplicates /\ StrandedOnlyByFault

Settled(t) == t \in processed \/ dead[t] > 0

\* Every queued task is eventually processed or dead-lettered, also when start-up scans
\* duplicate tasks and reset retry counts; the exceptions are a fault between LREM and
\* LPUSH (dropped), a lost hash (evicted), and a fault of the loop that held it
\* (abandoned), for its id waits in processing until some process starts again.  Once
\* the budget is spent, duplicated copies cannot be retried for ever: the lists drain for
\* good, but for what a fault has left in processing.
EventuallySettled ==
    /\ \A t \in Tasks :
          producer[t] = "queued" ~> (Settled(t) \/ t \in dropped \cup evicted \cup abandoned)
    /\ <>[](pending = << >> /\ \A t \in Tasks \ abandoned : processing[t] = 0)
=============================================================================
