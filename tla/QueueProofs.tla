---------------------------- MODULE QueueProofs ----------------------------
(***************************************************************************)
(* Proofs about the two task queues.  RedisQueue, for any number of tasks, *)
(* processes, loops, retries, ticks and faults: the type invariant, that   *)
(* dead letters have spent their retries, that no queued task is lost, and *)
(* which faults duplicate or strand an entry.  SqliteQueue, at the end:    *)
(* types, claims and deliveries.                                           *)
(***************************************************************************)
EXTENDS RedisQueue, SqliteQueue, FiniteSetTheorems, TLAPS

\* What the loops and the lists hold has been queued, and a queued task's data
\* is missing only if its hash was lost.
OnlyQueued ==
    /\ \A t \in Tasks : InPending(t) \/ processing[t] > 0 => producer[t] = "queued"
    /\ \A w \in Workers : pc[w] # "idle" => producer[task[w]] = "queued"
    /\ \A p \in Procs : phase[p] \in MovingPhases \cup {"remove"}
                          => producer[cand[p]] = "queued"
    /\ \A p \in Procs, t \in Tasks : todo[p][t] > 0 => producer[t] = "queued"
    /\ \A t \in Tasks : producer[t] \in {"stored", "queued"} /\ data[t] = Missing
                          => t \in evicted

\* What a loop knows about the task it holds.
LoopKnows ==
    \A w \in Workers :
        /\ pc[w] \in {"written", "ack", "ackmark"} => task[w] \in processed
        /\ pc[w] = "orphan" => task[w] \in evicted

QueuedInv == TypeOK /\ OnlyQueued

\* The inductive invariant behind NoTaskLost.
LossInv == QueuedInv /\ LoopKnows /\ NoTaskLost

\* Every retry_count anywhere is covered by attempts that failed; a loop that
\* nacks has one failed attempt more than its payload says.
RetriesPaid ==
    /\ \A t \in Tasks : data[t] <= fails[t]
    /\ \A w \in Workers :
          /\ pc[w] \in {"read", "working", "written"} => retry[w] <= fails[task[w]]
          /\ pc[w] \in {"nack", "nackrem", "nackstore", "requeue", "bury", "buried"}
                => retry[w] < fails[task[w]]
          /\ pc[w] = "bury" => retry[w] >= MaxRetries
          /\ pc[w] \in {"buried", "record"} => dead[task[w]] > 0

\* The inductive invariant behind RetryBudgetSpent.
BudgetInv == TypeOK /\ RetriesPaid /\ RetryBudgetSpent

\* The loop has the id, to remove it from processing or to push it.
Active(w, t) == task[w] = t /\ pc[w] \in HoldingPcs \cup MovingPcs

ListedOnce(t) == \A i, j \in 1..Len(pending) : pending[i] = t /\ pending[j] = t => i = j

\* Until a scan re-enqueues it, a task is in one place: on pending, with one loop (and on
\* processing as long as that loop holds it), or stranded on processing.
OnePlace ==
    \A t \in Tasks \ recovered :
        /\ \A v, w \in Workers : Active(v, t) /\ Active(w, t) => v = w
        /\ \A p \in Procs : phase[p] \in MovingPhases => cand[p] # t
        /\ InPending(t) => processing[t] = 0 /\ \A w \in Workers : ~Active(w, t)
        /\ \A w \in Workers : task[w] = t /\ pc[w] \in MovingPcs => processing[t] = 0
        /\ processing[t] <= 1
        /\ ListedOnce(t)

Holders(t) == {w \in Workers : Holding(w, t)}

\* Every entry of processing has a loop that will remove one, unless a fault took it.
Covered(t) ==
    /\ IsFiniteSet(Holders(t))
    /\ t \notin abandoned => processing[t] <= Cardinality(Holders(t))

HoldersEnough == \A t \in Tasks : Covered(t)

\* The inductive invariant behind ListsAccounted.
ListsInv == QueuedInv /\ OnePlace /\ HoldersEnough

-----------------------------------------------------------------------------
(***************************************************************************)
(* Sequence facts: LPUSH keeps every id and adds one, BRPOPLPUSH loses at  *)
(* most the head.                                                          *)
(***************************************************************************)
LEMMA PushKeeps ==
    ASSUME NEW S, NEW s \in Seq(S), NEW e \in S
    PROVE  /\ Append(s, e) \in Seq(S)
           /\ Len(Append(s, e)) = Len(s) + 1
           /\ \A i \in 1..Len(s) : Append(s, e)[i] = s[i]
           /\ Append(s, e)[Len(s) + 1] = e
  OBVIOUS

LEMMA PopKeeps ==
    ASSUME NEW S, NEW s \in Seq(S), s # << >>
    PROVE  /\ Tail(s) \in Seq(S)
           /\ Head(s) \in S
           /\ Len(s) \in Nat /\ Len(s) >= 1
           /\ Len(Tail(s)) = Len(s) - 1
           /\ Head(s) = s[1]
           /\ \A i \in 1..Len(s) - 1 : Tail(s)[i] = s[i + 1]
  OBVIOUS

LEMMA BagOps ==
    ASSUME NEW bag \in [Tasks -> Nat], NEW t \in Tasks
    PROVE  /\ Lrem(bag, t) \in [Tasks -> Nat]
           /\ Add(bag, t) \in [Tasks -> Nat]
           /\ Add(bag, t)[t] = bag[t] + 1
           /\ \A u \in Tasks \ {t} : Lrem(bag, t)[u] = bag[u] /\ Add(bag, t)[u] = bag[u]
           /\ bag[t] > 0 => Lrem(bag, t)[t] = bag[t] - 1
           /\ bag[t] = 0 => Lrem(bag, t)[t] = 0
  BY DEF Lrem, Add

-----------------------------------------------------------------------------
(***************************************************************************)
(* The type invariant.                                                     *)
(***************************************************************************)
LEMMA InitType == Init => TypeOK
  BY TasksAssumption DEF Init, TypeOK, NoneLeft,
     Phases, Pcs, MovingPcs, MovingPhases, HoldingPcs, Missing

LEMMA NextType == TypeOK /\ [Next]_vars => TypeOK'
<1> SUFFICES ASSUME TypeOK, [Next]_vars PROVE TypeOK'
  OBVIOUS
<1> USE DEF TypeOK, scan, loop, redis, actors, hist
<1>0. CASE UNCHANGED vars
  BY <1>0 DEF vars
<1>1. ASSUME NEW t \in Tasks, EnqueueStore(t) PROVE TypeOK'
  BY <1>1 DEF EnqueueStore
<1>2. ASSUME NEW t \in Tasks, EnqueuePush(t) PROVE TypeOK'
  BY <1>2, PushKeeps DEF EnqueuePush, Lpush
<1>3. ASSUME NEW t \in Tasks, EnqueueFail(t) PROVE TypeOK'
  BY <1>3 DEF EnqueueFail
<1>4. ASSUME NEW p \in Procs, StartProc(p) PROVE TypeOK'
  BY <1>4 DEF StartProc, InPhase, ToPhase, Phases, MovingPhases
<1>5. ASSUME NEW p \in Procs, RecoverRemove(p) PROVE TypeOK'
  <2>1. cand[p] \in Tasks
    BY <1>5 DEF RecoverRemove, InPhase
  <2>2. processing' \in [Tasks -> Nat] /\ phase' \in [Procs -> Phases]
    BY <1>5, <2>1, BagOps DEF RecoverRemove, ToPhase, Phases, MovingPhases
  <2> QED
    BY <1>5, <2>1, <2>2 DEF RecoverRemove, ToPhase, Phases, MovingPhases
<1>6. ASSUME NEW p \in Procs, RecoverReset(p) PROVE TypeOK'
  BY <1>6 DEF RecoverReset, InPhase, ToPhase, Phases, MovingPhases
<1>7. ASSUME NEW p \in Procs, RecoverPush(p) PROVE TypeOK'
  BY <1>7, PushKeeps DEF RecoverPush, InPhase, ToPhase, Lpush, Phases, MovingPhases
<1>8. ASSUME NEW p \in Procs, RecoverDone(p) PROVE TypeOK'
  BY <1>8 DEF RecoverDone, InPhase, ToPhase, NoneLeft, Phases, MovingPhases
<1>9. ASSUME NEW p \in Procs, NEW t \in Tasks, RecoverSkip(p, t) PROVE TypeOK'
  <2>1. todo' \in [Procs -> [Tasks -> Nat]]
    BY <1>9, BagOps DEF RecoverSkip
  <2> QED
    BY <1>9, <2>1 DEF RecoverSkip
<1>10. ASSUME NEW p \in Procs, NEW t \in Tasks, RecoverPick(p, t) PROVE TypeOK'
  <2>1. todo' \in [Procs -> [Tasks -> Nat]]
    BY <1>10, BagOps DEF RecoverPick
  <2> QED
    BY <1>10, <2>1 DEF RecoverPick, ToPhase, Phases
<1>11. ASSUME NEW w \in Workers, DequeuePop(w) PROVE TypeOK'
  BY <1>11, PopKeeps, BagOps DEF DequeuePop, At, Pcs, HoldingPcs, MovingPcs
<1>12. ASSUME NEW w \in Workers, DequeueRead(w) PROVE TypeOK'
  BY <1>12 DEF DequeueRead, At, Pcs, HoldingPcs, MovingPcs
<1>13. ASSUME NEW w \in Workers, DequeueMiss(w) PROVE TypeOK'
  BY <1>13 DEF DequeueMiss, At, Goto, Pcs, HoldingPcs, MovingPcs
<1>14. ASSUME NEW w \in Workers, DequeueOrphan(w) PROVE TypeOK'
  BY <1>14, BagOps DEF DequeueOrphan, At, PollAgain, Pcs, HoldingPcs, MovingPcs
<1>15. ASSUME NEW w \in Workers, DequeueMark(w) PROVE TypeOK'
  BY <1>15 DEF DequeueMark, At, Goto, Pcs, HoldingPcs, MovingPcs
<1>16. ASSUME NEW w \in Workers, PipelineCommit(w) PROVE TypeOK'
  BY <1>16 DEF PipelineCommit, At, Goto, Pcs, HoldingPcs, MovingPcs
<1>17. ASSUME NEW w \in Workers, PipelineOk(w) PROVE TypeOK'
  BY <1>17 DEF PipelineOk, At, Goto, Pcs, HoldingPcs, MovingPcs
<1>18. ASSUME NEW w \in Workers, PipelineError(w) PROVE TypeOK'
  <2>1. task[w] \in Tasks
    BY <1>18 DEF PipelineError, At
  <2>2. fails' \in [Tasks -> Nat]
    BY <1>18, <2>1 DEF PipelineError, AttemptFailed
  <2>3. pc' \in [Workers -> Pcs] /\ \A v \in Workers : pc'[v] # "idle" => task'[v] \in Tasks
    BY <1>18, <2>1 DEF PipelineError, AttemptFailed, Pcs, HoldingPcs
  <2> QED
    BY <1>18, <2>2, <2>3 DEF PipelineError, AttemptFailed
<1>19. ASSUME NEW w \in Workers, PipelineTimeout(w) PROVE TypeOK'
  <2>1. task[w] \in Tasks
    BY <1>19 DEF PipelineTimeout, At
  <2>2. fails' \in [Tasks -> Nat]
    BY <1>19, <2>1 DEF PipelineTimeout, AttemptFailed
  <2>3. pc' \in [Workers -> Pcs] /\ \A v \in Workers : pc'[v] # "idle" => task'[v] \in Tasks
    BY <1>19, <2>1 DEF PipelineTimeout, AttemptFailed, Pcs, HoldingPcs
  <2> QED
    BY <1>19, <2>2, <2>3 DEF PipelineTimeout, AttemptFailed
<1>20. ASSUME NEW w \in Workers, AckRemove(w) PROVE TypeOK'
  BY <1>20, BagOps DEF AckRemove, At, Goto, Pcs, HoldingPcs, MovingPcs
<1>21. ASSUME NEW w \in Workers, AckMark(w) PROVE TypeOK'
  BY <1>21 DEF AckMark, At, PollAgain, Pcs, HoldingPcs, MovingPcs
<1>22. ASSUME NEW w \in Workers, NackRead(w) PROVE TypeOK'
  BY <1>22 DEF NackRead, At, Goto, Pcs, HoldingPcs, MovingPcs
<1>23. ASSUME NEW w \in Workers, NackMiss(w) PROVE TypeOK'
  BY <1>23 DEF NackMiss, At, PollAgain, Pcs, HoldingPcs, MovingPcs
<1>24. ASSUME NEW w \in Workers, NackRemove(w) PROVE TypeOK'
  BY <1>24, BagOps DEF NackRemove, At, Goto, Pcs, HoldingPcs, MovingPcs
<1>25. ASSUME NEW w \in Workers, NackStore(w) PROVE TypeOK'
  <2>1. task[w] \in Tasks /\ now \in Nat
    BY <1>25 DEF NackStore, At
  <2>2. updated' \in [Tasks -> Nat \cup {Missing}]
    BY <1>25, <2>1 DEF NackStore
  <2>3. data' \in [Tasks -> Nat \cup {Missing}]
    <3>1. retry[w] + 1 \in Nat
      OBVIOUS
    <3> QED
      BY <1>25, <2>1, <3>1 DEF NackStore
  <2>4. pc' \in [Workers -> Pcs] /\ \A v \in Workers : pc'[v] # "idle" => task'[v] \in Tasks
    BY <1>25, <2>1 DEF NackStore, Goto, Pcs, MovingPcs
  <2> QED
    BY <1>25, <2>2, <2>3, <2>4 DEF NackStore, Goto
<1>26. ASSUME NEW w \in Workers, NackRequeue(w) PROVE TypeOK'
  BY <1>26, PushKeeps DEF NackRequeue, At, PollAgain, Lpush, Pcs, HoldingPcs, MovingPcs
<1>27. ASSUME NEW w \in Workers, NackBury(w) PROVE TypeOK'
  BY <1>27, BagOps DEF NackBury, At, Goto, Pcs, HoldingPcs, MovingPcs
<1>28. ASSUME NEW w \in Workers, NackDead(w) PROVE TypeOK'
  <2>1. CASE Goto(w, "record")
    BY <1>28, <2>1 DEF NackDead, At, Goto, Pcs
  <2>2. CASE PollAgain(w)
    BY <1>28, <2>2 DEF NackDead, PollAgain, Pcs
  <2> QED
    BY <1>28, <2>1, <2>2 DEF NackDead
<1>29. ASSUME NEW w \in Workers, MarkImageFailed(w) PROVE TypeOK'
  BY <1>29 DEF MarkImageFailed, At, PollAgain, Pcs, HoldingPcs, MovingPcs
<1>30. ASSUME NEW w \in Workers, SlotFault(w) PROVE TypeOK'
  BY <1>30 DEF SlotFault, PollAgain, Pcs, HoldingPcs, MovingPcs
<1>31. ASSUME NEW p \in Procs, Crash(p) PROVE TypeOK'
  BY <1>31
     DEF Crash, ToPhase, NoneLeft, Phases, MovingPhases, Pcs, HoldingPcs, MovingPcs
<1>32. ASSUME NEW t \in Tasks, EvictHash(t) PROVE TypeOK'
  BY <1>32 DEF EvictHash
<1>33. CASE Tick
  BY <1>33 DEF Tick
<1> QED
  BY <1>0, <1>1, <1>2, <1>3, <1>4, <1>5, <1>6, <1>7, <1>8, <1>9, <1>10, <1>11, <1>12, <1>13, <1>14, <1>15, <1>16, <1>17, <1>18, <1>19, <1>20, <1>21, <1>22, <1>23, <1>24, <1>25, <1>26, <1>27, <1>28, <1>29, <1>30, <1>31, <1>32, <1>33 DEF Next, Enqueue, Recover, LoopStep, PipelineStep, Fault

\* The type invariant holds in every behaviour of the queue and its workers.
THEOREM TypeCorrect == Spec => []TypeOK
  BY InitType, NextType, PTL DEF Spec

-----------------------------------------------------------------------------
(***************************************************************************)
(* The retry budget.                                                       *)
(***************************************************************************)
LEMMA InitBudget == Init => BudgetInv
  BY InitType DEF Init, BudgetInv, RetriesPaid, RetryBudgetSpent, NoneLeft, Missing

LEMMA NextBudget == BudgetInv /\ [Next]_vars => BudgetInv'
<1> SUFFICES ASSUME BudgetInv, [Next]_vars PROVE RetriesPaid' /\ RetryBudgetSpent'
  BY NextType DEF BudgetInv
<1> USE RetriesAssumption DEF BudgetInv, TypeOK, RetriesPaid, RetryBudgetSpent, scan, loop, redis, actors, hist
<1>0. CASE UNCHANGED vars
  BY <1>0 DEF vars
<1>1. ASSUME NEW t \in Tasks, EnqueueStore(t) PROVE RetriesPaid' /\ RetryBudgetSpent'
  BY <1>1 DEF EnqueueStore, Missing
<1>2. ASSUME NEW t \in Tasks, EnqueuePush(t) PROVE RetriesPaid' /\ RetryBudgetSpent'
  BY <1>2 DEF EnqueuePush, Lpush
<1>3. ASSUME NEW t \in Tasks, EnqueueFail(t) PROVE RetriesPaid' /\ RetryBudgetSpent'
  BY <1>3 DEF EnqueueFail
<1>4. ASSUME NEW t \in Tasks, EvictHash(t) PROVE RetriesPaid' /\ RetryBudgetSpent'
  BY <1>4 DEF EvictHash, Missing
<1>5. ASSUME NEW p \in Procs, StartProc(p) PROVE RetriesPaid' /\ RetryBudgetSpent'
  BY <1>5 DEF StartProc, InPhase, ToPhase
<1>6. ASSUME NEW p \in Procs, RecoverRemove(p) PROVE RetriesPaid' /\ RetryBudgetSpent'
  BY <1>6 DEF RecoverRemove, InPhase, ToPhase
<1>7. ASSUME NEW p \in Procs, RecoverReset(p) PROVE RetriesPaid' /\ RetryBudgetSpent'
  BY <1>7 DEF RecoverReset, InPhase, ToPhase
<1>8. ASSUME NEW p \in Procs, RecoverPush(p) PROVE RetriesPaid' /\ RetryBudgetSpent'
  BY <1>8 DEF RecoverPush, InPhase, ToPhase, Lpush
<1>9. ASSUME NEW p \in Procs, RecoverDone(p) PROVE RetriesPaid' /\ RetryBudgetSpent'
  BY <1>9 DEF RecoverDone, InPhase, ToPhase
<1>10. ASSUME NEW p \in Procs, NEW t \in Tasks, RecoverSkip(p, t) PROVE RetriesPaid' /\ RetryBudgetSpent'
  BY <1>10 DEF RecoverSkip, InPhase
<1>11. ASSUME NEW p \in Procs, NEW t \in Tasks, RecoverPick(p, t) PROVE RetriesPaid' /\ RetryBudgetSpent'
  BY <1>11 DEF RecoverPick, InPhase, ToPhase
<1>12. ASSUME NEW w \in Workers, DequeuePop(w) PROVE RetriesPaid' /\ RetryBudgetSpent'
  BY <1>12 DEF DequeuePop, At
<1>13. ASSUME NEW w \in Workers, DequeueRead(w) PROVE RetriesPaid' /\ RetryBudgetSpent'
  BY <1>13 DEF DequeueRead, At, Missing
<1>14. ASSUME NEW w \in Workers, DequeueMiss(w) PROVE RetriesPaid' /\ RetryBudgetSpent'
  BY <1>14 DEF DequeueMiss, At, Goto
<1>15. ASSUME NEW w \in Workers, DequeueOrphan(w) PROVE RetriesPaid' /\ RetryBudgetSpent'
  BY <1>15 DEF DequeueOrphan, At, PollAgain
<1>16. ASSUME NEW w \in Workers, DequeueMark(w) PROVE RetriesPaid' /\ RetryBudgetSpent'
  BY <1>16 DEF DequeueMark, At, Goto
<1>17. ASSUME NEW w \in Workers, PipelineCommit(w) PROVE RetriesPaid' /\ RetryBudgetSpent'
  BY <1>17 DEF PipelineCommit, At, Goto
<1>18. ASSUME NEW w \in Workers, PipelineOk(w) PROVE RetriesPaid' /\ RetryBudgetSpent'
  BY <1>18 DEF PipelineOk, At, Goto
<1>19. ASSUME NEW w \in Workers, PipelineError(w) PROVE RetriesPaid' /\ RetryBudgetSpent'
  <2>1. task[w] \in Tasks /\ retry[w] <= fails[task[w]] /\ retry[w] \in Nat
    BY <1>19 DEF PipelineError, At
  <2>2. fails' \in [Tasks -> Nat] /\ fails'[task[w]] = fails[task[w]] + 1
        /\ \A t \in Tasks : fails[t] <= fails'[t]
    BY <1>19, <2>1 DEF PipelineError, AttemptFailed
  <2>3. retry[w] < fails'[task[w]]
    BY <2>1, <2>2
  <2>4. UNCHANGED <<data, dead, image, task, retry>> /\ pc' = [pc EXCEPT ![w] = "nack"]
    BY <1>19 DEF PipelineError, AttemptFailed
  <2>5. \A t \in Tasks : data'[t] <= fails'[t]
    <3> TAKE t \in Tasks
    <3>1. data[t] \in Int /\ fails[t] \in Int /\ fails'[t] \in Int
      BY <2>2 DEF Missing
    <3>2. data[t] <= fails[t] /\ fails[t] <= fails'[t] /\ data'[t] = data[t]
      BY <2>2, <2>4
    <3> QED
      BY <3>1, <3>2
  <2>6. RetryBudgetSpent'
    BY <2>2, <2>4
  <2> QED
    BY <2>2, <2>3, <2>4, <2>5, <2>6
<1>20. ASSUME NEW w \in Workers, PipelineTimeout(w) PROVE RetriesPaid' /\ RetryBudgetSpent'
  <2>1. task[w] \in Tasks /\ retry[w] <= fails[task[w]] /\ retry[w] \in Nat
    BY <1>20 DEF PipelineTimeout, At
  <2>2. fails' \in [Tasks -> Nat] /\ fails'[task[w]] = fails[task[w]] + 1
        /\ \A t \in Tasks : fails[t] <= fails'[t]
    BY <1>20, <2>1 DEF PipelineTimeout, AttemptFailed
  <2>3. retry[w] < fails'[task[w]]
    BY <2>1, <2>2
  <2>4. UNCHANGED <<data, dead, image, task, retry>> /\ pc' = [pc EXCEPT ![w] = "nack"]
    BY <1>20 DEF PipelineTimeout, AttemptFailed
  <2>5. \A t \in Tasks : data'[t] <= fails'[t]
    <3> TAKE t \in Tasks
    <3>1. data[t] \in Int /\ fails[t] \in Int /\ fails'[t] \in Int
      BY <2>2 DEF Missing
    <3>2. data[t] <= fails[t] /\ fails[t] <= fails'[t] /\ data'[t] = data[t]
      BY <2>2, <2>4
    <3> QED
      BY <3>1, <3>2
  <2>6. RetryBudgetSpent'
    BY <2>2, <2>4
  <2> QED
    BY <2>2, <2>3, <2>4, <2>5, <2>6
<1>21. ASSUME NEW w \in Workers, AckRemove(w) PROVE RetriesPaid' /\ RetryBudgetSpent'
  BY <1>21 DEF AckRemove, At, Goto
<1>22. ASSUME NEW w \in Workers, AckMark(w) PROVE RetriesPaid' /\ RetryBudgetSpent'
  BY <1>22 DEF AckMark, At, PollAgain
<1>23. ASSUME NEW w \in Workers, NackRead(w) PROVE RetriesPaid' /\ RetryBudgetSpent'
  BY <1>23 DEF NackRead, At, Goto
<1>24. ASSUME NEW w \in Workers, NackMiss(w) PROVE RetriesPaid' /\ RetryBudgetSpent'
  BY <1>24 DEF NackMiss, At, PollAgain
<1>25. ASSUME NEW w \in Workers, NackRemove(w) PROVE RetriesPaid' /\ RetryBudgetSpent'
  BY <1>25 DEF NackRemove, At, Goto
<1>26. ASSUME NEW w \in Workers, NackStore(w) PROVE RetriesPaid' /\ RetryBudgetSpent'
  <2>1. task[w] \in Tasks /\ retry[w] < fails[task[w]] /\ retry[w] \in Nat
    BY <1>26 DEF NackStore, At
  <2>2. UNCHANGED <<fails, dead, image, task, retry>>
    BY <1>26 DEF NackStore, Goto
  <2>3. \A t \in Tasks : data'[t] <= fails'[t]
    <3>1. ASSUME NEW t \in Tasks, t # task[w] PROVE data'[t] = data[t]
      BY <1>26, <2>1, <3>1 DEF NackStore
    <3>2. data'[task[w]] \in {data[task[w]], retry[w] + 1}
      BY <1>26, <2>1 DEF NackStore
    <3>3. fails[task[w]] \in Nat /\ retry[w] + 1 <= fails[task[w]]
      BY <2>1
    <3>4. data'[task[w]] <= fails[task[w]]
      BY <2>1, <3>2, <3>3
    <3> QED
      BY <2>2, <3>1, <3>4
  <2>4. CASE retry[w] < MaxRetries /\ Goto(w, "requeue")
    BY <2>1, <2>2, <2>3, <2>4 DEF Goto
  <2>5. CASE retry[w] >= MaxRetries /\ Goto(w, "bury")
    BY <2>1, <2>2, <2>3, <2>5 DEF Goto
  <2> QED
    BY <1>26, <2>4, <2>5 DEF NackStore
<1>27. ASSUME NEW w \in Workers, NackRequeue(w) PROVE RetriesPaid' /\ RetryBudgetSpent'
  BY <1>27 DEF NackRequeue, At, PollAgain, Lpush
<1>28. ASSUME NEW w \in Workers, NackBury(w) PROVE RetriesPaid' /\ RetryBudgetSpent'
  BY <1>28, SMTT(30) DEF NackBury, At, Goto, Add
<1>29. ASSUME NEW w \in Workers, NackDead(w) PROVE RetriesPaid' /\ RetryBudgetSpent'
  BY <1>29 DEF NackDead, At, Goto, PollAgain
<1>30. ASSUME NEW w \in Workers, MarkImageFailed(w) PROVE RetriesPaid' /\ RetryBudgetSpent'
  BY <1>30 DEF MarkImageFailed, At, PollAgain
<1>31. ASSUME NEW w \in Workers, SlotFault(w) PROVE RetriesPaid' /\ RetryBudgetSpent'
  BY <1>31 DEF SlotFault, PollAgain
<1>32. ASSUME NEW p \in Procs, Crash(p) PROVE RetriesPaid' /\ RetryBudgetSpent'
  BY <1>32 DEF Crash
<1>33. CASE Tick
  BY <1>33 DEF Tick
<1> QED
  BY <1>0, <1>1, <1>2, <1>3, <1>4, <1>5, <1>6, <1>7, <1>8, <1>9, <1>10, <1>11, <1>12, <1>13, <1>14, <1>15, <1>16, <1>17, <1>18, <1>19, <1>20, <1>21, <1>22, <1>23, <1>24, <1>25, <1>26, <1>27, <1>28, <1>29, <1>30, <1>31, <1>32, <1>33
     DEF Next, Enqueue, Recover, LoopStep, PipelineStep, Fault

\* A task is dead-lettered only after max_retries + 1 failed attempts, and an
\* image is marked failed only for a dead-lettered task.
THEOREM RetryBudgetCorrect == Spec => []RetryBudgetSpent
<1>1. Spec => []BudgetInv
  BY InitBudget, NextBudget, PTL DEF Spec
<1>2. BudgetInv => RetryBudgetSpent
  BY DEF BudgetInv
<1> QED
  BY <1>1, <1>2, PTL

-----------------------------------------------------------------------------
(***************************************************************************)
(* What the steps do to the pending list.                                  *)
(***************************************************************************)
LEMMA PendingSame ==
    ASSUME pending' = pending
    PROVE  \A t : InPending(t)' <=> InPending(t)
  BY DEF InPending

LEMMA ProcessingRem ==
    ASSUME processing \in [Tasks -> Nat], NEW t \in Tasks, processing' = Lrem(processing, t)
    PROVE  \A u \in Tasks : /\ processing'[u] > 0 => processing[u] > 0
                            /\ u # t => processing'[u] = processing[u]
  BY DEF Lrem

LEMMA ProcessingAdd ==
    ASSUME processing \in [Tasks -> Nat], NEW t \in Tasks, processing' = Add(processing, t)
    PROVE  \A u \in Tasks : /\ processing'[t] > 0
                            /\ u # t => processing'[u] = processing[u]
  BY DEF Add

LEMMA MovingSame ==
    ASSUME UNCHANGED <<task, pc, cand, phase>>
    PROVE  \A t : Moving(t)' <=> Moving(t)
  BY DEF Moving

LEMMA PendingPush ==
    ASSUME pending \in Seq(Tasks), NEW e \in Tasks, pending' = Lpush(pending, e)
    PROVE  \A t : InPending(t)' <=> (InPending(t) \/ t = e)
  BY PushKeeps DEF InPending, Lpush

LEMMA PendingPop ==
    ASSUME pending \in Seq(Tasks), pending # << >>, pending' = Tail(pending)
    PROVE  /\ Head(pending) \in Tasks
           /\ InPending(Head(pending))
           /\ \A t : InPending(t)' => InPending(t)
           /\ \A t : InPending(t) => InPending(t)' \/ t = Head(pending)
<1>1. /\ Head(pending) \in Tasks /\ Head(pending) = pending[1]
      /\ Len(pending) \in Nat /\ Len(pending) >= 1
      /\ Len(pending') = Len(pending) - 1
      /\ \A i \in 1..Len(pending) - 1 : pending'[i] = pending[i + 1]
  BY PopKeeps
<1>2. InPending(Head(pending))
  BY <1>1 DEF InPending
<1>3. \A t : InPending(t)' => InPending(t)
  BY <1>1 DEF InPending
<1>4. ASSUME NEW t, InPending(t), t # Head(pending) PROVE InPending(t)'
  <2>1. PICK i \in 1..Len(pending) : pending[i] = t
    BY <1>4 DEF InPending
  <2>2. i - 1 \in 1..Len(pending) - 1 /\ (i - 1) + 1 = i
    BY <1>1, <1>4, <2>1
  <2> QED
    BY <1>1, <2>1, <2>2 DEF InPending
<1> QED
  BY <1>1, <1>2, <1>3, <1>4

-----------------------------------------------------------------------------
(***************************************************************************)
(* Only queued tasks are ever held.                                        *)
(***************************************************************************)
LEMMA InitQueued == Init => QueuedInv
  BY InitType DEF Init, QueuedInv, OnlyQueued, NoneLeft, InPending, MovingPhases

LEMMA NextQueued == QueuedInv /\ [Next]_vars => QueuedInv'
<1> SUFFICES ASSUME QueuedInv, [Next]_vars PROVE OnlyQueued'
  BY NextType DEF QueuedInv
<1> USE DEF QueuedInv, TypeOK, OnlyQueued, MovingPhases, scan, loop, redis, actors, hist
<1>0. CASE UNCHANGED vars
  BY <1>0, PendingSame DEF vars
<1>1. ASSUME NEW t \in Tasks, EnqueueStore(t) PROVE OnlyQueued'
  <2>1. \A u \in Tasks : data'[u] = Missing => u # t /\ data[u] = Missing
    BY <1>1 DEF EnqueueStore, Missing
  <2> QED
    BY <1>1, <2>1, PendingSame DEF EnqueueStore
<1>2. ASSUME NEW t \in Tasks, EnqueuePush(t) PROVE OnlyQueued'
  BY <1>2, PendingPush DEF EnqueuePush
<1>3. ASSUME NEW t \in Tasks, EnqueueFail(t) PROVE OnlyQueued'
  BY <1>3, PendingSame DEF EnqueueFail
<1>4. ASSUME NEW t \in Tasks, EvictHash(t) PROVE OnlyQueued'
  BY <1>4, PendingSame DEF EvictHash
<1>5. ASSUME NEW p \in Procs, StartProc(p) PROVE OnlyQueued'
  BY <1>5, PendingSame DEF StartProc, InPhase, ToPhase
<1>6. ASSUME NEW p \in Procs, RecoverRemove(p) PROVE OnlyQueued'
  <2>1. cand[p] \in Tasks
    BY <1>6 DEF RecoverRemove, InPhase
  <2>2. \A u \in Tasks : processing'[u] > 0 => processing[u] > 0
    BY <1>6, <2>1, ProcessingRem DEF RecoverRemove
  <2> QED
    BY <1>6, <2>2, PendingSame DEF RecoverRemove, InPhase, ToPhase
<1>7. ASSUME NEW p \in Procs, RecoverReset(p) PROVE OnlyQueued'
  BY <1>7, PendingSame DEF RecoverReset, InPhase, ToPhase
<1>8. ASSUME NEW p \in Procs, RecoverPush(p) PROVE OnlyQueued'
  BY <1>8, PendingPush DEF RecoverPush, InPhase, ToPhase
<1>9. ASSUME NEW p \in Procs, RecoverDone(p) PROVE OnlyQueued'
  BY <1>9, PendingSame DEF RecoverDone, InPhase, ToPhase, NoneLeft
<1>10. ASSUME NEW p \in Procs, NEW t \in Tasks, RecoverSkip(p, t) PROVE OnlyQueued'
  <2>1. \A q \in Procs, u \in Tasks : todo'[q][u] > 0 => todo[q][u] > 0
    BY <1>10 DEF RecoverSkip, Lrem
  <2>2. producer[t] = "queued"
    BY <1>10 DEF RecoverSkip
  <2> QED
    BY <1>10, <2>1, <2>2, PendingSame DEF RecoverSkip, InPhase
<1>11. ASSUME NEW p \in Procs, NEW t \in Tasks, RecoverPick(p, t) PROVE OnlyQueued'
  <2>1. \A q \in Procs, u \in Tasks : todo'[q][u] > 0 => todo[q][u] > 0
    BY <1>11 DEF RecoverPick, Lrem
  <2>2. producer[t] = "queued"
    BY <1>11 DEF RecoverPick
  <2> QED
    BY <1>11, <2>1, <2>2, PendingSame DEF RecoverPick, InPhase, ToPhase
<1>12. ASSUME NEW w \in Workers, DequeuePop(w) PROVE OnlyQueued'
  <2>1. /\ Head(pending) \in Tasks /\ producer[Head(pending)] = "queued"
        /\ \A u : InPending(u)' => InPending(u)
    BY <1>12, PendingPop DEF DequeuePop
  <2>2. \A u \in Tasks : processing'[u] > 0 => processing[u] > 0 \/ u = Head(pending)
    BY <1>12, <2>1, ProcessingAdd DEF DequeuePop
  <2> QED
    BY <1>12, <2>1, <2>2 DEF DequeuePop
<1>13. ASSUME NEW w \in Workers, DequeueRead(w) PROVE OnlyQueued'
  BY <1>13, PendingSame DEF DequeueRead, At
<1>14. ASSUME NEW w \in Workers, DequeueMiss(w) PROVE OnlyQueued'
  BY <1>14, PendingSame DEF DequeueMiss, At, Goto
<1>15. ASSUME NEW w \in Workers, DequeueOrphan(w) PROVE OnlyQueued'
  <2>1. task[w] \in Tasks /\ pc[w] # "idle"
    BY <1>15 DEF DequeueOrphan, At
  <2>2. \A u \in Tasks : processing'[u] > 0 => processing[u] > 0
    BY <1>15, <2>1, ProcessingRem DEF DequeueOrphan
  <2> QED
    BY <1>15, <2>1, <2>2, PendingSame DEF DequeueOrphan, PollAgain
<1>16. ASSUME NEW w \in Workers, DequeueMark(w) PROVE OnlyQueued'
  BY <1>16, PendingSame DEF DequeueMark, At, Goto
<1>17. ASSUME NEW w \in Workers, PipelineCommit(w) PROVE OnlyQueued'
  BY <1>17, PendingSame DEF PipelineCommit, At, Goto
<1>18. ASSUME NEW w \in Workers, PipelineOk(w) PROVE OnlyQueued'
  BY <1>18, PendingSame DEF PipelineOk, At, Goto
<1>19. ASSUME NEW w \in Workers, PipelineError(w) PROVE OnlyQueued'
  BY <1>19, PendingSame DEF PipelineError, At, AttemptFailed
<1>20. ASSUME NEW w \in Workers, PipelineTimeout(w) PROVE OnlyQueued'
  BY <1>20, PendingSame DEF PipelineTimeout, At, AttemptFailed
<1>21. ASSUME NEW w \in Workers, AckRemove(w) PROVE OnlyQueued'
  <2>1. task[w] \in Tasks /\ pc[w] # "idle"
    BY <1>21 DEF AckRemove, At
  <2>2. \A u \in Tasks : processing'[u] > 0 => processing[u] > 0
    BY <1>21, <2>1, ProcessingRem DEF AckRemove
  <2> QED
    BY <1>21, <2>1, <2>2, PendingSame DEF AckRemove, Goto
<1>22. ASSUME NEW w \in Workers, AckMark(w) PROVE OnlyQueued'
  BY <1>22, PendingSame DEF AckMark, At, PollAgain
<1>23. ASSUME NEW w \in Workers, NackRead(w) PROVE OnlyQueued'
  BY <1>23, PendingSame DEF NackRead, At, Goto
<1>24. ASSUME NEW w \in Workers, NackMiss(w) PROVE OnlyQueued'
  BY <1>24, PendingSame DEF NackMiss, At, PollAgain
<1>25. ASSUME NEW w \in Workers, NackRemove(w) PROVE OnlyQueued'
  <2>1. task[w] \in Tasks /\ pc[w] # "idle"
    BY <1>25 DEF NackRemove, At
  <2>2. \A u \in Tasks : processing'[u] > 0 => processing[u] > 0
    BY <1>25, <2>1, ProcessingRem DEF NackRemove
  <2> QED
    BY <1>25, <2>1, <2>2, PendingSame DEF NackRemove, Goto
<1>26. ASSUME NEW w \in Workers, NackStore(w) PROVE OnlyQueued'
  <2>1. task[w] \in Tasks /\ producer[task[w]] = "queued" /\ pc[w] # "idle"
    BY <1>26 DEF NackStore, At
  <2>2. \A u \in Tasks : data'[u] = Missing => data[u] = Missing
    BY <1>26, <2>1 DEF NackStore, Missing
  <2>3. \A v \in Workers : pc'[v] # "idle" => pc[v] # "idle" /\ task'[v] = task[v]
    BY <1>26, <2>1 DEF NackStore, Goto
  <2> QED
    BY <1>26, <2>2, <2>3, PendingSame DEF NackStore
<1>27. ASSUME NEW w \in Workers, NackRequeue(w) PROVE OnlyQueued'
  BY <1>27, PendingPush DEF NackRequeue, At, PollAgain
<1>28. ASSUME NEW w \in Workers, NackBury(w) PROVE OnlyQueued'
  BY <1>28, PendingSame, BagOps DEF NackBury, At, Goto
<1>29. ASSUME NEW w \in Workers, NackDead(w) PROVE OnlyQueued'
  <2>1. CASE Goto(w, "record")
    BY <1>29, <2>1, PendingSame DEF NackDead, At, Goto
  <2>2. CASE PollAgain(w)
    BY <1>29, <2>2, PendingSame DEF NackDead, At, PollAgain
  <2> QED
    BY <1>29, <2>1, <2>2 DEF NackDead
<1>30. ASSUME NEW w \in Workers, MarkImageFailed(w) PROVE OnlyQueued'
  BY <1>30, PendingSame DEF MarkImageFailed, At, PollAgain
<1>31. ASSUME NEW w \in Workers, SlotFault(w) PROVE OnlyQueued'
  BY <1>31, PendingSame DEF SlotFault, PollAgain
<1>32. ASSUME NEW p \in Procs, Crash(p) PROVE OnlyQueued'
  BY <1>32, PendingSame DEF Crash, NoneLeft, ToPhase
<1>33. CASE Tick
  BY <1>33, PendingSame DEF Tick
<1> QED
  BY <1>0, <1>1, <1>2, <1>3, <1>4, <1>5, <1>6, <1>7, <1>8, <1>9, <1>10, <1>11, <1>12, <1>13, <1>14, <1>15, <1>16, <1>17, <1>18, <1>19, <1>20, <1>21, <1>22, <1>23, <1>24, <1>25, <1>26, <1>27, <1>28, <1>29, <1>30, <1>31, <1>32, <1>33
     DEF Next, Enqueue, Recover, LoopStep, PipelineStep, Fault

-----------------------------------------------------------------------------
(***************************************************************************)
(* No queued task is lost.                                                 *)
(***************************************************************************)
LEMMA InitLoss == Init => LossInv
  BY InitQueued DEF Init, LossInv, LoopKnows, NoTaskLost

LEMMA NextLoss == LossInv /\ [Next]_vars => LossInv'
<1> SUFFICES ASSUME LossInv, [Next]_vars PROVE LoopKnows' /\ NoTaskLost'
  BY NextQueued DEF LossInv
<1> QueuedInv /\ TypeOK /\ OnlyQueued
  BY DEF LossInv, QueuedInv
<1> USE DEF LossInv, LoopKnows, NoTaskLost, TypeOK, OnlyQueued, scan, loop, redis, actors, hist
<1>0. CASE UNCHANGED vars
  BY <1>0, PendingSame DEF vars, Moving, MovingPcs, MovingPhases
<1>1. ASSUME NEW t \in Tasks, EnqueueStore(t) PROVE LoopKnows' /\ NoTaskLost'
  <2>1. \A u : (InPending(u)' <=> InPending(u)) /\ (Moving(u)' <=> Moving(u))
    BY <1>1, PendingSame, MovingSame DEF EnqueueStore
  <2>2. \A u \in Tasks : producer'[u] = "queued" => producer[u] = "queued"
    BY <1>1 DEF EnqueueStore
  <2>3. NoTaskLost'
    BY <1>1, <2>1, <2>2 DEF EnqueueStore
  <2> QED
    BY <1>1, <2>3 DEF EnqueueStore
<1>2. ASSUME NEW t \in Tasks, EnqueuePush(t) PROVE LoopKnows' /\ NoTaskLost'
  <2>1. \A u : (InPending(u)' <=> InPending(u) \/ u = t) /\ (Moving(u)' <=> Moving(u))
    BY <1>2, PendingPush, MovingSame DEF EnqueuePush
  <2>2. \A u \in Tasks : u # t => producer'[u] = producer[u]
    BY <1>2 DEF EnqueuePush
  <2>3. NoTaskLost'
    BY <1>2, <2>1, <2>2 DEF EnqueuePush
  <2> QED
    BY <1>2, <2>3 DEF EnqueuePush
<1>3. ASSUME NEW t \in Tasks, EnqueueFail(t) PROVE LoopKnows' /\ NoTaskLost'
  <2>1. \A u : (InPending(u)' <=> InPending(u)) /\ (Moving(u)' <=> Moving(u))
    BY <1>3, PendingSame, MovingSame DEF EnqueueFail
  <2>2. \A u \in Tasks : producer'[u] = "queued" => producer[u] = "queued"
    BY <1>3 DEF EnqueueFail
  <2>3. NoTaskLost'
    BY <1>3, <2>1, <2>2 DEF EnqueueFail
  <2> QED
    BY <1>3, <2>3 DEF EnqueueFail
<1>4. ASSUME NEW t \in Tasks, EvictHash(t) PROVE LoopKnows' /\ NoTaskLost'
  BY <1>4, PendingSame DEF EvictHash, Moving, MovingPcs, MovingPhases
<1>5. ASSUME NEW p \in Procs, StartProc(p) PROVE LoopKnows' /\ NoTaskLost'
  BY <1>5, PendingSame DEF StartProc, InPhase, ToPhase, Moving, MovingPcs, MovingPhases
<1>6. ASSUME NEW p \in Procs, RecoverRemove(p) PROVE LoopKnows' /\ NoTaskLost'
  <2>1. cand[p] \in Tasks
    BY <1>6 DEF RecoverRemove, InPhase
  <2>2. \A u \in Tasks : u # cand[p] => processing'[u] = processing[u]
    BY <1>6, <2>1, ProcessingRem DEF RecoverRemove
  <2>3. Moving(cand[p])' /\ \A u : Moving(u) => Moving(u)'
    BY <1>6 DEF RecoverRemove, InPhase, ToPhase, Moving, MovingPcs, MovingPhases
  <2>4. NoTaskLost'
    BY <1>6, <2>2, <2>3, PendingSame, ZenonT(40) DEF RecoverRemove
  <2> QED
    BY <1>6, <2>4 DEF RecoverRemove
<1>7. ASSUME NEW p \in Procs, RecoverReset(p) PROVE LoopKnows' /\ NoTaskLost'
  BY <1>7, PendingSame DEF RecoverReset, InPhase, ToPhase, Moving, MovingPcs, MovingPhases
<1>8. ASSUME NEW p \in Procs, RecoverPush(p) PROVE LoopKnows' /\ NoTaskLost'
  BY <1>8, PendingPush DEF RecoverPush, InPhase, ToPhase, Moving, MovingPcs, MovingPhases
<1>9. ASSUME NEW p \in Procs, RecoverDone(p) PROVE LoopKnows' /\ NoTaskLost'
  BY <1>9, PendingSame DEF RecoverDone, InPhase, ToPhase, NoneLeft, Moving, MovingPcs, MovingPhases
<1>10. ASSUME NEW p \in Procs, NEW t \in Tasks, RecoverSkip(p, t) PROVE LoopKnows' /\ NoTaskLost'
  BY <1>10, PendingSame, BagOps DEF RecoverSkip, InPhase, Moving, MovingPcs, MovingPhases
<1>11. ASSUME NEW p \in Procs, NEW t \in Tasks, RecoverPick(p, t) PROVE LoopKnows' /\ NoTaskLost'
  BY <1>11, PendingSame, BagOps DEF RecoverPick, InPhase, ToPhase, Moving, MovingPcs, MovingPhases
<1>12. ASSUME NEW w \in Workers, DequeuePop(w) PROVE LoopKnows' /\ NoTaskLost'
  <2>1. /\ Head(pending) \in Tasks
        /\ \A u : InPending(u) => InPending(u)' \/ u = Head(pending)
    BY <1>12, PendingPop DEF DequeuePop
  <2>2. \A u \in Tasks : /\ u # Head(pending) => processing'[u] = processing[u]
                         /\ processing'[Head(pending)] > 0
    BY <1>12, <2>1, ProcessingAdd DEF DequeuePop
  <2>3. \A u : Moving(u) => Moving(u)'
    BY <1>12 DEF DequeuePop, At, Moving, MovingPcs, MovingPhases
  <2>4. NoTaskLost'
    BY <1>12, <2>1, <2>2, <2>3 DEF DequeuePop
  <2> QED
    BY <1>12, <2>4 DEF DequeuePop
<1>13. ASSUME NEW w \in Workers, DequeueRead(w) PROVE LoopKnows' /\ NoTaskLost'
  BY <1>13, PendingSame, ZenonT(40) DEF DequeueRead, At, Moving, MovingPcs, MovingPhases
<1>14. ASSUME NEW w \in Workers, DequeueMiss(w) PROVE LoopKnows' /\ NoTaskLost'
  BY <1>14, PendingSame, ZenonT(40) DEF DequeueMiss, At, Goto, Moving, MovingPcs, MovingPhases
<1>15. ASSUME NEW w \in Workers, DequeueOrphan(w) PROVE LoopKnows' /\ NoTaskLost'
  <2>1. task[w] \in Tasks /\ task[w] \in evicted
    BY <1>15 DEF DequeueOrphan, At
  <2>2. \A u \in Tasks : u # task[w] => processing'[u] = processing[u]
    BY <1>15, <2>1, ProcessingRem DEF DequeueOrphan
  <2>3. \A u : Moving(u) => Moving(u)'
    BY <1>15 DEF DequeueOrphan, At, PollAgain, Moving, MovingPcs, MovingPhases
  <2>4. NoTaskLost'
    <3>1. \A u : InPending(u)' <=> InPending(u)
      BY <1>15, PendingSame DEF DequeueOrphan
    <3>2. UNCHANGED <<producer, dead, processed, dropped, evicted>>
      BY <1>15 DEF DequeueOrphan
    <3> QED
      BY <2>1, <2>2, <2>3, <3>1, <3>2
  <2> QED
    BY <1>15, <2>1, <2>4 DEF DequeueOrphan, PollAgain
<1>16. ASSUME NEW w \in Workers, DequeueMark(w) PROVE LoopKnows' /\ NoTaskLost'
  BY <1>16, PendingSame, ZenonT(40) DEF DequeueMark, At, Goto, Moving, MovingPcs, MovingPhases
<1>17. ASSUME NEW w \in Workers, PipelineCommit(w) PROVE LoopKnows' /\ NoTaskLost'
  BY <1>17, PendingSame, ZenonT(40) DEF PipelineCommit, At, Goto, Moving, MovingPcs, MovingPhases
<1>18. ASSUME NEW w \in Workers, PipelineOk(w) PROVE LoopKnows' /\ NoTaskLost'
  BY <1>18, PendingSame, ZenonT(40) DEF PipelineOk, At, Goto, Moving, MovingPcs, MovingPhases
<1>19. ASSUME NEW w \in Workers, PipelineError(w) PROVE LoopKnows' /\ NoTaskLost'
  BY <1>19, PendingSame, ZenonT(40)
  DEF PipelineError, At, AttemptFailed, Moving, MovingPcs, MovingPhases
<1>20. ASSUME NEW w \in Workers, PipelineTimeout(w) PROVE LoopKnows' /\ NoTaskLost'
  BY <1>20, PendingSame, ZenonT(40)
  DEF PipelineTimeout, At, AttemptFailed, Moving, MovingPcs, MovingPhases
<1>21. ASSUME NEW w \in Workers, AckRemove(w) PROVE LoopKnows' /\ NoTaskLost'
  <2>1. task[w] \in Tasks /\ task[w] \in processed
    BY <1>21 DEF AckRemove, At
  <2>2. \A u \in Tasks : u # task[w] => processing'[u] = processing[u]
    BY <1>21, <2>1, ProcessingRem DEF AckRemove
  <2>3. \A u : Moving(u) => Moving(u)'
    BY <1>21 DEF AckRemove, At, Goto, Moving, MovingPcs, MovingPhases
  <2>4. NoTaskLost'
    <3>1. \A u : InPending(u)' <=> InPending(u)
      BY <1>21, PendingSame DEF AckRemove
    <3>2. UNCHANGED <<producer, dead, processed, dropped, evicted>>
      BY <1>21 DEF AckRemove
    <3> QED
      BY <2>1, <2>2, <2>3, <3>1, <3>2
  <2> QED
    BY <1>21, <2>1, <2>4 DEF AckRemove, Goto
<1>22. ASSUME NEW w \in Workers, AckMark(w) PROVE LoopKnows' /\ NoTaskLost'
  BY <1>22, PendingSame, ZenonT(40) DEF AckMark, At, PollAgain, Moving, MovingPcs, MovingPhases
<1>23. ASSUME NEW w \in Workers, NackRead(w) PROVE LoopKnows' /\ NoTaskLost'
  BY <1>23, PendingSame, ZenonT(40) DEF NackRead, At, Goto, Moving, MovingPcs, MovingPhases
<1>24. ASSUME NEW w \in Workers, NackMiss(w) PROVE LoopKnows' /\ NoTaskLost'
  BY <1>24, PendingSame, ZenonT(40) DEF NackMiss, At, PollAgain, Moving, MovingPcs, MovingPhases
<1>25. ASSUME NEW w \in Workers, NackRemove(w) PROVE LoopKnows' /\ NoTaskLost'
  <2>1. task[w] \in Tasks
    BY <1>25 DEF NackRemove, At
  <2>2. \A u \in Tasks : u # task[w] => processing'[u] = processing[u]
    BY <1>25, <2>1, ProcessingRem DEF NackRemove
  <2>3. Moving(task[w])' /\ \A u : Moving(u) => Moving(u)'
    BY <1>25 DEF NackRemove, At, Goto, Moving, MovingPcs, MovingPhases
  <2>4. NoTaskLost'
    <3>1. \A u : InPending(u)' <=> InPending(u)
      BY <1>25, PendingSame DEF NackRemove
    <3>2. UNCHANGED <<producer, dead, task, processed, dropped, evicted>>
      BY <1>25 DEF NackRemove, Goto
    <3>3. ASSUME NEW u \in Tasks, u # task[w], producer[u] = "queued"
          PROVE  \/ InPending(u)' \/ processing'[u] > 0 \/ dead'[u] > 0 \/ Moving(u)'
                 \/ u \in processed' \cup dropped' \cup evicted'
      BY <2>2, <2>3, <3>1, <3>2, <3>3
    <3> QED
      BY <2>3, <3>2, <3>3
  <2> QED
    BY <1>25, <2>4 DEF NackRemove, Goto
<1>26. ASSUME NEW w \in Workers, NackStore(w) PROVE LoopKnows' /\ NoTaskLost'
  <2>1. \A u : Moving(u) => Moving(u)'
    BY <1>26 DEF NackStore, At, Goto, Moving, MovingPcs, MovingPhases
  <2>2. NoTaskLost'
    BY <1>26, <2>1, PendingSame DEF NackStore
  <2> QED
    BY <1>26, <2>2 DEF NackStore, Goto
<1>27. ASSUME NEW w \in Workers, NackRequeue(w) PROVE LoopKnows' /\ NoTaskLost'
  BY <1>27, PendingPush, ZenonT(40) DEF NackRequeue, At, PollAgain, Moving, MovingPcs, MovingPhases
<1>28. ASSUME NEW w \in Workers, NackBury(w) PROVE LoopKnows' /\ NoTaskLost'
  <2>1. task[w] \in Tasks /\ pc[w] = "bury"
    BY <1>28 DEF NackBury, At
  <2>2. dead'[task[w]] > 0 /\ \A u \in Tasks : dead[u] > 0 => dead'[u] > 0
    BY <1>28, <2>1 DEF NackBury, Add
  <2>3. \A u : Moving(u) => Moving(u)' \/ u = task[w]
    BY <1>28 DEF NackBury, Goto, Moving, MovingPcs, MovingPhases
  <2>4. NoTaskLost'
    BY <1>28, <2>1, <2>2, <2>3, PendingSame DEF NackBury
  <2> QED
    BY <1>28, <2>4 DEF NackBury, Goto
<1>29. ASSUME NEW w \in Workers, NackDead(w) PROVE LoopKnows' /\ NoTaskLost'
  <2>1. pc[w] = "buried"
    BY <1>29 DEF NackDead, At
  <2>2. \A v \in Workers : \/ v # w /\ pc'[v] = pc[v] /\ task'[v] = task[v]
                           \/ v = w /\ pc'[v] \in {"record", "idle"}
    BY <1>29 DEF NackDead, Goto, PollAgain
  <2>3. \A u \in Tasks : Moving(u) => Moving(u)'
    <3>1. UNCHANGED <<cand, phase>>
      BY <1>29 DEF NackDead
    <3>2. \A v \in Workers : pc[v] \in MovingPcs => v # w
      BY <2>1 DEF MovingPcs
    <3> QED
      BY <2>2, <3>1, <3>2 DEF Moving
  <2>4. NoTaskLost'
    BY <1>29, <2>3, PendingSame DEF NackDead
  <2> QED
    BY <1>29, <2>2, <2>4 DEF NackDead
<1>30. ASSUME NEW w \in Workers, MarkImageFailed(w) PROVE LoopKnows' /\ NoTaskLost'
  BY <1>30, PendingSame, ZenonT(40)
  DEF MarkImageFailed, At, PollAgain, Moving, MovingPcs, MovingPhases
<1>31. ASSUME NEW w \in Workers, SlotFault(w) PROVE LoopKnows' /\ NoTaskLost'
  <2>1. \A u \in Tasks : Moving(u) => Moving(u)' \/ u \in dropped'
    BY <1>31 DEF SlotFault, PollAgain, Moving, MovingPcs, MovingPhases
  <2>2. NoTaskLost'
    BY <1>31, <2>1, PendingSame DEF SlotFault
  <2> QED
    BY <1>31, <2>2 DEF SlotFault, PollAgain
<1>32. ASSUME NEW p \in Procs, Crash(p) PROVE LoopKnows' /\ NoTaskLost'
  BY <1>32, PendingSame DEF Crash, NoneLeft, ToPhase, Moving, MovingPcs, MovingPhases
<1>33. CASE Tick
  BY <1>33, PendingSame DEF Tick, Moving, MovingPcs, MovingPhases
<1> QED
  BY <1>0, <1>1, <1>2, <1>3, <1>4, <1>5, <1>6, <1>7, <1>8, <1>9, <1>10, <1>11, <1>12, <1>13, <1>14, <1>15, <1>16, <1>17, <1>18, <1>19, <1>20, <1>21, <1>22, <1>23, <1>24, <1>25, <1>26, <1>27, <1>28, <1>29, <1>30, <1>31, <1>32, <1>33
     DEF Next, Enqueue, Recover, LoopStep, PipelineStep, Fault

\* No queued task is lost, whatever the processes do and whenever they stop,
\* except by a stop between LREM and LPUSH or by the loss of its hash.
THEOREM NoTaskLostCorrect == Spec => []NoTaskLost
<1>1. Spec => []LossInv
  BY InitLoss, NextLoss, PTL DEF Spec
<1>2. LossInv => NoTaskLost
  BY DEF LossInv
<1> QED
  BY <1>1, <1>2, PTL

-----------------------------------------------------------------------------
(***************************************************************************)
(* What is on the lists has its cause: where the ids are, step by step.    *)
(***************************************************************************)
LEMMA PushOnce ==
    ASSUME pending \in Seq(Tasks), NEW e \in Tasks, pending' = Lpush(pending, e),
           NEW t, ListedOnce(t), t = e => ~InPending(t)
    PROVE  ListedOnce(t)'
<1>1. /\ Len(pending) \in Nat /\ Len(pending') = Len(pending) + 1
      /\ \A i \in 1..Len(pending) : pending'[i] = pending[i]
      /\ pending'[Len(pending) + 1] = e
  BY PushKeeps DEF Lpush
<1>2. SUFFICES ASSUME NEW i \in 1..Len(pending'), NEW j \in 1..Len(pending'),
                      pending'[i] = t, pending'[j] = t
               PROVE  i = j
  BY DEF ListedOnce
<1>3. CASE t = e
  <2>1. \A k \in 1..Len(pending) : pending'[k] # t
    BY <1>1, <1>3 DEF InPending
  <2> QED
    BY <1>1, <1>2, <2>1
<1>4. CASE t # e
  <2>1. i \in 1..Len(pending) /\ j \in 1..Len(pending)
    BY <1>1, <1>2, <1>4
  <2> QED
    BY <1>1, <1>2, <2>1 DEF ListedOnce
<1> QED
  BY <1>3, <1>4

LEMMA PopOnce ==
    ASSUME pending \in Seq(Tasks), pending # << >>, pending' = Tail(pending),
           NEW t, ListedOnce(t)
    PROVE  ListedOnce(t)' /\ (t = Head(pending) => ~InPending(t)')
<1>1. /\ Head(pending) = pending[1]
      /\ Len(pending) \in Nat /\ Len(pending) >= 1
      /\ Len(pending') = Len(pending) - 1
      /\ \A i \in 1..Len(pending) - 1 : pending'[i] = pending[i + 1]
  BY PopKeeps
<1>2. ASSUME NEW i \in 1..Len(pending'), NEW j \in 1..Len(pending'),
             pending'[i] = t, pending'[j] = t
      PROVE  i = j
  <2>1. i + 1 \in 1..Len(pending) /\ j + 1 \in 1..Len(pending)
    BY <1>1
  <2>2. pending[i + 1] = t /\ pending[j + 1] = t
    BY <1>1, <1>2
  <2>3. i + 1 = j + 1
    BY <2>1, <2>2 DEF ListedOnce
  <2> QED
    BY <1>1, <2>3
<1>3. ASSUME NEW i \in 1..Len(pending'), pending'[i] = t, t = Head(pending)
      PROVE  FALSE
  <2>1. i + 1 \in 1..Len(pending) /\ 1 \in 1..Len(pending) /\ i + 1 # 1
    BY <1>1
  <2>2. pending[i + 1] = t /\ pending[1] = t
    BY <1>1, <1>3
  <2> QED
    BY <2>1, <2>2 DEF ListedOnce
<1> QED
  BY <1>2, <1>3 DEF ListedOnce, InPending

\* A step that leaves pending alone, adds nothing to processing and gives no loop a task.
LEMMA PlaceKept ==
    ASSUME OnePlace, UNCHANGED pending, recovered \subseteq recovered',
           processing \in [Tasks -> Nat], processing' \in [Tasks -> Nat],
           \A t \in Tasks : processing'[t] <= processing[t],
           \A w \in Workers, t \in Tasks : Active(w, t)' => Active(w, t),
           \A w \in Workers, t \in Tasks \ recovered' :
               task'[w] = t /\ pc'[w] \in MovingPcs
                 => processing'[t] = 0 \/ (task[w] = t /\ pc[w] \in MovingPcs),
           \A p \in Procs : phase'[p] \in MovingPhases
                 => cand'[p] \in recovered' \/ (phase[p] \in MovingPhases /\ cand'[p] = cand[p])
    PROVE  OnePlace'
<1> SUFFICES ASSUME NEW t \in Tasks \ recovered'
             PROVE  /\ \A v, w \in Workers : Active(v, t)' /\ Active(w, t)' => v = w
                    /\ \A p \in Procs : phase'[p] \in MovingPhases => cand'[p] # t
                    /\ InPending(t)' => processing'[t] = 0 /\ \A w \in Workers : ~Active(w, t)'
                    /\ \A w \in Workers : task'[w] = t /\ pc'[w] \in MovingPcs
                                            => processing'[t] = 0
                    /\ processing'[t] <= 1
                    /\ ListedOnce(t)'
  BY DEF OnePlace
<1>1. t \in Tasks \ recovered
  OBVIOUS
<1>2. /\ InPending(t)' <=> InPending(t)
      /\ ListedOnce(t)' <=> ListedOnce(t)
  BY DEF InPending, ListedOnce
<1>3. processing[t] \in Nat /\ processing'[t] \in Nat /\ processing'[t] <= processing[t]
  OBVIOUS
<1>4. /\ \A v, w \in Workers : Active(v, t)' /\ Active(w, t)' => v = w
      /\ \A p \in Procs : phase'[p] \in MovingPhases => cand'[p] # t
  BY <1>1 DEF OnePlace
<1>5. /\ InPending(t)' => processing'[t] = 0 /\ \A w \in Workers : ~Active(w, t)'
      /\ processing'[t] <= 1
  BY <1>1, <1>2, <1>3 DEF OnePlace
<1>6. ASSUME NEW w \in Workers, task'[w] = t, pc'[w] \in MovingPcs
      PROVE  processing'[t] = 0
  BY <1>1, <1>3, <1>6 DEF OnePlace
<1> QED
  BY <1>1, <1>2, <1>4, <1>5, <1>6 DEF OnePlace

\* What a step does to the holders of a task: nothing, or a fault took the task from some.
LEMMA CoverKept ==
    ASSUME NEW t \in Tasks, Covered(t), abandoned \subseteq abandoned',
           processing[t] \in Nat, processing'[t] \in Nat, processing'[t] <= processing[t],
           \A w \in Workers : Holding(w, t)' => Holding(w, t),
           t \in abandoned' \/ \A w \in Workers : Holding(w, t) => Holding(w, t)'
    PROVE  Covered(t)'
<1>1. CASE t \in abandoned'
  <2>1. Holders(t)' \in SUBSET Holders(t)
    BY DEF Holders
  <2> QED
    BY <1>1, <2>1, FS_Subset DEF Covered
<1>2. CASE t \notin abandoned'
  <2>1. Holders(t)' = Holders(t)
    BY <1>2 DEF Holders
  <2>2. IsFiniteSet(Holders(t)) /\ processing[t] <= Cardinality(Holders(t))
    BY <1>2 DEF Covered
  <2>3. Cardinality(Holders(t)) \in Nat
    BY <2>2, FS_CardinalityType
  <2>4. processing'[t] <= Cardinality(Holders(t))
    BY <2>2, <2>3
  <2> QED
    BY <2>1, <2>2, <2>4 DEF Covered
<1> QED
  BY <1>1, <1>2

\* The loop that pops an id holds it, with one more entry on processing.
LEMMA CoverTaken ==
    ASSUME NEW t \in Tasks, NEW w \in Workers, Covered(t), UNCHANGED abandoned,
           processing[t] \in Nat, processing'[t] = processing[t] + 1, ~Holding(w, t),
           \A v \in Workers : Holding(v, t)' <=> Holding(v, t) \/ v = w
    PROVE  Covered(t)'
<1>1. Holders(t)' = Holders(t) \cup {w} /\ w \notin Holders(t)
  BY DEF Holders
<1>2. IsFiniteSet(Holders(t)) /\ Cardinality(Holders(t)) \in Nat
  BY FS_CardinalityType DEF Covered
<1>3. IsFiniteSet(Holders(t)') /\ Cardinality(Holders(t)') = Cardinality(Holders(t)) + 1
  BY <1>1, <1>2, FS_AddElement
<1>4. t \notin abandoned => processing[t] <= Cardinality(Holders(t))
  BY DEF Covered
<1>5. t \notin abandoned' => processing'[t] <= Cardinality(Holders(t)')
  BY <1>2, <1>3, <1>4
<1> QED
  BY <1>3, <1>5 DEF Covered

\* A loop that lets go of the task has removed one entry, if there was one.
LEMMA CoverReleased ==
    ASSUME NEW t \in Tasks, NEW w \in Workers, Covered(t), UNCHANGED abandoned,
           processing \in [Tasks -> Nat], processing' = Lrem(processing, t), Holding(w, t),
           \A v \in Workers : Holding(v, t)' <=> Holding(v, t) /\ v # w
    PROVE  Covered(t)'
<1>1. Holders(t)' = Holders(t) \ {w} /\ w \in Holders(t)
  BY DEF Holders
<1>2. IsFiniteSet(Holders(t)) /\ Cardinality(Holders(t)) \in Nat
  BY FS_CardinalityType DEF Covered
<1>3. IsFiniteSet(Holders(t)') /\ Cardinality(Holders(t)') = Cardinality(Holders(t)) - 1
  BY <1>1, <1>2, FS_RemoveElement
<1>4. Cardinality(Holders(t)') \in Nat
  BY <1>3, FS_CardinalityType
<1>5. t \notin abandoned => processing[t] <= Cardinality(Holders(t))
  BY DEF Covered
<1>6. /\ processing[t] \in Nat
      /\ processing[t] > 0 => processing'[t] = processing[t] - 1
      /\ processing[t] = 0 => processing'[t] = 0
  BY BagOps
<1>7. t \notin abandoned' => processing'[t] <= Cardinality(Holders(t)')
  BY <1>2, <1>3, <1>4, <1>5, <1>6
<1> QED
  BY <1>3, <1>7 DEF Covered

LEMMA InitLists == Init => ListsInv
<1> SUFFICES ASSUME Init PROVE OnePlace /\ HoldersEnough
  BY InitQueued DEF ListsInv
<1>1. OnePlace
  <2>0. pending = << >> /\ \A t \in Tasks : processing[t] = 0
    BY DEF Init, NoneLeft
  <2>1. \A t : ~InPending(t) /\ ListedOnce(t)
    <3>1. Len(pending) = 0
      BY <2>0
    <3>2. 1..Len(pending) = {}
      BY <3>1
    <3> QED
      BY <3>2, Zenon DEF InPending, ListedOnce
  <2>2. \A w \in Workers : \A t : ~Active(w, t) /\ pc[w] \notin MovingPcs
    BY DEF Init, Active, HoldingPcs, MovingPcs
  <2>3. \A p \in Procs : phase[p] \notin MovingPhases
    BY DEF Init, MovingPhases
  <2>4. \A t \in Tasks : processing[t] <= 1
    <3>1. 0 <= 1
      OBVIOUS
    <3> QED
      BY <2>0, <3>1, Zenon
  <2> QED
    BY <2>0, <2>1, <2>2, <2>3, <2>4 DEF OnePlace
<1>2. ASSUME NEW t \in Tasks PROVE Covered(t)
  <2>1. Holders(t) = {}
    BY DEF Init, Holders, Holding, HoldingPcs
  <2> QED
    BY <2>1, FS_EmptySet DEF Covered, Init, NoneLeft
<1> QED
  BY <1>1, <1>2 DEF HoldersEnough

LEMMA NextLists == ListsInv /\ [Next]_vars => ListsInv'
<1> SUFFICES ASSUME ListsInv, [Next]_vars PROVE OnePlace' /\ HoldersEnough'
  BY NextQueued DEF ListsInv
<1> TypeOK /\ OnlyQueued /\ OnePlace /\ HoldersEnough
  BY DEF ListsInv, QueuedInv
<1> TypeOK'
  BY NextType
<1> DEFINE Kept == OnePlace' /\ HoldersEnough'
<1> SUFFICES Kept
  OBVIOUS
\* Nothing is added to a list, and no loop gets a task or lets one go without a fault.
<1>a. ASSUME UNCHANGED <<pending, processing>>, recovered \subseteq recovered',
             abandoned \subseteq abandoned',
             \A w \in Workers, t \in Tasks : Active(w, t)' => Active(w, t),
             \A w \in Workers, t \in Tasks : Holding(w, t)' => Holding(w, t),
             \A t \in Tasks :
                 t \in abandoned' \/ \A w \in Workers : Holding(w, t) => Holding(w, t)',
             \A w \in Workers, t \in Tasks :
                 task'[w] = t /\ pc'[w] \in MovingPcs => task[w] = t /\ pc[w] \in MovingPcs,
             \A p \in Procs : phase'[p] \in MovingPhases
                 => phase[p] \in MovingPhases /\ cand'[p] = cand[p]
      PROVE  Kept
  <2>1. /\ processing \in [Tasks -> Nat] /\ processing' \in [Tasks -> Nat]
        /\ \A t \in Tasks : processing'[t] <= processing[t]
    BY <1>a DEF TypeOK
  <2>2. OnePlace'
    BY <1>a, <2>1, PlaceKept
  <2>3. ASSUME NEW t \in Tasks PROVE Covered(t)'
    BY <1>a, <2>1, CoverKept DEF HoldersEnough
  <2> QED
    BY <2>2, <2>3 DEF HoldersEnough
\* Of the loops only w moves.
<1>b. ASSUME NEW w \in Workers,
             \A v \in Workers \ {w} : pc'[v] = pc[v] /\ task'[v] = task[v]
      PROVE  \A v \in Workers \ {w} : \A t :
                 /\ Active(v, t)' <=> Active(v, t)
                 /\ Holding(v, t)' <=> Holding(v, t)
                 /\ task'[v] = t /\ pc'[v] \in MovingPcs <=> task[v] = t /\ pc[v] \in MovingPcs
  BY <1>b DEF Active, Holding
<1>0. CASE UNCHANGED vars
  <2>1. UNCHANGED <<pending, processing, recovered, abandoned, task, pc, phase, cand>>
    BY <1>0 DEF vars, redis, actors, scan, loop, hist
  <2>2. \A w, t : (Active(w, t)' <=> Active(w, t)) /\ (Holding(w, t)' <=> Holding(w, t))
    BY <2>1 DEF Active, Holding
  <2> HIDE DEF Kept
  <2> QED
    BY <1>a, <2>1, <2>2
<1>1. ASSUME NEW t \in Tasks, EnqueueStore(t) PROVE Kept
  <2>1. UNCHANGED <<pending, processing, recovered, abandoned, task, pc>>
    BY <1>1 DEF EnqueueStore, TypeOK, redis, scan, loop, actors, hist
  <2>2. \A q \in Procs : phase'[q] \in MovingPhases
                           => phase[q] \in MovingPhases /\ cand'[q] = cand[q]
    BY <1>1 DEF EnqueueStore, TypeOK, redis, scan, loop, actors, hist, MovingPhases
  <2> HIDE DEF Kept
  <2> QED
    BY <1>a, <2>1, <2>2 DEF Active, Holding
<1>2. ASSUME NEW t \in Tasks, EnqueueFail(t) PROVE Kept
  <2>1. UNCHANGED <<pending, processing, recovered, abandoned, task, pc>>
    BY <1>2 DEF EnqueueFail, TypeOK, redis, scan, loop, actors, hist
  <2>2. \A q \in Procs : phase'[q] \in MovingPhases
                           => phase[q] \in MovingPhases /\ cand'[q] = cand[q]
    BY <1>2 DEF EnqueueFail, TypeOK, redis, scan, loop, actors, hist, MovingPhases
  <2> HIDE DEF Kept
  <2> QED
    BY <1>a, <2>1, <2>2 DEF Active, Holding
<1>3. ASSUME NEW t \in Tasks, EvictHash(t) PROVE Kept
  <2>1. UNCHANGED <<pending, processing, recovered, abandoned, task, pc>>
    BY <1>3 DEF EvictHash, TypeOK, redis, scan, loop, actors, hist
  <2>2. \A q \in Procs : phase'[q] \in MovingPhases
                           => phase[q] \in MovingPhases /\ cand'[q] = cand[q]
    BY <1>3 DEF EvictHash, TypeOK, redis, scan, loop, actors, hist, MovingPhases
  <2> HIDE DEF Kept
  <2> QED
    BY <1>a, <2>1, <2>2 DEF Active, Holding
<1>4. ASSUME NEW p \in Procs, StartProc(p) PROVE Kept
  <2>1. UNCHANGED <<pending, processing, recovered, abandoned, task, pc>>
    BY <1>4 DEF StartProc, TypeOK, redis, scan, loop, actors, hist, InPhase, ToPhase
  <2>2. \A q \in Procs : phase'[q] \in MovingPhases
                           => phase[q] \in MovingPhases /\ cand'[q] = cand[q]
    BY <1>4 DEF StartProc, TypeOK, redis, scan, loop, actors, hist, InPhase, ToPhase, MovingPhases
  <2> HIDE DEF Kept
  <2> QED
    BY <1>a, <2>1, <2>2 DEF Active, Holding
<1>5. ASSUME NEW p \in Procs, RecoverReset(p) PROVE Kept
  <2>1. UNCHANGED <<pending, processing, recovered, abandoned, task, pc>>
    BY <1>5 DEF RecoverReset, TypeOK, redis, scan, loop, actors, hist, InPhase, ToPhase
  <2>2. \A q \in Procs : phase'[q] \in MovingPhases
                           => phase[q] \in MovingPhases /\ cand'[q] = cand[q]
    BY <1>5 DEF RecoverReset, TypeOK, redis, scan, loop, actors, hist, InPhase, ToPhase, MovingPhases
  <2> HIDE DEF Kept
  <2> QED
    BY <1>a, <2>1, <2>2 DEF Active, Holding
<1>6. ASSUME NEW p \in Procs, RecoverDone(p) PROVE Kept
  <2>1. UNCHANGED <<pending, processing, recovered, abandoned, task, pc>>
    BY <1>6 DEF RecoverDone, TypeOK, redis, scan, loop, actors, hist, InPhase, ToPhase
  <2>2. \A q \in Procs : phase'[q] \in MovingPhases
                           => phase[q] \in MovingPhases /\ cand'[q] = cand[q]
    BY <1>6 DEF RecoverDone, TypeOK, redis, scan, loop, actors, hist, InPhase, ToPhase, MovingPhases
  <2> HIDE DEF Kept
  <2> QED
    BY <1>a, <2>1, <2>2 DEF Active, Holding
<1>7. ASSUME NEW p \in Procs, NEW t \in Tasks, RecoverSkip(p, t) PROVE Kept
  <2>1. UNCHANGED <<pending, processing, recovered, abandoned, task, pc>>
    BY <1>7 DEF RecoverSkip, TypeOK, redis, scan, loop, actors, hist, InPhase
  <2>2. \A q \in Procs : phase'[q] \in MovingPhases
                           => phase[q] \in MovingPhases /\ cand'[q] = cand[q]
    BY <1>7 DEF RecoverSkip, TypeOK, redis, scan, loop, actors, hist, InPhase, MovingPhases
  <2> HIDE DEF Kept
  <2> QED
    BY <1>a, <2>1, <2>2 DEF Active, Holding
<1>8. ASSUME NEW p \in Procs, NEW t \in Tasks, RecoverPick(p, t) PROVE Kept
  <2>1. UNCHANGED <<pending, processing, recovered, abandoned, task, pc>>
    BY <1>8 DEF RecoverPick, TypeOK, redis, scan, loop, actors, hist, InPhase, ToPhase
  <2>2. \A q \in Procs : phase'[q] \in MovingPhases
                           => phase[q] \in MovingPhases /\ cand'[q] = cand[q]
    BY <1>8 DEF RecoverPick, TypeOK, redis, scan, loop, actors, hist, InPhase, ToPhase, MovingPhases
  <2> HIDE DEF Kept
  <2> QED
    BY <1>a, <2>1, <2>2 DEF Active, Holding
<1>9. ASSUME NEW w \in Workers, DequeueRead(w) PROVE Kept
  <2>1. /\ UNCHANGED <<pending, processing, recovered, phase, cand>>
        /\ abandoned \subseteq abandoned'
        /\ \A v \in Workers \ {w} : pc'[v] = pc[v] /\ task'[v] = task[v]
    BY <1>9 DEF DequeueRead, TypeOK, redis, scan, loop, actors, hist, At, AttemptFailed
  <2>2. /\ \A t \in Tasks : Active(w, t)' => Active(w, t)
        /\ \A t \in Tasks : Holding(w, t)' => Holding(w, t)
        /\ \A t \in Tasks : t \in abandoned' \/ (Holding(w, t) => Holding(w, t)')
        /\ \A t \in Tasks : task'[w] = t /\ pc'[w] \in MovingPcs
                              => task[w] = t /\ pc[w] \in MovingPcs
    BY <1>9 DEF DequeueRead, TypeOK, redis, scan, loop, actors, hist, At, Active, Holding, HoldingPcs, MovingPcs
  <2> HIDE DEF Kept
  <2> QED
    BY <1>a, <1>b, <2>1, <2>2
<1>10. ASSUME NEW w \in Workers, DequeueMiss(w) PROVE Kept
  <2>1. /\ UNCHANGED <<pending, processing, recovered, phase, cand>>
        /\ abandoned \subseteq abandoned'
        /\ \A v \in Workers \ {w} : pc'[v] = pc[v] /\ task'[v] = task[v]
    BY <1>10 DEF DequeueMiss, TypeOK, redis, scan, loop, actors, hist, At, Goto, AttemptFailed
  <2>2. /\ \A t \in Tasks : Active(w, t)' => Active(w, t)
        /\ \A t \in Tasks : Holding(w, t)' => Holding(w, t)
        /\ \A t \in Tasks : t \in abandoned' \/ (Holding(w, t) => Holding(w, t)')
        /\ \A t \in Tasks : task'[w] = t /\ pc'[w] \in MovingPcs
                              => task[w] = t /\ pc[w] \in MovingPcs
    BY <1>10 DEF DequeueMiss, TypeOK, redis, scan, loop, actors, hist, At, Goto, Active, Holding, HoldingPcs, MovingPcs
  <2> HIDE DEF Kept
  <2> QED
    BY <1>a, <1>b, <2>1, <2>2
<1>11. ASSUME NEW w \in Workers, DequeueMark(w) PROVE Kept
  <2>1. /\ UNCHANGED <<pending, processing, recovered, phase, cand>>
        /\ abandoned \subseteq abandoned'
        /\ \A v \in Workers \ {w} : pc'[v] = pc[v] /\ task'[v] = task[v]
    BY <1>11 DEF DequeueMark, TypeOK, redis, scan, loop, actors, hist, At, Goto, AttemptFailed
  <2>2. /\ \A t \in Tasks : Active(w, t)' => Active(w, t)
        /\ \A t \in Tasks : Holding(w, t)' => Holding(w, t)
        /\ \A t \in Tasks : t \in abandoned' \/ (Holding(w, t) => Holding(w, t)')
        /\ \A t \in Tasks : task'[w] = t /\ pc'[w] \in MovingPcs
                              => task[w] = t /\ pc[w] \in MovingPcs
    BY <1>11 DEF DequeueMark, TypeOK, redis, scan, loop, actors, hist, At, Goto, Active, Holding, HoldingPcs, MovingPcs
  <2> HIDE DEF Kept
  <2> QED
    BY <1>a, <1>b, <2>1, <2>2
<1>12. ASSUME NEW w \in Workers, PipelineCommit(w) PROVE Kept
  <2>1. /\ UNCHANGED <<pending, processing, recovered, phase, cand>>
        /\ abandoned \subseteq abandoned'
        /\ \A v \in Workers \ {w} : pc'[v] = pc[v] /\ task'[v] = task[v]
    BY <1>12 DEF PipelineCommit, TypeOK, redis, scan, loop, actors, hist, At, Goto, AttemptFailed
  <2>2. /\ \A t \in Tasks : Active(w, t)' => Active(w, t)
        /\ \A t \in Tasks : Holding(w, t)' => Holding(w, t)
        /\ \A t \in Tasks : t \in abandoned' \/ (Holding(w, t) => Holding(w, t)')
        /\ \A t \in Tasks : task'[w] = t /\ pc'[w] \in MovingPcs
                              => task[w] = t /\ pc[w] \in MovingPcs
    BY <1>12 DEF PipelineCommit, TypeOK, redis, scan, loop, actors, hist, At, Goto, Active, Holding, HoldingPcs, MovingPcs
  <2> HIDE DEF Kept
  <2> QED
    BY <1>a, <1>b, <2>1, <2>2
<1>13. ASSUME NEW w \in Workers, PipelineOk(w) PROVE Kept
  <2>1. /\ UNCHANGED <<pending, processing, recovered, phase, cand>>
        /\ abandoned \subseteq abandoned'
        /\ \A v \in Workers \ {w} : pc'[v] = pc[v] /\ task'[v] = task[v]
    BY <1>13 DEF PipelineOk, TypeOK, redis, scan, loop, actors, hist, At, Goto, AttemptFailed
  <2>2. /\ \A t \in Tasks : Active(w, t)' => Active(w, t)
        /\ \A t \in Tasks : Holding(w, t)' => Holding(w, t)
        /\ \A t \in Tasks : t \in abandoned' \/ (Holding(w, t) => Holding(w, t)')
        /\ \A t \in Tasks : task'[w] = t /\ pc'[w] \in MovingPcs
                              => task[w] = t /\ pc[w] \in MovingPcs
    BY <1>13 DEF PipelineOk, TypeOK, redis, scan, loop, actors, hist, At, Goto, Active, Holding, HoldingPcs, MovingPcs
  <2> HIDE DEF Kept
  <2> QED
    BY <1>a, <1>b, <2>1, <2>2
<1>14. ASSUME NEW w \in Workers, PipelineError(w) PROVE Kept
  <2>1. /\ UNCHANGED <<pending, processing, recovered, phase, cand>>
        /\ abandoned \subseteq abandoned'
        /\ \A v \in Workers \ {w} : pc'[v] = pc[v] /\ task'[v] = task[v]
    BY <1>14 DEF PipelineError, TypeOK, redis, scan, loop, actors, hist, At, AttemptFailed, AttemptFailed
  <2>2. /\ \A t \in Tasks : Active(w, t)' => Active(w, t)
        /\ \A t \in Tasks : Holding(w, t)' => Holding(w, t)
        /\ \A t \in Tasks : t \in abandoned' \/ (Holding(w, t) => Holding(w, t)')
        /\ \A t \in Tasks : task'[w] = t /\ pc'[w] \in MovingPcs
                              => task[w] = t /\ pc[w] \in MovingPcs
    BY <1>14 DEF PipelineError, TypeOK, redis, scan, loop, actors, hist, At, AttemptFailed, Active, Holding, HoldingPcs, MovingPcs
  <2> HIDE DEF Kept
  <2> QED
    BY <1>a, <1>b, <2>1, <2>2
<1>15. ASSUME NEW w \in Workers, PipelineTimeout(w) PROVE Kept
  <2>1. /\ UNCHANGED <<pending, processing, recovered, phase, cand>>
        /\ abandoned \subseteq abandoned'
        /\ \A v \in Workers \ {w} : pc'[v] = pc[v] /\ task'[v] = task[v]
    BY <1>15 DEF PipelineTimeout, TypeOK, redis, scan, loop, actors, hist, At, AttemptFailed, AttemptFailed
  <2>2. /\ \A t \in Tasks : Active(w, t)' => Active(w, t)
        /\ \A t \in Tasks : Holding(w, t)' => Holding(w, t)
        /\ \A t \in Tasks : t \in abandoned' \/ (Holding(w, t) => Holding(w, t)')
        /\ \A t \in Tasks : task'[w] = t /\ pc'[w] \in MovingPcs
                              => task[w] = t /\ pc[w] \in MovingPcs
    BY <1>15 DEF PipelineTimeout, TypeOK, redis, scan, loop, actors, hist, At, AttemptFailed, Active, Holding, HoldingPcs, MovingPcs
  <2> HIDE DEF Kept
  <2> QED
    BY <1>a, <1>b, <2>1, <2>2
<1>16. ASSUME NEW w \in Workers, AckMark(w) PROVE Kept
  <2>1. /\ UNCHANGED <<pending, processing, recovered, phase, cand>>
        /\ abandoned \subseteq abandoned'
        /\ \A v \in Workers \ {w} : pc'[v] = pc[v] /\ task'[v] = task[v]
    BY <1>16 DEF AckMark, TypeOK, redis, scan, loop, actors, hist, At, PollAgain, AttemptFailed
  <2>2. /\ \A t \in Tasks : Active(w, t)' => Active(w, t)
        /\ \A t \in Tasks : Holding(w, t)' => Holding(w, t)
        /\ \A t \in Tasks : t \in abandoned' \/ (Holding(w, t) => Holding(w, t)')
        /\ \A t \in Tasks : task'[w] = t /\ pc'[w] \in MovingPcs
                              => task[w] = t /\ pc[w] \in MovingPcs
    BY <1>16 DEF AckMark, TypeOK, redis, scan, loop, actors, hist, At, PollAgain, Active, Holding, HoldingPcs, MovingPcs
  <2> HIDE DEF Kept
  <2> QED
    BY <1>a, <1>b, <2>1, <2>2
<1>17. ASSUME NEW w \in Workers, NackRead(w) PROVE Kept
  <2>1. /\ UNCHANGED <<pending, processing, recovered, phase, cand>>
        /\ abandoned \subseteq abandoned'
        /\ \A v \in Workers \ {w} : pc'[v] = pc[v] /\ task'[v] = task[v]
    BY <1>17 DEF NackRead, TypeOK, redis, scan, loop, actors, hist, At, Goto, AttemptFailed
  <2>2. /\ \A t \in Tasks : Active(w, t)' => Active(w, t)
        /\ \A t \in Tasks : Holding(w, t)' => Holding(w, t)
        /\ \A t \in Tasks : t \in abandoned' \/ (Holding(w, t) => Holding(w, t)')
        /\ \A t \in Tasks : task'[w] = t /\ pc'[w] \in MovingPcs
                              => task[w] = t /\ pc[w] \in MovingPcs
    BY <1>17 DEF NackRead, TypeOK, redis, scan, loop, actors, hist, At, Goto, Active, Holding, HoldingPcs, MovingPcs
  <2> HIDE DEF Kept
  <2> QED
    BY <1>a, <1>b, <2>1, <2>2
<1>18. ASSUME NEW w \in Workers, NackMiss(w) PROVE Kept
  <2>1. /\ UNCHANGED <<pending, processing, recovered, phase, cand>>
        /\ abandoned \subseteq abandoned'
        /\ \A v \in Workers \ {w} : pc'[v] = pc[v] /\ task'[v] = task[v]
    BY <1>18 DEF NackMiss, TypeOK, redis, scan, loop, actors, hist, At, PollAgain, AttemptFailed
  <2>2. /\ \A t \in Tasks : Active(w, t)' => Active(w, t)
        /\ \A t \in Tasks : Holding(w, t)' => Holding(w, t)
        /\ \A t \in Tasks : t \in abandoned' \/ (Holding(w, t) => Holding(w, t)')
        /\ \A t \in Tasks : task'[w] = t /\ pc'[w] \in MovingPcs
                              => task[w] = t /\ pc[w] \in MovingPcs
    BY <1>18 DEF NackMiss, TypeOK, redis, scan, loop, actors, hist, At, PollAgain, Active, Holding, HoldingPcs, MovingPcs
  <2> HIDE DEF Kept
  <2> QED
    BY <1>a, <1>b, <2>1, <2>2
<1>19. ASSUME NEW w \in Workers, NackStore(w) PROVE Kept
  <2>1. /\ UNCHANGED <<pending, processing, recovered, phase, cand>>
        /\ abandoned \subseteq abandoned'
        /\ \A v \in Workers \ {w} : pc'[v] = pc[v] /\ task'[v] = task[v]
    BY <1>19 DEF NackStore, TypeOK, redis, scan, loop, actors, hist, At, Goto, AttemptFailed
  <2>2. /\ \A t \in Tasks : Active(w, t)' => Active(w, t)
        /\ \A t \in Tasks : Holding(w, t)' => Holding(w, t)
        /\ \A t \in Tasks : t \in abandoned' \/ (Holding(w, t) => Holding(w, t)')
        /\ \A t \in Tasks : task'[w] = t /\ pc'[w] \in MovingPcs
                              => task[w] = t /\ pc[w] \in MovingPcs
    BY <1>19 DEF NackStore, TypeOK, redis, scan, loop, actors, hist, At, Goto, Active, Holding, HoldingPcs, MovingPcs
  <2> HIDE DEF Kept
  <2> QED
    BY <1>a, <1>b, <2>1, <2>2
<1>20. ASSUME NEW w \in Workers, NackBury(w) PROVE Kept
  <2>1. /\ UNCHANGED <<pending, processing, recovered, phase, cand>>
        /\ abandoned \subseteq abandoned'
        /\ \A v \in Workers \ {w} : pc'[v] = pc[v] /\ task'[v] = task[v]
    BY <1>20 DEF NackBury, TypeOK, redis, scan, loop, actors, hist, At, Goto, AttemptFailed
  <2>2. /\ \A t \in Tasks : Active(w, t)' => Active(w, t)
        /\ \A t \in Tasks : Holding(w, t)' => Holding(w, t)
        /\ \A t \in Tasks : t \in abandoned' \/ (Holding(w, t) => Holding(w, t)')
        /\ \A t \in Tasks : task'[w] = t /\ pc'[w] \in MovingPcs
                              => task[w] = t /\ pc[w] \in MovingPcs
    BY <1>20 DEF NackBury, TypeOK, redis, scan, loop, actors, hist, At, Goto, Active, Holding, HoldingPcs, MovingPcs
  <2> HIDE DEF Kept
  <2> QED
    BY <1>a, <1>b, <2>1, <2>2
<1>21. ASSUME NEW w \in Workers, NackDead(w) PROVE Kept
  <2>1. /\ UNCHANGED <<pending, processing, recovered, phase, cand>>
        /\ abandoned \subseteq abandoned'
        /\ \A v \in Workers \ {w} : pc'[v] = pc[v] /\ task'[v] = task[v]
    BY <1>21 DEF NackDead, TypeOK, redis, scan, loop, actors, hist, At, Goto, PollAgain, AttemptFailed
  <2>2. /\ \A t \in Tasks : Active(w, t)' => Active(w, t)
        /\ \A t \in Tasks : Holding(w, t)' => Holding(w, t)
        /\ \A t \in Tasks : t \in abandoned' \/ (Holding(w, t) => Holding(w, t)')
        /\ \A t \in Tasks : task'[w] = t /\ pc'[w] \in MovingPcs
                              => task[w] = t /\ pc[w] \in MovingPcs
    BY <1>21 DEF NackDead, TypeOK, redis, scan, loop, actors, hist, At, Goto, PollAgain, Active, Holding, HoldingPcs, MovingPcs
  <2> HIDE DEF Kept
  <2> QED
    BY <1>a, <1>b, <2>1, <2>2
<1>22. ASSUME NEW w \in Workers, MarkImageFailed(w) PROVE Kept
  <2>1. /\ UNCHANGED <<pending, processing, recovered, phase, cand>>
        /\ abandoned \subseteq abandoned'
        /\ \A v \in Workers \ {w} : pc'[v] = pc[v] /\ task'[v] = task[v]
    BY <1>22 DEF MarkImageFailed, TypeOK, redis, scan, loop, actors, hist, At, PollAgain, AttemptFailed
  <2>2. /\ \A t \in Tasks : Active(w, t)' => Active(w, t)
        /\ \A t \in Tasks : Holding(w, t)' => Holding(w, t)
        /\ \A t \in Tasks : t \in abandoned' \/ (Holding(w, t) => Holding(w, t)')
        /\ \A t \in Tasks : task'[w] = t /\ pc'[w] \in MovingPcs
                              => task[w] = t /\ pc[w] \in MovingPcs
    BY <1>22 DEF MarkImageFailed, TypeOK, redis, scan, loop, actors, hist, At, PollAgain, Active, Holding, HoldingPcs, MovingPcs
  <2> HIDE DEF Kept
  <2> QED
    BY <1>a, <1>b, <2>1, <2>2
<1>23. ASSUME NEW w \in Workers, SlotFault(w) PROVE Kept
  <2>1. /\ UNCHANGED <<pending, processing, recovered, phase, cand>>
        /\ abandoned \subseteq abandoned'
        /\ \A v \in Workers \ {w} : pc'[v] = pc[v] /\ task'[v] = task[v]
    BY <1>23 DEF SlotFault, TypeOK, redis, scan, loop, actors, hist, PollAgain, AttemptFailed
  <2>2. /\ \A t \in Tasks : Active(w, t)' => Active(w, t)
        /\ \A t \in Tasks : Holding(w, t)' => Holding(w, t)
        /\ \A t \in Tasks : t \in abandoned' \/ (Holding(w, t) => Holding(w, t)')
        /\ \A t \in Tasks : task'[w] = t /\ pc'[w] \in MovingPcs
                              => task[w] = t /\ pc[w] \in MovingPcs
    BY <1>23 DEF SlotFault, TypeOK, redis, scan, loop, actors, hist, PollAgain, Active, Holding, HoldingPcs, MovingPcs
  <2> HIDE DEF Kept
  <2> QED
    BY <1>a, <1>b, <2>1, <2>2
<1>24. ASSUME NEW p \in Procs, Crash(p) PROVE Kept
  <2>1. /\ UNCHANGED <<pending, processing, recovered>> /\ abandoned \subseteq abandoned'
        /\ \A q \in Procs : phase'[q] \in MovingPhases
                              => phase[q] \in MovingPhases /\ cand'[q] = cand[q]
    BY <1>24 DEF Crash, ToPhase, TypeOK, redis, MovingPhases
  <2>2. \A w \in Workers : \/ ProcOf(w) # p /\ pc'[w] = pc[w] /\ task'[w] = task[w]
                           \/ ProcOf(w) = p /\ pc'[w] = "idle"
    BY <1>24 DEF Crash
  <2>3. \A w \in Workers, t \in Tasks : ProcOf(w) = p /\ Holding(w, t) => t \in abandoned'
    BY <1>24 DEF Crash, Holding
  <2>4. "idle" \notin HoldingPcs \cup MovingPcs
    BY DEF HoldingPcs, MovingPcs
  <2>5. \A w \in Workers, t \in Tasks :
            /\ Active(w, t)' => Active(w, t)
            /\ Holding(w, t)' => Holding(w, t)
            /\ t \in abandoned' \/ (Holding(w, t) => Holding(w, t)')
            /\ task'[w] = t /\ pc'[w] \in MovingPcs => task[w] = t /\ pc[w] \in MovingPcs
    BY <2>2, <2>3, <2>4 DEF Active, Holding
  <2> HIDE DEF Kept
  <2> QED
    BY <1>a, <2>1, <2>5
<1>25. ASSUME NEW w \in Workers, DequeueOrphan(w) PROVE Kept
  <2>1. /\ UNCHANGED <<pending, recovered, abandoned, phase, cand>>
        /\ \A v \in Workers \ {w} : pc'[v] = pc[v] /\ task'[v] = task[v]
    BY <1>25 DEF DequeueOrphan, At, PollAgain, TypeOK, scan, hist
  <2>2. /\ task[w] \in Tasks /\ pc[w] \in HoldingPcs
        /\ processing \in [Tasks -> Nat] /\ processing' = Lrem(processing, task[w])
        /\ processing' \in [Tasks -> Nat]
    BY <1>25 DEF DequeueOrphan, At, TypeOK, HoldingPcs
  <2> PICK t \in Tasks : t = task[w]
    BY <2>2
  <2>3. /\ \A u : Active(w, u)' => Active(w, u)
        /\ \A u : ~Holding(w, u)'
        /\ \A u : Holding(w, u) <=> u = t
        /\ \A u : task'[w] = u /\ pc'[w] \in MovingPcs => u = t
    BY <1>25, <2>2 DEF DequeueOrphan, At, PollAgain, TypeOK, Active, Holding, HoldingPcs, MovingPcs
  <2>4. /\ \A u \in Tasks : processing[u] \in Nat /\ processing'[u] \in Nat
        /\ \A u \in Tasks : processing'[u] <= processing[u]
        /\ processing[t] <= 1 => processing'[t] = 0
    BY <2>2 DEF Lrem
  <2>5. t \notin recovered => processing'[t] = 0
    BY <2>4 DEF OnePlace
  <2>6. OnePlace'
    <3>1. \A v \in Workers, u \in Tasks : Active(v, u)' => Active(v, u)
      BY <1>b, <2>1, <2>3
    <3>2. \A v \in Workers, u \in Tasks \ recovered' :
              task'[v] = u /\ pc'[v] \in MovingPcs
                => processing'[u] = 0 \/ (task[v] = u /\ pc[v] \in MovingPcs)
      BY <1>b, <2>1, <2>3, <2>5
    <3> QED
      BY <2>1, <2>2, <2>4, <3>1, <3>2, PlaceKept
  <2>7. ASSUME NEW u \in Tasks, u # t PROVE Covered(u)'
    <3>1. \A v \in Workers : Holding(v, u)' <=> Holding(v, u)
      BY <1>b, <2>1, <2>3, <2>7
    <3> QED
      BY <2>1, <2>4, <3>1, CoverKept DEF HoldersEnough
  <2>8. Covered(t)'
    <3>1. \A v \in Workers : Holding(v, t)' <=> Holding(v, t) /\ v # w
      BY <1>b, <2>1, <2>3
    <3> QED
      BY <2>1, <2>2, <2>3, <3>1, CoverReleased DEF HoldersEnough
  <2> QED
    BY <2>6, <2>7, <2>8 DEF HoldersEnough
<1>26. ASSUME NEW w \in Workers, AckRemove(w) PROVE Kept
  <2>1. /\ UNCHANGED <<pending, recovered, abandoned, phase, cand>>
        /\ \A v \in Workers \ {w} : pc'[v] = pc[v] /\ task'[v] = task[v]
    BY <1>26 DEF AckRemove, At, Goto, TypeOK, scan, hist
  <2>2. /\ task[w] \in Tasks /\ pc[w] \in HoldingPcs
        /\ processing \in [Tasks -> Nat] /\ processing' = Lrem(processing, task[w])
        /\ processing' \in [Tasks -> Nat]
    BY <1>26 DEF AckRemove, At, TypeOK, HoldingPcs
  <2> PICK t \in Tasks : t = task[w]
    BY <2>2
  <2>3. /\ \A u : Active(w, u)' => Active(w, u)
        /\ \A u : ~Holding(w, u)'
        /\ \A u : Holding(w, u) <=> u = t
        /\ \A u : task'[w] = u /\ pc'[w] \in MovingPcs => u = t
    BY <1>26, <2>2 DEF AckRemove, At, Goto, TypeOK, Active, Holding, HoldingPcs, MovingPcs
  <2>4. /\ \A u \in Tasks : processing[u] \in Nat /\ processing'[u] \in Nat
        /\ \A u \in Tasks : processing'[u] <= processing[u]
        /\ processing[t] <= 1 => processing'[t] = 0
    BY <2>2 DEF Lrem
  <2>5. t \notin recovered => processing'[t] = 0
    BY <2>4 DEF OnePlace
  <2>6. OnePlace'
    <3>1. \A v \in Workers, u \in Tasks : Active(v, u)' => Active(v, u)
      BY <1>b, <2>1, <2>3
    <3>2. \A v \in Workers, u \in Tasks \ recovered' :
              task'[v] = u /\ pc'[v] \in MovingPcs
                => processing'[u] = 0 \/ (task[v] = u /\ pc[v] \in MovingPcs)
      BY <1>b, <2>1, <2>3, <2>5
    <3> QED
      BY <2>1, <2>2, <2>4, <3>1, <3>2, PlaceKept
  <2>7. ASSUME NEW u \in Tasks, u # t PROVE Covered(u)'
    <3>1. \A v \in Workers : Holding(v, u)' <=> Holding(v, u)
      BY <1>b, <2>1, <2>3, <2>7
    <3> QED
      BY <2>1, <2>4, <3>1, CoverKept DEF HoldersEnough
  <2>8. Covered(t)'
    <3>1. \A v \in Workers : Holding(v, t)' <=> Holding(v, t) /\ v # w
      BY <1>b, <2>1, <2>3
    <3> QED
      BY <2>1, <2>2, <2>3, <3>1, CoverReleased DEF HoldersEnough
  <2> QED
    BY <2>6, <2>7, <2>8 DEF HoldersEnough
<1>27. ASSUME NEW w \in Workers, NackRemove(w) PROVE Kept
  <2>1. /\ UNCHANGED <<pending, recovered, abandoned, phase, cand>>
        /\ \A v \in Workers \ {w} : pc'[v] = pc[v] /\ task'[v] = task[v]
    BY <1>27 DEF NackRemove, At, Goto, TypeOK, scan, hist
  <2>2. /\ task[w] \in Tasks /\ pc[w] \in HoldingPcs
        /\ processing \in [Tasks -> Nat] /\ processing' = Lrem(processing, task[w])
        /\ processing' \in [Tasks -> Nat]
    BY <1>27 DEF NackRemove, At, TypeOK, HoldingPcs
  <2> PICK t \in Tasks : t = task[w]
    BY <2>2
  <2>3. /\ \A u : Active(w, u)' => Active(w, u)
        /\ \A u : ~Holding(w, u)'
        /\ \A u : Holding(w, u) <=> u = t
        /\ \A u : task'[w] = u /\ pc'[w] \in MovingPcs => u = t
    BY <1>27, <2>2 DEF NackRemove, At, Goto, TypeOK, Active, Holding, HoldingPcs, MovingPcs
  <2>4. /\ \A u \in Tasks : processing[u] \in Nat /\ processing'[u] \in Nat
        /\ \A u \in Tasks : processing'[u] <= processing[u]
        /\ processing[t] <= 1 => processing'[t] = 0
    BY <2>2 DEF Lrem
  <2>5. t \notin recovered => processing'[t] = 0
    BY <2>4 DEF OnePlace
  <2>6. OnePlace'
    <3>1. \A v \in Workers, u \in Tasks : Active(v, u)' => Active(v, u)
      BY <1>b, <2>1, <2>3
    <3>2. \A v \in Workers, u \in Tasks \ recovered' :
              task'[v] = u /\ pc'[v] \in MovingPcs
                => processing'[u] = 0 \/ (task[v] = u /\ pc[v] \in MovingPcs)
      BY <1>b, <2>1, <2>3, <2>5
    <3> QED
      BY <2>1, <2>2, <2>4, <3>1, <3>2, PlaceKept
  <2>7. ASSUME NEW u \in Tasks, u # t PROVE Covered(u)'
    <3>1. \A v \in Workers : Holding(v, u)' <=> Holding(v, u)
      BY <1>b, <2>1, <2>3, <2>7
    <3> QED
      BY <2>1, <2>4, <3>1, CoverKept DEF HoldersEnough
  <2>8. Covered(t)'
    <3>1. \A v \in Workers : Holding(v, t)' <=> Holding(v, t) /\ v # w
      BY <1>b, <2>1, <2>3
    <3> QED
      BY <2>1, <2>2, <2>3, <3>1, CoverReleased DEF HoldersEnough
  <2> QED
    BY <2>6, <2>7, <2>8 DEF HoldersEnough
<1>28. ASSUME NEW t \in Tasks, EnqueuePush(t) PROVE Kept
  <2>1. /\ UNCHANGED <<processing, recovered, abandoned, phase, cand, task, pc>>
        /\ pending' = Lpush(pending, t) /\ pending \in Seq(Tasks)
    BY <1>28 DEF EnqueuePush, TypeOK, scan, loop, hist
  <2>0. producer[t] # "queued"
    BY <1>28 DEF EnqueuePush
  <2>2. /\ ~InPending(t) /\ processing[t] = 0
        /\ \A w \in Workers : task[w] = t => pc[w] = "idle"
    <3>1. processing[t] \in Nat /\ ~(processing[t] > 0) /\ ~InPending(t)
      BY <2>0 DEF OnlyQueued, TypeOK
    <3> QED
      BY <2>0, <3>1 DEF OnlyQueued
  <2>3. \A w \in Workers : ~Active(w, t)
    BY <2>2 DEF Active, HoldingPcs, MovingPcs
  <2>4. \A u : InPending(u)' <=> InPending(u) \/ u = t
    BY <2>1, PendingPush
  <2>5. \A u : ListedOnce(u) => ListedOnce(u)'
    BY <2>1, <2>2, PushOnce
  <2>6. \A u, w : Active(w, u)' <=> Active(w, u)
    BY <2>1 DEF Active
  <2>7. OnePlace'
    BY <2>1, <2>2, <2>3, <2>4, <2>5, <2>6 DEF OnePlace

  <2>9. HoldersEnough'
    <3>1. ASSUME NEW u \in Tasks PROVE Covered(u)'
      <4>1. \A v \in Workers : Holding(v, u)' <=> Holding(v, u)
        BY <2>1, <2>1 DEF Holding
      <4>2. processing[u] \in Nat /\ processing'[u] = processing[u]
        BY <2>1 DEF TypeOK
      <4> QED
        BY <2>1, <4>1, <4>2, CoverKept DEF HoldersEnough
    <3> QED
      BY <3>1 DEF HoldersEnough

  <2> QED
    BY <2>7, <2>9
<1>29. ASSUME NEW p \in Procs, RecoverRemove(p) PROVE Kept
  <2>1. /\ UNCHANGED <<pending, abandoned, task, pc, cand>>
        /\ processing \in [Tasks -> Nat] /\ processing' \in [Tasks -> Nat]
        /\ \A u \in Tasks : processing'[u] <= processing[u]
    BY <1>29, TypeOK' DEF RecoverRemove, InPhase, TypeOK, scan, loop, hist, Lrem
  <2>2. /\ recovered' = recovered \cup {cand[p]}
        /\ \A q \in Procs \ {p} : phase'[q] = phase[q]
    BY <1>29 DEF RecoverRemove, ToPhase, TypeOK
  <2>3. \A q \in Procs : phase'[q] \in MovingPhases
              => cand'[q] \in recovered' \/ (phase[q] \in MovingPhases /\ cand'[q] = cand[q])
    BY <2>1, <2>2
  <2>4. \A w, u : Active(w, u)' <=> Active(w, u)
    BY <2>1 DEF Active
  <2>5. OnePlace'
    BY <2>1, <2>2, <2>3, <2>4, PlaceKept
  <2>9. HoldersEnough'
    <3>1. ASSUME NEW u \in Tasks PROVE Covered(u)'
      <4>1. \A v \in Workers : Holding(v, u)' <=> Holding(v, u)
        BY <2>1 DEF Holding
      <4> QED
        BY <2>1, <4>1, CoverKept DEF HoldersEnough
    <3> QED
      BY <3>1 DEF HoldersEnough
  <2> QED
    BY <2>5, <2>9
<1>30. ASSUME NEW p \in Procs, RecoverPush(p) PROVE Kept
  <2>1. /\ UNCHANGED <<processing, recovered, abandoned, task, pc>>
        /\ cand[p] \in Tasks
        /\ pending' = Lpush(pending, cand[p]) /\ pending \in Seq(Tasks)
    BY <1>30 DEF RecoverPush, InPhase, MovingPhases, TypeOK, loop, hist
  <2>2. cand[p] \in recovered
    BY <1>30, <2>1 DEF RecoverPush, InPhase, MovingPhases, OnePlace
  <2>3. \A q \in Procs : phase'[q] \in MovingPhases
              => phase[q] \in MovingPhases /\ cand'[q] = cand[q]
    BY <1>30 DEF RecoverPush, ToPhase, TypeOK, MovingPhases
  <2>4. \A u : InPending(u)' <=> InPending(u) \/ u = cand[p]
    BY <2>1, PendingPush
  <2>5. \A u : ListedOnce(u) /\ u # cand[p] => ListedOnce(u)'
    BY <2>1, PushOnce
  <2>6. \A u, w : Active(w, u)' <=> Active(w, u)
    BY <2>1 DEF Active
  <2>7. OnePlace'
    BY <2>1, <2>2, <2>3, <2>4, <2>5, <2>6 DEF OnePlace

  <2>9. HoldersEnough'
    <3>1. ASSUME NEW u \in Tasks PROVE Covered(u)'
      <4>1. \A v \in Workers : Holding(v, u)' <=> Holding(v, u)
        BY <2>1, <2>1 DEF Holding
      <4>2. processing[u] \in Nat /\ processing'[u] = processing[u]
        BY <2>1 DEF TypeOK
      <4> QED
        BY <2>1, <4>1, <4>2, CoverKept DEF HoldersEnough
    <3> QED
      BY <3>1 DEF HoldersEnough

  <2> QED
    BY <2>7, <2>9
<1>31. ASSUME NEW w \in Workers, NackRequeue(w) PROVE Kept
  <2>1. /\ UNCHANGED <<processing, recovered, abandoned, phase, cand>>
        /\ pc[w] = "requeue" /\ pc'[w] = "idle"
        /\ \A v \in Workers \ {w} : pc'[v] = pc[v] /\ task'[v] = task[v]
        /\ task[w] \in Tasks
        /\ pending' = Lpush(pending, task[w]) /\ pending \in Seq(Tasks)
    BY <1>31 DEF NackRequeue, At, PollAgain, TypeOK, scan, hist
  <2> PICK t \in Tasks : t = task[w]
    BY <2>1
  <2>2. /\ \A u : ~Active(w, u)' /\ ~Holding(w, u)' /\ ~Holding(w, u)
        /\ pc[w] \in MovingPcs /\ Active(w, t) /\ pc'[w] \notin MovingPcs
    BY <2>1 DEF Active, Holding, HoldingPcs, MovingPcs
  <2>3. t \notin recovered =>
            /\ ~InPending(t) /\ processing[t] = 0
            /\ \A v \in Workers \ {w} : ~Active(v, t)
    BY <2>2 DEF OnePlace
  <2>4. \A u : InPending(u)' <=> InPending(u) \/ u = t
    BY <2>1, PendingPush
  <2>5. \A u : ListedOnce(u) /\ (u = t => ~InPending(t)) => ListedOnce(u)'
    BY <2>1, PushOnce
  <2>6. \A u : \A v \in Workers : v # w => (Active(v, u)' <=> Active(v, u))
    BY <1>b, <2>1 DEF Active
  <2>7. OnePlace'
    <3> SUFFICES ASSUME NEW u \in Tasks \ recovered
                 PROVE  /\ \A v, x \in Workers : Active(v, u)' /\ Active(x, u)' => v = x
                        /\ \A p \in Procs : phase'[p] \in MovingPhases => cand'[p] # u
                        /\ InPending(u)' => processing'[u] = 0
                                              /\ \A v \in Workers : ~Active(v, u)'
                        /\ \A v \in Workers : task'[v] = u /\ pc'[v] \in MovingPcs
                                                => processing'[u] = 0
                        /\ processing'[u] <= 1
                        /\ ListedOnce(u)'
      BY <2>1 DEF OnePlace
    <3>1. \A v \in Workers : Active(v, u)' => v # w /\ Active(v, u)
      BY <1>b, <2>1, <2>2
    <3>2. /\ \A v, x \in Workers : Active(v, u)' /\ Active(x, u)' => v = x
          /\ \A p \in Procs : phase'[p] \in MovingPhases => cand'[p] # u
          /\ processing'[u] <= 1
      BY <2>1, <3>1 DEF OnePlace
    <3>3. InPending(u)' => processing'[u] = 0 /\ \A v \in Workers : ~Active(v, u)'
      BY <2>1, <2>3, <2>4, <3>1 DEF OnePlace
    <3>4. ASSUME NEW v \in Workers, task'[v] = u, pc'[v] \in MovingPcs
          PROVE  processing'[u] = 0
      BY <2>1, <2>2, <3>4 DEF OnePlace
    <3>5. ListedOnce(u)'
      BY <2>3, <2>5 DEF OnePlace
    <3> QED
      BY <3>2, <3>3, <3>4, <3>5

  <2>9. HoldersEnough'
    <3>1. ASSUME NEW u \in Tasks PROVE Covered(u)'
      <4>1. \A v \in Workers : Holding(v, u)' <=> Holding(v, u)
        BY <2>1, <1>b, <2>2
      <4>2. processing[u] \in Nat /\ processing'[u] = processing[u]
        BY <2>1 DEF TypeOK
      <4> QED
        BY <2>1, <4>1, <4>2, CoverKept DEF HoldersEnough
    <3> QED
      BY <3>1 DEF HoldersEnough

  <2> QED
    BY <2>7, <2>9
<1>32. ASSUME NEW w \in Workers, DequeuePop(w) PROVE Kept
  <2>1. /\ UNCHANGED <<recovered, abandoned, phase, cand>>
        /\ pc[w] = "idle" /\ pc'[w] = "popped" /\ task'[w] = Head(pending)
        /\ \A v \in Workers \ {w} : pc'[v] = pc[v] /\ task'[v] = task[v]
        /\ pending # << >> /\ pending' = Tail(pending) /\ pending \in Seq(Tasks)
        /\ processing \in [Tasks -> Nat] /\ processing' = Add(processing, Head(pending))
    BY <1>32 DEF DequeuePop, At, TypeOK, scan, hist
  <2>2. Head(pending) \in Tasks /\ InPending(Head(pending)) /\ \A u : InPending(u)' => InPending(u)
    BY <2>1, PendingPop
  <2> PICK t \in Tasks : t = Head(pending)
    BY <2>2
  <2>3. /\ \A u : ~Active(w, u) /\ ~Holding(w, u)
        /\ \A u : (Active(w, u)' <=> u = t) /\ (Holding(w, u)' <=> u = t)
        /\ pc'[w] \notin MovingPcs
    BY <2>1 DEF Active, Holding, HoldingPcs, MovingPcs
  <2>4. /\ processing'[t] = processing[t] + 1
        /\ \A u \in Tasks : u # t => processing'[u] = processing[u]
        /\ \A u \in Tasks : processing[u] \in Nat /\ processing'[u] \in Nat
    BY <2>1 DEF Add
  <2>5. \A u : ListedOnce(u) => ListedOnce(u)' /\ (u = t => ~InPending(u)')
    BY <2>1, PopOnce
  <2>6. t \notin recovered => processing[t] = 0 /\ \A v \in Workers : ~Active(v, t)
    BY <2>2 DEF OnePlace
  <2>7. OnePlace'
    <3> SUFFICES ASSUME NEW u \in Tasks \ recovered
                 PROVE  /\ \A v, x \in Workers : Active(v, u)' /\ Active(x, u)' => v = x
                        /\ \A p \in Procs : phase'[p] \in MovingPhases => cand'[p] # u
                        /\ InPending(u)' => processing'[u] = 0
                                              /\ \A v \in Workers : ~Active(v, u)'
                        /\ \A v \in Workers : task'[v] = u /\ pc'[v] \in MovingPcs
                                                => processing'[u] = 0
                        /\ processing'[u] <= 1
                        /\ ListedOnce(u)'
      BY <2>1 DEF OnePlace
    <3>1. \A v \in Workers : v # w => (Active(v, u)' <=> Active(v, u))
      BY <1>b, <2>1
    <3>2. \A v, x \in Workers : Active(v, u)' /\ Active(x, u)' => v = x
      BY <2>3, <2>6, <3>1 DEF OnePlace
    <3>3. \A p \in Procs : phase'[p] \in MovingPhases => cand'[p] # u
      BY <2>1 DEF OnePlace
    <3>4. processing'[u] <= 1
      BY <2>4, <2>6 DEF OnePlace
    <3>5. InPending(u)' => u # t /\ InPending(u)
      BY <2>2, <2>5 DEF OnePlace
    <3>6. InPending(u)' => processing'[u] = 0 /\ \A v \in Workers : ~Active(v, u)'
      BY <2>3, <2>4, <3>1, <3>5 DEF OnePlace
    <3>7. ASSUME NEW v \in Workers, task'[v] = u, pc'[v] \in MovingPcs
          PROVE  processing'[u] = 0
      <4>1. v # w /\ task[v] = u /\ pc[v] \in MovingPcs
        BY <2>1, <2>3, <3>7
      <4>2. processing[u] = 0
        BY <4>1 DEF OnePlace
      <4>3. u # t
        BY <2>6, <4>1 DEF Active
      <4> QED
        BY <2>4, <4>2, <4>3
    <3>8. ListedOnce(u)'
      BY <2>5 DEF OnePlace
    <3> QED
      BY <3>2, <3>3, <3>4, <3>6, <3>7, <3>8
  <2>8. ASSUME NEW u \in Tasks, u # t PROVE Covered(u)'
    <3>1. \A v \in Workers : Holding(v, u)' <=> Holding(v, u)
      BY <1>b, <2>1, <2>3, <2>8
    <3>2. processing'[u] <= processing[u]
      BY <2>4, <2>8
    <3> QED
      BY <2>1, <2>4, <3>1, <3>2, CoverKept DEF HoldersEnough
  <2>9. Covered(t)'
    <3>1. \A v \in Workers : Holding(v, t)' <=> Holding(v, t) \/ v = w
      BY <1>b, <2>1, <2>3
    <3> QED
      BY <2>1, <2>3, <2>4, <3>1, CoverTaken DEF HoldersEnough
  <2> QED
    BY <2>7, <2>8, <2>9 DEF HoldersEnough
<1>33. CASE Tick
  <2>1. UNCHANGED <<pending, processing, recovered, abandoned, task, pc, phase, cand>>
    BY <1>33 DEF Tick, redis, actors, scan, loop, hist
  <2>2. \A w, t : (Active(w, t)' <=> Active(w, t)) /\ (Holding(w, t)' <=> Holding(w, t))
    BY <2>1 DEF Active, Holding
  <2> HIDE DEF Kept
  <2> QED
    BY <1>a, <2>1, <2>2
<1> HIDE DEF Kept
<1> QED
  BY <1>0, <1>1, <1>2, <1>3, <1>4, <1>5, <1>6, <1>7, <1>8, <1>9, <1>10, <1>11, <1>12,
     <1>13, <1>14, <1>15, <1>16, <1>17, <1>18, <1>19, <1>20, <1>21, <1>22, <1>23,
     <1>24, <1>25, <1>26, <1>27, <1>28, <1>29, <1>30, <1>31, <1>32, <1>33
     DEF Next, Enqueue, Recover, LoopStep, PipelineStep, Fault

LEMMA ListsInvAccounts == ListsInv => ListsAccounted
<1> SUFFICES ASSUME ListsInv PROVE OnlyRecoveryDuplicates /\ StrandedOnlyByFault
  BY DEF ListsAccounted
<1> TypeOK /\ OnePlace /\ HoldersEnough
  BY DEF ListsInv, QueuedInv
<1>1. ASSUME NEW t \in Tasks \ recovered
      PROVE  /\ \A v, w \in Workers : Holding(v, t) /\ Holding(w, t) => v = w
             /\ InPending(t) => ~Moving(t) /\ \A w \in Workers : ~Holding(w, t)
             /\ processing[t] <= 1
  <2>1. \A w \in Workers : Holding(w, t) \/ (task[w] = t /\ pc[w] \in MovingPcs) => Active(w, t)
    BY DEF Holding, Active
  <2> QED
    BY <2>1 DEF OnePlace, Moving
<1>2. ASSUME NEW t \in Tasks \ abandoned, processing[t] > 0
      PROVE  \E w \in Workers : Holding(w, t)
  <2>1. IsFiniteSet(Holders(t)) /\ processing[t] <= Cardinality(Holders(t))
    BY DEF HoldersEnough, Covered
  <2>2. Cardinality(Holders(t)) # 0
    BY <1>2, <2>1, FS_CardinalityType DEF TypeOK
  <2>3. Holders(t) # {}
    BY <2>2, FS_EmptySet
  <2> QED
    BY <2>3 DEF Holders
<1> QED
  BY <1>1, <1>2 DEF OnlyRecoveryDuplicates, StrandedOnlyByFault

\* Two loops work on one task, or a queued task is worked on as well, only if a start-up
\* scan re-enqueued it from under its holder; and an id stays on processing without a
\* loop that will remove it only after a fault of its holder.
THEOREM ListsAccountedCorrect == Spec => []ListsAccounted
<1>1. Spec => []ListsInv
  BY InitLists, NextLists, PTL DEF Spec
<1> QED
  BY <1>1, ListsInvAccounts, PTL

(***************************************************************************)
(* The queue of lite mode.  It shares no state with the queue above, and   *)
(* what follows uses only what SqliteQueue assumes.                        *)
(***************************************************************************)

\* A stranded row is still claimed: reclaim_stale clears both at once.
StrandedClaimed == \A t \in stranded : status[t] = "processing"

\* The inductive invariant behind ClaimsAccounted.
ClaimInv == LiteTypeOK /\ ClaimsAccounted /\ StrandedClaimed

\* A worker on its way to ack has published, one on its way to nack has failed; a
\* published image is unqueued, or about to be acked, or was stranded once.
OutcomeKnown ==
    /\ step = "ack" => row \in published
    /\ step = "nack" => row \in nacks
    /\ stranded \subseteq everStranded
    /\ \A t \in published :
          /\ status[t] # "none"
          /\ status[t] = "processing" => t \in everStranded \/ (step = "ack" /\ row = t)

\* The inductive invariant behind DeliveredAtLeastOnce.
DeliveryInv == ClaimInv /\ OutcomeKnown /\ DeliveredAtLeastOnce

-----------------------------------------------------------------------------
LEMMA LiteInitType == LiteInit => LiteTypeOK
  BY DEF LiteInit, LiteTypeOK, Statuses

LEMMA LiteNextType == LiteTypeOK /\ [LiteNext]_liteVars => LiteTypeOK'
<1> SUFFICES ASSUME LiteTypeOK, [LiteNext]_liteVars PROVE LiteTypeOK'
  OBVIOUS
<1> USE DEF LiteTypeOK, Statuses, table, proc, liteHist, NextPoll, Strand
<1>1. ASSUME NEW t \in Rows, LiteEnqueue(t) PROVE LiteTypeOK'
  BY LiteLimitsAssumption, <1>1 DEF LiteEnqueue
<1>2. CASE Reclaim
  BY <1>2 DEF Reclaim
<1>3. CASE Restart
  BY <1>3 DEF Restart
<1>4. ASSUME NEW t \in Rows, Dequeue(t) PROVE LiteTypeOK'
  BY <1>4 DEF Dequeue
<1>5. CASE ProcessOk
  BY <1>5 DEF ProcessOk
<1>6. CASE ProcessError
  BY <1>6 DEF ProcessError
<1>7. CASE Ack
  BY <1>7 DEF Ack
<1>8. CASE Nack
  BY <1>8 DEF Nack
<1>9. CASE SettleFault
  BY <1>9 DEF SettleFault
<1>10. CASE ReclaimFault
  BY <1>10 DEF ReclaimFault
<1>11. CASE LiteCrash
  BY <1>11 DEF LiteCrash
<1>12. CASE UNCHANGED liteVars
  BY <1>12 DEF liteVars
<1> QED
  BY <1>1, <1>2, <1>3, <1>4, <1>5, <1>6, <1>7, <1>8, <1>9, <1>10, <1>11, <1>12
     DEF LiteNext, Startup, Worker, Pipeline, LiteFault

\* The columns, the process and its worker keep their types, and a worker that is
\* not idle runs in a live process: a crash of the API takes its worker along.
THEOREM LiteTypeCorrect == LiteSpec => []LiteTypeOK
  BY LiteInitType, LiteNextType, PTL DEF LiteSpec

-----------------------------------------------------------------------------
LEMMA LiteInitClaim == LiteInit => ClaimInv
  BY LiteInitType DEF LiteInit, ClaimInv, ClaimsAccounted, StrandedClaimed

LEMMA LiteNextClaim == ClaimInv /\ [LiteNext]_liteVars => ClaimInv'
<1> SUFFICES ASSUME ClaimInv, [LiteNext]_liteVars PROVE ClaimsAccounted' /\ StrandedClaimed'
  BY LiteNextType DEF ClaimInv
<1> USE DEF ClaimInv, LiteTypeOK, ClaimsAccounted, StrandedClaimed, table, proc, liteHist, NextPoll,
            Strand
<1>1. ASSUME NEW t \in Rows, LiteEnqueue(t) PROVE ClaimsAccounted' /\ StrandedClaimed'
  BY <1>1 DEF LiteEnqueue
<1>2. CASE Reclaim
  BY <1>2 DEF Reclaim
<1>3. CASE Restart
  BY <1>3 DEF Restart
<1>4. ASSUME NEW t \in Rows, Dequeue(t) PROVE ClaimsAccounted' /\ StrandedClaimed'
  BY <1>4 DEF Dequeue, Oldest
<1>5. CASE ProcessOk
  BY <1>5 DEF ProcessOk
<1>6. CASE ProcessError
  BY <1>6 DEF ProcessError
<1>7. CASE Ack
  BY <1>7 DEF Ack
<1>8. CASE Nack
  BY <1>8 DEF Nack
<1>9. CASE SettleFault
  BY <1>9 DEF SettleFault
<1>10. CASE ReclaimFault
  BY <1>10 DEF ReclaimFault
<1>11. CASE LiteCrash
  BY <1>11 DEF LiteCrash
<1>12. CASE UNCHANGED liteVars
  BY <1>12 DEF liteVars
<1> QED
  BY <1>1, <1>2, <1>3, <1>4, <1>5, <1>6, <1>7, <1>8, <1>9, <1>10, <1>11, <1>12
     DEF LiteNext, Startup, Worker, Pipeline, LiteFault

\* Worker and table agree on who is being processed: a claimed row nobody holds was
\* stranded by a crash or a failed ack or nack, and no start-up reclaimed it since.
THEOREM LiteClaimsAccountedCorrect == LiteSpec => []ClaimsAccounted
<1>1. LiteSpec => []ClaimInv
  BY LiteInitClaim, LiteNextClaim, PTL DEF LiteSpec
<1>2. ClaimInv => ClaimsAccounted
  BY DEF ClaimInv
<1> QED
  BY <1>1, <1>2, PTL

-----------------------------------------------------------------------------
LEMMA LiteInitDelivery == LiteInit => DeliveryInv
  BY LiteInitClaim DEF LiteInit, DeliveryInv, OutcomeKnown, DeliveredAtLeastOnce

LEMMA LiteNextDelivery == DeliveryInv /\ [LiteNext]_liteVars => DeliveryInv'
<1> SUFFICES ASSUME DeliveryInv, [LiteNext]_liteVars PROVE OutcomeKnown' /\ DeliveredAtLeastOnce'
  BY LiteNextClaim DEF DeliveryInv
<1> USE DEF DeliveryInv, ClaimInv, LiteTypeOK, ClaimsAccounted, OutcomeKnown, DeliveredAtLeastOnce,
            table, proc, liteHist, NextPoll, Strand
<1>1. ASSUME NEW t \in Rows, LiteEnqueue(t) PROVE OutcomeKnown' /\ DeliveredAtLeastOnce'
  BY <1>1 DEF LiteEnqueue
<1>2. CASE Reclaim
  BY <1>2 DEF Reclaim
<1>3. CASE Restart
  BY <1>3 DEF Restart
<1>4. ASSUME NEW t \in Rows, Dequeue(t) PROVE OutcomeKnown' /\ DeliveredAtLeastOnce'
  BY <1>4 DEF Dequeue, Oldest
<1>5. CASE ProcessOk
  BY <1>5 DEF ProcessOk
<1>6. CASE ProcessError
  BY <1>6 DEF ProcessError
<1>7. CASE Ack
  BY <1>7 DEF Ack
<1>8. CASE Nack
  BY <1>8 DEF Nack
<1>9. CASE SettleFault
  BY <1>9 DEF SettleFault
<1>10. CASE ReclaimFault
  BY <1>10 DEF ReclaimFault
<1>11. CASE LiteCrash
  BY <1>11 DEF LiteCrash
<1>12. CASE UNCHANGED liteVars
  BY <1>12 DEF liteVars
<1> QED
  BY <1>1, <1>2, <1>3, <1>4, <1>5, <1>6, <1>7, <1>8, <1>9, <1>10, <1>11, <1>12
     DEF LiteNext, Startup, Worker, Pipeline, LiteFault

\* A row is deleted only after its image was published and dead-lettered only after
\* an attempt failed, and a published image is queued again only after a fault.
THEOREM LiteDeliveredAtLeastOnceCorrect == LiteSpec => []DeliveredAtLeastOnce
<1>1. LiteSpec => []DeliveryInv
  BY LiteInitDelivery, LiteNextDelivery, PTL DEF LiteSpec
<1>2. DeliveryInv => DeliveredAtLeastOnce
  BY DEF DeliveryInv
<1> QED
  BY <1>1, <1>2, PTL
=============================================================================
