------------------------------- MODULE Queues -------------------------------
(***************************************************************************)
(* The queue behind the trait Queue: Redis in full mode                    *)
(* (build_state_components), the table pending_tasks in lite mode          *)
(* (build_lite_state_components).  A deployment has one of the two; the    *)
(* other is not there and stays as it was at the start.                    *)
(***************************************************************************)
EXTENDS RedisQueue, SqliteQueue

VARIABLE deployment

queuesVars == <<deployment, vars, liteVars>>

QueuesInit == deployment \in {"full", "lite"} /\ Init /\ LiteInit

QueuesNext ==
    \/ deployment = "full" /\ Next /\ UNCHANGED <<deployment, liteVars>>
    \/ deployment = "lite" /\ LiteNext /\ UNCHANGED <<deployment, vars>>

\* The fairness of FairSpec and LiteFairSpec, each where its queue is in use.
QueuesFairSpec ==
    /\ QueuesInit /\ [][QueuesNext]_queuesVars
    /\ \A p \in Procs : WF_vars(deployment = "full" /\ Recover(p))
    /\ \A w \in Workers : /\ WF_vars(deployment = "full" /\ LoopStep(w))
                          /\ WF_vars(deployment = "full" /\ PipelineStep(w))
    /\ WF_vars(deployment = "full" /\ Tick)
    /\ WF_liteVars(deployment = "lite" /\ Startup)
    /\ WF_liteVars(deployment = "lite" /\ Worker)
    /\ WF_liteVars(deployment = "lite" /\ Pipeline)

=============================================================================
