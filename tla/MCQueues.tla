------------------------------ MODULE MCQueues ------------------------------
(***************************************************************************)
(* A small instance of both queues for TLC.                                *)
(***************************************************************************)
EXTENDS Queues

CONSTANTS t1, t2, p1, p2, s1

OneTask == {t1}
TwoTasks == {t1, t2}
TwoProcs == {p1, p2}
OneSlot == {s1}
ZeroOrOne == {0, 1}
=============================================================================
