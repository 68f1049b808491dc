--------------------------- MODULE MCSqliteQueue ---------------------------
(***************************************************************************)
(* A small instance of SqliteQueue alone for TLC.                          *)
(***************************************************************************)
EXTENDS SqliteQueue

CONSTANTS t1, t2

TwoTasks == {t1, t2}
ZeroOrOne == {0, 1}
=============================================================================
