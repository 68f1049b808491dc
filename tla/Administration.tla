--------------------------- MODULE Administration ---------------------------
(***************************************************************************)
(* What an administrator watches and sets: the system configuration and    *)
(* the statistics.  The two share no state, so a behaviour is about one of *)
(* them; the other stays as it was at the start.                           *)
(***************************************************************************)
EXTENDS SystemConfig, Statistics

VARIABLE about

adminVars == <<about, vars, statsVars>>

AdminInit ==
    /\ about \in {"config", "statistics"}
    /\ Init /\ StatsInit
    /\ about = "statistics" => ~exists

AdminNext ==
    \/ about = "config" /\ Next /\ UNCHANGED <<about, statsVars>>
    \/ about = "statistics" /\ StatsNext /\ UNCHANGED <<about, vars>>

AdminSpec == AdminInit /\ [][AdminNext]_adminVars

=============================================================================
