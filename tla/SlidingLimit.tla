---------------------------- MODULE SlidingLimit ----------------------------
(***************************************************************************)
(* What a rate limiter promises for one key: of the calls it counts within *)
(* any Window ticks it admits at most bound.                               *)
(***************************************************************************)
EXTENDS Integers, FiniteSets

CONSTANTS
    Calls,
    Window,
    Never

VARIABLES
    bound,
    now,
    admitted      \* the tick at which an admitted call was counted, or Never

vars == <<bound, now, admitted>>

Init ==
    /\ bound \in Nat
    /\ now = 0
    /\ admitted = [c \in Calls |-> Never]

\* The calls admitted in the Window ticks that end with t.
Within(adm, t) == {c \in Calls : adm[c] # Never /\ adm[c] \in (t - Window + 1) .. t}

Admit(c, t) ==
    /\ admitted[c] = Never
    /\ admitted' = [admitted EXCEPT ![c] = t]
    /\ \A u \in t .. t + Window - 1 : Cardinality(Within(admitted', u)) <= bound
    /\ UNCHANGED <<bound, now>>

Tick ==
    /\ now' = now + 1
    /\ UNCHANGED <<bound, admitted>>

Next == Tick \/ \E c \in Calls, t \in 0 .. now : Admit(c, t)

Spec == Init /\ [][Next]_vars
=============================================================================
