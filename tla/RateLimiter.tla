----------------------------- MODULE RateLimiter -----------------------------
(***************************************************************************)
(* Rate limiting: pichost-api/src/middleware/rate_limit.rs with its Redis  *)
(* limiter and Cache::incr of cache/mod.rs, and the SQLite limiter of      *)
(* pichost-core/src/state/sqlite_rate_limiter.rs.                          *)
(*                                                                         *)
(* One counter is modelled: keys do not interact, and the four policies    *)
(* differ in the key and the limit only.  INCR and EXPIRE go in one        *)
(* pipeline and are one step; the GET, and the TTL after a denial, are     *)
(* commands of their own.  A check waits less than a window for Redis, so  *)
(* its counter has not lapsed when it reads it.                            *)
(***************************************************************************)
EXTENDS Integers, FiniteSets

CONSTANTS
    Calls,        \* requests that reach the limiter
    Never,
    Limit,        \* *_max of RateLimitConfig
    Window,       \* RATE_LIMIT_WINDOW_SECS
    MaxDelay,     \* bound: ticks for which a check waits for Redis
    MaxTime,      \* bound: length of a behaviour
    MaxFaults     \* bound: commands that fail

ASSUME LimiterBounds ==
    /\ Limit \in Nat \ {0} /\ Window \in Nat \ {0} /\ MaxTime \in Nat /\ MaxFaults \in Nat
    /\ MaxDelay \in 0 .. Window - 1

ASSUME NeverNoTick == Never \notin Int

VARIABLES
    store,        \* "redis" (full) or "sqlite" (lite)
    now,
    count,        \* the Redis counter, 0 if there is no key
    expires,      \* when it lapses
    rows,         \* rate_limits: the count of every window_start
    pc,           \* a call: "new", "counted", "over" (TTL to ask), "served", "open", "denied"
    at,           \* when it was counted
    faults,
    \* history, read by no action
    deadline      \* when the last denied call may be repeated, Never after another call

vars == <<store, now, count, expires, rows, pc, at, faults, deadline>>

\* window_start.
WindowOf(t) == t \div Window

Init ==
    /\ store \in {"redis", "sqlite"}
    /\ now = 0
    /\ count = 0 /\ expires = Never
    /\ rows = [w \in 0 .. WindowOf(MaxTime) |-> 0]
    /\ pc = [c \in Calls |-> "new"]
    /\ at = [c \in Calls |-> Never]
    /\ faults = 0
    /\ deadline = Never

Fault == faults < MaxFaults /\ faults' = faults + 1

To(c, l) == pc' = [pc EXCEPT ![c] = l]

Counted(c) == at' = [at EXCEPT ![c] = now]

(***************************************************************************)
(* RedisRateLimiter::check                                                 *)
(***************************************************************************)
\* Mutant: the TTL is set when the counter is created and not renewed.
IncrKeepsTtl(c) ==
    /\ store = "redis" /\ pc[c] = "new"
    /\ count' = count + 1
    /\ expires' = IF count = 0 THEN now + Window ELSE expires
    /\ Counted(c)
    /\ To(c, "counted")
    /\ deadline' = Never
    /\ UNCHANGED <<store, now, rows, faults>>

\* INCR and EXPIRE, of every call.
Incr(c) ==
    /\ store = "redis" /\ pc[c] = "new"
    /\ count' = count + 1
    /\ expires' = now + Window
    /\ Counted(c)
    /\ To(c, "counted")
    /\ deadline' = Never
    /\ UNCHANGED <<store, now, rows, faults>>

\* GET, which may see calls counted meanwhile.
Get(c) ==
    /\ pc[c] = "counted"
    /\ To(c, IF count <= Limit THEN "served" ELSE "over")
    /\ UNCHANGED <<store, now, count, expires, rows, at, faults, deadline>>

\* Mutant: one tick less than the remaining TTL.
TtlShort(c) ==
    /\ pc[c] = "over"
    /\ To(c, "denied")
    /\ deadline' = expires - 1
    /\ UNCHANGED <<store, now, count, expires, rows, at, faults>>

\* ttl_or_window: what is left of the counter's TTL is the answer's retry_after.
Ttl(c) ==
    /\ pc[c] = "over"
    /\ To(c, "denied")
    /\ deadline' = expires
    /\ UNCHANGED <<store, now, count, expires, rows, at, faults>>

\* The TTL cannot be had: the whole window.
TtlFails(c) ==
    /\ pc[c] = "over"
    /\ Fault
    /\ To(c, "denied")
    /\ deadline' = now + Window
    /\ UNCHANGED <<store, now, count, expires, rows, at>>

(***************************************************************************)
(* SqliteRateLimiter::check: one upsert.                                   *)
(***************************************************************************)
\* Mutant: the count before the call decides.
UpsertBefore(c) ==
    LET w == WindowOf(now) IN
    /\ store = "sqlite" /\ pc[c] = "new"
    /\ rows' = [rows EXCEPT ![w] = @ + 1]
    /\ Counted(c)
    /\ IF rows[w] < Limit - 1
       THEN To(c, "served") /\ deadline' = Never
       ELSE To(c, "denied") /\ deadline' = now + Window
    /\ UNCHANGED <<store, now, count, expires, faults>>

Upsert(c) ==
    LET w == WindowOf(now) IN
    /\ store = "sqlite" /\ pc[c] = "new"
    /\ rows' = [rows EXCEPT ![w] = @ + 1]
    /\ Counted(c)
    /\ IF rows'[w] <= Limit
       THEN To(c, "served") /\ deadline' = Never
       ELSE To(c, "denied") /\ deadline' = now + Window
    /\ UNCHANGED <<store, now, count, expires, faults>>

\* limiter_check: an error of the limiter lets the call through, counted or not.
CheckFails(c) ==
    /\ pc[c] \in {"new", "counted"}
    /\ Fault
    /\ To(c, "open")
    /\ UNCHANGED <<store, now, count, expires, rows, at, deadline>>

\* The middleware of each policy: the call is run, or answered 429.
Check(c) == Incr(c) \/ Get(c) \/ Ttl(c) \/ TtlFails(c) \/ Upsert(c) \/ CheckFails(c)

\* A second passes; a lapsed counter is gone.
Tick ==
    /\ now < MaxTime
    /\ \A c \in Calls : pc[c] \in {"counted", "over"} => now - at[c] < MaxDelay
    /\ now' = now + 1
    /\ IF expires = now + 1
       THEN count' = 0 /\ expires' = Never
       ELSE UNCHANGED <<count, expires>>
    /\ UNCHANGED <<store, rows, pc, at, faults, deadline>>

Next == Tick \/ \E c \in Calls : Check(c)

Spec == Init /\ [][Next]_vars

(***************************************************************************)
(* Properties                                                              *)
(***************************************************************************)
Done == {"served", "open", "denied"}

\* Every variable has its type; a counter in Redis always has an expiry.
TypeOK ==
    /\ store \in {"redis", "sqlite"}
    /\ now \in 0 .. MaxTime
    /\ count \in 0 .. Cardinality(Calls)
    /\ expires \in Int \cup {Never}
    /\ rows \in [0 .. WindowOf(MaxTime) -> 0 .. Cardinality(Calls)]
    /\ pc \in [Calls -> {"new", "counted", "over"} \cup Done]
    /\ at \in [Calls -> 0 .. MaxTime \cup {Never}]
    /\ faults \in 0 .. MaxFaults
    /\ deadline \in Int \cup {Never}
    /\ count > 0 <=> expires # Never
    /\ expires # Never => expires \in now + 1 .. now + Window

\* Calls counted in a set of ticks.
CountedIn(T) == {c \in Calls : at[c] # Never /\ at[c] \in T}

\* A call is denied only when more than Limit calls were counted, with SQLite in
\* its own window, with Redis in a stretch up to the present without a pause of
\* Window ticks: every call renews the counter's TTL.
DenialEarned ==
    \A c \in Calls : pc[c] = "denied" =>
        IF store = "sqlite"
        THEN Cardinality(CountedIn({t \in 0 .. now : WindowOf(t) = WindowOf(at[c])})) > Limit
        ELSE \E s \in 0 .. at[c] :
                /\ Cardinality(CountedIn(s .. now)) > Limit
                /\ \A t \in s .. at[c] - 1 : CountedIn(t .. t + Window - 1) # {}

\* A caller told to retry is served if it waits as long as it was told to and
\* nobody else calls meanwhile.
RetryEnough ==
    deadline # Never /\ now >= deadline =>
        (IF store = "redis" THEN count ELSE rows[WindowOf(now)]) < Limit

\* The limiter as the abstract one: with Redis it admits at most Limit of the
\* calls counted in any window, with SQLite, whose windows are fixed, twice that.
Abstract == INSTANCE SlidingLimit WITH
    bound    <- IF store = "redis" THEN Limit ELSE 2 * Limit,
    admitted <- [c \in Calls |-> IF pc[c] = "served" THEN at[c] ELSE Never]

AdmitsAtMost == Abstract!Spec
=============================================================================
