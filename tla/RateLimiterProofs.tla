-------------------------- MODULE RateLimiterProofs --------------------------
(***************************************************************************)
(* Proofs about RateLimiter, for any number of calls, any limit, window    *)
(* and delay: a denial was earned, the retry_after given with it is long   *)
(* enough, and the limiter implements SlidingLimit.                        *)
(***************************************************************************)
EXTENDS RateLimiter, FiniteSetTheorems, TLAPS

\* The calls that have been counted, and those of one window_start.
Seen == {c \in Calls : at[c] # Never}
SeenIn(w) == {c \in Calls : at[c] # Never /\ WindowOf(at[c]) = w}
ServedIn(w) == {c \in Calls : pc[c] = "served" /\ WindowOf(at[c]) = w}

Windows == 0 .. WindowOf(MaxTime)
Waiting(c) == pc[c] \in {"counted", "over"}

Types ==
    /\ store \in {"redis", "sqlite"}
    /\ now \in 0 .. MaxTime
    /\ count \in Nat
    /\ expires \in Int \cup {Never}
    /\ rows \in [Windows -> Nat]
    /\ pc \in [Calls -> {"new", "counted", "over"} \cup Done]
    /\ at \in [Calls -> 0 .. MaxTime \cup {Never}]
    /\ faults \in 0 .. MaxFaults
    /\ deadline \in Int \cup {Never}

\* What is known of when a call was counted.
ClockInv ==
    /\ IsFiniteSet(Seen)
    /\ \A c \in Calls : at[c] # Never => at[c] <= now
    /\ \A c \in Calls : pc[c] = "new" => at[c] = Never
    /\ \A c \in Calls : pc[c] \in {"counted", "over", "served", "denied"} => at[c] # Never
    /\ \A c \in Calls : Waiting(c) => now - at[c] <= MaxDelay

\* The Redis counter counts the calls since s, and the calls before s are a window away.
Stretch(s) ==
    /\ count = Cardinality(CountedIn(s .. now))
    /\ \A c \in Calls : at[c] # Never => at[c] >= s \/ at[c] + Window <= s
    /\ \A t \in s .. expires - Window : CountedIn(t .. t + Window - 1) # {}

Earned(c) ==
    \E s \in 0 .. at[c] :
       /\ Cardinality(CountedIn(s .. now)) > Limit
       /\ \A t \in s .. at[c] - 1 : CountedIn(t .. t + Window - 1) # {}

RedisInv ==
    store = "redis" =>
      /\ expires = Never =>
            count = 0 /\ \A c \in Calls : at[c] # Never => at[c] + Window <= now
      /\ expires # Never =>
            /\ count > 0
            /\ expires \in now + 1 .. now + Window
            /\ \A c \in Calls : at[c] # Never => at[c] + Window <= expires
            /\ \E s \in 0 .. now : Stretch(s)
      /\ \A c \in Calls : pc[c] \in {"over", "denied"} => Earned(c)
      /\ deadline # Never /\ expires # Never => deadline >= expires
      /\ \A w \in Windows : rows[w] = 0

SqliteInv ==
    store = "sqlite" =>
      /\ count = 0 /\ expires = Never
      /\ \A c \in Calls : ~Waiting(c)
      /\ \A w \in Windows : rows[w] = Cardinality(SeenIn(w))
      /\ \A w \in Windows : Cardinality(ServedIn(w)) <= Limit
      /\ \A c \in Calls : pc[c] = "denied" => rows[WindowOf(at[c])] > Limit
      /\ deadline # Never =>
            \A c \in Calls : at[c] # Never => at[c] + Window <= deadline

\* The inductive invariant.
LimiterInv == Types /\ ClockInv /\ RedisInv /\ SqliteInv

-----------------------------------------------------------------------------
(***************************************************************************)
(* Windows and counting.                                                   *)
(***************************************************************************)
\* Times a window apart have different window_starts, nearer ones the same or neighbours.
LEMMA WindowFacts ==
    ASSUME NEW a \in Nat, NEW b \in Nat, a <= b
    PROVE  /\ WindowOf(a) \in Nat /\ WindowOf(b) \in Nat
           /\ WindowOf(a) <= WindowOf(b)
           /\ a + Window <= b => WindowOf(a) < WindowOf(b)
           /\ b < a + Window => WindowOf(a) = WindowOf(b) \/ WindowOf(a) = WindowOf(b) - 1
<1>1. Window \in Nat \ {0}
  BY LimiterBounds
<1>2. WindowOf(a) \in Nat /\ WindowOf(b) \in Nat
  BY <1>1 DEF WindowOf
<1>3. WindowOf(a) <= WindowOf(b)
  BY <1>1 DEF WindowOf
<1>4. a + Window <= b => WindowOf(a) < WindowOf(b)
  BY <1>1 DEF WindowOf
<1>5. b < a + Window => WindowOf(a) = WindowOf(b) \/ WindowOf(a) = WindowOf(b) - 1
  BY <1>1 DEF WindowOf
<1> QED
  BY <1>2, <1>3, <1>4, <1>5

LEMMA InWindows ==
    ASSUME NEW t \in 0 .. MaxTime
    PROVE  WindowOf(t) \in Windows
  BY WindowFacts, LimiterBounds DEF Windows

\* A larger set of calls counts at least as much.
LEMMA Counts ==
    ASSUME NEW S, IsFiniteSet(S), NEW T, T \subseteq S
    PROVE  /\ IsFiniteSet(T) /\ Cardinality(T) \in Nat /\ Cardinality(S) \in Nat
           /\ Cardinality(T) <= Cardinality(S)
  BY FS_Subset, FS_CardinalityType

LEMMA CountsMore ==
    ASSUME NEW S, IsFiniteSet(S), NEW c, c \notin S
    PROVE  /\ IsFiniteSet(S \cup {c})
           /\ Cardinality(S) \in Nat
           /\ Cardinality(S \cup {c}) = Cardinality(S) + 1
  BY FS_AddElement, FS_CardinalityType

-----------------------------------------------------------------------------
(***************************************************************************)
(* Types, and when calls were counted.                                     *)
(***************************************************************************)
LEMMA InitTypes == Init => Types /\ ClockInv
<1> SUFFICES ASSUME Init PROVE Types /\ ClockInv
  OBVIOUS
<1>1. Seen = {}
  BY DEF Init, Seen
<1>2. IsFiniteSet(Seen)
  BY <1>1, FS_EmptySet
<1>3. Types
  BY LimiterBounds DEF Init, Types, Windows, Done
<1>4. ClockInv
  BY <1>2 DEF Init, ClockInv, Waiting
<1> QED
  BY <1>3, <1>4

LEMMA NextTypes == Types /\ [Next]_vars => Types'
<1> SUFFICES ASSUME Types, [Next]_vars PROVE Types'
  OBVIOUS
<1> USE LimiterBounds DEF Types, Done, Fault, To, Counted
<1>0. CASE UNCHANGED vars
  BY <1>0 DEF vars
<1>1. ASSUME NEW c \in Calls, Incr(c) PROVE Types'
  BY <1>1 DEF Incr
<1>2. ASSUME NEW c \in Calls, Get(c) PROVE Types'
  BY <1>2 DEF Get
<1>3. ASSUME NEW c \in Calls, Ttl(c) PROVE Types'
  BY <1>3 DEF Ttl
<1>4. ASSUME NEW c \in Calls, TtlFails(c) PROVE Types'
  BY <1>4 DEF TtlFails
<1>5. ASSUME NEW c \in Calls, Upsert(c) PROVE Types'
  <2>1. rows' \in [Windows -> Nat] /\ deadline' \in Int \cup {Never}
    BY <1>5, InWindows DEF Upsert
  <2>2. pc' \in [Calls -> {"new", "counted", "over"} \cup Done]
    BY <1>5 DEF Upsert
  <2> QED
    BY <1>5, <2>1, <2>2 DEF Upsert
<1>6. ASSUME NEW c \in Calls, CheckFails(c) PROVE Types'
  BY <1>6 DEF CheckFails
<1>7. CASE Tick
  BY <1>7 DEF Tick
<1> QED
  BY <1>0, <1>1, <1>2, <1>3, <1>4, <1>5, <1>6, <1>7 DEF Next, Check

\* What a step that counts call c does to the calls that are counted.
LEMMA CountsOne ==
    ASSUME Types, ClockInv, NEW c \in Calls, pc[c] = "new", Counted(c)
    PROVE  /\ at[c] = Never /\ at'[c] = now /\ now # Never
           /\ \A d \in Calls \ {c} : at'[d] = at[d]
           /\ Seen' = Seen \cup {c} /\ c \notin Seen
           /\ IsFiniteSet(Seen')
<1>1. now # Never
  BY NeverNoTick, LimiterBounds DEF Types
<1>2. at[c] = Never /\ at'[c] = now /\ \A d \in Calls \ {c} : at'[d] = at[d]
  BY DEF Types, ClockInv, Counted
<1>3. Seen' = Seen \cup {c} /\ c \notin Seen
  BY <1>1, <1>2 DEF Seen
<1> QED
  BY <1>1, <1>2, <1>3, FS_AddElement DEF ClockInv

LEMMA NextClock == Types /\ ClockInv /\ [Next]_vars => ClockInv'
<1> SUFFICES ASSUME Types, ClockInv, [Next]_vars PROVE ClockInv'
  OBVIOUS
<1> USE LimiterBounds DEF Types, Fault, To, Waiting
\* Nothing is counted and no call begins to wait.
<1>a. ASSUME UNCHANGED <<now, at>>,
             \A d \in Calls :
                 /\ pc'[d] = "new" => pc[d] = "new"
                 /\ pc'[d] \in {"counted", "over", "served", "denied"}
                       => pc[d] \in {"counted", "over", "served", "denied"}
                 /\ pc'[d] \in {"counted", "over"} => pc[d] \in {"counted", "over"}
      PROVE  ClockInv'
  BY <1>a DEF ClockInv, Seen
<1>0. CASE UNCHANGED vars
  BY <1>0, <1>a DEF vars
<1>1. ASSUME NEW c \in Calls, Incr(c) PROVE ClockInv'
  <2>1. pc[c] = "new" /\ Counted(c) /\ UNCHANGED now /\ pc' = [pc EXCEPT ![c] = "counted"]
    BY <1>1 DEF Incr
  <2>2. /\ at'[c] = now /\ now # Never /\ IsFiniteSet(Seen')
        /\ \A d \in Calls \ {c} : at'[d] = at[d]
    BY <2>1, CountsOne
  <2>3. pc'[c] = "counted" /\ \A d \in Calls \ {c} : pc'[d] = pc[d]
    BY <2>1
  <2> QED
    BY <2>1, <2>2, <2>3 DEF ClockInv
<1>2. ASSUME NEW c \in Calls, Get(c) PROVE ClockInv'
  BY <1>2, <1>a DEF Get
<1>3. ASSUME NEW c \in Calls, Ttl(c) PROVE ClockInv'
  BY <1>3, <1>a DEF Ttl
<1>4. ASSUME NEW c \in Calls, TtlFails(c) PROVE ClockInv'
  BY <1>4, <1>a DEF TtlFails
<1>5. ASSUME NEW c \in Calls, Upsert(c) PROVE ClockInv'
  <2>1. pc[c] = "new" /\ Counted(c) /\ UNCHANGED now
    BY <1>5 DEF Upsert
  <2>2. /\ at'[c] = now /\ now # Never /\ IsFiniteSet(Seen')
        /\ \A d \in Calls \ {c} : at'[d] = at[d]
    BY <2>1, CountsOne
  <2>3. pc'[c] \in {"served", "denied"} /\ \A d \in Calls \ {c} : pc'[d] = pc[d]
    BY <1>5 DEF Upsert
  <2> QED
    BY <2>1, <2>2, <2>3 DEF ClockInv
<1>6. ASSUME NEW c \in Calls, CheckFails(c) PROVE ClockInv'
  BY <1>6, <1>a DEF CheckFails
<1>7. CASE Tick
  <2>1. UNCHANGED <<pc, at>> /\ now' = now + 1
    BY <1>7 DEF Tick
  <2>2. \A c \in Calls : Waiting(c) => now' - at[c] <= MaxDelay
    <3> SUFFICES ASSUME NEW c \in Calls, Waiting(c) PROVE now' - at[c] <= MaxDelay
      OBVIOUS
    <3>1. at[c] \in Int /\ now - at[c] < MaxDelay
      BY <1>7 DEF Tick, ClockInv
    <3> QED
      BY <2>1, <3>1
  <2> QED
    BY <2>1, <2>2 DEF ClockInv, Seen
<1> QED
  BY <1>0, <1>1, <1>2, <1>3, <1>4, <1>5, <1>6, <1>7 DEF Next, Check

-----------------------------------------------------------------------------
(***************************************************************************)
(* The Redis counter.                                                      *)
(***************************************************************************)
\* A denial stays earned: counted calls stay counted.
LEMMA EarnedKept ==
    ASSUME Types, Types', ClockInv, ClockInv', now' >= now,
           \A d \in Calls : at[d] # Never => at'[d] = at[d],
           NEW c \in Calls, at[c] # Never, Earned(c)
    PROVE  Earned(c)'
<1>1. PICK s \in 0 .. at[c] :
          /\ Cardinality(CountedIn(s .. now)) > Limit
          /\ \A t \in s .. at[c] - 1 : CountedIn(t .. t + Window - 1) # {}
  BY DEF Earned
<1>2. now \in Nat /\ now' \in Nat /\ now <= now' /\ at'[c] = at[c] /\ s \in Nat
  BY LimiterBounds, NeverNoTick DEF Types
<1>3. CountedIn(s .. now) \subseteq CountedIn(s .. now)'
  <2>1. s .. now \subseteq s .. now'
    BY <1>2
  <2> QED
    BY <2>1 DEF CountedIn
<1>4. CountedIn(s .. now)' \subseteq Seen' /\ IsFiniteSet(Seen')
  BY DEF CountedIn, Seen, ClockInv
<1>5. Cardinality(CountedIn(s .. now)') > Limit
  <2>1. IsFiniteSet(CountedIn(s .. now)')
    BY <1>4, FS_Subset
  <2>2. /\ Cardinality(CountedIn(s .. now)) <= Cardinality(CountedIn(s .. now)')
        /\ Cardinality(CountedIn(s .. now)) \in Nat /\ Cardinality(CountedIn(s .. now)') \in Nat
    BY <1>3, <2>1, Counts
  <2> QED
    BY <1>1, <2>2, LimiterBounds
<1>6. ASSUME NEW t \in s .. at'[c] - 1 PROVE CountedIn(t .. t + Window - 1)' # {}
  <2>1. PICK d \in Calls : at[d] # Never /\ at[d] \in t .. t + Window - 1
    BY <1>1, <1>2 DEF CountedIn
  <2>2. at'[d] # Never /\ at'[d] \in t .. t + Window - 1
    BY <2>1
  <2> QED
    BY <2>2 DEF CountedIn
<1> QED
  BY <1>2, <1>5, <1>6 DEF Earned

\* INCR and EXPIRE begin a new stretch, if the counter had lapsed, or go on with the old.
LEMMA StretchIncr ==
    ASSUME Types, ClockInv, RedisInv, store = "redis", NEW c \in Calls, Incr(c)
    PROVE  \E s \in 0 .. now : Stretch(s)'
<1> USE LimiterBounds DEF Types
<1>1. /\ pc[c] = "new" /\ Counted(c) /\ now' = now
      /\ count' = count + 1 /\ expires' = now + Window
  BY DEF Incr
<1>2. /\ at'[c] = now /\ now # Never /\ IsFiniteSet(Seen')
      /\ at[c] = Never /\ \A d \in Calls \ {c} : at'[d] = at[d]
  BY <1>1, CountsOne
<1>3. IsFiniteSet(Seen) /\ \A d \in Calls : at[d] # Never => at[d] <= now
  BY DEF ClockInv
<1>4. CASE expires = Never
  <2>1. count = 0 /\ \A d \in Calls : at[d] # Never => at[d] + Window <= now
    BY <1>4 DEF RedisInv
  <2>2. CountedIn(now .. now)' = {} \cup {c}
    <3>1. \A d \in Calls \ {c} : at'[d] # Never => ~(at'[d] \in now .. now)
      BY <1>2, <2>1
    <3>2. now' .. now' = now .. now /\ now \in now .. now
      BY <1>1
    <3> QED
      BY <1>1, <1>2, <3>1, <3>2 DEF CountedIn
  <2>3. Cardinality(CountedIn(now .. now)') = 1
    BY <2>2, FS_EmptySet, CountsMore
  <2>4. \A d \in Calls : at'[d] # Never => at'[d] >= now \/ at'[d] + Window <= now
    BY <1>2, <2>1
  <2>5. \A t \in now .. expires' - Window : CountedIn(t .. t + Window - 1)' # {}
    <3> SUFFICES ASSUME NEW t \in now .. expires' - Window
                 PROVE  c \in CountedIn(t .. t + Window - 1)'
      OBVIOUS
    <3>1. t = now /\ now \in t .. t + Window - 1
      BY <1>1
    <3> QED
      BY <1>2, <3>1 DEF CountedIn
  <2>6. Stretch(now)'
    BY <1>1, <2>1, <2>3, <2>4, <2>5 DEF Stretch
  <2> QED
    BY <1>1, <2>6
<1>5. CASE expires # Never
  <2>1. /\ expires \in Int /\ expires >= now + 1
        /\ \A d \in Calls : at[d] # Never => at[d] + Window <= expires
        /\ \E s \in 0 .. now : Stretch(s)
    BY <1>5 DEF RedisInv
  <2>2. PICK s \in 0 .. now : Stretch(s)
    BY <2>1
  <2>3. CountedIn(s .. now)' = CountedIn(s .. now) \cup {c} /\ c \notin CountedIn(s .. now)
    <3>1. now \in s .. now /\ s .. now' = s .. now
      BY <1>1
    <3>2. CountedIn(s .. now)' = {d \in Calls : at'[d] # Never /\ at'[d] \in s .. now}
      BY <3>1 DEF CountedIn
    <3> QED
      BY <1>2, <3>1, <3>2, Zenon DEF CountedIn
  <2>4. count' = Cardinality(CountedIn(s .. now)')
    <3>1. CountedIn(s .. now) \subseteq Seen
      BY DEF CountedIn, Seen
    <3>2. IsFiniteSet(CountedIn(s .. now))
      BY <1>3, <3>1, FS_Subset
    <3>3. Cardinality(CountedIn(s .. now)') = Cardinality(CountedIn(s .. now)) + 1
      BY <2>3, <3>2, CountsMore
    <3> QED
      BY <1>1, <2>2, <3>3 DEF Stretch
  <2>5. \A d \in Calls : at'[d] # Never => at'[d] >= s \/ at'[d] + Window <= s
    BY <1>2, <2>2 DEF Stretch
  <2>6. ASSUME NEW t \in s .. expires' - Window PROVE CountedIn(t .. t + Window - 1)' # {}
    <3>1. CASE t <= expires - Window
      <4>1. t \in s .. expires - Window
        BY <2>1, <3>1
      <4>2. PICK d \in Calls : at[d] # Never /\ at[d] \in t .. t + Window - 1
        BY <2>2, <4>1 DEF Stretch, CountedIn
      <4>3. at'[d] # Never /\ at'[d] \in t .. t + Window - 1
        BY <1>2, <4>2
      <4> QED
        BY <4>3 DEF CountedIn
    <3>2. CASE t > expires - Window
      <4>1. now \in t .. t + Window - 1
        BY <1>1, <2>1, <3>2
      <4> QED
        BY <1>2, <4>1 DEF CountedIn
    <3> QED
      BY <2>1, <3>1, <3>2
  <2>7. Stretch(s)'
    BY <2>4, <2>5, <2>6 DEF Stretch
  <2> QED
    BY <2>7
<1> QED
  BY <1>4, <1>5

\* A call that waits for its answer lies in the stretch the counter counts.
LEMMA WaitingCounted ==
    ASSUME Types, ClockInv, RedisInv, store = "redis", NEW c \in Calls, Waiting(c)
    PROVE  /\ expires # Never /\ expires \in Int /\ expires <= now + Window
           /\ at[c] \in Nat /\ at[c] <= now /\ now < at[c] + Window
           /\ at[c] + Window <= expires
           /\ \A s \in 0 .. now : Stretch(s) => at[c] >= s
<1>1. at[c] # Never /\ at[c] \in Nat /\ at[c] <= now /\ now - at[c] <= MaxDelay /\ now \in Nat
  BY LimiterBounds DEF Types, ClockInv, Waiting
<1>2. now < at[c] + Window
  BY <1>1, LimiterBounds
<1>3. expires # Never
  BY <1>1, <1>2, LimiterBounds DEF RedisInv
<1>4. expires \in Int /\ expires <= now + Window /\ at[c] + Window <= expires
  BY <1>1, <1>3, LimiterBounds DEF RedisInv, Types
<1>5. ASSUME NEW s \in 0 .. now, Stretch(s) PROVE at[c] >= s
  <2>1. at[c] >= s \/ at[c] + Window <= s
    BY <1>1, <1>5 DEF Stretch
  <2> QED
    BY <1>1, <1>2, <2>1, LimiterBounds
<1> QED
  BY <1>1, <1>2, <1>3, <1>4, <1>5

LEMMA InitRedis == Init => RedisInv
  BY NeverNoTick DEF Init, RedisInv, Windows

LEMMA NextRedis == Types /\ ClockInv /\ RedisInv /\ [Next]_vars => RedisInv'
<1> SUFFICES ASSUME Types, ClockInv, RedisInv, [Next]_vars PROVE RedisInv'
  OBVIOUS
<1> Types' /\ ClockInv'
  BY NextTypes, NextClock
<1> USE LimiterBounds
\* The counter and what is counted stay as they are.
<1>a. ASSUME UNCHANGED <<store, now, count, expires, rows, at>>,
             store = "redis" =>
                /\ \A c \in Calls : pc'[c] \in {"over", "denied"}
                                      => pc[c] \in {"over", "denied"} \/ Earned(c)
                /\ deadline' # Never /\ expires # Never => deadline' >= expires
      PROVE  RedisInv'
  <2>1. \A c, s : (Earned(c)' <=> Earned(c)) /\ (Stretch(s)' <=> Stretch(s))
    BY <1>a DEF Earned, Stretch, CountedIn
  <2> QED
    BY <1>a, <2>1 DEF RedisInv, Windows
<1>0. CASE UNCHANGED vars
  BY <1>0, <1>a DEF vars, RedisInv
<1>1. ASSUME NEW c \in Calls, Incr(c) PROVE RedisInv'
  <2>1. /\ store = "redis" /\ pc[c] = "new" /\ Counted(c) /\ now' = now
        /\ count' = count + 1 /\ expires' = now + Window /\ deadline' = Never
        /\ pc' = [pc EXCEPT ![c] = "counted"] /\ rows' = rows
    BY <1>1 DEF Incr, To
  <2>2. /\ at'[c] = now /\ at[c] = Never /\ now # Never
        /\ \A d \in Calls \ {c} : at'[d] = at[d]
    BY <2>1, CountsOne
  <2>3. \E s \in 0 .. now' : Stretch(s)'
    BY <1>1, <2>1, StretchIncr
  <2>4. /\ expires' # Never /\ count' > 0
        /\ expires' \in now' + 1 .. now' + Window
    BY <2>1, NeverNoTick DEF Types
  <2>5. \A d \in Calls : at'[d] # Never => at'[d] + Window <= expires'
    <3>1. \A d \in Calls : at[d] # Never => at[d] \in Int /\ at[d] <= now
      BY DEF Types, ClockInv
    <3> QED
      BY <2>1, <2>2, <3>1 DEF Types
  <2>6. ASSUME NEW d \in Calls, pc'[d] \in {"over", "denied"} PROVE Earned(d)'
    <3>1. pc[d] \in {"over", "denied"} /\ at[d] # Never
      BY <2>1, <2>6 DEF Types, ClockInv
    <3>2. Earned(d)
      BY <2>1, <3>1 DEF RedisInv
    <3>3. now' >= now /\ \A e \in Calls : at[e] # Never => at'[e] = at[e]
      BY <2>1, <2>2 DEF Types
    <3> QED
      BY <3>1, <3>2, <3>3, EarnedKept
  <2> QED
    BY <2>1, <2>3, <2>4, <2>5, <2>6 DEF RedisInv
<1>2. ASSUME NEW c \in Calls, Get(c) PROVE RedisInv'
  <2>1. /\ UNCHANGED <<store, now, count, expires, rows, at, deadline>>
        /\ pc[c] = "counted"
        /\ pc' = [pc EXCEPT ![c] = IF count <= Limit THEN "served" ELSE "over"]
    BY <1>2 DEF Get, To
  <2>2. ASSUME store = "redis", count > Limit PROVE Earned(c)
    <3>1. Waiting(c)
      BY <2>1 DEF Waiting
    <3>2. /\ expires # Never /\ expires \in Int /\ at[c] \in Nat /\ at[c] + Window <= expires
          /\ \A s \in 0 .. now : Stretch(s) => at[c] >= s
      BY <2>2, <3>1, WaitingCounted
    <3>3. PICK s \in 0 .. now : Stretch(s)
      BY <2>2, <3>2 DEF RedisInv
    <3>4. s \in 0 .. at[c]
      BY <3>2, <3>3
    <3>5. Cardinality(CountedIn(s .. now)) > Limit
      BY <2>2, <3>3 DEF Stretch
    <3>6. \A t \in s .. at[c] - 1 : CountedIn(t .. t + Window - 1) # {}
      <4>1. \A t \in s .. at[c] - 1 : t \in s .. expires - Window
        BY <3>2
      <4> QED
        BY <3>3, <4>1 DEF Stretch
    <3> QED
      BY <3>4, <3>5, <3>6 DEF Earned
  <2>3. \A d \in Calls : pc'[d] \in {"over", "denied"}
            => pc[d] \in {"over", "denied"} \/ (d = c /\ count > Limit)
    BY <2>1 DEF Types
  <2> QED
    BY <1>a, <2>1, <2>2, <2>3 DEF RedisInv
<1>3. ASSUME NEW c \in Calls, Ttl(c) PROVE RedisInv'
  <2>1. /\ UNCHANGED <<store, now, count, expires, rows, at>> /\ deadline' = expires
        /\ \A d \in Calls : pc'[d] \in {"over", "denied"} => pc[d] \in {"over", "denied"}
    BY <1>3 DEF Ttl, To, Types
  <2>2. expires # Never => deadline' >= expires
    BY <2>1 DEF Types
  <2> QED
    BY <1>a, <2>1, <2>2
<1>4. ASSUME NEW c \in Calls, TtlFails(c) PROVE RedisInv'
  <2>1. /\ UNCHANGED <<store, now, count, expires, rows, at>> /\ deadline' = now + Window
        /\ \A d \in Calls : pc'[d] \in {"over", "denied"} => pc[d] \in {"over", "denied"}
    BY <1>4 DEF TtlFails, To, Types
  <2>2. store = "redis" /\ expires # Never => deadline' >= expires
    BY <2>1 DEF Types, RedisInv
  <2> QED
    BY <1>a, <2>1, <2>2
<1>5. ASSUME NEW c \in Calls, Upsert(c) PROVE RedisInv'
  BY <1>5 DEF Upsert, RedisInv
<1>6. ASSUME NEW c \in Calls, CheckFails(c) PROVE RedisInv'
  <2>1. /\ UNCHANGED <<store, now, count, expires, rows, at, deadline>>
        /\ \A d \in Calls : pc'[d] \in {"over", "denied"} => pc[d] \in {"over", "denied"}
    BY <1>6 DEF CheckFails, To, Types
  <2> QED
    BY <1>a, <2>1 DEF RedisInv, Windows
<1>7. CASE Tick
  <2> SUFFICES ASSUME store = "redis" PROVE RedisInv'
    BY <1>7 DEF Tick, RedisInv
  <2>1. UNCHANGED <<store, rows, pc, at, deadline>> /\ now' = now + 1 /\ now \in Nat
    BY <1>7 DEF Tick, Types
  <2>2. ASSUME NEW d \in Calls, pc'[d] \in {"over", "denied"} PROVE Earned(d)'
    <3>1. Earned(d) /\ at[d] # Never
      BY <2>1, <2>2 DEF RedisInv, ClockInv
    <3> QED
      BY <2>1, <3>1, EarnedKept
  <2>3. \A d \in Calls : at[d] # Never => at[d] \in Nat /\ at[d] <= now
    BY DEF Types, ClockInv
  <2>4. CASE expires = now + 1
    <3>1. count' = 0 /\ expires' = Never /\ expires # Never
      BY <1>7, <2>1, <2>4, NeverNoTick DEF Tick
    <3>2. \A d \in Calls : at'[d] # Never => at'[d] + Window <= now'
      BY <2>1, <2>4, <3>1 DEF RedisInv
    <3> QED
      BY <2>1, <2>2, <3>1, <3>2 DEF RedisInv
  <2>5. CASE expires = Never
    <3>1. count' = count /\ expires' = Never
      BY <1>7, <2>1, <2>5, NeverNoTick DEF Tick
    <3>2. count = 0 /\ \A d \in Calls : at[d] # Never => at[d] + Window <= now
      BY <2>5 DEF RedisInv
    <3>3. \A d \in Calls : at'[d] # Never => at'[d] + Window <= now'
      BY <2>1, <2>3, <3>2
    <3> QED
      BY <2>1, <2>2, <3>1, <3>2, <3>3 DEF RedisInv
  <2>6. CASE expires # Never /\ expires # now + 1
    <3>1. count' = count /\ expires' = expires
      BY <1>7, <2>6 DEF Tick
    <3>2. /\ count > 0 /\ expires \in Int /\ expires >= now + 1 /\ expires <= now + Window
          /\ \A d \in Calls : at[d] # Never => at[d] + Window <= expires
          /\ deadline # Never => deadline >= expires
      BY <2>6 DEF RedisInv
    <3>3. expires' \in now' + 1 .. now' + Window
      BY <2>1, <2>6, <3>1, <3>2
    <3>4. PICK s \in 0 .. now : Stretch(s)
      BY <2>6 DEF RedisInv
    <3>5. CountedIn(s .. now)' = CountedIn(s .. now)
      <4>1. \A d \in Calls : at[d] # Never => (at[d] \in s .. now' <=> at[d] \in s .. now)
        BY <2>1, <2>3
      <4> QED
        BY <2>1, <4>1 DEF CountedIn
    <3>6. Stretch(s)'
      BY <2>1, <3>1, <3>4, <3>5 DEF Stretch, CountedIn
    <3>7. s \in 0 .. now'
      BY <2>1
    <3> QED
      BY <2>1, <2>2, <3>1, <3>2, <3>3, <3>6, <3>7 DEF RedisInv
  <2> QED
    BY <2>4, <2>5, <2>6
<1> QED
  BY <1>0, <1>1, <1>2, <1>3, <1>4, <1>5, <1>6, <1>7 DEF Next, Check

-----------------------------------------------------------------------------
(***************************************************************************)
(* The SQLite rows.                                                        *)
(***************************************************************************)
LEMMA InitSqlite == Init => SqliteInv
<1> SUFFICES ASSUME Init PROVE SqliteInv
  OBVIOUS
<1>1. \A w : SeenIn(w) = {} /\ ServedIn(w) = {}
  BY DEF Init, SeenIn, ServedIn
<1>2. \A w : Cardinality(SeenIn(w)) = 0 /\ Cardinality(ServedIn(w)) = 0
  BY <1>1, FS_EmptySet
<1>3. \A w \in Windows : rows[w] = 0
  BY DEF Init, Windows
<1>4. \A w \in Windows : Cardinality(ServedIn(w)) <= Limit
  BY <1>2, LimiterBounds
<1> QED
  BY <1>2, <1>3, <1>4 DEF Init, SqliteInv, Waiting

LEMMA SeenFinite ==
    ASSUME ClockInv, NEW w
    PROVE  IsFiniteSet(SeenIn(w)) /\ IsFiniteSet(ServedIn(w)) /\ ServedIn(w) \subseteq SeenIn(w)
<1>1. ServedIn(w) \subseteq SeenIn(w) /\ SeenIn(w) \subseteq Seen
  BY DEF SeenIn, ServedIn, Seen, ClockInv
<1> QED
  BY <1>1, FS_Subset DEF ClockInv

\* The upsert counts the call in its window and serves it if there is room in it.
LEMMA NextSqlite == Types /\ ClockInv /\ SqliteInv /\ [Next]_vars => SqliteInv'
<1> SUFFICES ASSUME Types, ClockInv, SqliteInv, [Next]_vars PROVE SqliteInv'
  OBVIOUS
<1> Types' /\ ClockInv'
  BY NextTypes, NextClock
<1> USE LimiterBounds
\* Nothing is counted.
<1>a. ASSUME UNCHANGED <<store, count, expires, rows, at, deadline>>,
             \A c \in Calls : pc'[c] \in {"counted", "over", "served", "denied"} => pc'[c] = pc[c]
      PROVE  SqliteInv'
  <2>1. \A w : SeenIn(w)' = SeenIn(w)
    BY <1>a DEF SeenIn
  <2>2. ASSUME store = "sqlite", NEW w \in Windows
        PROVE  Cardinality(ServedIn(w)') <= Limit
    <3>1. ServedIn(w)' \subseteq ServedIn(w)
      BY <1>a DEF ServedIn
    <3>2. /\ Cardinality(ServedIn(w)') <= Cardinality(ServedIn(w))
          /\ Cardinality(ServedIn(w)') \in Nat /\ Cardinality(ServedIn(w)) \in Nat
      BY <3>1, SeenFinite, Counts
    <3>3. Cardinality(ServedIn(w)) <= Limit
      BY <2>2 DEF SqliteInv
    <3> QED
      BY <3>2, <3>3
  <2> QED
    BY <1>a, <2>1, <2>2 DEF SqliteInv, Waiting, Windows
<1>0. CASE UNCHANGED vars
  BY <1>0, <1>a DEF vars
<1>1. ASSUME NEW c \in Calls, Incr(c) PROVE SqliteInv'
  BY <1>1 DEF Incr, SqliteInv
<1>2. ASSUME NEW c \in Calls, Get(c) PROVE SqliteInv'
  BY <1>2 DEF Get, SqliteInv, Waiting
<1>3. ASSUME NEW c \in Calls, Ttl(c) PROVE SqliteInv'
  BY <1>3 DEF Ttl, SqliteInv, Waiting
<1>4. ASSUME NEW c \in Calls, TtlFails(c) PROVE SqliteInv'
  BY <1>4 DEF TtlFails, SqliteInv, Waiting
<1>5. ASSUME NEW c \in Calls, Upsert(c) PROVE SqliteInv'
  <2> PICK w \in Windows : w = WindowOf(now)
    BY InWindows DEF Types
  <2>1. /\ store = "sqlite" /\ pc[c] = "new" /\ Counted(c)
        /\ UNCHANGED <<store, count, expires, now>>
    BY <1>5 DEF Upsert
  <2>2. /\ at[c] = Never /\ at'[c] = now /\ now # Never
        /\ \A d \in Calls \ {c} : at'[d] = at[d]
    BY <2>1, CountsOne
  <2>3. /\ rows \in [Windows -> Nat] /\ rows' = [rows EXCEPT ![w] = rows[w] + 1]
        /\ \/ rows'[w] <= Limit /\ pc' = [pc EXCEPT ![c] = "served"] /\ deadline' = Never
           \/ rows'[w] > Limit /\ pc' = [pc EXCEPT ![c] = "denied"] /\ deadline' = now + Window
    BY <1>5, <2>2 DEF Upsert, To, Types
  <2>4. /\ rows'[w] = rows[w] + 1 /\ \A v \in Windows \ {w} : rows'[v] = rows[v]
        /\ \A v \in Windows : rows[v] \in Nat /\ rows'[v] \in Nat
    BY <2>2, <2>3
  <2>5. /\ \A d \in Calls \ {c} : pc'[d] = pc[d]
        /\ pc'[c] \in {"served", "denied"}
        /\ pc'[c] = "served" => rows'[w] <= Limit
        /\ pc'[c] = "denied" => rows'[w] > Limit
    BY <2>3 DEF Types
  <2>6. SeenIn(w)' = SeenIn(w) \cup {c} /\ c \notin SeenIn(w)
        /\ \A v : v # w => SeenIn(v)' = SeenIn(v)
    BY <2>2 DEF SeenIn
  <2>7. rows'[w] = Cardinality(SeenIn(w)')
    <3>1. rows[w] = Cardinality(SeenIn(w))
      BY <2>1, <2>2 DEF SqliteInv
    <3>2. Cardinality(SeenIn(w)') = Cardinality(SeenIn(w)) + 1
      BY <2>6, SeenFinite, CountsMore
    <3> QED
      BY <2>4, <3>1, <3>2
  <2>8. \A v \in Windows : rows'[v] = Cardinality(SeenIn(v)')
    BY <2>1, <2>4, <2>6, <2>7 DEF SqliteInv
  <2>9. ASSUME NEW v \in Windows PROVE Cardinality(ServedIn(v)') <= Limit
    <3>1. CASE pc'[c] = "served" /\ v = w
      <4>1. IsFiniteSet(SeenIn(w)') /\ ServedIn(w)' \subseteq SeenIn(w)'
        <5>1. IsFiniteSet(SeenIn(w)')
          BY <2>6, SeenFinite, CountsMore
        <5>2. ServedIn(w)' \subseteq SeenIn(w)'
          BY DEF SeenIn, ServedIn, ClockInv
        <5> QED
          BY <5>1, <5>2
      <4>2. /\ Cardinality(ServedIn(w)') <= Cardinality(SeenIn(w)')
            /\ Cardinality(ServedIn(w)') \in Nat /\ Cardinality(SeenIn(w)') \in Nat
        BY <4>1, Counts
      <4>3. Cardinality(SeenIn(w)') <= Limit
        BY <2>5, <2>7, <3>1
      <4>4. Cardinality(ServedIn(w)') <= Limit
        BY <4>2, <4>3
      <4> QED
        BY <3>1, <4>4
    <3>2. CASE ~(pc'[c] = "served" /\ v = w)
      <4>1. ServedIn(v)' = ServedIn(v)
        BY <2>1, <2>2, <2>5, <3>2 DEF ServedIn
      <4> QED
        BY <2>1, <4>1 DEF SqliteInv
    <3> QED
      BY <3>1, <3>2
  <2>10. ASSUME NEW d \in Calls, pc'[d] = "denied" PROVE rows'[WindowOf(at'[d])] > Limit
    <3>1. CASE d = c
      BY <2>2, <2>5, <2>10, <3>1
    <3>2. CASE d # c
      <4>1. at'[d] = at[d] /\ rows[WindowOf(at[d])] > Limit
        BY <2>1, <2>2, <2>5, <2>10, <3>2 DEF SqliteInv
      <4>2. WindowOf(at[d]) \in Windows
        BY <2>5, <2>10, <3>2, InWindows DEF ClockInv, Types
      <4>3. rows'[WindowOf(at[d])] >= rows[WindowOf(at[d])]
        BY <2>4, <4>2
      <4> QED
        BY <2>4, <4>1, <4>2, <4>3
    <3> QED
      BY <3>1, <3>2
  <2>11. ASSUME deadline' # Never, NEW d \in Calls, at'[d] # Never
         PROVE  at'[d] + Window <= deadline'
    <3>1. deadline' = now + Window
      BY <2>3, <2>11
    <3>2. at'[d] \in Nat /\ at'[d] <= now
      BY <2>1, <2>11 DEF Types, ClockInv
    <3> QED
      BY <3>1, <3>2 DEF Types
  <2>12. count' = 0 /\ expires' = Never /\ \A d \in Calls : ~Waiting(d)'
    BY <2>1, <2>5 DEF SqliteInv, Waiting
  <2> QED
    BY <2>8, <2>9, <2>10, <2>11, <2>12 DEF SqliteInv, Windows
<1>6. ASSUME NEW c \in Calls, CheckFails(c) PROVE SqliteInv'
  BY <1>6, <1>a DEF CheckFails, To, Types
<1>7. CASE Tick
  <2>1. UNCHANGED <<store, rows, pc, at, deadline>>
    BY <1>7 DEF Tick
  <2>2. store = "sqlite" => UNCHANGED <<count, expires>>
    BY <1>7, NeverNoTick DEF Tick, SqliteInv, Types
  <2> QED
    BY <1>a, <2>1, <2>2 DEF SqliteInv
<1> QED
  BY <1>0, <1>1, <1>2, <1>3, <1>4, <1>5, <1>6, <1>7 DEF Next, Check

-----------------------------------------------------------------------------
(***************************************************************************)
(* The theorems.                                                           *)
(***************************************************************************)
LEMMA LimiterInductive == Spec => []LimiterInv
<1>1. Init => LimiterInv
  BY InitTypes, InitRedis, InitSqlite DEF LimiterInv
<1>2. LimiterInv /\ [Next]_vars => LimiterInv'
  BY NextTypes, NextClock, NextRedis, NextSqlite DEF LimiterInv
<1> QED
  BY <1>1, <1>2, PTL DEF Spec

\* A call is denied only when more than Limit calls were counted, with SQLite in its own
\* window, with Redis in a stretch without a pause of a window: every call renews the TTL.
THEOREM DenialEarnedCorrect == Spec => []DenialEarned
<1>1. LimiterInv => DenialEarned
  <2> SUFFICES ASSUME LimiterInv, NEW c \in Calls, pc[c] = "denied"
               PROVE  IF store = "sqlite"
                      THEN Cardinality(CountedIn({t \in 0 .. now : WindowOf(t) = WindowOf(at[c])}))
                             > Limit
                      ELSE Earned(c)
    BY DEF DenialEarned, Earned
  <2> Types /\ ClockInv /\ RedisInv /\ SqliteInv
    BY DEF LimiterInv
  <2>1. CASE store = "sqlite"
    <3>1. at[c] # Never /\ WindowOf(at[c]) \in Windows
      BY InWindows DEF ClockInv, Types
    <3>2. rows[WindowOf(at[c])] = Cardinality(SeenIn(WindowOf(at[c])))
      BY <2>1, <3>1 DEF SqliteInv
    <3>3. CountedIn({t \in 0 .. now : WindowOf(t) = WindowOf(at[c])}) = SeenIn(WindowOf(at[c]))
      <4>1. \A d \in Calls : at[d] # Never => at[d] \in 0 .. now
        BY LimiterBounds DEF Types, ClockInv
      <4> QED
        BY <4>1 DEF CountedIn, SeenIn
    <3> QED
      BY <2>1, <3>2, <3>3 DEF SqliteInv
  <2>2. CASE store # "sqlite"
    BY <2>2 DEF RedisInv, Types
  <2> QED
    BY <2>1, <2>2
<1> QED
  BY <1>1, LimiterInductive, PTL

\* A caller that waits as long as the answer told it to is served, unless others call
\* meanwhile: the Redis counter has lapsed, or the SQLite window is another one.
THEOREM RetryEnoughCorrect == Spec => []RetryEnough
<1>1. LimiterInv => RetryEnough
  <2> SUFFICES ASSUME LimiterInv, deadline # Never, now >= deadline
               PROVE  (IF store = "redis" THEN count ELSE rows[WindowOf(now)]) < Limit
    BY DEF RetryEnough
  <2> Types /\ ClockInv /\ RedisInv /\ SqliteInv
    BY DEF LimiterInv
  <2>1. CASE store = "redis"
    <3>1. expires = Never
      BY <2>1, LimiterBounds DEF RedisInv, Types
    <3>2. count = 0
      BY <2>1, <3>1 DEF RedisInv
    <3> QED
      BY <2>1, <3>2, LimiterBounds
  <2>2. CASE store = "sqlite"
    <3>1. WindowOf(now) \in Windows
      BY InWindows DEF Types
    <3>2. SeenIn(WindowOf(now)) = {}
      <4> SUFFICES ASSUME NEW d \in Calls, at[d] # Never PROVE WindowOf(at[d]) # WindowOf(now)
        BY DEF SeenIn
      <4>1. at[d] \in Nat /\ now \in Nat /\ at[d] <= now /\ at[d] + Window <= now
        BY <2>2, LimiterBounds DEF SqliteInv, Types, ClockInv
      <4>2. /\ WindowOf(at[d]) \in Nat /\ WindowOf(now) \in Nat
            /\ WindowOf(at[d]) < WindowOf(now)
        BY <4>1, WindowFacts
      <4> QED
        BY <4>2
    <3>3. rows[WindowOf(now)] = 0
      BY <2>2, <3>1, <3>2, FS_EmptySet DEF SqliteInv
    <3> QED
      BY <2>2, <3>3, LimiterBounds
  <2> QED
    BY <2>1, <2>2 DEF Types
<1> QED
  BY <1>1, LimiterInductive, PTL

\* Every variable has its type: the counters are bounded by the calls, if these are
\* finitely many, and a counter in Redis always has an expiry.
THEOREM TypeCorrect == Spec => [](IsFiniteSet(Calls) => TypeOK)
<1>1. LimiterInv /\ IsFiniteSet(Calls) => TypeOK
  <2> SUFFICES ASSUME LimiterInv, IsFiniteSet(Calls) PROVE TypeOK
    OBVIOUS
  <2> Types /\ ClockInv /\ RedisInv /\ SqliteInv
    BY DEF LimiterInv
  <2>1. \A T : Cardinality(CountedIn(T)) <= Cardinality(Calls)
    BY Counts DEF CountedIn
  <2>2. \A w : Cardinality(SeenIn(w)) <= Cardinality(Calls)
    BY Counts DEF SeenIn
  <2>3. Cardinality(Calls) \in Nat
    BY FS_CardinalityType
  <2>4. count \in 0 .. Cardinality(Calls)
    <3>1. CASE store = "sqlite" \/ expires = Never
      BY <2>3, <3>1 DEF Types, RedisInv, SqliteInv
    <3>2. CASE store = "redis" /\ expires # Never
      <4>1. count <= Cardinality(Calls)
        BY <2>1, <3>2 DEF RedisInv, Stretch
      <4> QED
        BY <2>3, <4>1 DEF Types
    <3> QED
      BY <3>1, <3>2 DEF Types
  <2>5. \A w \in Windows : rows[w] \in 0 .. Cardinality(Calls)
    <3> SUFFICES ASSUME NEW w \in Windows PROVE rows[w] <= Cardinality(Calls)
      BY <2>3 DEF Types
    <3>1. CASE store = "sqlite"
      BY <2>2, <3>1 DEF SqliteInv
    <3>2. CASE store = "redis"
      <4>1. rows[w] = 0
        BY <3>2 DEF RedisInv
      <4> QED
        BY <2>3, <4>1
    <3> QED
      BY <3>1, <3>2 DEF Types
  <2>6. rows \in [0 .. WindowOf(MaxTime) -> 0 .. Cardinality(Calls)]
    BY <2>5 DEF Types, Windows
  <2>7. /\ count > 0 <=> expires # Never
        /\ expires # Never => expires \in now + 1 .. now + Window
    BY DEF Types, RedisInv, SqliteInv
  <2> QED
    BY <2>4, <2>6, <2>7 DEF Types, TypeOK
<1> QED
  BY <1>1, LimiterInductive, PTL

-----------------------------------------------------------------------------
(***************************************************************************)
(* The limiter implements SlidingLimit: Get and Upsert, when they serve,   *)
(* are its Admit, Tick is its Tick, and every other step leaves what it    *)
(* sees unchanged.                                                         *)
(***************************************************************************)
bound == IF store = "redis" THEN Limit ELSE 2 * Limit
admitted == [c \in Calls |-> IF pc[c] = "served" THEN at[c] ELSE Never]

\* The served calls counted in the Window ticks that end with u.
ServedNear(u) == {c \in Calls : pc[c] = "served" /\ at[c] \in (u - Window + 1) .. u}

LEMMA SameCardinality == \A S : Abstract!Cardinality(S) = Cardinality(S)
  BY Zenon DEF Abstract!Cardinality, Cardinality

LEMMA AdmitStep ==
    ASSUME Types, ClockInv', NEW c \in Calls, NEW t \in 0 .. now,
           pc[c] # "served", pc' = [pc EXCEPT ![c] = "served"], at'[c] = t,
           \A d \in Calls \ {c} : at'[d] = at[d], UNCHANGED <<store, now>>,
           \A u \in t .. t + Window - 1 : Cardinality(ServedNear(u)') <= bound
    PROVE  Abstract!Admit(c, t)
<1>1. admitted[c] = Never /\ UNCHANGED <<bound, now>>
  BY DEF admitted, bound
<1>2. admitted' = [admitted EXCEPT ![c] = t]
  <2>1. \A d \in Calls \ {c} : pc'[d] = pc[d]
    BY DEF Types
  <2>2. pc'[c] = "served"
    BY DEF Types
  <2>3. \A d \in Calls : admitted'[d] = IF d = c THEN t ELSE admitted[d]
    BY <2>1, <2>2 DEF admitted
  <2> QED
    BY <2>3 DEF admitted
<1>3. ASSUME NEW u \in t .. t + Window - 1
      PROVE  Cardinality({d \in Calls : admitted'[d] # Never
                                          /\ admitted'[d] \in (u - Window + 1) .. u}) <= bound
  <2>1. \A d \in Calls : pc'[d] = "served" => at'[d] # Never
    BY DEF ClockInv
  <2>2. {d \in Calls : admitted'[d] # Never /\ admitted'[d] \in (u - Window + 1) .. u}
          = {d \in Calls : pc'[d] = "served" /\ at'[d] \in (u - Window + 1) .. u}
    BY <2>1 DEF admitted
  <2> QED
    BY <2>2 DEF ServedNear
<1> QED
  BY <1>1, <1>2, <1>3, SameCardinality DEF Abstract!Admit, Abstract!Within, admitted, bound

\* Redis: what is admitted in the window of an admitted call is in the stretch counted.
LEMMA GetAdmits ==
    ASSUME LimiterInv, LimiterInv', NEW c \in Calls, Get(c), pc'[c] = "served"
    PROVE  \E t \in 0 .. now : Abstract!Admit(c, t)
<1> Types /\ ClockInv /\ RedisInv /\ SqliteInv /\ ClockInv'
  BY DEF LimiterInv
<1>1. /\ UNCHANGED <<store, now, count, at>> /\ pc[c] = "counted"
      /\ count <= Limit /\ pc' = [pc EXCEPT ![c] = "served"]
  BY DEF Get, To, Types
<1>2. Waiting(c) /\ store = "redis"
  BY <1>1 DEF Waiting, SqliteInv, Types
<1>3. /\ expires # Never /\ at[c] \in Nat /\ at[c] <= now /\ now \in Nat
      /\ \A s \in 0 .. now : Stretch(s) => at[c] >= s
  BY <1>2, WaitingCounted, LimiterBounds DEF Types
<1>4. PICK s \in 0 .. now : Stretch(s)
  BY <1>2, <1>3 DEF RedisInv
<1>5. ASSUME NEW u \in at[c] .. at[c] + Window - 1
      PROVE  Cardinality(ServedNear(u)') <= Limit
  <2>1. ServedNear(u)' \subseteq CountedIn(s .. now)
    <3> SUFFICES ASSUME NEW d \in Calls, pc'[d] = "served",
                        at[d] \in (u - Window + 1) .. u
                 PROVE  at[d] # Never /\ at[d] \in s .. now
      BY <1>1 DEF ServedNear, CountedIn
    <3>1. at[d] # Never /\ at[d] \in Nat /\ at[d] <= now
      BY <1>1, LimiterBounds DEF ClockInv, Types
    <3>2. at[d] >= s \/ at[d] + Window <= s
      BY <1>4, <3>1 DEF Stretch
    <3>3. at[d] + Window > at[c] /\ at[c] >= s
      BY <1>3, <1>4, <3>1, LimiterBounds
    <3> QED
      BY <1>3, <3>1, <3>2, <3>3, LimiterBounds
  <2>2. CountedIn(s .. now) \subseteq Seen
    BY DEF CountedIn, Seen
  <2>3. /\ Cardinality(ServedNear(u)') <= Cardinality(CountedIn(s .. now))
        /\ Cardinality(ServedNear(u)') \in Nat /\ Cardinality(CountedIn(s .. now)) \in Nat
    BY <2>1, <2>2, Counts DEF ClockInv
  <2> QED
    BY <1>1, <1>4, <2>3, LimiterBounds DEF Stretch
<1>6. bound = Limit
  BY <1>2 DEF bound
<1> PICK t \in 0 .. now : t = at[c]
  BY <1>3
<1>7. \A u \in t .. t + Window - 1 : Cardinality(ServedNear(u)') <= bound
  BY <1>5, <1>6
<1>8. pc[c] # "served" /\ at'[c] = t /\ \A d \in Calls \ {c} : at'[d] = at[d]
  BY <1>1
<1>9. Abstract!Admit(c, t)
  BY <1>1, <1>7, <1>8, AdmitStep
<1> QED
  BY <1>9

\* SQLite: a window of the abstract limiter meets two fixed ones.
LEMMA UpsertAdmits ==
    ASSUME LimiterInv, LimiterInv', NEW c \in Calls, Upsert(c), pc'[c] = "served"
    PROVE  \E t \in 0 .. now : Abstract!Admit(c, t)
<1> Types /\ ClockInv /\ Types' /\ ClockInv' /\ SqliteInv'
  BY DEF LimiterInv
<1>1. /\ UNCHANGED <<store, now>> /\ pc[c] = "new" /\ Counted(c) /\ store = "sqlite"
      /\ pc' = [pc EXCEPT ![c] = "served"]
  BY DEF Upsert, To, Types
<1>2. at'[c] = now /\ \A d \in Calls \ {c} : at'[d] = at[d]
  BY <1>1, CountsOne
<1>3. now \in Nat /\ now <= MaxTime /\ Limit \in Nat /\ MaxTime \in Nat
  BY LimiterBounds DEF Types
<1> PICK w \in Windows : w = WindowOf(now)
  BY InWindows DEF Types
<1>4. w \in Nat
  BY <1>3, WindowFacts
<1>5. ASSUME NEW v \in {w, w - 1}
      PROVE  /\ IsFiniteSet(ServedIn(v)') /\ Cardinality(ServedIn(v)') \in Nat
             /\ Cardinality(ServedIn(v)') <= Limit
  <2>1. ServedIn(v)' \subseteq Seen' /\ IsFiniteSet(Seen')
    BY DEF ServedIn, Seen, ClockInv
  <2>2. IsFiniteSet(ServedIn(v)') /\ Cardinality(ServedIn(v)') \in Nat
    BY <2>1, Counts
  <2>3. CASE v \in Windows
    BY <1>1, <2>2, <2>3 DEF SqliteInv, Windows
  <2>4. CASE v \notin Windows
    <3>1. v = -1
      <4>1. w <= WindowOf(MaxTime) /\ WindowOf(MaxTime) \in Nat
        BY <1>3, WindowFacts
      <4> QED
        BY <1>4, <2>4, <4>1 DEF Windows
    <3>2. \A d \in Calls : pc'[d] = "served" => WindowOf(at'[d]) # -1
      <4>1. \A d \in Calls : pc'[d] = "served" => at'[d] \in Nat
        BY LimiterBounds DEF Types, ClockInv
      <4> QED
        BY <4>1, WindowFacts
    <3>3. ServedIn(v)' = {}
      BY <3>1, <3>2 DEF ServedIn
    <3> QED
      BY <1>3, <2>2, <3>3, FS_EmptySet
  <2> QED
    BY <2>3, <2>4
<1>6. ASSUME NEW u \in now .. now + Window - 1
      PROVE  Cardinality(ServedNear(u)') <= 2 * Limit
  <2> DEFINE S == ServedIn(w)'
             T == ServedIn(w - 1)'
  <2>1. ServedNear(u)' \subseteq S \cup T
    <3> SUFFICES ASSUME NEW d \in Calls, pc'[d] = "served",
                        at'[d] \in (u - Window + 1) .. u
                 PROVE  WindowOf(at'[d]) = w \/ WindowOf(at'[d]) = w - 1
      BY DEF ServedNear, ServedIn
    <3>1. at'[d] \in Nat /\ at'[d] <= now
      BY <1>1, LimiterBounds DEF Types, ClockInv
    <3>2. now < at'[d] + Window
      BY <1>3, <3>1, LimiterBounds
    <3> QED
      BY <1>3, <3>1, <3>2, WindowFacts
  <2>2. /\ IsFiniteSet(S) /\ Cardinality(S) \in Nat /\ Cardinality(S) <= Limit
        /\ IsFiniteSet(T) /\ Cardinality(T) \in Nat /\ Cardinality(T) <= Limit
    BY <1>5
  <2> HIDE DEF S, T
  <2>3. /\ IsFiniteSet(S \cup T)
        /\ Cardinality(S \cup T) = Cardinality(S) + Cardinality(T) - Cardinality(S \cap T)
    BY <2>2, FS_Union
  <2>4. Cardinality(S \cap T) \in Nat
    BY <2>2, Counts
  <2>5. /\ Cardinality(ServedNear(u)') <= Cardinality(S \cup T)
        /\ Cardinality(ServedNear(u)') \in Nat /\ Cardinality(S \cup T) \in Nat
    BY <2>1, <2>3, Counts
  <2> QED
    BY <1>3, <2>2, <2>3, <2>4, <2>5
<1>7. bound = 2 * Limit
  BY <1>1 DEF bound
<1> PICK t \in 0 .. now : t = now
  BY <1>3
<1>8. \A u \in t .. t + Window - 1 : Cardinality(ServedNear(u)') <= bound
  BY <1>6, <1>7
<1>9. at'[c] = t /\ pc[c] # "served"
  BY <1>1, <1>2
<1>10. Abstract!Admit(c, t)
  BY <1>1, <1>2, <1>8, <1>9, AdmitStep
<1> QED
  BY <1>10

LEMMA StepRefines == LimiterInv /\ LimiterInv' /\ [Next]_vars => [Abstract!Next]_(Abstract!vars)
<1> SUFFICES ASSUME LimiterInv, LimiterInv', [Next]_vars
             PROVE  Abstract!Next \/ UNCHANGED <<bound, now, admitted>>
  BY DEF Abstract!vars, bound, admitted
<1> Types /\ ClockInv
  BY DEF LimiterInv
\* No call is served.
<1>a. ASSUME UNCHANGED <<store, now>>,
             \A d \in Calls : \/ pc'[d] = pc[d] /\ at'[d] = at[d]
                              \/ pc'[d] # "served" /\ pc[d] # "served"
      PROVE  UNCHANGED <<bound, now, admitted>>
  BY <1>a DEF bound, admitted
<1>0. CASE UNCHANGED vars
  BY <1>0 DEF vars, bound, admitted
<1>1. ASSUME NEW c \in Calls, Incr(c) PROVE UNCHANGED <<bound, now, admitted>>
  BY <1>1, <1>a DEF Incr, To, Counted, Types
<1>2. ASSUME NEW c \in Calls, Get(c) PROVE Abstract!Next \/ UNCHANGED <<bound, now, admitted>>
  <2>1. CASE pc'[c] = "served"
    BY <1>2, <2>1, GetAdmits DEF Abstract!Next
  <2>2. CASE pc'[c] # "served"
    BY <1>2, <1>a, <2>2 DEF Get, To, Types
  <2> QED
    BY <2>1, <2>2
<1>3. ASSUME NEW c \in Calls, Ttl(c) PROVE UNCHANGED <<bound, now, admitted>>
  BY <1>3, <1>a DEF Ttl, To, Types
<1>4. ASSUME NEW c \in Calls, TtlFails(c) PROVE UNCHANGED <<bound, now, admitted>>
  BY <1>4, <1>a DEF TtlFails, To, Types
<1>5. ASSUME NEW c \in Calls, Upsert(c) PROVE Abstract!Next \/ UNCHANGED <<bound, now, admitted>>
  <2>1. CASE pc'[c] = "served"
    BY <1>5, <2>1, UpsertAdmits DEF Abstract!Next
  <2>2. CASE pc'[c] # "served"
    <3>1. /\ UNCHANGED <<store, now>> /\ pc[c] # "served"
          /\ \A d \in Calls \ {c} : pc'[d] = pc[d] /\ at'[d] = at[d]
      BY <1>5 DEF Upsert, To, Counted, Types
    <3> QED
      BY <1>a, <2>2, <3>1
  <2> QED
    BY <2>1, <2>2
<1>6. ASSUME NEW c \in Calls, CheckFails(c) PROVE UNCHANGED <<bound, now, admitted>>
  BY <1>6, <1>a DEF CheckFails, To, Types
<1>7. CASE Tick
  <2>1. now' = now + 1 /\ UNCHANGED <<bound, admitted>>
    BY <1>7 DEF Tick, bound, admitted
  <2> QED
    BY <2>1 DEF Abstract!Next, Abstract!Tick, bound, admitted
<1> QED
  BY <1>0, <1>1, <1>2, <1>3, <1>4, <1>5, <1>6, <1>7 DEF Next, Check

\* The limiter implements the abstract one: of the calls counted within any window it
\* admits at most Limit with Redis and at most twice that with SQLite.
THEOREM AdmitsAtMostCorrect == Spec => AdmitsAtMost
<1>1. Init => Abstract!Init
  BY LimiterBounds DEF Init, Abstract!Init
<1>2. Spec => []LimiterInv
  BY LimiterInductive
<1> QED
  BY <1>1, <1>2, StepRefines, PTL DEF Spec, AdmitsAtMost, Abstract!Spec
=============================================================================
