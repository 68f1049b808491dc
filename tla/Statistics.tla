----------------------------- MODULE Statistics -----------------------------
(***************************************************************************)
(* Usage statistics: GET /users/me/stats (routes/users.rs) and GET         *)
(* /admin/stats (routes/admin.rs), both kept in a Redis hash for five      *)
(* minutes (cache/mod.rs).  Nothing removes a hash when images come or go. *)
(*                                                                         *)
(* Every query is a statement of its own, and the HSETs that fill a hash   *)
(* are a pipeline, not a transaction.  Every image has size one, so a      *)
(* number of images and its bytes are one figure, except for the backend   *)
(* "rustfs", of which the hash gets the bytes only ("rustfs") and not the  *)
(* images ("rimages").  Images of the other backends count in the totals   *)
(* alone.  The active users, whose query cannot fail, are left out.        *)
(***************************************************************************)
EXTENDS Naturals

CONSTANTS
    Viewers,      \* requests for statistics
    Nothing,
    StatsTtl,     \* EXPIRE of a hash
    Sites,        \* bound: the owners and backends whose images come and go
    MaxTicks,     \* bound: the clock
    MaxChanges,   \* bound: changes of what is counted
    MaxAsks       \* bound: requests

Owners == {"me", "other"}
Backends == {"local", "rustfs", "git"}

ASSUME StatsBounds ==
    /\ StatsTtl \in Nat \ {0} /\ Sites \subseteq Owners \X Backends
    /\ MaxTicks \in Nat /\ MaxChanges \in Nat /\ MaxAsks \in Nat

Hashes == {"me", "all"}    \* a user's hash, and the one of the nil UUID
Figures == {"users", "images", "quota", "local", "rustfs", "rimages"}
Blank == [f \in Figures |-> Nothing]

ASSUME StatsApart == Nothing \notin Nat /\ Viewers \cap Hashes = {}

VARIABLES
    \* tables images and users
    count,        \* count[o][b]: images of owner o in backend b
    members,      \* users
    limit,        \* SUM(storage_quota), Nothing without quotas
    changes, asks,
    tick,
    \* Redis
    hash,         \* the fields of each hash
    until,        \* when it lapses, 0 for not at all
    \* requests
    at,           \* where the request is: a figure to query next, or a label
    whose,        \* the hash it is about
    found,        \* the figures it has
    \* history, read by no action
    past,         \* past[t][h][f]: the values figure f of h had at time t
    slow,         \* time passed between the first query, or the hit, and the answer
    split,        \* a hash was read or filled amid the pipeline of another request
    moved         \* requests and hashes whose figures were collected while something
                  \* changed

statsDb   == <<count, members, limit, changes>>
statsHist == <<past, slow, split, moved>>
statsVars == <<statsDb, asks, tick, hash, until, at, whose, found, statsHist>>

Of(c, b) == c["me"][b] + c["other"][b]
Sum(c, o) == c[o]["local"] + c[o]["rustfs"] + c[o]["git"]

\* What the queries give for the figures of h; a user's hash has only one.
Figure(c, m, l, h) ==
    IF h = "me" THEN [Blank EXCEPT !["images"] = Sum(c, "me")]
    ELSE [users |-> m, images |-> Sum(c, "me") + Sum(c, "other"), quota |-> l,
          local |-> Of(c, "local"), rustfs |-> Of(c, "rustfs"), rimages |-> Of(c, "rustfs")]

StatsInit ==
    /\ count = [o \in Owners |-> [b \in Backends |-> IF <<o, b>> \in Sites THEN 1 ELSE 0]]
    /\ members = 2 /\ limit = Nothing /\ changes = 0 /\ asks = 0 /\ tick = 0
    /\ hash = [h \in Hashes |-> Blank]
    /\ until = [h \in Hashes |-> 0]
    /\ at = [v \in Viewers |-> "idle"]
    /\ whose = [v \in Viewers |-> "me"]
    /\ found = [v \in Viewers |-> Blank]
    /\ past = [t \in 0 .. MaxTicks |-> [h \in Hashes |-> [f \in Figures |->
                 IF t = 0 THEN {Figure(count, members, limit, h)[f]} ELSE {}]]]
    /\ slow = FALSE /\ split = FALSE /\ moved = {}

\* The queries of get_admin_stats in their order.
After == [users |-> "images", images |-> "quota", quota |-> "local", local |-> "rustfs",
          rustfs |-> "store"]

(***************************************************************************)
(* Uploads, deletes, registrations and quota changes.                      *)
(***************************************************************************)
Change(c, m, l) ==
    /\ changes < MaxChanges /\ changes' = changes + 1
    /\ count' = c /\ members' = m /\ limit' = l
    /\ past' = [past EXCEPT ![tick] = [h \in Hashes |-> [f \in Figures |->
                  past[tick][h][f] \cup {Figure(c, m, l, h)[f]}]]]
    /\ moved' = moved \cup {v \in Viewers : at[v] \in DOMAIN After}
    /\ UNCHANGED <<asks, tick, hash, until, at, whose, found, slow, split>>

ImageAdded(o, b) == Change([count EXCEPT ![o][b] = @ + 1], members, limit)

ImageRemoved(o, b) == count[o][b] > 0 /\ Change([count EXCEPT ![o][b] = @ - 1], members, limit)

UserAdded == Change(count, members + 1, limit)

QuotaSet == limit = Nothing /\ Change(count, members, 1)

Clock ==
    /\ tick < MaxTicks
    /\ tick' = tick + 1
    /\ hash' = [h \in Hashes |-> IF until[h] = tick + 1 THEN Blank ELSE hash[h]]
    /\ until' = [h \in Hashes |-> IF until[h] = tick + 1 THEN 0 ELSE until[h]]
    /\ past' = [past EXCEPT ![tick + 1] = [h \in Hashes |-> [f \in Figures |->
                  {Figure(count, members, limit, h)[f]}]]]
    /\ slow' = (slow \/ \E v \in Viewers : at[v] \notin {"idle", "lookup"})
    /\ UNCHANGED <<statsDb, asks, at, whose, found, split, moved>>

(***************************************************************************)
(* get_my_stats, get_admin_stats                                           *)
(***************************************************************************)
AtTo(v, l) == at' = [at EXCEPT ![v] = l]

Ask(v, h) ==
    /\ at[v] = "idle"
    /\ asks < MaxAsks /\ asks' = asks + 1
    /\ AtTo(v, "lookup")
    /\ whose' = [whose EXCEPT ![v] = h]
    /\ UNCHANGED <<statsDb, tick, hash, until, found, statsHist>>

\* A request is between the first and the last HSET of hash h.
Amid(h) == \E w \in Viewers : at[w] = "rest" /\ whose[w] = h

\* try_cached_stats, try_parse_cached_stats: without one of these fields the entry counts
\* as missing.  total_quota is there when it was stored, as "" without quotas: the field
\* "users" is stored before it, "local" after it.
Usable(h) ==
    /\ hash[h]["images"] # Nothing
    /\ h = "all" => hash[h]["users"] # Nothing

\* A field of a backend that is missing is taken from the total, or for 0.
Parsed(h) ==
    IF h = "me" THEN hash[h]
    ELSE [hash[h] EXCEPT !["local"] = IF @ = Nothing THEN hash[h]["images"] ELSE @,
                         !["rustfs"] = IF @ = Nothing THEN 0 ELSE @,
                         !["rimages"] = 0]

\* The figure to query first.
FirstFigure(h) == IF h = "me" THEN "images" ELSE "users"

\* HGETALL, whose failure counts as a miss.
Lookup(v) ==
    LET h == whose[v] IN
    /\ at[v] = "lookup"
    /\ \/ /\ Usable(h)
          /\ AtTo(v, "over")
          /\ found' = [found EXCEPT ![v] = Parsed(h)]
          /\ split' = (split \/ Amid(h))
          /\ moved' = IF h \in moved THEN moved \cup {v} ELSE moved \ {v}
       \/ /\ AtTo(v, FirstFigure(h))
          /\ moved' = moved \ {v}
          /\ UNCHANGED <<found, split>>
    /\ UNCHANGED <<statsDb, asks, tick, hash, until, whose, past, slow>>

\* One query after the other; the last of a user is the one for its images.
Query(v) ==
    LET h == whose[v]  f == at[v]
    IN  /\ f \in DOMAIN After
        /\ found' = [found EXCEPT ![v] = [g \in Figures |->
                       IF g = f \/ (f = "rustfs" /\ g = "rimages")
                       THEN Figure(count, members, limit, h)[g] ELSE @[g]]]
        /\ AtTo(v, IF h = "me" THEN "store" ELSE After[f])
        /\ UNCHANGED <<statsDb, asks, tick, hash, until, whose, statsHist>>

\* A query fails: the request is answered with an error and stores nothing.
QueryFails(v) ==
    /\ at[v] \in DOMAIN After
    /\ AtTo(v, "idle")
    /\ found' = [found EXCEPT ![v] = Blank]
    /\ moved' = moved \ {v}
    /\ UNCHANGED <<statsDb, asks, tick, hash, until, whose, past, slow, split>>

\* Mutant: the figures are added to those of the hash (HINCRBY).
PopulateAdds(v) ==
    LET h == whose[v] IN
    /\ at[v] = "store"
    /\ hash' = [hash EXCEPT ![h]["users"] = found[v]["users"],
                            ![h]["images"] = IF @ = Nothing THEN found[v]["images"]
                                             ELSE @ + found[v]["images"],
                            ![h]["quota"] = found[v]["quota"]]
    /\ split' = (split \/ Amid(h))
    /\ moved' = IF v \in moved THEN moved \cup {h} ELSE moved \ {h}
    /\ AtTo(v, "rest")
    /\ UNCHANGED <<statsDb, asks, tick, until, whose, found, past, slow>>

\* set_user_stats: the HSETs up to total_quota ...
Populate(v) ==
    LET h == whose[v] IN
    /\ at[v] = "store"
    /\ hash' = [hash EXCEPT ![h]["users"] = found[v]["users"],
                            ![h]["images"] = found[v]["images"],
                            ![h]["quota"] = found[v]["quota"]]
    /\ split' = (split \/ Amid(h))
    /\ moved' = IF v \in moved THEN moved \cup {h} ELSE moved \ {h}
    /\ AtTo(v, "rest")
    /\ UNCHANGED <<statsDb, asks, tick, until, whose, found, past, slow>>

\* ... and the others, and EXPIRE.
PopulateRest(v) ==
    LET h == whose[v] IN
    /\ at[v] = "rest"
    /\ hash' = [hash EXCEPT ![h]["local"] = found[v]["local"],
                            ![h]["rustfs"] = found[v]["rustfs"]]
    /\ until' = [until EXCEPT ![h] = tick + StatsTtl]
    /\ AtTo(v, "over")
    /\ UNCHANGED <<statsDb, asks, tick, whose, found, statsHist>>

\* Redis does not answer: the error is dropped.
PopulateFails(v) ==
    /\ at[v] = "store"
    /\ AtTo(v, "over")
    /\ UNCHANGED <<statsDb, asks, tick, hash, until, whose, found, statsHist>>

\* The answer is sent.
Answered(v) ==
    /\ at[v] = "over"
    /\ AtTo(v, "idle")
    /\ found' = [found EXCEPT ![v] = Blank]
    /\ moved' = moved \ {v}
    /\ UNCHANGED <<statsDb, asks, tick, hash, until, whose, past, slow, split>>

StatsNext ==
    \/ \E s \in Sites : ImageAdded(s[1], s[2]) \/ ImageRemoved(s[1], s[2])
    \/ UserAdded \/ QuotaSet \/ Clock
    \/ \E v \in Viewers :
          \/ \E h \in Hashes : Ask(v, h)
          \/ Lookup(v) \/ Query(v) \/ QueryFails(v)
          \/ Populate(v) \/ PopulateRest(v) \/ PopulateFails(v) \/ Answered(v)

-----------------------------------------------------------------------------
FigureValues == Nat \cup {Nothing}

\* Every variable has its type, and a request that has figures to store has all of them.
StatsTypeOK ==
    /\ count \in [Owners -> [Backends -> Nat]]
    /\ members \in Nat /\ limit \in FigureValues
    /\ changes \in 0 .. MaxChanges /\ asks \in 0 .. MaxAsks /\ tick \in 0 .. MaxTicks
    /\ hash \in [Hashes -> [Figures -> FigureValues]] /\ until \in [Hashes -> Nat]
    /\ at \in [Viewers -> DOMAIN After \cup {"idle", "lookup", "store", "rest", "over"}]
    /\ whose \in [Viewers -> Hashes]
    /\ found \in [Viewers -> [Figures -> FigureValues]]
    /\ past \in [0 .. MaxTicks -> [Hashes -> [Figures -> SUBSET FigureValues]]]
    /\ slow \in BOOLEAN /\ split \in BOOLEAN /\ moved \subseteq Viewers \cup Hashes
    /\ \A v \in Viewers :
          at[v] \in {"store", "rest", "over"} =>
              \A f \in IF whose[v] = "me" THEN {"images"} ELSE Figures \ {"quota"} :
                  found[v][f] # Nothing

\* A number that is answered was true at most StatsTtl ago: filling a hash again replaces
\* what it held and never adds to it, and no hash outlives its time, however many requests
\* fill it.  Not so for the images of rustfs, which a hit answers with 0, nor when a request
\* took its time or met the pipeline of another one.
CountsRecent ==
    \A v \in Viewers : at[v] = "over" /\ ~slow /\ ~split =>
        \A f \in Figures \ {"rimages"} :
            \E t \in 0 .. tick : t + StatsTtl >= tick /\ found[v][f] \in past[t][whose[v]][f]

\* The backends of an answer never hold more than its total, whether it was queried or
\* cached, unless something changed between the queries.
TotalCoversBackends ==
    \A v \in Viewers : at[v] = "over" /\ whose[v] = "all" /\ v \notin moved /\ ~split =>
        found[v]["images"] >= found[v]["local"] + found[v]["rustfs"]

\* What is answered was true, figure by figure and of figures among themselves.
FiguresTrue == CountsRecent /\ TotalCoversBackends

=============================================================================
