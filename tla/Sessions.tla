------------------------------ MODULE Sessions ------------------------------
(***************************************************************************)
(* Token pairs and their revocation: login, refresh and logout of          *)
(* pichost-api/src/routes/auth.rs, require_auth of middleware/auth.rs and  *)
(* the two blacklists, Redis keys bl:{jti} in the full deployment and the  *)
(* table token_blacklist in the lite one.                                  *)
(*                                                                         *)
(* Tokens of different logins do not interact, so the module follows the   *)
(* pairs that descend from one login by refreshes.  A pair is an access    *)
(* and a refresh token signed together; what a token says besides its jti  *)
(* and its times is left out.  A refused request changes no state and is   *)
(* no step.                                                                *)
(***************************************************************************)
EXTENDS Integers, FiniteSets

CONSTANTS
    Pairs,        \* token pairs that can be issued
    Requests,     \* refresh requests running at once
    None,         \* no pair
    AccessTTL,    \* lifetime of an access token
    RefreshTTL,   \* lifetime of a refresh token
    Leeway,       \* how long jsonwebtoken accepts an expired token
    Minute,       \* clock ticks in a minute
    MaxClock,     \* bound: clock
    MaxFaults     \* bound: failed calls and abandoned requests together

ASSUME SessionBounds ==
    /\ AccessTTL \in Nat \ {0} /\ RefreshTTL \in Nat \ {0}
    /\ Minute \in Nat \ {0} /\ Leeway \in Nat
    /\ MaxClock \in Nat /\ MaxFaults \in Nat

ASSUME SessionNames == None \notin Pairs

Tokens == {"access", "refresh"} \X Pairs

VARIABLES
    mode,         \* deployment: "full" or "lite"
    clock,
    issued,       \* pairs signed so far
    held,         \* pairs that reached the client
    iat,          \* claim iat of a pair
    until,        \* when a token's blacklist entry lapses; 0: there is none
    \* refresh requests
    pc,           \* "idle", "checked" or "rotated"
    old,          \* the pair a refresh presents
    new,          \* the pair it has signed
    now,          \* the time it computes remaining lifetimes from
    faults,
    \* history, read by no action
    revoked,      \* tokens with a blacklist write that succeeded
    children,     \* pairs signed in exchange for a pair's refresh token
    overlap,      \* pairs presented by two refreshes at once
    lost,         \* pairs with a failed blacklist write
    late,         \* pairs presented when their entry may have lapsed
    defied        \* tokens accepted while their revocation should hold

tokens   == <<issued, held, iat>>
requests == <<pc, old, new, now>>
traces   == <<children, overlap, late, defied>>
vars     == <<mode, clock, tokens, until, requests, faults,
              revoked, lost, traces>>

Init ==
    /\ mode \in {"full", "lite"}
    /\ clock = 0
    /\ issued = {} /\ held = {}
    /\ iat = [p \in Pairs |-> 0]
    /\ until = [t \in Tokens |-> 0]
    /\ pc = [r \in Requests |-> "idle"]
    /\ old = [r \in Requests |-> None]
    /\ new = [r \in Requests |-> None]
    /\ now = [r \in Requests |-> 0]
    /\ faults = 0
    /\ revoked = {} /\ overlap = {} /\ lost = {} /\ late = {} /\ defied = {}
    /\ children = [p \in Pairs |-> 0]

Fault == faults < MaxFaults /\ faults' = faults + 1

(***************************************************************************)
(* Times.                                                                  *)
(***************************************************************************)
TTL(t)  == IF t[1] = "access" THEN AccessTTL ELSE RefreshTTL
Exp(t)  == iat[t[2]] + TTL(t)
Minus(a, b) == IF a > b THEN a - b ELSE 0

\* validate_exp with the library's default leeway.
Decodable(t) == clock <= Exp(t) + Leeway

Listed(t) == clock < until[t]

\* SETEX keeps a key until the time asked for.  SqliteBlacklist writes the
\* expiry as minute and nanoseconds and compares it with minute and seconds, so
\* within that minute the entry lapses at any second but the first.
Lapses(e) == IF mode = "full" THEN {e}
             ELSE {(e \div Minute) * Minute + s : s \in 1 .. Minute}

\* Until this time the revocation of t holds whatever the fraction written.
HoldsUntil(t) == IF mode = "full" THEN Exp(t) ELSE (Exp(t) \div Minute) * Minute + 1

(***************************************************************************)
(* Blacklist::revoke.  Redis refuses SETEX with no time left, and both     *)
(* callers ignore errors.                                                  *)
(***************************************************************************)
Revoke(t, ttl) ==
    \/ /\ mode = "full" => ttl > 0
       /\ \E e \in Lapses(clock + ttl) : until' = [until EXCEPT ![t] = e]
       /\ revoked' = revoked \cup {t}
       /\ UNCHANGED <<faults, lost>>
    \/ /\ mode = "full" /\ ttl = 0
       /\ UNCHANGED <<until, revoked, faults, lost>>
    \/ /\ Fault
       /\ lost' = lost \cup {t[2]}
       /\ UNCHANGED <<until, revoked>>

\* What is recorded about a token that passes the blacklist check.
Accept(t) ==
    defied' = IF t \in revoked /\ clock < HoldsUntil(t) THEN defied \cup {t} ELSE defied

(***************************************************************************)
(* generate_tokens: two fresh jtis, both times from one reading.           *)
(***************************************************************************)
Sign(p) ==
    /\ p \notin issued
    /\ issued' = issued \cup {p}
    /\ iat' = [iat EXCEPT ![p] = clock]

Done(r) ==
    /\ pc' = [pc EXCEPT ![r] = "idle"]
    /\ old' = [old EXCEPT ![r] = None]
    /\ new' = [new EXCEPT ![r] = None]
    /\ now' = [now EXCEPT ![r] = 0]

(***************************************************************************)
(* login, register and the OAuth callback end with a fresh pair for a user *)
(* whose row they have read or written.                                    *)
(***************************************************************************)
Login(p) ==
    /\ issued = {}
    /\ Sign(p)
    /\ held' = held \cup {p}
    /\ UNCHANGED <<mode, clock, until, requests, faults, revoked, lost, traces>>

(***************************************************************************)
(* refresh: decode and blacklist check; look the user up, sign and revoke  *)
(* the old refresh token; revoke the old access token and answer.          *)
(***************************************************************************)
Rotating(p) == \E q \in Requests : old[q] = p /\ pc[q] = "checked"

Presented(r, p) ==
    /\ pc' = [pc EXCEPT ![r] = "checked"]
    /\ old' = [old EXCEPT ![r] = p]
    /\ overlap' = IF Rotating(p) THEN overlap \cup {p} ELSE overlap
    /\ late' = IF clock >= HoldsUntil(<<"refresh", p>>) THEN late \cup {p} ELSE late
    /\ Accept(<<"refresh", p>>)
    /\ UNCHANGED <<mode, clock, tokens, until, new, now,
                   revoked, lost, children>>

RefreshCheck(r, p) ==
    /\ pc[r] = "idle"
    /\ p \in held
    /\ Decodable(<<"refresh", p>>)
    /\ ~Listed(<<"refresh", p>>)
    /\ Presented(r, p)
    /\ UNCHANGED faults

\* The user's row is gone.
RefreshNoUser(r) ==
    /\ pc[r] = "checked"
    /\ Done(r)
    /\ UNCHANGED <<mode, clock, tokens, until, faults, revoked, lost, traces>>

\* Mutant: the handler forgets the pair it has signed.
ExchangeForgets(r, p) ==
    /\ pc[r] = "checked"
    /\ Sign(p)
    /\ pc' = [pc EXCEPT ![r] = "rotated"]
    /\ now' = [now EXCEPT ![r] = clock]
    /\ children' = [children EXCEPT ![old[r]] = @ + 1]
    /\ UNCHANGED <<mode, clock, held, old, new, overlap, late, defied>>

Exchange(r, p) ==
    /\ pc[r] = "checked"
    /\ Sign(p)
    /\ pc' = [pc EXCEPT ![r] = "rotated"]
    /\ new' = [new EXCEPT ![r] = p]
    /\ now' = [now EXCEPT ![r] = clock]
    /\ children' = [children EXCEPT ![old[r]] = @ + 1]
    /\ UNCHANGED <<mode, clock, held, old, overlap, late, defied>>

\* Mutant: the wrong jti is revoked.
RefreshRevokeAccess(r, p) ==
    /\ Exchange(r, p)
    /\ Revoke(<<"access", old[r]>>, Minus(Exp(<<"refresh", old[r]>>), clock))

\* Sign the new pair and revoke the old refresh token.
RefreshRevoke(r, p) ==
    /\ Exchange(r, p)
    /\ Revoke(<<"refresh", old[r]>>, Minus(Exp(<<"refresh", old[r]>>), clock))

\* Revoke the old access token, if it has time left, and answer.
RefreshAnswer(r) ==
    /\ pc[r] = "rotated"
    /\ LET t == <<"access", old[r]>>
           ttl == Minus(Exp(t), now[r])
       IN  IF ttl > 0 THEN Revoke(t, ttl)
           ELSE UNCHANGED <<until, revoked, faults, lost>>
    /\ held' = held \cup {new[r]}
    /\ Done(r)
    /\ UNCHANGED <<mode, clock, issued, iat, traces>>

\* A statement fails, or the client goes away and the handler is dropped.
RequestStops(r) ==
    /\ pc[r] # "idle"
    /\ Fault
    /\ Done(r)
    /\ lost' = IF pc[r] = "rotated" THEN lost \cup {old[r]} ELSE lost
    /\ UNCHANGED <<mode, clock, tokens, until, revoked, traces>>

(***************************************************************************)
(* logout decodes the access token without looking at its expiry and       *)
(* revokes it if it has time left.  The refresh token is not touched.      *)
(***************************************************************************)
Logout(p) ==
    LET t == <<"access", p>> IN
    /\ p \in held
    /\ Exp(t) > clock
    /\ Revoke(t, Minus(Exp(t), clock))
    /\ UNCHANGED <<mode, clock, tokens, requests, traces>>

(***************************************************************************)
(* require_auth: the token decodes and is not listed; whose row it is, or  *)
(* whether there is one, does not matter.  It accepts either kind of token *)
(* because a refresh token's claims include those of an access token.      *)
(***************************************************************************)
Authenticate(t) ==
    /\ t[2] \in held
    /\ Decodable(t)
    /\ ~Listed(t)
    /\ Accept(t)
    /\ UNCHANGED <<mode, clock, tokens, until, requests, faults, revoked,
                   lost, children, overlap, late>>

\* Mutant: a failed check counts as "not revoked".
CheckFailsOpen(t) ==
    /\ t[2] \in held
    /\ Decodable(t)
    /\ Fault
    /\ Accept(t)
    /\ UNCHANGED <<mode, clock, tokens, until, requests, revoked,
                   lost, children, overlap, late>>

\* The blacklist cannot be read: unwrap_or(true) refuses the request.
CheckFails(t) ==
    /\ t[2] \in held
    /\ Decodable(t)
    /\ Fault
    /\ UNCHANGED <<mode, clock, tokens, until, requests, revoked,
                   lost, traces>>

Tick ==
    /\ clock < MaxClock
    /\ clock' = clock + 1
    /\ UNCHANGED <<mode, tokens, until, requests, faults, revoked, lost, traces>>

RequestStep(r) ==
    \/ RefreshNoUser(r) \/ RefreshAnswer(r) \/ RequestStops(r)
    \/ \E p \in Pairs : RefreshCheck(r, p) \/ RefreshRevoke(r, p)

Next ==
    \/ \E r \in Requests : RequestStep(r)
    \/ \E p \in Pairs : Login(p) \/ Logout(p)
    \/ \E t \in Tokens : Authenticate(t) \/ CheckFails(t)
    \/ Tick

Spec == Init /\ [][Next]_vars

(***************************************************************************)
(* Properties                                                              *)
(***************************************************************************)
\* Every variable has its type; the client holds signed pairs, and a refresh
\* past its blacklist check presents one of them.
TypeOK ==
    /\ mode \in {"full", "lite"}
    /\ clock \in 0 .. MaxClock
    /\ issued \subseteq Pairs /\ held \subseteq issued
    /\ iat \in [Pairs -> 0 .. MaxClock]
    /\ until \in [Tokens -> Nat]
    /\ pc \in [Requests -> {"idle", "checked", "rotated"}]
    /\ old \in [Requests -> Pairs \cup {None}]
    /\ new \in [Requests -> Pairs \cup {None}]
    /\ now \in [Requests -> 0 .. MaxClock]
    /\ faults \in 0 .. MaxFaults
    /\ revoked \subseteq Tokens /\ defied \subseteq Tokens
    /\ children \in [Pairs -> Nat]
    /\ overlap \subseteq Pairs /\ lost \subseteq Pairs /\ late \subseteq Pairs
    /\ \A r \in Requests : pc[r] # "idle" => old[r] \in held

\* A token whose revocation was stored is refused until it expires, or until the
\* minute it expires in where SQLite keeps the blacklist, by require_auth and by
\* refresh, whichever of rotation and logout revoked it, in whatever order.
RevokedRefused == defied = {}

\* A refresh token is accepted for one exchange, unless two refreshes overlap
\* between check and revocation, the revocation is not stored, or the token is
\* presented when its blacklist entry may have lapsed but it still decodes.
RotationOnce ==
    \A p \in Pairs :
        children[p] + Cardinality({r \in Requests : pc[r] = "checked" /\ old[r] = p}) > 1
            => p \in overlap \cup lost \cup late
=============================================================================
