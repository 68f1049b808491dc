------------------------------ MODULE Accounts ------------------------------
(***************************************************************************)
(* Who may have an account and who is an administrator: register of        *)
(* pichost-api/src/routes/auth.rs with the two invite stores (Redis hashes *)
(* in the full deployment, the table invite_codes in the lite one), and    *)
(* create_invite, update_user and delete_user of routes/admin.rs.          *)
(*                                                                         *)
(* Of a user's row only the role is kept, and that a username is taken is  *)
(* a possible outcome of the INSERT once there are users.  An              *)
(* administrator's request is authorised by the is_admin claim of a token, *)
(* which says what the row said when the token was issued: whoever was an  *)
(* administrator may still have one.  That a token ends only takes steps   *)
(* away (module Sessions has the tokens).  A refused request changes no    *)
(* state.                                                                  *)
(***************************************************************************)
EXTENDS Naturals, FiniteSets

CONSTANTS
    Users,        \* ids of users
    Codes,        \* invite codes
    Requests,     \* requests running at once
    None,         \* no user, no code
    MaxFaults     \* bound: failed calls and abandoned requests together

ASSUME AccountBounds == MaxFaults \in Nat

ASSUME AccountNames == None \notin Users /\ None \notin Codes

Roles == {"user", "admin"}

VARIABLES
    mode,         \* deployment: "full" or "lite"
    role,         \* table users: "none" before the row exists, "deleted" after
    invite,       \* "none", "open", "used" or, expired, "gone"
    claims,       \* users who may have a token that says is_admin
    \* requests
    pc,           \* the awaited call a request has reached
    who,          \* the user it updates or deletes
    code,         \* the invite it registers with
    val,          \* the role it will write
    by,           \* the administrator who sent it
    faults,
    \* history, read by no action
    admitted,     \* users registered with a code
    founders,     \* users registered as the first one
    shared,       \* codes verified for two registrations at once
    kept,         \* codes not marked after a registration
    blank,        \* codes that expired between EXISTS and HGETALL
    contested,    \* two registrations at once found no user
    usurped       \* an update or a delete of someone without the role

table    == <<role, invite, claims>>
requests == <<pc, who, code, val, by>>
hist     == <<admitted, founders, shared, kept, blank, contested, usurped>>
vars     == <<mode, table, requests, faults, hist>>

Init ==
    /\ mode \in {"full", "lite"}
    /\ role = [u \in Users |-> "none"]
    /\ invite = [c \in Codes |-> "none"]
    /\ claims = {}
    /\ pc = [r \in Requests |-> "idle"]
    /\ who = [r \in Requests |-> None]
    /\ code = [r \in Requests |-> None]
    /\ val = [r \in Requests |-> "user"]
    /\ by = [r \in Requests |-> None]
    /\ faults = 0
    /\ admitted = [c \in Codes |-> {}]
    /\ founders = {} /\ shared = {} /\ kept = {} /\ blank = {}
    /\ contested = FALSE /\ usurped = FALSE

Exists(u) == role[u] \in Roles
IsAdmin(u) == role[u] = "admin"

Fault == faults < MaxFaults /\ faults' = faults + 1

To(r, l) == pc' = [pc EXCEPT ![r] = l]

Done(r) ==
    /\ To(r, "idle")
    /\ who' = [who EXCEPT ![r] = None]
    /\ code' = [code EXCEPT ![r] = None]
    /\ val' = [val EXCEPT ![r] = "user"]
    /\ by' = [by EXCEPT ![r] = None]

(***************************************************************************)
(* register: count the users; unless there are none, verify the invite;    *)
(* insert the row; unless it is the first, mark the invite as used.        *)
(***************************************************************************)
\* Mutant: a registration without a code is not refused.
CountUsersNoCode(r, c) ==
    LET first == \A x \in Users : ~Exists(x) IN
    /\ pc[r] = "idle"
    /\ To(r, IF first THEN "insert" ELSE "verify")
    /\ val' = [val EXCEPT ![r] = IF first THEN "admin" ELSE "user"]
    /\ contested' = \/ contested
                    \/ first /\ (\E q \in Requests : pc[q] = "insert" /\ val[q] = "admin")
    /\ UNCHANGED <<mode, table, who, code, by, faults, admitted, founders, shared, kept, blank,
                   usurped>>

CountUsers(r, c) ==
    LET first == \A x \in Users : ~Exists(x) IN
    /\ pc[r] = "idle"
    /\ To(r, IF first THEN "insert" ELSE "verify")
    /\ code' = [code EXCEPT ![r] = c]
    /\ val' = [val EXCEPT ![r] = IF first THEN "admin" ELSE "user"]
    /\ contested' = \/ contested
                    \/ first /\ (\E q \in Requests : pc[q] = "insert" /\ val[q] = "admin")
    /\ UNCHANGED <<mode, table, who, by, faults, admitted, founders, shared, kept, blank,
                   usurped>>

\* Registrations between a positive answer about c and the mark.
Using(c) == {q \in Requests : code[q] = c /\ val[q] = "user"
                                /\ pc[q] \in {"insert", "consume", "mark"}}

Verified(r) ==
    /\ To(r, "insert")
    /\ shared' = IF Using(code[r]) # {} THEN shared \cup {code[r]} ELSE shared

\* RedisInviteStore: EXISTS, ...
VerifyExists(r) ==
    /\ mode = "full"
    /\ pc[r] = "verify"
    /\ invite[code[r]] \in {"open", "used"}
    /\ To(r, "fields")
    /\ UNCHANGED <<mode, table, who, code, val, by, faults, hist>>

\* ... then HGETALL.  A hash that has just expired has no used_by and passes.
VerifyFields(r) ==
    /\ pc[r] = "fields"
    /\ invite[code[r]] # "used"
    /\ Verified(r)
    /\ blank' = IF invite[code[r]] = "gone" THEN blank \cup {code[r]} ELSE blank
    /\ UNCHANGED <<mode, table, who, code, val, by, faults, admitted, founders, kept,
                   contested, usurped>>

\* SqliteInviteStore: one SELECT.
VerifyRow(r) ==
    /\ mode = "lite"
    /\ pc[r] = "verify"
    /\ invite[code[r]] = "open"
    /\ Verified(r)
    /\ UNCHANGED <<mode, table, who, code, val, by, faults, admitted, founders, kept,
                   blank, contested, usurped>>

VerifyRefused(r) ==
    /\ \/ mode = "full" /\ pc[r] = "verify" /\ invite[code[r]] \in {"none", "gone"}
       \/ mode = "full" /\ pc[r] = "fields" /\ invite[code[r]] = "used"
       \/ mode = "lite" /\ pc[r] = "verify" /\ invite[code[r]] # "open"
    /\ Done(r)
    /\ UNCHANGED <<mode, table, faults, hist>>

\* The INSERT; the first user is an administrator.
InsertUser(r, u) ==
    /\ pc[r] = "insert"
    /\ role[u] = "none"
    /\ role' = [role EXCEPT ![u] = val[r]]
    /\ IF val[r] = "admin"
       THEN /\ founders' = founders \cup {u}
            /\ claims' = claims \cup {u}
            /\ Done(r)
            /\ UNCHANGED admitted
       ELSE /\ admitted' = [admitted EXCEPT ![code[r]] = @ \cup {u}]
            /\ To(r, "consume")
            /\ UNCHANGED <<founders, claims, who, code, val, by>>
    /\ UNCHANGED <<mode, invite, faults, shared, kept, blank, contested, usurped>>

\* The username is taken: 409.
InsertConflict(r) ==
    /\ pc[r] = "insert"
    /\ \E u \in Users : Exists(u)
    /\ Done(r)
    /\ UNCHANGED <<mode, table, faults, hist>>

\* Mutant: WHERE code = ? AND used_by IS NOT NULL.
ConsumeRowInverted(r) ==
    /\ mode = "lite"
    /\ pc[r] = "consume"
    /\ Done(r)
    /\ UNCHANGED <<mode, table, faults, hist>>

\* SqliteInviteStore::consume: expired codes are marked too, used ones are not.
ConsumeRow(r) ==
    /\ mode = "lite"
    /\ pc[r] = "consume"
    /\ invite' = [invite EXCEPT ![code[r]] = "used"]
    /\ Done(r)
    /\ UNCHANGED <<mode, role, claims, faults, hist>>

\* RedisInviteStore::consume: EXISTS, ...
ConsumeExists(r) ==
    /\ mode = "full"
    /\ pc[r] = "consume"
    /\ invite[code[r]] \in {"open", "used"}
    /\ To(r, "mark")
    /\ UNCHANGED <<mode, table, who, code, val, by, faults, hist>>

ConsumeMissing(r) ==
    /\ mode = "full"
    /\ pc[r] = "consume"
    /\ invite[code[r]] \notin {"open", "used"}
    /\ Done(r)
    /\ UNCHANGED <<mode, table, faults, hist>>

\* ... then HSET, which overwrites an earlier mark and brings back a hash that
\* has just expired.
ConsumeMark(r) ==
    /\ pc[r] = "mark"
    /\ invite' = [invite EXCEPT ![code[r]] = "used"]
    /\ Done(r)
    /\ UNCHANGED <<mode, role, claims, faults, hist>>

(***************************************************************************)
(* Invites are created by administrators and expire.                       *)
(***************************************************************************)
CreateInvite(a, c) ==
    /\ a \in claims
    /\ invite[c] = "none"
    /\ invite' = [invite EXCEPT ![c] = "open"]
    /\ UNCHANGED <<mode, role, claims, requests, faults, hist>>

\* Redis drops the hash, used or not; a row of SQLite remembers its user.
Expire(c) ==
    /\ invite[c] = "open" \/ (mode = "full" /\ invite[c] = "used")
    /\ invite' = [invite EXCEPT ![c] = "gone"]
    /\ UNCHANGED <<mode, role, claims, requests, faults, hist>>

(***************************************************************************)
(* update_user: refuse self-demotion, fetch the row, merge, write it all.  *)
(***************************************************************************)
\* The request of administrator a reaches user u's row.
Reach(r, a, u, l) ==
    /\ pc[r] = "idle"
    /\ a \in claims
    /\ Exists(u)
    /\ To(r, l)
    /\ who' = [who EXCEPT ![r] = u]
    /\ by' = [by EXCEPT ![r] = a]
    /\ usurped' = (usurped \/ ~IsAdmin(a))
    /\ UNCHANGED <<mode, table, code, faults, admitted, founders, shared, kept, blank,
                   contested>>

\* A body without is_admin: the fetched value is written back.
FetchKeep(r, a, u) ==
    /\ Reach(r, a, u, "update")
    /\ val' = [val EXCEPT ![r] = role[u]]

\* Mutant: an administrator may take the role from herself.
FetchSelf(r, a, u, w) ==
    /\ Reach(r, a, u, "update")
    /\ val' = [val EXCEPT ![r] = w]

\* A body with is_admin.
FetchGive(r, a, u, w) ==
    /\ ~(w = "user" /\ u = a)
    /\ Reach(r, a, u, "update")
    /\ val' = [val EXCEPT ![r] = w]

WriteUser(r) ==
    LET u == who[r] IN
    /\ pc[r] = "update"
    /\ role' = [role EXCEPT ![u] = IF Exists(u) THEN val[r] ELSE @]
    /\ usurped' = (usurped \/ ~IsAdmin(by[r]))
    /\ claims' = IF role'[u] = "admin" THEN claims \cup {u} ELSE claims
    /\ Done(r)
    /\ UNCHANGED <<mode, invite, faults, admitted, founders, shared, kept, blank, contested>>

(***************************************************************************)
(* delete_user: refuse self-deletion, verify the user exists, delete the   *)
(* files and rows of the images (module ImageStore), then the user's row.  *)
(***************************************************************************)
\* Mutant: an administrator may delete herself.
DeleteStartSelf(r, a, u) ==
    /\ Reach(r, a, u, "delete")
    /\ UNCHANGED val

DeleteStart(r, a, u) ==
    /\ u # a
    /\ Reach(r, a, u, "delete")
    /\ UNCHANGED val

DeleteUser(r) ==
    /\ pc[r] = "delete"
    /\ role' = [role EXCEPT ![who[r]] = "deleted"]
    /\ usurped' = (usurped \/ ~IsAdmin(by[r]))
    /\ Done(r)
    /\ UNCHANGED <<mode, invite, claims, faults, admitted, founders, shared, kept, blank,
                   contested>>

\* A call fails or the client goes away.  Only consume has its error ignored; the
\* registration then still succeeds.
RequestStops(r) ==
    /\ pc[r] # "idle"
    /\ Fault
    /\ kept' = IF pc[r] \in {"consume", "mark"} THEN kept \cup {code[r]} ELSE kept
    /\ Done(r)
    /\ UNCHANGED <<mode, table, admitted, founders, shared, blank, contested, usurped>>

RegisterStep(r) ==
    \/ VerifyExists(r) \/ VerifyFields(r) \/ VerifyRow(r) \/ VerifyRefused(r)
    \/ InsertConflict(r) \/ \E u \in Users : InsertUser(r, u)
    \/ ConsumeRow(r) \/ ConsumeExists(r) \/ ConsumeMissing(r) \/ ConsumeMark(r)

AdminRequest(r, a, u) ==
    \/ FetchKeep(r, a, u) \/ DeleteStart(r, a, u)
    \/ \E w \in Roles : FetchGive(r, a, u, w)

Next ==
    \/ \E r \in Requests :
          \/ RegisterStep(r) \/ WriteUser(r) \/ DeleteUser(r) \/ RequestStops(r)
          \/ \E c \in Codes : CountUsers(r, c)
          \/ \E a, u \in Users : AdminRequest(r, a, u)
    \/ \E a \in Users, c \in Codes : CreateInvite(a, c)
    \/ \E c \in Codes : Expire(c)

Spec == Init /\ [][Next]_vars

(***************************************************************************)
(* Properties                                                              *)
(***************************************************************************)
\* Every variable has its type, a registration has a code, and an
\* administrator's request a sender and a user it is about.
TypeOK ==
    /\ mode \in {"full", "lite"}
    /\ role \in [Users -> Roles \cup {"none", "deleted"}]
    /\ invite \in [Codes -> {"none", "open", "used", "gone"}]
    /\ claims \subseteq Users
    /\ pc \in [Requests -> {"idle", "verify", "fields", "insert", "consume", "mark",
                            "update", "delete"}]
    /\ who \in [Requests -> Users \cup {None}]
    /\ code \in [Requests -> Codes \cup {None}]
    /\ val \in [Requests -> Roles]
    /\ by \in [Requests -> Users \cup {None}]
    /\ faults \in 0 .. MaxFaults
    /\ admitted \in [Codes -> SUBSET Users]
    /\ founders \subseteq Users
    /\ shared \subseteq Codes /\ kept \subseteq Codes /\ blank \subseteq Codes
    /\ contested \in BOOLEAN /\ usurped \in BOOLEAN
    /\ \A r \in Requests :
          /\ pc[r] \in {"verify", "fields", "insert", "consume", "mark"} => code[r] \in Codes
          /\ pc[r] \in {"update", "delete"} => who[r] \in Users /\ by[r] \in Users

\* An invite admits one user, unless two registrations verified it before one of
\* them marked it, the mark failed, or the Redis hash expired inside the check.
InviteAdmitsOne ==
    \A c \in Codes : Cardinality(admitted[c]) > 1 => c \in shared \cup kept \cup blank

\* One user becomes administrator without an invite, unless two registrations
\* counted the users at once or an administrator acted on an outdated token (which
\* is the only way for the table to become empty again).
OneFounder == Cardinality(founders) > 1 => contested \/ usurped

\* While there are users there is an administrator, though administrators may
\* demote and delete each other at the same time, unless one of them was no
\* administrator any more when her request read or wrote the row.
AdminRemains == (\E u \in Users : Exists(u)) => (\E u \in Users : IsAdmin(u)) \/ usurped
=============================================================================
