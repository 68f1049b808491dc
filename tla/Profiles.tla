------------------------------ MODULE Profiles ------------------------------
(***************************************************************************)
(* A user's row and who may sign in to it: profile and password            *)
(* (pichost-api/src/routes/users.rs), the administrator's edit of the same *)
(* row (routes/admin.rs) and the accounts at OAuth providers linked to it  *)
(* (routes/oauth.rs).                                                      *)
(*                                                                         *)
(* A row has columns, some of them UNIQUE; a request's body gives some of  *)
(* them.  is_admin and how users come into being are module Accounts.  An  *)
(* account is a provider and the id its userinfo answer holds; an answer   *)
(* without one yields the id Zero, whoever asked.                          *)
(***************************************************************************)
EXTENDS Naturals, FiniteSets

CONSTANTS
    Users,
    Cols,         \* columns of users that both kinds of edit write
    UniqueCols,   \* username, email
    ColValues,    \* what columns hold
    Domain,       \* Domain[k]: what column k can be given
    Absent,       \* NULL; a column that a body does not give
    First,        \* First[k]: the value of a user's column at first
    Passwords,
    Accounts,     \* accounts at providers
    Zero,         \* the id "0"
    Callers,
    Scopes,       \* bound: the kinds of requests that occur together in a behaviour
    MaxBlanks     \* bound: userinfo answers without an id

Kinds == {"profile", "password", "admin", "callback"}

ASSUME ProfileBounds == MaxBlanks \in Nat /\ Scopes \subseteq SUBSET Kinds

ASSUME ColumnNames ==
    /\ UniqueCols \subseteq Cols /\ Absent \notin ColValues \cup Passwords \cup Users
    /\ Zero \notin Accounts
    /\ Domain \in [Cols -> SUBSET ColValues]
    /\ First \in [Users \X Cols -> ColValues \cup {Absent}]

VARIABLES
    scope,        \* the kinds of requests of this behaviour
    alive,        \* the users there are
    val,          \* val[<<u, k>>]: column k of user u
    pass,         \* password_hash
    link,         \* oauth_accounts: the user of an account id
    phase, target, columns, secret, noted,
    known,        \* the password a request has verified
    blanks,
    \* history, read by no action
    fresh,        \* columns of its target written since a request has read them
    swapped,      \* requests whose target's password was written since then
    guess,        \* a change replaced a password it had not verified
    owner,        \* who linked an account, at the provider's end
    mixed,        \* account ids under which answers without an id were used
    wrong         \* a login ended at a user who had not linked the account

rows == <<scope, alive, val, pass, link>>
callers == <<phase, target, columns, secret, noted, known>>
profileHist == <<fresh, swapped, guess, owner, mixed, wrong>>
profileVars     == <<rows, callers, blanks, profileHist>>

Ids == Accounts \cup {Zero}
Edits ==
    {b \in [Cols -> ColValues \cup {Absent}] :
        \A k \in Cols : b[k] \in Domain[k] \cup {Absent}}
NoColumns == [k \in Cols |-> Absent]
GivenBy(b) == {k \in Cols : b[k] # Absent}

ProfilesInit ==
    /\ scope \in Scopes
    /\ alive = Users
    /\ val = First
    /\ pass \in {[u \in Users |-> p] : p \in Passwords}
    /\ link = [x \in Ids |-> Absent]
    /\ phase = [r \in Callers |-> "idle"]
    /\ target = [r \in Callers |-> Absent]
    /\ columns = [r \in Callers |-> NoColumns]
    /\ secret = [r \in Callers |-> Absent]
    /\ noted = [r \in Callers |-> Absent]
    /\ blanks = 0
    /\ fresh = [r \in Callers |-> {}]
    /\ known = [r \in Callers |-> Absent]
    /\ swapped = {} /\ guess = FALSE
    /\ owner = [x \in Accounts |-> {}]
    /\ mixed = {} /\ wrong = FALSE

BeginCall(r, l, u) ==
    /\ phase[r] = "idle" /\ l \in scope
    /\ phase' = [phase EXCEPT ![r] = l]
    /\ target' = [target EXCEPT ![r] = u]

EndCall(r) ==
    /\ phase' = [phase EXCEPT ![r] = "idle"]
    /\ target' = [target EXCEPT ![r] = Absent]
    /\ columns' = [columns EXCEPT ![r] = NoColumns]
    /\ secret' = [secret EXCEPT ![r] = Absent]
    /\ noted' = [noted EXCEPT ![r] = Absent]
    /\ known' = [known EXCEPT ![r] = Absent]

\* No other user has what b gives for a UNIQUE column.
Available(u, b) ==
    \A k \in UniqueCols \cap GivenBy(b), v \in alive \ {u} : val[<<v, k>>] # b[k]

\* Columns ks of the target of r get another value.
Gives(r, ks) ==
    fresh' = [q \in Callers |-> IF q = r THEN {}
                                ELSE IF phase[q] = "admin" /\ target[q] = target[r]
                                THEN fresh[q] \cup ks ELSE fresh[q]]

(***************************************************************************)
(* update_my_profile: are username and email available, then one UPDATE    *)
(* that leaves alone what the body does not give.                          *)
(***************************************************************************)
\* ensure_username_available and ensure_email_available, in one step.
UpdateCheck(r, u, b) ==
    /\ GivenBy(b) # {} /\ Available(u, b)
    /\ BeginCall(r, "profile", u)
    /\ columns' = [columns EXCEPT ![r] = b]
    /\ UNCHANGED <<rows, secret, noted, known, blanks, profileHist>>

\* Mutant: columns that are not given are reset.
ApplyResets(r) ==
    LET u == target[r]
        b == columns[r]
    IN
    /\ phase[r] = "profile"
    /\ IF u \in alive /\ Available(u, b)
       THEN /\ val' = [x \in Users \X Cols |-> IF x[1] = u THEN b[x[2]] ELSE val[x]]
            /\ Gives(r, GivenBy(b))
       ELSE UNCHANGED <<val, fresh>>
    /\ EndCall(r)
    /\ UNCHANGED <<scope, alive, pass, link, blanks, known, swapped, guess, owner, mixed, wrong>>

\* apply_profile_update; a UNIQUE constraint may refuse it still: 409.
Apply(r) ==
    LET u == target[r]
        b == columns[r]
    IN
    /\ phase[r] = "profile"
    /\ IF u \in alive /\ Available(u, b)
       THEN /\ val' = [x \in Users \X Cols |->
                          IF x[1] = u /\ b[x[2]] # Absent THEN b[x[2]] ELSE val[x]]
            /\ Gives(r, GivenBy(b))
       ELSE UNCHANGED <<val, fresh>>
    /\ EndCall(r)
    /\ UNCHANGED <<scope, alive, pass, link, blanks, known, swapped, guess, owner, mixed, wrong>>

(***************************************************************************)
(* change_my_password: the hash is read and verified, then overwritten.    *)
(***************************************************************************)
\* fetch_password_hash, verify_current_password.
PasswordFetch(r, u, p, q) ==
    /\ u \in alive /\ pass[u] = p
    /\ BeginCall(r, "password", u)
    /\ secret' = [secret EXCEPT ![r] = q]
    /\ known' = [known EXCEPT ![r] = p]
    /\ UNCHANGED <<rows, columns, noted, blanks, fresh, swapped, guess, owner, mixed, wrong>>

\* The requests that have verified the password of u, which is now another one.
Others(r, u) == {q \in Callers \ {r} : phase[q] = "password" /\ target[q] = u}

\* update_password_hash.
PasswordWrite(r) ==
    LET u == target[r] IN
    /\ phase[r] = "password"
    /\ pass' = IF u \in alive THEN [pass EXCEPT ![u] = secret[r]] ELSE pass
    /\ guess' = (guess \/ (u \in alive /\ pass[u] # known[r] /\ r \notin swapped))
    /\ swapped' = (swapped \cup Others(r, u)) \ {r}
    /\ EndCall(r)
    /\ UNCHANGED <<scope, alive, val, link, blanks, fresh, owner, mixed, wrong>>

(***************************************************************************)
(* update_user: an administrator's edit reads the row, merges the body     *)
(* into it and writes every column back.                                   *)
(***************************************************************************)
AdminFetch(r, u, b, p) ==
    /\ u \in alive
    /\ BeginCall(r, "admin", u)
    /\ columns' = [columns EXCEPT ![r] =
                      [k \in Cols |-> IF b[k] = Absent THEN val[<<u, k>>] ELSE b[k]]]
    /\ noted' = [noted EXCEPT ![r] = GivenBy(b)]
    /\ secret' = [secret EXCEPT ![r] = p]
    /\ UNCHANGED <<rows, known, blanks, fresh, swapped, guess, owner, mixed, wrong>>

\* execute_user_update; 500 if a UNIQUE constraint refuses it.
AdminWrite(r) ==
    LET u == target[r]
        b == columns[r]
    IN
    /\ phase[r] = "admin"
    /\ IF u \in alive /\ Available(u, b)
       THEN /\ val' = [x \in Users \X Cols |-> IF x[1] = u THEN b[x[2]] ELSE val[x]]
            /\ pass' = IF secret[r] = Absent THEN pass ELSE [pass EXCEPT ![u] = secret[r]]
            /\ swapped' = IF secret[r] = Absent THEN swapped ELSE swapped \cup Others(r, u)
            /\ Gives(r, noted[r] \cup fresh[r])
       ELSE /\ fresh' = [fresh EXCEPT ![r] = {}]
            /\ UNCHANGED <<val, pass, swapped>>
    /\ EndCall(r)
    /\ UNCHANGED <<scope, alive, link, blanks, known, guess, owner, mixed, wrong>>

\* delete_user_from_db: linked accounts go with the row.
DeleteUser(u) ==
    /\ u \in alive
    /\ alive' = alive \ {u}
    /\ link' = [x \in Ids |-> IF link[x] = u THEN Absent ELSE link[x]]
    /\ UNCHANGED <<scope, val, pass, callers, blanks, profileHist>>

(***************************************************************************)
(* OAuth                                                                   *)
(***************************************************************************)
\* oauth_exchange_and_fetch_user: the id in the userinfo answer, Zero if there is none.
UserInfo(x, id) ==
    \/ id = x /\ UNCHANGED <<blanks, mixed>>
    \/ id = Zero /\ blanks < MaxBlanks /\ blanks' = blanks + 1 /\ mixed' = mixed \cup {Zero}

\* oauth_link: INSERT ... ON CONFLICT DO NOTHING; the answer is the same either way.
Link(u, x, id) ==
    /\ "callback" \in scope
    /\ u \in alive
    /\ UserInfo(x, id)
    /\ link' = IF link[id] = Absent THEN [link EXCEPT ![id] = u] ELSE link
    /\ owner' = [owner EXCEPT ![x] = @ \cup {u}]
    /\ UNCHANGED <<scope, alive, val, pass, callers, fresh, swapped, guess, wrong>>

\* Mutant: any account of the provider will do.
CallbackFindAny(r, x, id) ==
    /\ UserInfo(x, id)
    /\ \E y \in Ids : link[y] # Absent /\ BeginCall(r, "callback", link[y])
    /\ noted' = [noted EXCEPT ![r] = x]
    /\ UNCHANGED <<rows, columns, secret, known, fresh, swapped, guess, owner, wrong>>

\* oauth_callback: lookup_oauth_user finds the account's row.
CallbackFind(r, x, id) ==
    /\ UserInfo(x, id)
    /\ link[id] # Absent
    /\ BeginCall(r, "callback", link[id])
    /\ noted' = [noted EXCEPT ![r] = x]
    /\ UNCHANGED <<rows, columns, secret, known, fresh, swapped, guess, owner, wrong>>

\* ... and the user's, and the tokens are signed.
CallbackUser(r) ==
    /\ phase[r] = "callback"
    /\ wrong' = (wrong \/ (target[r] \in alive /\ target[r] \notin owner[noted[r]]))
    /\ EndCall(r)
    /\ UNCHANGED <<rows, blanks, fresh, swapped, guess, owner, mixed>>

\* Bound: an administrator edits what the other requests of the behaviour edit.
AdminBodies == IF "profile" \in scope THEN Edits ELSE {NoColumns}
AdminPasswords == IF "password" \in scope THEN Passwords \cup {Absent} ELSE {Absent}

ProfilesNext ==
    \/ \E r \in Callers :
          \/ Apply(r) \/ PasswordWrite(r) \/ AdminWrite(r) \/ CallbackUser(r)
          \/ \E u \in Users :
                \/ \E b \in Edits : UpdateCheck(r, u, b)
                \/ \E p, q \in Passwords : PasswordFetch(r, u, p, q)
                \/ \E b \in AdminBodies, p \in AdminPasswords : AdminFetch(r, u, b, p)
          \/ \E x \in Accounts, id \in Ids : CallbackFind(r, x, id)
    \/ \E u \in Users : DeleteUser(u)
    \/ \E u \in Users, x \in Accounts, id \in Ids : Link(u, x, id)

ProfilesSpec == ProfilesInit /\ [][ProfilesNext]_profileVars

(***************************************************************************)
(* Properties                                                              *)
(***************************************************************************)
\* Every variable has its type, and a linked account belongs to a user there is.
ProfilesTypeOK ==
    /\ scope \in Scopes
    /\ alive \subseteq Users
    /\ val \in [Users \X Cols -> ColValues \cup {Absent}]
    /\ pass \in [Users -> Passwords]
    /\ link \in [Ids -> Users \cup {Absent}]
    /\ phase \in [Callers -> Kinds \cup {"idle"}]
    /\ target \in [Callers -> Users \cup {Absent}]
    /\ columns \in [Callers -> [Cols -> ColValues \cup {Absent}]]
    /\ secret \in [Callers -> Passwords \cup {Absent}]
    /\ noted \in [Callers -> (SUBSET Cols) \cup Accounts \cup {Absent}]
    /\ known \in [Callers -> Passwords \cup {Absent}]
    /\ blanks \in 0 .. MaxBlanks
    /\ fresh \in [Callers -> SUBSET Cols] /\ swapped \subseteq Callers
    /\ owner \in [Accounts -> SUBSET Users]
    /\ \A x \in Ids : link[x] # Absent => link[x] \in alive

\* An edit changes a column only if its body gives it, or if it is an
\* administrator's edit that writes back what it had read before another edit;
\* an account stays with the user who linked it first, as long as the user exists.
OthersKept ==
    [][/\ \A u \in alive, k \in Cols : val'[<<u, k>>] # val[<<u, k>>] =>
             \E r \in Callers :
                /\ target[r] = u /\ phase'[r] = "idle"
                /\ \/ phase[r] = "profile" /\ k \in GivenBy(columns[r])
                   \/ phase[r] = "admin" /\ k \in noted[r] \cup fresh[r]
       /\ \A x \in Ids : link[x] # Absent /\ link[x] \in alive' => link'[x] = link[x]]_profileVars

\* Who may sign in to a row is decided by its user: a change replaces the password
\* it has verified, unless another write of the password came in between, and a
\* login ends at a user who linked the account, unless a userinfo answer without
\* an id was taken for the id of an account.
SignInKept == ~guess /\ (wrong => mixed # {})
=============================================================================
