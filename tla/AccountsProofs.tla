--------------------------- MODULE AccountsProofs ---------------------------
(***************************************************************************)
(* Proofs about Accounts, for any users, codes, requests and faults.       *)
(***************************************************************************)
EXTENDS Accounts, FiniteSetTheorems, TLAPS

Stages == {"idle", "verify", "fields", "insert", "consume", "mark", "update", "delete"}

LEMMA TypeInit == Init => TypeOK
  <1> SUFFICES ASSUME Init PROVE TypeOK
    OBVIOUS
  <1>1. admitted \in [Codes -> SUBSET Users] /\ faults \in 0 .. MaxFaults
    BY AccountBounds DEF Init
  <1>2. \A r \in Requests : pc[r] = "idle"
    BY DEF Init
  <1>3. /\ contested \in BOOLEAN /\ usurped \in BOOLEAN
        /\ claims \subseteq Users /\ founders \subseteq Users
        /\ shared \subseteq Codes /\ kept \subseteq Codes /\ blank \subseteq Codes
    BY DEF Init
  <1> QED BY <1>1, <1>2, <1>3 DEF Init, TypeOK, Roles

\* Ending a request keeps the types of its variables and every request's fields.
LEMMA DoneType ==
    ASSUME TypeOK, NEW r \in Requests, Done(r)
    PROVE  /\ pc' \in [Requests -> Stages]
           /\ who' \in [Requests -> Users \cup {None}]
           /\ code' \in [Requests -> Codes \cup {None}]
           /\ val' \in [Requests -> Roles]
           /\ by' \in [Requests -> Users \cup {None}]
           /\ \A q \in Requests :
                 /\ pc'[q] \in {"verify", "fields", "insert", "consume", "mark"} => code'[q] \in Codes
                 /\ pc'[q] \in {"update", "delete"} => who'[q] \in Users /\ by'[q] \in Users
  <1>1. pc' \in [Requests -> Stages] /\ val' \in [Requests -> Roles]
    BY DEF TypeOK, Done, To, Stages, Roles
  <1>2. /\ who' \in [Requests -> Users \cup {None}]
        /\ code' \in [Requests -> Codes \cup {None}]
        /\ by' \in [Requests -> Users \cup {None}]
    BY DEF TypeOK, Done
  <1>3. SUFFICES ASSUME NEW q \in Requests
        PROVE /\ pc'[q] \in {"verify", "fields", "insert", "consume", "mark"} => code'[q] \in Codes
              /\ pc'[q] \in {"update", "delete"} => who'[q] \in Users /\ by'[q] \in Users
    BY <1>1, <1>2
  <1>4. CASE q = r
    BY <1>4 DEF TypeOK, Done, To
  <1>5. CASE q # r
    BY <1>5 DEF TypeOK, Done, To
  <1> QED BY <1>4, <1>5

LEMMA TypeNext == TypeOK /\ [Next]_vars => TypeOK'
  <1> SUFFICES ASSUME TypeOK, [Next]_vars PROVE TypeOK'
    OBVIOUS
  <1>1. ASSUME NEW r \in Requests, NEW c \in Codes, CountUsers(r, c) PROVE TypeOK'
    BY <1>1 DEF CountUsers, TypeOK, To, table, Roles
  <1>2. ASSUME NEW r \in Requests, VerifyExists(r) PROVE TypeOK'
    BY <1>2 DEF VerifyExists, TypeOK, To, table, hist
  <1>3. ASSUME NEW r \in Requests, VerifyFields(r) PROVE TypeOK'
    BY <1>3 DEF VerifyFields, Verified, TypeOK, To, table
  <1>4. ASSUME NEW r \in Requests, VerifyRow(r) PROVE TypeOK'
    BY <1>4 DEF VerifyRow, Verified, TypeOK, To, table
  <1>5. ASSUME NEW r \in Requests, VerifyRefused(r) \/ InsertConflict(r) \/ ConsumeMissing(r)
        PROVE TypeOK'
    <2>1. Done(r) /\ UNCHANGED <<mode, table, faults, hist>>
      BY <1>5 DEF VerifyRefused, InsertConflict, ConsumeMissing
    <2> QED BY <2>1, DoneType DEF TypeOK, table, hist, Stages
  <1>6. ASSUME NEW r \in Requests, NEW u \in Users, InsertUser(r, u) PROVE TypeOK'
    <2>1. CASE val[r] = "admin"
      <3>1. Done(r)
        BY <1>6, <2>1 DEF InsertUser
      <3> QED BY <1>6, <2>1, <3>1, DoneType DEF InsertUser, TypeOK, Stages, Roles
    <2>2. CASE val[r] # "admin"
      BY <1>6, <2>2 DEF InsertUser, To, TypeOK, Roles
    <2> QED BY <2>1, <2>2
  <1>7. ASSUME NEW r \in Requests, ConsumeRow(r) \/ ConsumeMark(r) PROVE TypeOK'
    <2>1. /\ Done(r) /\ UNCHANGED <<mode, role, claims, faults, hist>>
          /\ invite' = [invite EXCEPT ![code[r]] = "used"]
      BY <1>7 DEF ConsumeRow, ConsumeMark
    <2> QED BY <2>1, DoneType DEF TypeOK, hist, Stages
  <1>8. ASSUME NEW r \in Requests, ConsumeExists(r) PROVE TypeOK'
    BY <1>8 DEF ConsumeExists, TypeOK, To, table, hist
  <1>9. ASSUME NEW c \in Codes, Expire(c) \/ \E a \in Users : CreateInvite(a, c) PROVE TypeOK'
    BY <1>9 DEF Expire, CreateInvite, TypeOK, requests, hist
  <1>10. ASSUME NEW r \in Requests, NEW a \in Users, NEW u \in Users, AdminRequest(r, a, u)
         PROVE TypeOK'
    <2>1. PICK l \in {"update", "delete"} : Reach(r, a, u, l)
      BY <1>10 DEF AdminRequest, FetchKeep, FetchGive, DeleteStart
    <2>2. val' \in [Requests -> Roles]
      BY <1>10, <2>1 DEF AdminRequest, FetchKeep, FetchGive, DeleteStart, Reach, TypeOK, Exists
    <2> QED BY <2>1, <2>2 DEF Reach, TypeOK, To, table
  <1>11. ASSUME NEW r \in Requests, WriteUser(r) PROVE TypeOK'
    <2>1. role' \in [Users -> Roles \cup {"none", "deleted"}]
      BY <1>11 DEF WriteUser, TypeOK
    <2>2. claims' \subseteq Users
      BY <1>11 DEF WriteUser, TypeOK
    <2>3. Done(r)
      BY <1>11 DEF WriteUser
    <2> QED BY <1>11, <2>1, <2>2, <2>3, DoneType DEF WriteUser, TypeOK, Stages
  <1>12. ASSUME NEW r \in Requests, DeleteUser(r) PROVE TypeOK'
    <2>1. Done(r)
      BY <1>12 DEF DeleteUser
    <2> QED BY <1>12, <2>1, DoneType DEF DeleteUser, TypeOK, Stages
  <1>13. ASSUME NEW r \in Requests, RequestStops(r) PROVE TypeOK'
    <2>1. Done(r)
      BY <1>13 DEF RequestStops
    <2>2. faults' \in 0 .. MaxFaults
      BY <1>13, AccountBounds DEF RequestStops, Fault, TypeOK
    <2>3. kept' \subseteq Codes
      BY <1>13 DEF RequestStops, TypeOK
    <2> QED BY <1>13, <2>1, <2>2, <2>3, DoneType DEF RequestStops, TypeOK, table, Stages
  <1>14. CASE UNCHANGED vars
    BY <1>14 DEF vars, table, requests, hist, TypeOK
  <1> QED BY <1>1, <1>2, <1>3, <1>4, <1>5, <1>6, <1>7, <1>8, <1>9, <1>10, <1>11, <1>12,
             <1>13, <1>14 DEF Next, RegisterStep

\* Every reachable state is well typed: a registration never looks up a missing
\* code, and an administrator's request always knows its sender and its user.
THEOREM TypeCorrect == Spec => []TypeOK
  BY TypeInit, TypeNext, PTL DEF Spec

(***************************************************************************)
(* AdminRemains.  A removal by somebody who is an administrator leaves her *)
(* unless it is her own, and her own role she can only lose by an update   *)
(* that writes back what it fetched when she was none.  A registration     *)
(* that was not the first must not be the first row with a role either:    *)
(* the table is never empty again without usurpation.                      *)
(***************************************************************************)
AdminEver == (\E u \in Users : role[u] # "none") => (\E u \in Users : IsAdmin(u)) \/ usurped

SelfSafe ==
    \A r \in Requests :
        /\ pc[r] = "update" /\ who[r] = by[r] /\ val[r] = "user" => usurped
        /\ pc[r] = "delete" => who[r] # by[r]

LaterSafe ==
    \A r \in Requests :
        pc[r] \in {"verify", "fields", "insert"} /\ val[r] = "user" =>
            \E u \in Users : role[u] # "none"

AdminInv == TypeOK /\ AdminEver /\ SelfSafe /\ LaterSafe

LEMMA AdminInit == Init => AdminInv
  BY TypeInit DEF Init, AdminInv, AdminEver, SelfSafe, LaterSafe

LEMMA AdminNext == AdminInv /\ [Next]_vars => AdminInv'
  <1> SUFFICES ASSUME AdminInv, [Next]_vars PROVE AdminInv'
    OBVIOUS
  <1> USE DEF AdminInv
  <1>0. TypeOK /\ TypeOK'
    BY TypeNext
  \* Steps that change neither rows nor the flag, and end or advance requests.
  <1>a. ASSUME role' = role, usurped' = usurped,
               \A r \in Requests :
                  /\ pc'[r] \in {"update", "delete"} =>
                       pc'[r] = pc[r] /\ who'[r] = who[r] /\ by'[r] = by[r] /\ val'[r] = val[r]
                  /\ pc'[r] \in {"verify", "fields", "insert"} =>
                       pc[r] \in {"verify", "fields", "insert"} /\ val'[r] = val[r]
        PROVE AdminInv'
    BY <1>0, <1>a DEF AdminEver, SelfSafe, LaterSafe, IsAdmin
  <1>b. ASSUME NEW r \in Requests, Done(r)
        PROVE \A q \in Requests :
                 /\ pc'[q] # "idle" => q # r
                 /\ q # r => /\ pc'[q] = pc[q] /\ who'[q] = who[q]
                             /\ by'[q] = by[q] /\ val'[q] = val[q]
    BY <1>0, <1>b DEF Done, To, TypeOK
  <1>1. ASSUME NEW r \in Requests, NEW c \in Codes, CountUsers(r, c) PROVE AdminInv'
    <2>1. AdminEver'
      BY <1>1 DEF CountUsers, table, AdminEver, IsAdmin
    <2>2. SelfSafe'
      BY <1>0, <1>1 DEF CountUsers, table, SelfSafe, To, TypeOK
    <2>3. LaterSafe'
      BY <1>0, <1>1 DEF CountUsers, table, LaterSafe, To, TypeOK, Exists, Roles
    <2> QED BY <1>0, <2>1, <2>2, <2>3
  <1>2. ASSUME NEW r \in Requests, VerifyExists(r) \/ VerifyFields(r) \/ VerifyRow(r) PROVE AdminInv'
    BY <1>0, <1>2, <1>a DEF VerifyExists, VerifyFields, VerifyRow, Verified, To, table, hist, TypeOK
  <1>3. ASSUME NEW r \in Requests, Done(r), role' = role, usurped' = usurped PROVE AdminInv'
    BY <1>3, <1>a, <1>b
  <1>4. ASSUME NEW r \in Requests, NEW u \in Users, InsertUser(r, u) PROVE AdminInv'
    <2>1. role'[u] = val[r] /\ \A x \in Users \ {u} : role'[x] = role[x]
      BY <1>0, <1>4 DEF InsertUser, TypeOK
    <2>2. AdminEver'
      <3>1. CASE val[r] = "admin"
        BY <2>1, <3>1 DEF AdminEver, IsAdmin
      <3>2. CASE val[r] = "user"
        <4>1. \E x \in Users : IsAdmin(x) \/ usurped
          BY <1>4, <3>2 DEF InsertUser, LaterSafe, AdminEver
        <4>2. \A x \in Users : IsAdmin(x) => x # u /\ IsAdmin(x)'
          BY <1>4, <2>1 DEF InsertUser, IsAdmin
        <4>3. usurped' = usurped
          BY <1>4 DEF InsertUser
        <4> QED BY <4>1, <4>2, <4>3 DEF AdminEver
      <3> QED BY <1>0, <3>1, <3>2 DEF TypeOK, Roles
    <2>3. LaterSafe'
      BY <1>0, <2>1 DEF LaterSafe, TypeOK, Roles
    <2>4. SelfSafe'
      <3>1. CASE val[r] = "admin"
        <4>1. Done(r) /\ usurped' = usurped
          BY <1>4, <3>1 DEF InsertUser
        <4> QED BY <4>1, <1>b DEF SelfSafe
      <3>2. CASE val[r] # "admin"
        BY <1>0, <1>4, <3>2 DEF InsertUser, SelfSafe, To, TypeOK
      <3> QED BY <3>1, <3>2
    <2> QED BY <1>0, <2>2, <2>3, <2>4
  <1>5. ASSUME NEW r \in Requests, ConsumeExists(r) PROVE AdminInv'
    BY <1>0, <1>5, <1>a DEF ConsumeExists, To, table, hist, TypeOK
  <1>6. ASSUME NEW c \in Codes, Expire(c) \/ \E a \in Users : CreateInvite(a, c) PROVE AdminInv'
    BY <1>6, <1>a DEF Expire, CreateInvite, requests, hist
  <1>7. ASSUME NEW r \in Requests, NEW a \in Users, NEW u \in Users, AdminRequest(r, a, u)
        PROVE AdminInv'
    <2>1. PICK l \in {"update", "delete"} : Reach(r, a, u, l)
      BY <1>7 DEF AdminRequest, FetchKeep, FetchGive, DeleteStart
    <2>2. /\ role' = role
          /\ usurped => usurped'
          /\ ~IsAdmin(a) => usurped'
          /\ pc'[r] = l /\ who'[r] = u /\ by'[r] = a
          /\ \A q \in Requests \ {r} : pc'[q] = pc[q] /\ who'[q] = who[q] /\ by'[q] = by[q]
      BY <1>0, <2>1, ZenonT(40) DEF Reach, table, To, TypeOK
    <2>3. \A q \in Requests \ {r} : val'[q] = val[q]
      BY <1>0, <1>7 DEF AdminRequest, FetchKeep, FetchGive, DeleteStart, TypeOK
    <2>4. /\ pc'[r] = "update" /\ who'[r] = by'[r] /\ val'[r] = "user" => usurped'
          /\ pc'[r] = "delete" => who'[r] # by'[r]
      <3>1. CASE FetchKeep(r, a, u)
        BY <1>0, <2>2, <3>1 DEF FetchKeep, Reach, To, IsAdmin, TypeOK
      <3>2. CASE DeleteStart(r, a, u)
        BY <1>0, <2>2, <3>2 DEF DeleteStart, Reach, To, TypeOK
      <3>3. ASSUME NEW w \in Roles, FetchGive(r, a, u, w)
            PROVE /\ pc'[r] = "update" /\ who'[r] = by'[r] /\ val'[r] = "user" => usurped'
                  /\ pc'[r] = "delete" => who'[r] # by'[r]
        BY <1>0, <2>2, <3>3 DEF FetchGive, Reach, To, TypeOK
      <3> QED BY <1>7, <3>1, <3>2, <3>3 DEF AdminRequest
    <2>5. SelfSafe'
      BY <2>2, <2>3, <2>4 DEF SelfSafe
    <2>6. LaterSafe'
      BY <2>2, <2>3 DEF LaterSafe
    <2>7. AdminEver'
      BY <2>2 DEF AdminEver, IsAdmin
    <2> QED BY <1>0, <2>5, <2>6, <2>7
  <1>8. ASSUME NEW r \in Requests, WriteUser(r) PROVE AdminInv'
    <2> DEFINE u == who[r]
    <2>1. u \in Users /\ by[r] \in Users /\ Done(r)
      BY <1>0, <1>8 DEF WriteUser, TypeOK
    <2>a. role' = [role EXCEPT ![u] = IF Exists(u) THEN val[r] ELSE role[u]]
      BY <1>8 DEF WriteUser
    <2>b. usurped' = (usurped \/ ~IsAdmin(by[r]))
      BY <1>8 DEF WriteUser
    <2>2. /\ \A x \in Users \ {u} : role'[x] = role[x]
          /\ role'[u] = IF Exists(u) THEN val[r] ELSE role[u]
      BY <1>0, <2>1, <2>a DEF TypeOK
    <2>3. \A x \in Users : role'[x] # "none" <=> role[x] # "none"
      BY <1>0, <2>1, <2>2 DEF TypeOK, Exists, Roles
    <2>4. AdminEver'
      <3>1. CASE usurped'
        BY <3>1 DEF AdminEver
      <3>2. CASE ~usurped'
        <4>1. IsAdmin(by[r]) /\ ~usurped
          BY <2>b, <3>2
        <4>2. by[r] = u => val[r] = "admin"
          BY <1>0, <1>8, <4>1 DEF WriteUser, SelfSafe, TypeOK, Roles
        <4>3. role'[by[r]] = "admin"
          <5>1. CASE by[r] = u
            BY <2>2, <4>1, <4>2, <5>1 DEF IsAdmin, Exists, Roles
          <5>2. CASE by[r] # u
            BY <2>1, <2>2, <4>1, <5>2 DEF IsAdmin
          <5> QED BY <5>1, <5>2
        <4> QED BY <2>1, <4>3 DEF AdminEver, IsAdmin
      <3> QED BY <3>1, <3>2
    <2>5. SelfSafe'
      BY <1>b, <2>1, <2>b DEF SelfSafe
    <2>6. LaterSafe'
      BY <1>b, <2>1, <2>3 DEF LaterSafe
    <2> QED BY <1>0, <2>4, <2>5, <2>6
  <1>9. ASSUME NEW r \in Requests, DeleteUser(r) PROVE AdminInv'
    <2> DEFINE u == who[r]
    <2>1. u \in Users /\ by[r] \in Users /\ Done(r) /\ u # by[r]
      BY <1>0, <1>9 DEF DeleteUser, TypeOK, SelfSafe
    <2>2. /\ \A x \in Users \ {u} : role'[x] = role[x]
          /\ role'[u] = "deleted"
          /\ usurped => usurped'
          /\ ~IsAdmin(by[r]) => usurped'
      BY <1>0, <1>9, <2>1, ZenonT(40) DEF DeleteUser, TypeOK
    <2>3. AdminEver'
      BY <2>1, <2>2 DEF AdminEver, IsAdmin
    <2>4. SelfSafe'
      BY <1>b, <2>1, <2>2 DEF SelfSafe
    <2>5. LaterSafe'
      BY <1>b, <2>1, <2>2 DEF LaterSafe
    <2> QED BY <1>0, <2>3, <2>4, <2>5
  <1>10. CASE UNCHANGED vars
    BY <1>10, <1>a DEF vars, table, requests, hist
  <1>11. ASSUME NEW r \in Requests,
                \/ VerifyRefused(r) \/ InsertConflict(r) \/ ConsumeMissing(r)
                \/ ConsumeRow(r) \/ ConsumeMark(r) \/ RequestStops(r)
         PROVE AdminInv'
    <2>1. Done(r) /\ role' = role /\ usurped' = usurped
      BY <1>11 DEF VerifyRefused, InsertConflict, ConsumeMissing, ConsumeRow, ConsumeMark,
                   RequestStops, table, hist
    <2> QED BY <1>3, <2>1
  <1> QED BY <1>1, <1>2, <1>4, <1>5, <1>6, <1>7, <1>8, <1>9, <1>10, <1>11 DEF Next, RegisterStep

\* While there are users there is an administrator, whatever registrations,
\* updates and deletes run at once, unless one of the administrators acted on a
\* claim that was no longer true.
THEOREM AdminRemainsCorrect == Spec => []AdminRemains
  <1>1. AdminInv => AdminRemains
    BY DEF AdminInv, AdminEver, AdminRemains, Exists, Roles
  <1> QED BY AdminInit, AdminNext, <1>1, PTL DEF Spec

LEMMA AtMostOne ==
    ASSUME NEW S, \A x, y \in S : x = y
    PROVE  ~(Cardinality(S) > 1)
  <1>1. CASE S = {}
    BY <1>1, FS_EmptySet
  <1>2. CASE S # {}
    <2>1. PICK x \in S : TRUE
      BY <1>2
    <2>2. S = {x}
      BY <2>1
    <2> QED BY <2>2, FS_Singleton
  <1> QED BY <1>1, <1>2

\* Ending a request leaves the others as they are.
LEMMA DoneOthers ==
    ASSUME TypeOK, NEW r \in Requests, Done(r)
    PROVE  /\ pc'[r] = "idle"
           /\ \A q \in Requests \ {r} : pc'[q] = pc[q] /\ code'[q] = code[q] /\ val'[q] = val[q]
  BY DEF TypeOK, Done, To

(***************************************************************************)
(* InviteAdmitsOne.  Outside the three excuses at most one registration is *)
(* between the check of a code and its mark, nobody is admitted before its *)
(* INSERT, and once somebody is, either that registration is still to mark *)
(* the code or the code answers no check any more.  The last part needs    *)
(* that a code which passed its check does exist: consume leaves a code    *)
(* alone that it does not find.                                            *)
(***************************************************************************)
Pardoned == shared \cup kept \cup blank

AfterCheck == {"insert", "consume", "mark"}

CodeFound ==
    \A r \in Requests :
        pc[r] \in AfterCheck \cup {"fields"} /\ val[r] = "user" => invite[code[r]] # "none"

OneUse(c) ==
    /\ \A q, r \in Using(c) : q = r
    /\ \A x, y \in admitted[c] : x = y
    /\ \A q \in Using(c) : pc[q] = "insert" => admitted[c] = {}
    /\ admitted[c] # {} => Using(c) # {} \/ invite[c] \in {"used", "gone"}

InviteAt(c) == c \notin Pardoned => OneUse(c)

InviteInv == CodeFound /\ \A c \in Codes : InviteAt(c)

LEMMA InviteInit == Init => InviteInv
  BY DEF Init, InviteInv, CodeFound, InviteAt, OneUse, Using, AfterCheck

\* A code that gets neither a new registration nor a new user is as it was, if what
\* ends its last registration also ends the code.
LEMMA InviteSame ==
    ASSUME TypeOK, TypeOK', NEW c \in Codes, InviteAt(c), Pardoned \subseteq Pardoned',
           admitted'[c] = admitted[c], Using(c)' \subseteq Using(c),
           \A q \in Using(c)' : pc'[q] = "insert" => pc[q] = "insert",
           c \notin Pardoned' /\ admitted[c] # {} =>
              \/ Using(c)' = Using(c) /\ invite'[c] = invite[c]
              \/ Using(c)' = Using(c) /\ invite[c] = "none"
              \/ invite'[c] \in {"used", "gone"}
    PROVE  InviteAt(c)'
  BY DEF InviteAt, OneUse

LEMMA CodeFoundNext == TypeOK /\ TypeOK' /\ CodeFound /\ [Next]_vars => CodeFound'
  <1> SUFFICES ASSUME TypeOK, TypeOK', CodeFound, [Next]_vars PROVE CodeFound'
    OBVIOUS
  \* No code vanishes and no request gets where it needs one.
  <1>a. ASSUME \A c \in Codes : invite[c] # "none" => invite'[c] # "none",
               \A r \in Requests :
                  pc'[r] \in AfterCheck \cup {"fields"} /\ val'[r] = "user" =>
                     pc[r] \in AfterCheck \cup {"fields"} /\ val[r] = "user" /\ code'[r] = code[r]
        PROVE CodeFound'
    BY <1>a DEF CodeFound, TypeOK, AfterCheck
  <1>1. ASSUME NEW r \in Requests, NEW c \in Codes, CountUsers(r, c) PROVE CodeFound'
    BY <1>1, <1>a DEF CountUsers, To, table, TypeOK, AfterCheck
  <1>2. ASSUME NEW r \in Requests, VerifyExists(r) \/ VerifyRow(r) PROVE CodeFound'
    BY <1>2 DEF VerifyExists, VerifyRow, Verified, To, table, CodeFound, TypeOK, AfterCheck
  <1>3. ASSUME NEW r \in Requests, VerifyFields(r) \/ ConsumeExists(r) PROVE CodeFound'
    BY <1>3, <1>a DEF VerifyFields, ConsumeExists, Verified, To, table, TypeOK, AfterCheck
  <1>4. ASSUME NEW r \in Requests, Done(r),
               \A c \in Codes : invite[c] # "none" => invite'[c] # "none"
        PROVE CodeFound'
    BY <1>4, <1>a, DoneOthers DEF AfterCheck
  <1>5. ASSUME NEW r \in Requests, NEW u \in Users, InsertUser(r, u) PROVE CodeFound'
    <2>1. CASE val[r] = "admin"
      BY <1>5, <2>1, <1>4 DEF InsertUser
    <2>2. CASE val[r] # "admin"
      BY <1>5, <2>2, <1>a DEF InsertUser, To, TypeOK, AfterCheck
    <2> QED BY <2>1, <2>2
  <1>6. ASSUME NEW c \in Codes, Expire(c) \/ \E a \in Users : CreateInvite(a, c) PROVE CodeFound'
    BY <1>6, <1>a DEF Expire, CreateInvite, requests, TypeOK
  <1>7. ASSUME NEW r \in Requests, NEW a \in Users, NEW u \in Users, AdminRequest(r, a, u)
        PROVE CodeFound'
    <2>1. PICK l \in {"update", "delete"} : Reach(r, a, u, l)
      BY <1>7 DEF AdminRequest, FetchKeep, FetchGive, DeleteStart
    <2>2. \A q \in Requests \ {r} : val'[q] = val[q]
      BY <1>7 DEF AdminRequest, FetchKeep, FetchGive, DeleteStart, TypeOK
    <2> QED BY <2>1, <2>2, <1>a DEF Reach, To, table, TypeOK, AfterCheck
  <1>8. ASSUME NEW r \in Requests,
               \/ VerifyRefused(r) \/ InsertConflict(r) \/ ConsumeMissing(r)
               \/ ConsumeRow(r) \/ ConsumeMark(r)
               \/ WriteUser(r) \/ DeleteUser(r) \/ RequestStops(r)
        PROVE CodeFound'
    <2>1. Done(r)
      BY <1>8 DEF VerifyRefused, InsertConflict, ConsumeMissing, ConsumeRow, ConsumeMark,
                  WriteUser, DeleteUser, RequestStops
    <2>2. \A c \in Codes : invite[c] # "none" => invite'[c] # "none"
      BY <1>8 DEF VerifyRefused, InsertConflict, ConsumeMissing, ConsumeRow, ConsumeMark,
                  WriteUser, DeleteUser, RequestStops, table, TypeOK
    <2> QED BY <2>1, <2>2, <1>4
  <1>9. CASE UNCHANGED vars
    BY <1>9, <1>a DEF vars, table, requests
  <1> QED BY <1>1, <1>2, <1>3, <1>5, <1>6, <1>7, <1>8, <1>9 DEF Next, RegisterStep

LEMMA InviteAtNext ==
    ASSUME TypeOK, TypeOK', CodeFound, NEW c \in Codes, InviteAt(c), [Next]_vars
    PROVE  InviteAt(c)'
  <1> DEFINE Kept == InviteAt(c)'
  <1> SUFFICES Kept
    OBVIOUS
  \* Nothing about c changes.
  <1>a. ASSUME Pardoned \subseteq Pardoned', admitted' = admitted, invite'[c] = invite[c],
               \A q \in Requests : q \in Using(c)' <=> q \in Using(c),
               \A q \in Using(c) : pc'[q] = "insert" => pc[q] = "insert"
        PROVE Kept
    <2>1. Using(c)' = Using(c)
      BY <1>a DEF Using
    <2> QED BY <1>a, <2>1, InviteSame
  \* Request r ends and leaves c.
  <1>b. ASSUME NEW r \in Requests, Done(r), Pardoned \subseteq Pardoned', admitted' = admitted,
               \/ r \notin Using(c) /\ invite'[c] = invite[c]
               \/ c \in Pardoned'
               \/ c \notin Pardoned => admitted[c] = {}
               \/ invite'[c] \in {"used", "gone"}
        PROVE Kept
    <2>1. Using(c)' = Using(c) \ {r}
      BY <1>b, DoneOthers DEF Using
    <2>2. \A q \in Using(c)' : pc'[q] = pc[q]
      BY <1>b, <2>1, DoneOthers DEF Using
    <2>3. c \notin Pardoned' => c \notin Pardoned
      BY <1>b
    <2>4. r \notin Using(c) => Using(c)' = Using(c)
      BY <2>1
    <2> QED BY <1>b, <2>1, <2>2, <2>3, <2>4, InviteSame
  <1> HIDE DEF Kept
  <1>1. ASSUME NEW r \in Requests, NEW d \in Codes, CountUsers(r, d) PROVE Kept
    <2>1. \A q \in Requests : q \in Using(c)' <=> q \in Using(c)
      BY <1>1 DEF CountUsers, To, Using, TypeOK
    <2>2. \A q \in Using(c) : pc'[q] = pc[q]
      BY <1>1 DEF CountUsers, To, Using, TypeOK
    <2> QED BY <1>1, <1>a, <2>1, <2>2 DEF CountUsers, table, Pardoned
  <1>2. ASSUME NEW r \in Requests, VerifyExists(r) \/ ConsumeExists(r) PROVE Kept
    <2>1. /\ \A q \in Requests : q \in Using(c)' <=> q \in Using(c)
          /\ \A q \in Using(c) : pc'[q] = "insert" => pc[q] = "insert"
      BY <1>2 DEF VerifyExists, ConsumeExists, To, Using, TypeOK
    <2> QED BY <1>2, <1>a, <2>1 DEF VerifyExists, ConsumeExists, table, hist, Pardoned
  <1>3. ASSUME NEW r \in Requests, VerifyFields(r) \/ VerifyRow(r) PROVE Kept
    <2>1. /\ pc' = [pc EXCEPT ![r] = "insert"] /\ code' = code /\ val' = val
          /\ admitted' = admitted /\ invite' = invite /\ pc[r] \notin AfterCheck
          /\ invite[code[r]] # "used" /\ (invite[code[r]] = "gone" => code[r] \in blank')
          /\ (Using(code[r]) # {} => code[r] \in shared') /\ Pardoned \subseteq Pardoned'
      BY <1>3 DEF VerifyFields, VerifyRow, Verified, To, table, Pardoned, AfterCheck
    <2>2. \A q \in Requests \ {r} : pc'[q] = pc[q]
      BY <2>1 DEF TypeOK
    <2>3. CASE code[r] # c
      <3>1. \A q \in Requests : q \in Using(c)' <=> q \in Using(c)
        BY <2>1, <2>2, <2>3 DEF Using
      <3>2. \A q \in Using(c) : pc'[q] = pc[q]
        BY <2>2, <2>3 DEF Using
      <3> QED BY <1>a, <2>1, <3>1, <3>2
    <2>4. CASE code[r] = c
      <3>1. ASSUME c \notin Pardoned' PROVE OneUse(c)'
        <4>1. Using(c) = {} /\ invite[c] \notin {"used", "gone"} /\ c \notin Pardoned
          BY <2>1, <2>4, <3>1 DEF Pardoned
        <4>2. admitted'[c] = {}
          BY <2>1, <4>1 DEF InviteAt, OneUse
        <4>3. \A q \in Using(c)' : q = r
          BY <2>1, <2>2, <4>1 DEF Using
        <4> QED BY <4>2, <4>3 DEF OneUse
      <3> QED BY <3>1 DEF Kept, InviteAt
    <2> QED BY <2>3, <2>4
  <1>4. ASSUME NEW r \in Requests, VerifyRefused(r) PROVE Kept
    <2>1. r \notin Using(c)
      BY <1>4 DEF VerifyRefused, Using
    <2> QED BY <1>4, <1>b, <2>1 DEF VerifyRefused, table, hist, Pardoned
  <1>5. ASSUME NEW r \in Requests, InsertConflict(r) PROVE Kept
    <2>1. r \in Using(c) => (c \notin Pardoned => admitted[c] = {})
      BY <1>5 DEF InsertConflict, InviteAt, OneUse
    <2>2. /\ Done(r) /\ admitted' = admitted /\ invite' = invite /\ Pardoned \subseteq Pardoned'
      BY <1>5 DEF InsertConflict, table, hist, Pardoned
    <2> QED BY <1>b, <2>1, <2>2
  <1>6. ASSUME NEW r \in Requests, ConsumeMissing(r) PROVE Kept
    <2>1. /\ Done(r) /\ admitted' = admitted /\ invite' = invite /\ Pardoned \subseteq Pardoned'
      BY <1>6 DEF ConsumeMissing, table, hist, Pardoned
    <2>2. r \in Using(c) => invite'[c] = "gone"
      BY <1>6, <2>1 DEF ConsumeMissing, CodeFound, Using, AfterCheck, TypeOK
    <2> QED BY <1>b, <2>1, <2>2
  <1>7. ASSUME NEW r \in Requests, ConsumeRow(r) \/ ConsumeMark(r) PROVE Kept
    <2>1. /\ Done(r) /\ admitted' = admitted /\ Pardoned \subseteq Pardoned'
          /\ invite' = [invite EXCEPT ![code[r]] = "used"]
      BY <1>7 DEF ConsumeRow, ConsumeMark, hist, Pardoned
    <2>2. CASE code[r] = c
      BY <1>b, <2>1, <2>2 DEF TypeOK
    <2>3. CASE code[r] # c
      <3>1. r \notin Using(c) /\ invite'[c] = invite[c]
        BY <2>1, <2>3 DEF TypeOK, Using
      <3> QED BY <1>b, <2>1, <3>1
    <2> QED BY <2>2, <2>3
  <1>8. ASSUME NEW r \in Requests, NEW u \in Users, InsertUser(r, u) PROVE Kept
    <2>0. /\ pc[r] = "insert" /\ code[r] \in Codes /\ val[r] \in Roles
          /\ invite' = invite /\ Pardoned \subseteq Pardoned'
      BY <1>8 DEF InsertUser, Pardoned, TypeOK
    <2>1. CASE val[r] = "admin"
      <3>1. Done(r) /\ admitted' = admitted /\ r \notin Using(c)
        BY <1>8, <2>1 DEF InsertUser, Using
      <3> QED BY <1>b, <2>0, <3>1
    <2>2. CASE val[r] = "user"
      <3>1. /\ admitted' = [admitted EXCEPT ![code[r]] = @ \cup {u}]
            /\ pc' = [pc EXCEPT ![r] = "consume"] /\ code' = code /\ val' = val
        BY <1>8, <2>2 DEF InsertUser, To
      <3>2. \A q \in Requests \ {r} : pc'[q] = pc[q]
        BY <3>1 DEF TypeOK
      <3>3. pc'[r] = "consume"
        BY <3>1 DEF TypeOK
      <3>4. Using(c)' = Using(c)
        BY <2>0, <3>1, <3>2, <3>3 DEF Using
      <3>5. \A q \in Using(c) : pc'[q] = "insert" => pc[q] = "insert"
        BY <3>2, <3>3 DEF Using
      <3>6. CASE code[r] # c
        <4>1. admitted'[c] = admitted[c]
          BY <2>0, <3>1, <3>6 DEF TypeOK
        <4> QED BY <2>0, <3>4, <3>5, <4>1, InviteSame DEF Kept
      <3>7. CASE code[r] = c
        <4>1. ASSUME c \notin Pardoned' PROVE OneUse(c)'
          <5>1. OneUse(c)
            BY <2>0, <4>1 DEF InviteAt
          <5>2. r \in Using(c)
            BY <2>0, <2>2, <3>7 DEF Using
          <5>3. admitted[c] = {}
            BY <2>0, <5>1, <5>2 DEF OneUse
          <5>4. admitted'[c] = {u}
            BY <3>1, <3>7, <5>3 DEF TypeOK
          <5>5. \A q \in Using(c)' : q = r
            BY <3>4, <5>1, <5>2 DEF OneUse
          <5>6. \A q \in Using(c)' : pc'[q] # "insert"
            BY <3>3, <5>5
          <5>7. Using(c)' # {}
            BY <3>4, <5>2
          <5> QED BY <5>4, <5>5, <5>6, <5>7 DEF OneUse
        <4> QED BY <4>1 DEF Kept, InviteAt
      <3> QED BY <3>6, <3>7
    <2> QED BY <2>0, <2>1, <2>2 DEF Roles
  <1>9. ASSUME NEW d \in Codes, Expire(d) \/ \E a \in Users : CreateInvite(a, d) PROVE Kept
    <2>1. /\ pc' = pc /\ code' = code /\ val' = val /\ admitted' = admitted
          /\ Pardoned \subseteq Pardoned'
          /\ invite'[c] = invite[c] \/ invite[c] = "none" \/ invite'[c] = "gone"
      BY <1>9 DEF Expire, CreateInvite, requests, hist, Pardoned, TypeOK
    <2>2. Using(c)' = Using(c)
      BY <2>1 DEF Using
    <2> QED BY <2>1, <2>2, InviteSame DEF Kept, Using
  <1>10. ASSUME NEW r \in Requests, NEW a \in Users, NEW u \in Users, AdminRequest(r, a, u)
         PROVE Kept
    <2>1. PICK l \in {"update", "delete"} : Reach(r, a, u, l)
      BY <1>10 DEF AdminRequest, FetchKeep, FetchGive, DeleteStart
    <2>2. \A q \in Requests \ {r} : val'[q] = val[q]
      BY <1>10 DEF AdminRequest, FetchKeep, FetchGive, DeleteStart, TypeOK
    <2>3. /\ pc[r] = "idle" /\ pc'[r] = l /\ code' = code
          /\ \A q \in Requests \ {r} : pc'[q] = pc[q]
          /\ admitted' = admitted /\ invite' = invite /\ Pardoned \subseteq Pardoned'
      BY <2>1 DEF Reach, To, table, Pardoned, TypeOK
    <2>4. \A q \in Requests : q \in Using(c)' <=> q \in Using(c)
      BY <2>2, <2>3 DEF Using
    <2>5. \A q \in Using(c) : pc'[q] = "insert" => pc[q] = "insert"
      BY <2>3 DEF Using
    <2> QED BY <1>a, <2>3, <2>4, <2>5
  <1>11. ASSUME NEW r \in Requests, WriteUser(r) \/ DeleteUser(r) PROVE Kept
    <2>1. /\ Done(r) /\ r \notin Using(c) /\ admitted' = admitted /\ invite' = invite
          /\ Pardoned \subseteq Pardoned'
      BY <1>11 DEF WriteUser, DeleteUser, Using, Pardoned
    <2> QED BY <1>b, <2>1
  <1>12. ASSUME NEW r \in Requests, RequestStops(r) PROVE Kept
    <2>1. /\ Done(r) /\ admitted' = admitted /\ invite' = invite /\ Pardoned \subseteq Pardoned'
      BY <1>12 DEF RequestStops, table, Pardoned
    <2>2. r \in Using(c) /\ pc[r] = "insert" => (c \notin Pardoned => admitted[c] = {})
      BY DEF InviteAt, OneUse
    <2>3. r \in Using(c) /\ pc[r] # "insert" => c \in Pardoned'
      BY <1>12 DEF RequestStops, Using, Pardoned
    <2> QED BY <1>b, <2>1, <2>2, <2>3
  <1>13. CASE UNCHANGED vars
    <2>1. /\ pc' = pc /\ code' = code /\ val' = val /\ admitted' = admitted /\ invite' = invite
          /\ Pardoned \subseteq Pardoned'
      BY <1>13 DEF vars, table, requests, hist, Pardoned
    <2>2. Using(c)' = Using(c)
      BY <2>1 DEF Using
    <2> QED BY <1>a, <2>1, <2>2
  <1> QED BY <1>1, <1>2, <1>3, <1>4, <1>5, <1>6, <1>7, <1>8, <1>9, <1>10, <1>11, <1>12, <1>13
          DEF Next, RegisterStep

\* An invite admits one user, however registrations, invites that expire and failed
\* calls interleave, except for the three reasons InviteAdmitsOne names.
THEOREM InviteAdmitsOneCorrect == Spec => []InviteAdmitsOne
  <1>1. Init => TypeOK /\ InviteInv
    BY TypeInit, InviteInit
  <1>2. TypeOK /\ InviteInv /\ [Next]_vars => (TypeOK /\ InviteInv)'
    <2> SUFFICES ASSUME TypeOK, InviteInv, [Next]_vars PROVE (TypeOK /\ InviteInv)'
      OBVIOUS
    <2>1. TypeOK'
      BY TypeNext
    <2>2. CodeFound'
      BY <2>1, CodeFoundNext DEF InviteInv
    <2>3. ASSUME NEW c \in Codes PROVE InviteAt(c)'
      BY <2>1, InviteAtNext DEF InviteInv
    <2> QED BY <2>1, <2>2, <2>3 DEF InviteInv
  <1>3. TypeOK /\ InviteInv => InviteAdmitsOne
    BY AtMostOne DEF InviteInv, InviteAt, OneUse, InviteAdmitsOne, Pardoned
  <1> QED BY <1>1, <1>2, <1>3, PTL DEF Spec

(***************************************************************************)
(* OneFounder.  While there is a founder the table cannot look empty, by   *)
(* AdminEver, so no second registration takes the first one's way unless   *)
(* both counted before either inserted; and whoever is asked for a code    *)
(* will be a plain user.                                                   *)
(***************************************************************************)
Founding(r) == pc[r] = "insert" /\ val[r] = "admin"

OneFounding ==
    /\ \A q, r \in Requests : Founding(q) /\ Founding(r) => q = r
    /\ \A r \in Requests : Founding(r) => founders = {}
    /\ \A x, y \in founders : x = y

InvitedPlain == \A r \in Requests : pc[r] \in {"verify", "fields"} => val[r] = "user"

FounderInv ==
    /\ InvitedPlain
    /\ \A u \in founders : role[u] # "none"
    /\ contested \/ usurped \/ OneFounding

LEMMA FounderInit == Init => FounderInv
  BY DEF Init, FounderInv, InvitedPlain, OneFounding, Founding

LEMMA PlainNext == TypeOK /\ InvitedPlain /\ [Next]_vars => InvitedPlain'
  <1> SUFFICES ASSUME TypeOK, InvitedPlain, [Next]_vars PROVE InvitedPlain'
    OBVIOUS
  <1>1. ASSUME NEW r \in Requests, Done(r) PROVE InvitedPlain'
    BY <1>1, DoneOthers DEF InvitedPlain
  <1>2. ASSUME NEW r \in Requests, NEW c \in Codes, CountUsers(r, c) PROVE InvitedPlain'
    BY <1>2 DEF CountUsers, To, InvitedPlain, TypeOK
  <1>3. ASSUME NEW r \in Requests, VerifyExists(r) \/ VerifyFields(r) \/ VerifyRow(r) \/ ConsumeExists(r)
        PROVE InvitedPlain'
    BY <1>3 DEF VerifyExists, VerifyFields, VerifyRow, Verified, ConsumeExists, To, InvitedPlain, TypeOK
  <1>4. ASSUME NEW r \in Requests, NEW u \in Users, InsertUser(r, u) PROVE InvitedPlain'
    <2>1. CASE val[r] = "admin"
      BY <1>1, <1>4, <2>1 DEF InsertUser
    <2>2. CASE val[r] # "admin"
      BY <1>4, <2>2 DEF InsertUser, To, InvitedPlain, TypeOK
    <2> QED BY <2>1, <2>2
  <1>5. ASSUME NEW c \in Codes, Expire(c) \/ \E a \in Users : CreateInvite(a, c) PROVE InvitedPlain'
    BY <1>5 DEF Expire, CreateInvite, requests, InvitedPlain
  <1>6. ASSUME NEW r \in Requests, NEW a \in Users, NEW u \in Users, AdminRequest(r, a, u)
        PROVE InvitedPlain'
    <2>1. PICK l \in {"update", "delete"} : Reach(r, a, u, l)
      BY <1>6 DEF AdminRequest, FetchKeep, FetchGive, DeleteStart
    <2>2. \A q \in Requests \ {r} : val'[q] = val[q]
      BY <1>6 DEF AdminRequest, FetchKeep, FetchGive, DeleteStart, TypeOK
    <2> QED BY <2>1, <2>2 DEF Reach, To, InvitedPlain, TypeOK
  <1>7. ASSUME NEW r \in Requests,
               \/ VerifyRefused(r) \/ InsertConflict(r) \/ ConsumeMissing(r)
               \/ ConsumeRow(r) \/ ConsumeMark(r)
               \/ WriteUser(r) \/ DeleteUser(r) \/ RequestStops(r)
        PROVE InvitedPlain'
    BY <1>1, <1>7 DEF VerifyRefused, InsertConflict, ConsumeMissing, ConsumeRow, ConsumeMark,
                      WriteUser, DeleteUser, RequestStops
  <1>8. CASE UNCHANGED vars
    BY <1>8 DEF vars, requests, InvitedPlain
  <1> QED BY <1>2, <1>3, <1>4, <1>5, <1>6, <1>7, <1>8 DEF Next, RegisterStep

LEMMA FounderNext == AdminInv /\ FounderInv /\ [Next]_vars => FounderInv'
  <1> SUFFICES ASSUME AdminInv, FounderInv, [Next]_vars PROVE FounderInv'
    OBVIOUS
  <1>0. TypeOK /\ TypeOK' /\ AdminEver /\ InvitedPlain /\ InvitedPlain'
    BY TypeNext, PlainNext DEF AdminInv, FounderInv
  <1>a. ASSUME founders' = founders, \A u \in founders : role'[u] # "none",
               contested => contested', usurped => usurped',
               \A r \in Requests : Founding(r)' => Founding(r)
        PROVE FounderInv'
    BY <1>0, <1>a DEF FounderInv, OneFounding
  <1>b. ASSUME NEW r \in Requests, Done(r)
        PROVE  \A q \in Requests : Founding(q)' => q # r /\ Founding(q)
    BY <1>0, <1>b, DoneOthers DEF Founding
  <1>1. ASSUME NEW r \in Requests, NEW c \in Codes, CountUsers(r, c) PROVE FounderInv'
    <2> DEFINE first == \A x \in Users : ~Exists(x)
    <2>1. /\ founders' = founders /\ role' = role /\ usurped' = usurped
          /\ \A q \in Requests \ {r} : Founding(q)' => Founding(q)
          /\ Founding(r)' => first
          /\ contested => contested'
      BY <1>0, <1>1 DEF CountUsers, To, table, Founding, TypeOK
    <2>b. \A x \in founders' : role'[x] # "none"
      BY <2>1 DEF FounderInv
    <2>2. first /\ (\E q \in Requests : Founding(q)) => contested'
      BY <1>1 DEF CountUsers, Founding
    <2>3. first /\ founders # {} => usurped
      BY <1>0 DEF FounderInv, AdminEver, IsAdmin, Exists, Roles, TypeOK
    <2>4. CASE Founding(r)'
      <3>1. CASE contested' \/ usurped'
        BY <1>0, <2>1, <2>b, <3>1 DEF FounderInv
      <3>2. CASE ~contested' /\ ~usurped'
        <4>1. founders' = {}
          BY <2>1, <2>3, <2>4, <3>2
        <4>2. \A q \in Requests : Founding(q)' => q = r
          BY <2>1, <2>2, <2>4, <3>2
        <4> QED BY <1>0, <4>1, <4>2 DEF FounderInv, OneFounding
      <3> QED BY <3>1, <3>2
    <2>5. CASE ~Founding(r)'
      <3>1. \A q \in Requests : Founding(q)' => Founding(q)
        BY <2>1, <2>5
      <3> QED BY <1>a, <2>1, <3>1 DEF FounderInv
    <2> QED BY <2>4, <2>5
  <1>2. ASSUME NEW r \in Requests, VerifyExists(r) \/ VerifyFields(r) \/ VerifyRow(r) \/ ConsumeExists(r)
        PROVE FounderInv'
    <2>1. /\ founders' = founders /\ role' = role /\ contested' = contested /\ usurped' = usurped
      BY <1>2 DEF VerifyExists, VerifyFields, VerifyRow, ConsumeExists, table, hist
    <2>2. val[r] = "user" \/ ~Founding(r)'
      BY <1>0, <1>2 DEF VerifyExists, VerifyFields, VerifyRow, Verified, ConsumeExists, To, Founding, InvitedPlain, TypeOK
    <2>3. \A q \in Requests : Founding(q)' => Founding(q)
      BY <1>0, <1>2, <2>2 DEF VerifyExists, VerifyFields, VerifyRow, Verified, ConsumeExists, To, Founding, TypeOK
    <2> QED BY <1>a, <2>1, <2>3 DEF FounderInv
  <1>3. ASSUME NEW r \in Requests, Done(r), founders' = founders,
               \A u \in founders : role'[u] # "none", contested' = contested, usurped => usurped'
        PROVE FounderInv'
    BY <1>3, <1>a, <1>b
  <1>4. ASSUME NEW r \in Requests, NEW u \in Users, InsertUser(r, u) PROVE FounderInv'
    <2>1. /\ contested' = contested /\ usurped' = usurped /\ pc[r] = "insert"
          /\ role'[u] # "none" /\ \A x \in Users \ {u} : role'[x] = role[x]
      BY <1>0, <1>4 DEF InsertUser, TypeOK, Roles
    <2>2. \A x \in founders : role'[x] # "none"
      BY <1>0, <2>1 DEF FounderInv, TypeOK
    <2>3. CASE val[r] = "admin"
      <3>1. Done(r) /\ founders' = founders \cup {u} /\ Founding(r)
        BY <1>4, <2>3 DEF InsertUser, Founding
      <3>2. \A x \in founders' : role'[x] # "none"
        BY <2>1, <2>2, <3>1
      <3>3. CASE contested \/ usurped
        BY <1>0, <2>1, <3>2, <3>3 DEF FounderInv
      <3>4. CASE OneFounding
        <4>1. founders' = {u}
          BY <3>1, <3>4 DEF OneFounding
        <4>2. \A q \in Requests : ~Founding(q)'
          BY <1>b, <3>1, <3>4 DEF OneFounding
        <4> QED BY <1>0, <3>2, <4>1, <4>2 DEF FounderInv, OneFounding
      <3> QED BY <3>3, <3>4 DEF FounderInv
    <2>4. CASE val[r] # "admin"
      <3>1. /\ founders' = founders /\ \A q \in Requests : Founding(q)' => Founding(q)
        BY <1>0, <1>4, <2>4 DEF InsertUser, To, Founding, TypeOK
      <3> QED BY <1>a, <2>1, <2>2, <3>1
    <2> QED BY <2>3, <2>4
  <1>5. ASSUME NEW c \in Codes, Expire(c) \/ \E a \in Users : CreateInvite(a, c) PROVE FounderInv'
    BY <1>5, <1>a DEF Expire, CreateInvite, requests, hist, Founding, FounderInv
  <1>6. ASSUME NEW r \in Requests, NEW a \in Users, NEW u \in Users, AdminRequest(r, a, u)
        PROVE FounderInv'
    <2>1. PICK l \in {"update", "delete"} : Reach(r, a, u, l)
      BY <1>6 DEF AdminRequest, FetchKeep, FetchGive, DeleteStart
    <2>2. \A q \in Requests \ {r} : val'[q] = val[q]
      BY <1>0, <1>6 DEF AdminRequest, FetchKeep, FetchGive, DeleteStart, TypeOK
    <2>3. \A q \in Requests : Founding(q)' => Founding(q)
      BY <1>0, <2>1, <2>2 DEF Reach, To, Founding, TypeOK
    <2> QED BY <1>a, <2>1, <2>3 DEF Reach, table, FounderInv
  <1>7. ASSUME NEW r \in Requests, WriteUser(r) \/ DeleteUser(r) PROVE FounderInv'
    <2>1. Done(r) /\ founders' = founders /\ contested' = contested
      BY <1>7 DEF WriteUser, DeleteUser
    <2>6. usurped => usurped'
      BY <1>7 DEF WriteUser, DeleteUser
    <2>2. who[r] \in Users
      BY <1>0, <1>7 DEF WriteUser, DeleteUser, TypeOK
    <2>3. \A x \in Users : role[x] # "none" => role'[x] # "none"
      <3>1. CASE WriteUser(r)
        <4>1. role' = [role EXCEPT ![who[r]] = IF Exists(who[r]) THEN val[r] ELSE role[who[r]]]
          BY <3>1 DEF WriteUser
        <4>2. val[r] # "none"
          BY <1>0 DEF TypeOK, Roles
        <4> QED BY <1>0, <2>2, <4>1, <4>2 DEF TypeOK
      <3>2. CASE DeleteUser(r)
        BY <1>0, <2>2, <3>2 DEF DeleteUser, TypeOK
      <3> QED BY <1>7, <3>1, <3>2
    <2>4. \A x \in founders : role'[x] # "none"
      BY <1>0, <2>3 DEF FounderInv, TypeOK
    <2>5. \A q \in Requests : Founding(q)' => Founding(q)
      BY <1>b, <2>1
    <2> QED BY <1>a, <2>1, <2>4, <2>5, <2>6
  <1>8. ASSUME NEW r \in Requests,
               \/ VerifyRefused(r) \/ InsertConflict(r) \/ ConsumeMissing(r)
               \/ ConsumeRow(r) \/ ConsumeMark(r) \/ RequestStops(r)
        PROVE FounderInv'
    <2>1. Done(r) /\ role' = role /\ founders' = founders /\ contested' = contested /\ usurped' = usurped
      BY <1>8 DEF VerifyRefused, InsertConflict, ConsumeMissing, ConsumeRow, ConsumeMark,
                  RequestStops, table, hist
    <2> QED BY <1>3, <2>1 DEF FounderInv
  <1>9. CASE UNCHANGED vars
    BY <1>9, <1>a DEF vars, table, requests, hist, Founding, FounderInv
  <1> QED BY <1>1, <1>2, <1>4, <1>5, <1>6, <1>7, <1>8, <1>9 DEF Next, RegisterStep

\* One user becomes administrator without an invite, for any number of
\* registrations at once, unless two of them counted no users or an administrator
\* acted on a claim that was no longer true.
THEOREM OneFounderCorrect == Spec => []OneFounder
  <1>1. Init => AdminInv /\ FounderInv
    BY AdminInit, FounderInit
  <1>2. AdminInv /\ FounderInv /\ [Next]_vars => (AdminInv /\ FounderInv)'
    BY AdminNext, FounderNext
  <1>3. FounderInv => OneFounder
    BY AtMostOne DEF FounderInv, OneFounding, OneFounder
  <1> QED BY <1>1, <1>2, <1>3, PTL DEF Spec
=============================================================================
