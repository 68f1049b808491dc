----------------------------- MODULE EditProofs -----------------------------
(***************************************************************************)
(* Proofs about the components whose handlers edit rows and files between  *)
(* a read and a write: Categories, Profiles, and the two that              *)
(* Administration composes, the system configuration and the statistics.   *)
(* They share no state: each part uses the definitions and assumptions of  *)
(* its own module only.                                                    *)
(***************************************************************************)
EXTENDS Administration, Categories, Profiles, TLAPS

(***************************************************************************)
(* Categories.  The listing shows two levels, so it is complete if no      *)
(* category has a grandparent.  That is checked before the INSERT and      *)
(* holds at the INSERT because a row never changes its parent and an id is *)
(* never used again: a parent that was a root is a root or gone.           *)
(***************************************************************************)

\* The parent of a category is a root that is still there.
ParentsAreRoots ==
    \A c \in live : parent[c] # Null => parent[c] \in live /\ parent[parent[c]] = Null

\* So was the parent of a category that is about to be inserted.
ParentsChecked ==
    \A r \in Editors :
        doing[r] = "create" /\ what[r] # Null => what[r] \in used /\ parent[what[r]] = Null

\* Images were moved to categories that were inserted.
MovedToUsed == \A i \in Images : want[i] # Null => want[i] \in used

TreeInv == ParentsAreRoots /\ ParentsChecked

FiledInv == MovedToUsed /\ FiledAsMoved

\* A category that is about to be written gets a name.
Titled == \A r \in Editors : doing[r] \in {"create", "update"} => title[r] \in Names

FilingType == CategoriesTypeOK /\ Titled

LEMMA FilingTypeInit == CategoriesInit => FilingType
  BY DEF CategoriesInit, CategoriesTypeOK, FilingType, Titled

LEMMA FilingDone ==
    ASSUME CategoriesTypeOK, NEW r \in Editors, EndEdit(r)
    PROVE  /\ doing' \in [Editors -> {"idle", "create", "update", "move"}]
           /\ what' \in [Editors -> Cats \cup {Null}]
           /\ title' \in [Editors -> Names \cup {Null}]
           /\ batch' \in [Editors -> SUBSET Images]
           /\ doing'[r] = "idle"
           /\ \A q \in Editors \ {r} : doing'[q] = doing[q] /\ what'[q] = what[q] /\ title'[q] = title[q]
  BY DEF CategoriesTypeOK, EndEdit

LEMMA FilingBegin ==
    ASSUME CategoriesTypeOK, NEW r \in Editors, NEW l \in {"create", "update", "move"},
           NEW c \in Cats \cup {Null}, NEW n \in Names \cup {Null}, NEW b \in SUBSET Images,
           BeginEdit(r, l, c, n, b)
    PROVE  /\ doing' \in [Editors -> {"idle", "create", "update", "move"}]
           /\ what' \in [Editors -> Cats \cup {Null}]
           /\ title' \in [Editors -> Names \cup {Null}]
           /\ batch' \in [Editors -> SUBSET Images]
           /\ doing'[r] = l /\ what'[r] = c /\ title'[r] = n
           /\ \A q \in Editors \ {r} : doing'[q] = doing[q] /\ what'[q] = what[q] /\ title'[q] = title[q]
  BY DEF CategoriesTypeOK, BeginEdit

\* What a request begins with.
LEMMA FilingBegins ==
    ASSUME CategoriesTypeOK, NEW r \in Editors,
           \/ \E n \in Names, p \in Cats \cup {Null} : CreateCheck(r, n, p)
           \/ \E c \in Cats, n \in Names \cup {Null} : UpdateFetch(r, c, n)
           \/ \E c \in Cats \cup {Null}, i \in Images : MoveImage(r, c, i)
           \/ \E c \in Cats, b \in SUBSET Images : BatchMoveImages(r, c, b)
    PROVE  /\ \E l \in {"create", "update", "move"}, c \in Cats \cup {Null},
                 n \in Names \cup {Null}, b \in SUBSET Images :
                    /\ BeginEdit(r, l, c, n, b)
                    /\ l # "move" => n \in Names
                    /\ l = "create" /\ c # Null => c \in live /\ parent[c] = Null
           /\ UNCHANGED <<categoryRows, filed, want>>
  <1>1. CASE \E n \in Names, p \in Cats \cup {Null} : CreateCheck(r, n, p)
    BY <1>1 DEF CreateCheck
  <1>2. CASE \E c \in Cats, n \in Names \cup {Null} : UpdateFetch(r, c, n)
    <2>1. PICK c \in Cats, n \in Names \cup {Null} : UpdateFetch(r, c, n)
      BY <1>2
    <2>2. PICK m \in Names : m = IF n = Null THEN name[c] ELSE n
      BY <2>1 DEF UpdateFetch, CategoriesTypeOK
    <2> QED BY <2>1, <2>2 DEF UpdateFetch
  <1>3. CASE \E c \in Cats \cup {Null}, i \in Images : MoveImage(r, c, i)
    BY <1>3 DEF MoveImage
  <1>4. CASE \E c \in Cats, b \in SUBSET Images : BatchMoveImages(r, c, b)
    BY <1>4 DEF BatchMoveImages
  <1> QED BY <1>1, <1>2, <1>3, <1>4

LEMMA FilingTypeNext == FilingType /\ [CategoriesNext]_categoryVars => FilingType'
  <1> SUFFICES ASSUME FilingType, [CategoriesNext]_categoryVars PROVE FilingType'
    OBVIOUS
  <1>0. CategoriesTypeOK /\ Titled /\ Null \notin Names
    BY NoneNothing DEF FilingType
  <1>a. ASSUME NEW r \in Editors, EndEdit(r) PROVE Titled'
    BY <1>0, <1>a, FilingDone DEF Titled
  <1>1. ASSUME NEW r \in Editors,
               \/ \E n \in Names, p \in Cats \cup {Null} : CreateCheck(r, n, p)
               \/ \E c \in Cats, n \in Names \cup {Null} : UpdateFetch(r, c, n)
               \/ \E c \in Cats \cup {Null}, i \in Images : MoveImage(r, c, i)
               \/ \E c \in Cats, b \in SUBSET Images : BatchMoveImages(r, c, b)
        PROVE FilingType'
    <2>1. UNCHANGED <<categoryRows, filed, want>>
      BY <1>0, <1>1, FilingBegins
    <2>2. PICK l \in {"create", "update", "move"}, c \in Cats \cup {Null},
               n \in Names \cup {Null}, b \in SUBSET Images :
                  BeginEdit(r, l, c, n, b) /\ (l # "move" => n \in Names)
      BY <1>0, <1>1, FilingBegins
    <2>3. CategoriesTypeOK'
      BY <1>0, <2>1, <2>2, FilingBegin DEF CategoriesTypeOK, categoryRows
    <2>4. Titled'
      BY <1>0, <2>2, FilingBegin DEF Titled
    <2> QED BY <2>3, <2>4 DEF FilingType
  <1>2. ASSUME NEW r \in Editors, NEW c \in Cats, CreateInsert(r, c) PROVE FilingType'
    <2>1. EndEdit(r) /\ filed' = filed /\ want' = want /\ title[r] \in Names
      BY <1>0, <1>2 DEF CreateInsert, Titled
    <2>2. \/ UNCHANGED categoryRows
          \/ /\ live' = live \cup {c} /\ used' = used \cup {c}
             /\ parent' = [parent EXCEPT ![c] = what[r]]
             /\ name' = [name EXCEPT ![c] = title[r]]
      BY <1>2 DEF CreateInsert
    <2>3. CategoriesTypeOK'
      BY <1>0, <2>1, <2>2, FilingDone DEF CategoriesTypeOK, categoryRows
    <2> QED BY <1>a, <2>1, <2>3 DEF FilingType
  <1>3. ASSUME NEW r \in Editors, UpdateWrite(r) PROVE FilingType'
    <2>1. EndEdit(r) /\ title[r] \in Names
      BY <1>0, <1>3 DEF UpdateWrite, Titled
    <2>2. CategoriesTypeOK'
      BY <1>0, <1>3, <2>1, FilingDone DEF UpdateWrite, CategoriesTypeOK
    <2> QED BY <1>a, <2>1, <2>2 DEF FilingType
  <1>4. ASSUME NEW r \in Editors, MoveWrite(r) PROVE FilingType'
    <2>1. EndEdit(r)
      BY <1>4 DEF MoveWrite
    <2>2. CategoriesTypeOK'
      BY <1>0, <1>4, <2>1, FilingDone DEF MoveWrite, CategoriesTypeOK, categoryRows
    <2> QED BY <1>a, <2>1, <2>2 DEF FilingType
  <1>5. ASSUME NEW c \in Cats, DeleteCategory(c) PROVE FilingType'
    BY <1>0, <1>5 DEF DeleteCategory, CategoriesTypeOK, editing, FilingType, Titled
  <1>6. CASE UNCHANGED categoryVars
    BY <1>0, <1>6 DEF categoryVars, categoryRows, editing, CategoriesTypeOK, FilingType, Titled
  <1> QED BY <1>1, <1>2, <1>3, <1>4, <1>5, <1>6 DEF CategoriesNext

LEMMA TreeInit == CategoriesInit => TreeInv /\ FiledInv
  BY DEF CategoriesInit, TreeInv, ParentsAreRoots, ParentsChecked, FiledInv, MovedToUsed, FiledAsMoved

LEMMA TreeNext == FilingType /\ TreeInv /\ [CategoriesNext]_categoryVars => TreeInv'
  <1> SUFFICES ASSUME FilingType, TreeInv, [CategoriesNext]_categoryVars PROVE TreeInv'
    OBVIOUS
  <1>0. CategoriesTypeOK /\ ParentsAreRoots /\ ParentsChecked /\ Null \notin Cats
    BY NoneNothing DEF FilingType, TreeInv
  \* Neither the rows nor what is about to be inserted changes.
  <1>a. ASSUME live' = live, used' = used, parent' = parent,
               \A r \in Editors : doing'[r] = "create" => doing[r] = "create" /\ what'[r] = what[r]
        PROVE TreeInv'
    BY <1>0, <1>a DEF TreeInv, ParentsAreRoots, ParentsChecked
  <1>1. ASSUME NEW r \in Editors,
               \/ \E n \in Names, p \in Cats \cup {Null} : CreateCheck(r, n, p)
               \/ \E c \in Cats, n \in Names \cup {Null} : UpdateFetch(r, c, n)
               \/ \E c \in Cats \cup {Null}, i \in Images : MoveImage(r, c, i)
               \/ \E c \in Cats, b \in SUBSET Images : BatchMoveImages(r, c, b)
        PROVE TreeInv'
    <2>1. UNCHANGED <<categoryRows, filed, want>>
      BY <1>0, <1>1, FilingBegins
    <2>2. PICK l \in {"create", "update", "move"}, c \in Cats \cup {Null},
               n \in Names \cup {Null}, b \in SUBSET Images :
                  /\ BeginEdit(r, l, c, n, b)
                  /\ l = "create" /\ c # Null => c \in live /\ parent[c] = Null
      BY <1>0, <1>1, FilingBegins
    <2>3. live' = live /\ used' = used /\ parent' = parent /\ live \subseteq used
      BY <1>0, <2>1 DEF categoryRows, CategoriesTypeOK
    <2>4. /\ doing'[r] = l /\ what'[r] = c
          /\ \A q \in Editors \ {r} : doing'[q] = doing[q] /\ what'[q] = what[q]
      BY <1>0, <2>2, FilingBegin
    <2> QED BY <1>0, <2>2, <2>3, <2>4 DEF TreeInv, ParentsAreRoots, ParentsChecked
  <1>2. ASSUME NEW r \in Editors, NEW c \in Cats, CreateInsert(r, c) PROVE TreeInv'
    <2>1. EndEdit(r) /\ c \notin used /\ doing[r] = "create"
      BY <1>2 DEF CreateInsert
    <2>2. /\ doing'[r] = "idle"
          /\ \A q \in Editors \ {r} : doing'[q] = doing[q] /\ what'[q] = what[q]
      BY <1>0, <2>1, FilingDone
    <2>3. CASE UNCHANGED categoryRows
      BY <1>a, <2>2, <2>3 DEF categoryRows
    <2>4. CASE /\ what[r] # Null => what[r] \in live
               /\ live' = live \cup {c} /\ used' = used \cup {c}
               /\ parent' = [parent EXCEPT ![c] = what[r]]
      <3>1. /\ parent'[c] = what[r] /\ \A d \in used : parent'[d] = parent[d]
            /\ live \subseteq used
        BY <1>0, <2>1, <2>4 DEF CategoriesTypeOK
      <3>2. ParentsAreRoots'
        BY <1>0, <2>1, <2>4, <3>1 DEF ParentsAreRoots, ParentsChecked
      <3>3. ParentsChecked'
        BY <1>0, <2>2, <2>4, <3>1 DEF ParentsChecked
      <3> QED BY <3>2, <3>3 DEF TreeInv
    <2> QED BY <1>2, <2>3, <2>4 DEF CreateInsert
  <1>3. ASSUME NEW r \in Editors, UpdateWrite(r) \/ MoveWrite(r) PROVE TreeInv'
    <2>1. EndEdit(r) /\ live' = live /\ used' = used /\ parent' = parent
      BY <1>3 DEF UpdateWrite, MoveWrite, categoryRows
    <2>2. \A q \in Editors : doing'[q] = "create" => doing[q] = "create" /\ what'[q] = what[q]
      BY <1>0, <2>1, FilingDone
    <2> QED BY <1>a, <2>1, <2>2
  <1>4. ASSUME NEW c \in Cats, DeleteCategory(c) PROVE TreeInv'
    <2>1. /\ live' = live \ ({c} \cup {d \in live : parent[d] = c})
          /\ used' = used /\ parent' = parent /\ doing' = doing /\ what' = what
      BY <1>4 DEF DeleteCategory, Subtree, editing
    <2>2. ASSUME NEW d \in live', parent[d] # Null
          PROVE  parent[d] \in live' /\ parent[parent[d]] = Null
      <3>1. d \in live /\ parent[d] # c /\ parent[d] \in live /\ parent[parent[d]] = Null
        BY <1>0, <2>1, <2>2 DEF ParentsAreRoots
      <3> QED BY <1>0, <2>1, <3>1
    <2> QED BY <1>0, <2>1, <2>2 DEF TreeInv, ParentsAreRoots, ParentsChecked
  <1>5. CASE UNCHANGED categoryVars
    BY <1>a, <1>5 DEF categoryVars, categoryRows, editing
  <1> QED BY <1>1, <1>2, <1>3, <1>4, <1>5 DEF CategoriesNext

LEMMA FiledNext == FilingType /\ FiledInv /\ [CategoriesNext]_categoryVars => FiledInv'
  <1> SUFFICES ASSUME FilingType, FiledInv, [CategoriesNext]_categoryVars PROVE FiledInv'
    OBVIOUS
  <1>0. CategoriesTypeOK /\ MovedToUsed /\ FiledAsMoved /\ Null \notin Cats
    BY NoneNothing DEF FilingType, FiledInv
  <1>a. ASSUME live' = live, used' = used, filed' = filed, want' = want PROVE FiledInv'
    BY <1>0, <1>a DEF FiledInv, MovedToUsed, FiledAsMoved
  <1>1. ASSUME NEW r \in Editors,
               \/ \E n \in Names, p \in Cats \cup {Null} : CreateCheck(r, n, p)
               \/ \E c \in Cats, n \in Names \cup {Null} : UpdateFetch(r, c, n)
               \/ \E c \in Cats \cup {Null}, i \in Images : MoveImage(r, c, i)
               \/ \E c \in Cats, b \in SUBSET Images : BatchMoveImages(r, c, b)
        PROVE FiledInv'
    BY <1>0, <1>1, <1>a, FilingBegins DEF categoryRows
  <1>2. ASSUME NEW r \in Editors, NEW c \in Cats, CreateInsert(r, c) PROVE FiledInv'
    <2>1. /\ c \notin used /\ filed' = filed /\ want' = want
          /\ \/ live' = live /\ used' = used
             \/ live' = live \cup {c} /\ used' = used \cup {c}
      BY <1>2 DEF CreateInsert, categoryRows
    <2>2. \A i \in Images : want[i] # c
      BY <1>0, <2>1 DEF MovedToUsed
    <2> QED BY <1>0, <2>1, <2>2 DEF FiledInv, MovedToUsed, FiledAsMoved
  <1>3. ASSUME NEW r \in Editors, UpdateWrite(r) PROVE FiledInv'
    BY <1>a, <1>3 DEF UpdateWrite
  <1>4. ASSUME NEW r \in Editors, MoveWrite(r) PROVE FiledInv'
    <2>1. live' = live /\ used' = used
      BY <1>4 DEF MoveWrite, categoryRows
    <2>2. CASE filed' = filed /\ want' = want
      BY <1>a, <2>1, <2>2
    <2>3. CASE /\ what[r] = Null \/ what[r] \in live
               /\ filed' = [i \in Images |-> IF i \in batch[r] THEN what[r] ELSE filed[i]]
               /\ want' = [i \in Images |-> IF i \in batch[r] THEN what[r] ELSE want[i]]
      <3>1. MovedToUsed'
        BY <1>0, <2>1, <2>3 DEF MovedToUsed, CategoriesTypeOK
      <3>2. FiledAsMoved'
        BY <1>0, <2>1, <2>3 DEF FiledAsMoved, CategoriesTypeOK
      <3> QED BY <3>1, <3>2 DEF FiledInv
    <2> QED BY <1>4, <2>2, <2>3 DEF MoveWrite
  <1>5. ASSUME NEW c \in Cats, DeleteCategory(c) PROVE FiledInv'
    <2>1. /\ live' = live \ Subtree(c) /\ used' = used /\ want' = want
          /\ filed' = [i \in Images |-> IF filed[i] \in Subtree(c) THEN Null ELSE filed[i]]
          /\ Subtree(c) \subseteq live
      BY <1>5 DEF DeleteCategory, Subtree
    <2>2. ASSUME NEW i \in Images PROVE filed'[i] = IF want[i] \in live' THEN want[i] ELSE Null
      BY <1>0, <2>1 DEF FiledAsMoved, CategoriesTypeOK
    <2> QED BY <1>0, <2>1, <2>2 DEF FiledInv, MovedToUsed, FiledAsMoved
  <1>6. CASE UNCHANGED categoryVars
    BY <1>a, <1>6 DEF categoryVars, categoryRows
  <1> QED BY <1>1, <1>2, <1>3, <1>4, <1>5, <1>6 DEF CategoriesNext

LEMMA FilingAlways == CategoriesSpec => [](FilingType /\ TreeInv /\ FiledInv)
  <1>1. CategoriesInit => FilingType /\ TreeInv /\ FiledInv
    BY FilingTypeInit, TreeInit
  <1>2. FilingType /\ TreeInv /\ FiledInv /\ [CategoriesNext]_categoryVars
           => (FilingType /\ TreeInv /\ FiledInv)'
    BY FilingTypeNext, TreeNext, FiledNext
  <1> QED BY <1>1, <1>2, PTL DEF CategoriesSpec

\* Rows, images and requests keep their types, and every category has a name.
THEOREM FilingTypeCorrect == CategoriesSpec => []CategoriesTypeOK
  <1>1. FilingType => CategoriesTypeOK
    BY DEF FilingType
  <1> QED BY <1>1, FilingAlways, PTL

\* list_categories shows every category, for any number of requests: a check of the
\* depth is still right when its INSERT comes, whatever was deleted in between.
THEOREM TreeCompleteCorrect == CategoriesSpec => []TreeComplete
  <1>1. TreeInv => TreeComplete
    BY DEF TreeInv, ParentsAreRoots, TreeComplete, Tree, Roots
  <1> QED BY <1>1, FilingAlways, PTL

\* Every image is where the last move that succeeded put it, or in no category if that
\* one is gone, whichever moves and deletes cross.
THEOREM FiledAsMovedCorrect == CategoriesSpec => []FiledAsMoved
  <1>1. FiledInv => FiledAsMoved
    BY DEF FiledInv
  <1> QED BY <1>1, FilingAlways, PTL
(***************************************************************************)
(* Profiles.  An edit reads, then writes; what was read may be gone by     *)
(* then.  The invariants say what a request that has read still knows: the *)
(* columns of an administrator's edit that differ from the row, the        *)
(* password that was verified, the user at whom a login will end.          *)
(***************************************************************************)

\* A request has a user, a change of the password a new one, an administrator's edit the
\* columns it was given.
Targeted ==
    \A r \in Callers :
        /\ phase[r] # "idle" => target[r] \in Users
        /\ phase[r] = "password" => secret[r] \in Passwords
        /\ phase[r] = "admin" => noted[r] \in SUBSET Cols

ProfileType == ProfilesTypeOK /\ Targeted

\* An administrator's edit that is to be written differs from the row in columns that its
\* body gives, or that were written since it read the row.
Merged ==
    \A r \in Callers, k \in Cols :
        phase[r] = "admin" /\ target[r] \in alive /\ columns[r][k] # val[<<target[r], k>>]
            => k \in noted[r] \cup fresh[r]

\* The password verified is still that of the row, or it was written since.
Verified ==
    \A r \in Callers :
        phase[r] = "password" /\ target[r] \in alive /\ r \notin swapped => pass[target[r]] = known[r]

\* An account id leads to a user who linked that account, as long as no answer came
\* without an id; so does a login that has found it.
LinkedByOwner ==
    mixed = {} =>
        /\ link[Zero] = Absent
        /\ \A x \in Accounts : link[x] # Absent => link[x] \in owner[x]
        /\ \A r \in Callers :
              phase[r] = "callback" => noted[r] \in Accounts /\ target[r] \in owner[noted[r]]

SignInInv == Verified /\ LinkedByOwner /\ SignInKept

LEMMA ProfileInit ==
    ProfilesInit => ProfileType /\ Merged /\ SignInInv
  <1> SUFFICES ASSUME ProfilesInit PROVE ProfileType /\ Merged /\ SignInInv
    OBVIOUS
  <1>1. ProfilesTypeOK
    BY ProfileBounds, ColumnNames DEF ProfilesInit, ProfilesTypeOK, NoColumns, Ids
  <1>2. Targeted /\ Merged /\ Verified /\ SignInKept
    BY DEF ProfilesInit, Targeted, Merged, Verified, SignInKept
  <1>3. LinkedByOwner
    BY DEF ProfilesInit, LinkedByOwner, Ids
  <1> QED BY <1>1, <1>2, <1>3 DEF ProfileType, SignInInv

LEMMA ProfileBegin ==
    ASSUME ProfilesTypeOK, NEW r \in Callers, NEW l \in Kinds, NEW u \in Users,
           BeginCall(r, l, u)
    PROVE  /\ phase' \in [Callers -> Kinds \cup {"idle"}]
           /\ target' \in [Callers -> Users \cup {Absent}]
           /\ phase[r] = "idle" /\ phase'[r] = l /\ target'[r] = u
           /\ \A q \in Callers \ {r} : phase'[q] = phase[q] /\ target'[q] = target[q]
  BY DEF ProfilesTypeOK, BeginCall

\* A request that is answered keeps nothing; the others keep what they have.
LEMMA ProfileDone ==
    ASSUME ProfilesTypeOK, NEW r \in Callers, EndCall(r)
    PROVE  /\ phase' \in [Callers -> Kinds \cup {"idle"}]
           /\ target' \in [Callers -> Users \cup {Absent}]
           /\ columns' \in [Callers -> [Cols -> ColValues \cup {Absent}]]
           /\ secret' \in [Callers -> Passwords \cup {Absent}]
           /\ noted' \in [Callers -> (SUBSET Cols) \cup Accounts \cup {Absent}]
           /\ known' \in [Callers -> Passwords \cup {Absent}]
           /\ phase'[r] = "idle"
           /\ \A q \in Callers \ {r} :
                 /\ phase'[q] = phase[q] /\ target'[q] = target[q] /\ columns'[q] = columns[q]
                 /\ secret'[q] = secret[q] /\ noted'[q] = noted[q] /\ known'[q] = known[q]
  BY DEF ProfilesTypeOK, EndCall, NoColumns

LEMMA GivesType ==
    ASSUME ProfilesTypeOK, NEW r \in Callers, NEW ks \in SUBSET Cols, Gives(r, ks)
    PROVE  fresh' \in [Callers -> SUBSET Cols]
  BY DEF ProfilesTypeOK, Gives

LEMMA ProfileTypeNext ==
    ProfileType /\ [ProfilesNext]_profileVars => ProfileType'
  <1> SUFFICES ASSUME ProfileType, [ProfilesNext]_profileVars PROVE ProfileType'
    OBVIOUS
  <1>0. ProfilesTypeOK /\ Targeted
    BY DEF ProfileType
  <1> USE DEF Kinds
  <1>1. ASSUME NEW r \in Callers, NEW u \in Users, NEW b \in Edits,
               UpdateCheck(r, u, b)
        PROVE ProfileType'
    <2>1. BeginCall(r, "profile", u)
      BY <1>1 DEF UpdateCheck
    <2>2. b \in [Cols -> ColValues \cup {Absent}]
      BY DEF Edits
    <2>3. ProfilesTypeOK'
      BY <1>0, <1>1, <2>1, <2>2, ProfileBegin
      DEF UpdateCheck, ProfilesTypeOK, rows, profileHist
    <2>4. Targeted'
      BY <1>0, <1>1, <2>1, ProfileBegin DEF UpdateCheck, Targeted
    <2> QED BY <2>3, <2>4 DEF ProfileType
  <1>2. ASSUME NEW r \in Callers, Apply(r) PROVE ProfileType'
    <2>1. EndCall(r)
      BY <1>2 DEF Apply
    <2>2. /\ val' \in [Users \X Cols -> ColValues \cup {Absent}]
          /\ fresh' \in [Callers -> SUBSET Cols]
      BY <1>0, <1>2, GivesType DEF Apply, ProfilesTypeOK, GivenBy
    <2>3. ProfilesTypeOK'
      BY <1>0, <1>2, <2>1, <2>2, ProfileDone DEF Apply, ProfilesTypeOK
    <2>4. Targeted'
      BY <1>0, <2>1, ProfileDone DEF Targeted
    <2> QED BY <2>3, <2>4 DEF ProfileType
  <1>3. ASSUME NEW r \in Callers, NEW u \in Users, NEW p \in Passwords, NEW q \in Passwords,
               PasswordFetch(r, u, p, q)
        PROVE ProfileType'
    <2>1. BeginCall(r, "password", u)
      BY <1>3 DEF PasswordFetch
    <2>2. ProfilesTypeOK'
      BY <1>0, <1>3, <2>1, ProfileBegin DEF PasswordFetch, ProfilesTypeOK, rows
    <2>3. Targeted'
      BY <1>0, <1>3, <2>1, ProfileBegin DEF PasswordFetch, Targeted, ProfilesTypeOK
    <2> QED BY <2>2, <2>3 DEF ProfileType
  <1>4. ASSUME NEW r \in Callers, PasswordWrite(r) PROVE ProfileType'
    <2>1. EndCall(r) /\ secret[r] \in Passwords
      BY <1>0, <1>4 DEF PasswordWrite, Targeted
    <2>2. pass' \in [Users -> Passwords] /\ swapped' \subseteq Callers
      BY <1>0, <1>4, <2>1 DEF PasswordWrite, ProfilesTypeOK, Others
    <2>3. ProfilesTypeOK'
      BY <1>0, <1>4, <2>1, <2>2, ProfileDone DEF PasswordWrite, ProfilesTypeOK
    <2>4. Targeted'
      BY <1>0, <2>1, ProfileDone DEF Targeted
    <2> QED BY <2>3, <2>4 DEF ProfileType
  <1>5. ASSUME NEW r \in Callers, NEW u \in Users, NEW b \in AdminBodies,
               NEW p \in AdminPasswords, AdminFetch(r, u, b, p)
        PROVE ProfileType'
    <2>1. BeginCall(r, "admin", u)
      BY <1>5 DEF AdminFetch
    <2>2. b \in [Cols -> ColValues \cup {Absent}] /\ p \in Passwords \cup {Absent}
      BY DEF AdminBodies, AdminPasswords, Edits, NoColumns
    <2>3. /\ [k \in Cols |-> IF b[k] = Absent THEN val[<<u, k>>] ELSE b[k]]
                \in [Cols -> ColValues \cup {Absent}]
          /\ GivenBy(b) \in SUBSET Cols
      BY <1>0, <2>2 DEF ProfilesTypeOK, GivenBy
    <2>4. ProfilesTypeOK'
      BY <1>0, <1>5, <2>1, <2>2, <2>3, ProfileBegin
      DEF AdminFetch, ProfilesTypeOK, rows
    <2>5. Targeted'
      BY <1>0, <1>5, <2>1, <2>3, ProfileBegin DEF AdminFetch, Targeted, ProfilesTypeOK
    <2> QED BY <2>4, <2>5 DEF ProfileType
  <1>6. ASSUME NEW r \in Callers, AdminWrite(r) PROVE ProfileType'
    <2>1. EndCall(r) /\ target[r] \in Users
      BY <1>0, <1>6 DEF AdminWrite, Targeted
    <2>2. val' \in [Users \X Cols -> ColValues \cup {Absent}]
      BY <1>0, <1>6 DEF AdminWrite, ProfilesTypeOK
    <2>3. /\ pass' \in [Users -> Passwords] /\ swapped' \subseteq Callers
          /\ fresh' \in [Callers -> SUBSET Cols]
      <3>1. noted[r] \cup fresh[r] \in SUBSET Cols
        BY <1>0, <1>6 DEF AdminWrite, ProfilesTypeOK, Targeted
      <3> QED
        BY <1>0, <1>6, <3>1, GivesType DEF AdminWrite, ProfilesTypeOK, Others
    <2>4. ProfilesTypeOK'
      BY <1>0, <1>6, <2>1, <2>2, <2>3, ProfileDone DEF AdminWrite, ProfilesTypeOK
    <2>5. Targeted'
      BY <1>0, <2>1, ProfileDone DEF Targeted
    <2> QED BY <2>4, <2>5 DEF ProfileType
  <1>7. ASSUME NEW u \in Users, DeleteUser(u) PROVE ProfileType'
    BY <1>0, <1>7, ColumnNames
    DEF DeleteUser, ProfilesTypeOK, Targeted, ProfileType, callers, profileHist
  <1>8. ASSUME NEW u \in Users, NEW x \in Accounts, NEW id \in Ids, Link(u, x, id)
        PROVE ProfileType'
    <2>1. blanks' \in 0 .. MaxBlanks
      BY <1>0, <1>8, ProfileBounds DEF Link, UserInfo, ProfilesTypeOK
    <2>2. /\ link' \in [Ids -> Users \cup {Absent}]
          /\ \A y \in Ids : link'[y] # Absent => link'[y] \in alive
      BY <1>0, <1>8 DEF Link, ProfilesTypeOK
    <2>3. ProfilesTypeOK'
      BY <1>0, <1>8, <2>1, <2>2 DEF Link, ProfilesTypeOK, callers
    <2>4. Targeted'
      BY <1>0, <1>8 DEF Link, Targeted, callers
    <2> QED BY <2>3, <2>4 DEF ProfileType
  <1>9. ASSUME NEW r \in Callers, NEW x \in Accounts, NEW id \in Ids,
               CallbackFind(r, x, id)
        PROVE ProfileType'
    <2>1. BeginCall(r, "callback", link[id]) /\ link[id] \in Users
      BY <1>0, <1>9 DEF CallbackFind, ProfilesTypeOK
    <2>2. blanks' \in 0 .. MaxBlanks
      BY <1>0, <1>9, ProfileBounds DEF CallbackFind, UserInfo, ProfilesTypeOK
    <2>3. ProfilesTypeOK'
      BY <1>0, <1>9, <2>1, <2>2, ProfileBegin
      DEF CallbackFind, ProfilesTypeOK, rows
    <2>4. Targeted'
      BY <1>0, <1>9, <2>1, ProfileBegin DEF CallbackFind, Targeted, ProfilesTypeOK
    <2> QED BY <2>3, <2>4 DEF ProfileType
  <1>10. ASSUME NEW r \in Callers, CallbackUser(r) PROVE ProfileType'
    <2>1. EndCall(r)
      BY <1>10 DEF CallbackUser
    <2>2. ProfilesTypeOK'
      BY <1>0, <1>10, <2>1, ProfileDone DEF CallbackUser, ProfilesTypeOK, rows
    <2>3. Targeted'
      BY <1>0, <2>1, ProfileDone DEF Targeted
    <2> QED BY <2>2, <2>3 DEF ProfileType
  <1>11. CASE UNCHANGED profileVars
    BY <1>0, <1>11 DEF profileVars, rows, callers, profileHist,
                       ProfilesTypeOK, Targeted, ProfileType
  <1> QED
    BY <1>1, <1>2, <1>3, <1>4, <1>5, <1>6, <1>7, <1>8, <1>9, <1>10, <1>11 DEF ProfilesNext

\* An answer without an id leaves its mark, and the id Zero is that of no account.
LEMMA AnsweredOwn ==
    ASSUME NEW x \in Accounts, NEW id \in Ids,
           UserInfo(x, id), mixed' = {}
    PROVE  id = x /\ id # Zero /\ mixed = {}
  BY ColumnNames DEF UserInfo

LEMMA MergedNext ==
    ProfileType /\ Merged /\ [ProfilesNext]_profileVars => Merged'
  <1> SUFFICES ASSUME ProfileType, Merged, [ProfilesNext]_profileVars PROVE Merged'
    OBVIOUS
  <1>0. ProfilesTypeOK /\ Targeted /\ Merged
    BY DEF ProfileType
  \* Requests go on or end, and no row changes but by going.
  <1>a. ASSUME val' = val, alive' \subseteq alive,
               \A q \in Callers : phase'[q] = "admin" =>
                  /\ phase[q] = "admin" /\ target'[q] = target[q] /\ columns'[q] = columns[q]
                  /\ noted'[q] = noted[q] /\ fresh[q] \subseteq fresh'[q]
        PROVE Merged'
    BY <1>0, <1>a DEF Merged
  <1>1. ASSUME NEW r \in Callers, NEW u \in Users, NEW b \in Edits,
               UpdateCheck(r, u, b)
        PROVE Merged'
    BY <1>0, <1>1, <1>a, ProfileBegin
    DEF UpdateCheck, rows, profileHist, ProfilesTypeOK, Kinds
  <1>2. ASSUME NEW r \in Callers, Apply(r) PROVE Merged'
    <2>1. /\ phase[r] = "profile" /\ target[r] \in Users /\ alive' = alive
          /\ noted' = [noted EXCEPT ![r] = Absent]
          /\ columns' = [columns EXCEPT ![r] = NoColumns]
          /\ phase' = [phase EXCEPT ![r] = "idle"] /\ target' = [target EXCEPT ![r] = Absent]
      BY <1>0, <1>2 DEF Apply, EndCall, Targeted
    <2>2. CASE val' = val /\ fresh' = fresh
      BY <1>0, <1>a, <2>1, <2>2 DEF ProfilesTypeOK
    <2>3. CASE /\ val' = [x \in Users \X Cols |->
                            IF x[1] = target[r] /\ columns[r][x[2]] # Absent
                            THEN columns[r][x[2]] ELSE val[x]]
               /\ Gives(r, GivenBy(columns[r]))
      <3> SUFFICES ASSUME NEW q \in Callers, NEW k \in Cols, phase'[q] = "admin",
                          target'[q] \in alive, columns'[q][k] # val'[<<target'[q], k>>]
                   PROVE  k \in noted'[q] \cup fresh'[q]
        BY <2>1 DEF Merged
      <3>1. /\ q # r /\ phase[q] = "admin" /\ target'[q] = target[q] /\ columns'[q] = columns[q]
            /\ noted'[q] = noted[q] /\ target[q] \in Users
        BY <1>0, <2>1 DEF ProfilesTypeOK
      <3>2. fresh[q] \subseteq fresh'[q]
        BY <2>3, <3>1 DEF Gives
      <3>3. CASE columns[q][k] # val[<<target[q], k>>]
        BY <1>0, <3>1, <3>2, <3>3 DEF Merged
      <3>4. CASE columns[q][k] = val[<<target[q], k>>]
        <4>1. target[q] = target[r] /\ columns[r][k] # Absent
          BY <2>3, <3>1, <3>4
        <4>2. k \in fresh'[q]
          BY <2>3, <3>1, <4>1 DEF Gives, GivenBy
        <4> QED BY <4>2
      <3> QED BY <3>3, <3>4
    <2> QED BY <1>2, <2>2, <2>3 DEF Apply
  <1>3. ASSUME NEW r \in Callers, NEW u \in Users, NEW p \in Passwords, NEW q \in Passwords,
               PasswordFetch(r, u, p, q)
        PROVE Merged'
    BY <1>0, <1>3, <1>a, ProfileBegin
    DEF PasswordFetch, rows, ProfilesTypeOK, Kinds
  <1>4. ASSUME NEW r \in Callers, PasswordWrite(r) \/ CallbackUser(r)
        PROVE Merged'
    <2>1. /\ EndCall(r) /\ UNCHANGED <<val, alive, fresh>>
          /\ noted' = [noted EXCEPT ![r] = Absent]
      BY <1>4 DEF PasswordWrite, CallbackUser, rows, EndCall
    <2>2. ASSUME NEW q \in Callers, phase'[q] = "admin"
          PROVE  /\ phase[q] = "admin" /\ target'[q] = target[q] /\ columns'[q] = columns[q]
                 /\ noted'[q] = noted[q] /\ fresh[q] \subseteq fresh'[q]
      <3>1. q # r
        BY <1>0, <2>1, <2>2, ProfileDone
      <3> QED BY <1>0, <2>1, <2>2, <3>1, ProfileDone
    <2> QED BY <1>a, <2>1, <2>2
  <1>5. ASSUME NEW r \in Callers, NEW u \in Users, NEW b \in AdminBodies,
               NEW p \in AdminPasswords, AdminFetch(r, u, b, p)
        PROVE Merged'
    <2>1. BeginCall(r, "admin", u) /\ val' = val /\ alive' = alive /\ fresh' = fresh
      BY <1>5 DEF AdminFetch, rows
    <2>2. /\ columns' = [columns EXCEPT ![r] =
                        [k \in Cols |-> IF b[k] = Absent THEN val[<<u, k>>] ELSE b[k]]]
          /\ noted' = [noted EXCEPT ![r] = GivenBy(b)]
      BY <1>5 DEF AdminFetch
    <2>3. /\ target'[r] = u
          /\ \A q \in Callers \ {r} : phase'[q] = phase[q] /\ target'[q] = target[q]
      BY <1>0, <2>1, ProfileBegin DEF Kinds
    <2> SUFFICES ASSUME NEW q \in Callers, NEW k \in Cols, phase'[q] = "admin",
                        target'[q] \in alive, columns'[q][k] # val[<<target'[q], k>>]
                 PROVE  k \in noted'[q] \cup fresh[q]
      BY <2>1 DEF Merged
    <2>4. CASE q # r
      BY <1>0, <2>2, <2>3, <2>4 DEF Merged
    <2>5. CASE q = r
      <3>1. columns'[r][k] = IF b[k] = Absent THEN val[<<u, k>>] ELSE b[k]
        BY <1>0, <2>2 DEF ProfilesTypeOK
      <3>2. b[k] # Absent
        BY <2>3, <2>5, <3>1
      <3>3. k \in GivenBy(b)
        BY <3>2 DEF GivenBy
      <3>4. noted'[r] = GivenBy(b)
        BY <1>0, <2>2 DEF ProfilesTypeOK
      <3> QED BY <2>5, <3>3, <3>4
    <2> QED BY <2>4, <2>5
  <1>6. ASSUME NEW r \in Callers, AdminWrite(r) PROVE Merged'
    <2>1. /\ phase[r] = "admin" /\ target[r] \in Users /\ alive' = alive
          /\ noted' = [noted EXCEPT ![r] = Absent]
          /\ columns' = [columns EXCEPT ![r] = NoColumns]
          /\ phase' = [phase EXCEPT ![r] = "idle"] /\ target' = [target EXCEPT ![r] = Absent]
      BY <1>0, <1>6 DEF AdminWrite, EndCall, Targeted
    <2> SUFFICES ASSUME NEW q \in Callers, NEW k \in Cols, phase'[q] = "admin",
                        target'[q] \in alive, columns'[q][k] # val'[<<target'[q], k>>]
                 PROVE  k \in noted'[q] \cup fresh'[q]
      BY <2>1 DEF Merged
    <2>2. /\ q # r /\ phase[q] = "admin" /\ target'[q] = target[q] /\ columns'[q] = columns[q]
          /\ noted'[q] = noted[q] /\ target[q] \in Users
      BY <1>0, <2>1 DEF ProfilesTypeOK
    <2>3. CASE val' = val /\ fresh' = [fresh EXCEPT ![r] = {}]
      BY <1>0, <2>2, <2>3 DEF Merged
    <2>4. CASE /\ target[r] \in alive
               /\ val' = [x \in Users \X Cols |->
                            IF x[1] = target[r] THEN columns[r][x[2]] ELSE val[x]]
               /\ Gives(r, noted[r] \cup fresh[r])
      <3>1. fresh[q] \subseteq fresh'[q]
        BY <2>2, <2>4 DEF Gives
      <3>2. CASE columns[q][k] # val[<<target[q], k>>]
        BY <1>0, <2>1, <2>2, <3>1, <3>2 DEF Merged
      <3>3. CASE columns[q][k] = val[<<target[q], k>>]
        <4>1. target[q] = target[r] /\ columns[r][k] # val[<<target[r], k>>]
          BY <2>2, <2>4, <3>3
        <4>2. k \in noted[r] \cup fresh[r]
          BY <1>0, <2>1, <2>4, <4>1 DEF Merged
        <4>3. k \in fresh'[q]
          BY <2>2, <2>4, <4>1, <4>2 DEF Gives
        <4> QED BY <4>3
      <3> QED BY <3>2, <3>3
    <2> QED BY <1>6, <2>3, <2>4 DEF AdminWrite
  <1>7. ASSUME NEW u \in Users, DeleteUser(u) PROVE Merged'
    BY <1>7, <1>a DEF DeleteUser, callers, profileHist
  <1>8. ASSUME NEW u \in Users, NEW x \in Accounts, NEW id \in Ids, Link(u, x, id)
        PROVE Merged'
    BY <1>8, <1>a DEF Link, callers
  <1>9. ASSUME NEW r \in Callers, NEW x \in Accounts, NEW id \in Ids,
               CallbackFind(r, x, id)
        PROVE Merged'
    <2>1. BeginCall(r, "callback", link[id]) /\ link[id] \in Users
      BY <1>0, <1>9 DEF CallbackFind, ProfilesTypeOK
    <2>2. /\ phase'[r] = "callback"
          /\ \A q \in Callers \ {r} : phase'[q] = phase[q] /\ target'[q] = target[q]
      BY <1>0, <2>1, ProfileBegin DEF Kinds
    <2> QED BY <1>9, <1>a, <2>2 DEF CallbackFind, rows
  <1>10. CASE UNCHANGED profileVars
    BY <1>10, <1>a DEF profileVars, rows, callers, profileHist
  <1> QED
    BY <1>1, <1>2, <1>3, <1>4, <1>5, <1>6, <1>7, <1>8, <1>9, <1>10 DEF ProfilesNext

LEMMA VerifiedNext ==
    ProfileType /\ Verified /\ ~guess /\ [ProfilesNext]_profileVars
           => Verified' /\ ~guess'
  <1> SUFFICES ASSUME ProfileType, Verified, ~guess, [ProfilesNext]_profileVars
               PROVE  Verified' /\ ~guess'
    OBVIOUS
  <1>0. ProfilesTypeOK /\ Targeted /\ Verified
    BY DEF ProfileType
  \* No password is written, and no other request verifies one.
  <1>a. ASSUME pass' = pass, guess' = guess, alive' \subseteq alive,
               \A q \in Callers : phase'[q] = "password" =>
                  /\ phase[q] = "password" /\ target'[q] = target[q] /\ known'[q] = known[q]
                  /\ q \in swapped => q \in swapped'
        PROVE Verified' /\ ~guess'
    BY <1>0, <1>a DEF Verified
  <1>1. ASSUME NEW r \in Callers, NEW u \in Users, NEW b \in Edits,
               UpdateCheck(r, u, b)
        PROVE Verified' /\ ~guess'
    BY <1>0, <1>1, <1>a, ProfileBegin
    DEF UpdateCheck, rows, profileHist, ProfilesTypeOK, Kinds
  <1>2. ASSUME NEW r \in Callers, Apply(r) \/ CallbackUser(r)
        PROVE Verified' /\ ~guess'
    <2>1. EndCall(r) /\ UNCHANGED <<pass, guess, alive, swapped>>
      BY <1>2 DEF Apply, CallbackUser, rows
    <2>2. ASSUME NEW q \in Callers, phase'[q] = "password"
          PROVE  phase[q] = "password" /\ target'[q] = target[q] /\ known'[q] = known[q]
      BY <1>0, <2>1, <2>2, ProfileDone
    <2> QED BY <1>a, <2>1, <2>2
  <1>3. ASSUME NEW r \in Callers, NEW u \in Users, NEW p \in Passwords, NEW q \in Passwords,
               PasswordFetch(r, u, p, q)
        PROVE Verified' /\ ~guess'
    <2>1. /\ BeginCall(r, "password", u) /\ UNCHANGED <<pass, guess, alive, swapped>>
          /\ pass[u] = p /\ known' = [known EXCEPT ![r] = p]
      BY <1>3 DEF PasswordFetch, rows
    <2>2. /\ target'[r] = u
          /\ \A s \in Callers \ {r} : phase'[s] = phase[s] /\ target'[s] = target[s]
      BY <1>0, <2>1, ProfileBegin DEF Kinds
    <2> QED BY <1>0, <2>1, <2>2 DEF Verified, ProfilesTypeOK
  <1>4. ASSUME NEW r \in Callers, PasswordWrite(r) PROVE Verified' /\ ~guess'
    <2> DEFINE u == target[r]
    <2>1. /\ EndCall(r) /\ alive' = alive /\ phase[r] = "password" /\ u \in Users
          /\ pass' = IF u \in alive THEN [pass EXCEPT ![u] = secret[r]] ELSE pass
          /\ swapped' = (swapped \cup Others(r, u)) \ {r}
      BY <1>0, <1>4 DEF PasswordWrite, Targeted
    <2>2. ~guess'
      BY <1>0, <1>4 DEF PasswordWrite, Verified
    <2>3. ASSUME NEW q \in Callers, phase'[q] = "password", target'[q] \in alive, q \notin swapped'
          PROVE  pass'[target'[q]] = known'[q]
      <3>1. /\ q # r /\ phase[q] = "password" /\ target'[q] = target[q] /\ known'[q] = known[q]
            /\ target[q] \in Users
        BY <1>0, <2>1, <2>3, ProfileDone DEF Targeted
      <3>2. q \notin swapped /\ target[q] # u
        BY <2>1, <2>3, <3>1 DEF Others
      <3> QED BY <1>0, <2>1, <2>3, <3>1, <3>2 DEF Verified, ProfilesTypeOK
    <2> QED BY <2>1, <2>2, <2>3 DEF Verified
  <1>5. ASSUME NEW r \in Callers, NEW u \in Users, NEW b \in AdminBodies,
               NEW p \in AdminPasswords, AdminFetch(r, u, b, p)
        PROVE Verified' /\ ~guess'
    <2>1. BeginCall(r, "admin", u) /\ UNCHANGED <<pass, guess, alive, swapped, known>>
      BY <1>5 DEF AdminFetch, rows
    <2> QED BY <1>0, <1>a, <2>1, ProfileBegin DEF Kinds
  <1>6. ASSUME NEW r \in Callers, AdminWrite(r) PROVE Verified' /\ ~guess'
    <2> DEFINE u == target[r]
    <2>1. /\ phase[r] = "admin" /\ u \in Users /\ alive' = alive /\ guess' = guess /\ known' = known
          /\ phase' = [phase EXCEPT ![r] = "idle"] /\ target' = [target EXCEPT ![r] = Absent]
          /\ \/ pass' = pass /\ swapped' = swapped
             \/ /\ pass' = [pass EXCEPT ![u] = secret[r]]
                /\ swapped' = swapped \cup Others(r, u)
      BY <1>0, <1>6 DEF AdminWrite, EndCall, Targeted
    <2>2. ASSUME NEW q \in Callers, phase'[q] = "password", target'[q] \in alive, q \notin swapped'
          PROVE  pass'[target'[q]] = known[q]
      <3>1. /\ q # r /\ phase[q] = "password" /\ target'[q] = target[q] /\ target[q] \in Users
        BY <1>0, <2>1, <2>2 DEF Targeted, ProfilesTypeOK
      <3>2. CASE pass' = pass /\ swapped' = swapped
        BY <1>0, <2>2, <3>1, <3>2 DEF Verified
      <3>3. CASE /\ pass' = [pass EXCEPT ![u] = secret[r]]
                 /\ swapped' = swapped \cup Others(r, u)
        <4>1. q \notin swapped /\ target[q] # u
          BY <2>2, <3>1, <3>3 DEF Others
        <4> QED BY <1>0, <2>1, <2>2, <3>1, <3>3, <4>1 DEF Verified, ProfilesTypeOK
      <3> QED BY <2>1, <3>2, <3>3
    <2> QED BY <2>1, <2>2 DEF Verified
  <1>7. ASSUME NEW u \in Users, DeleteUser(u) PROVE Verified' /\ ~guess'
    BY <1>7, <1>a DEF DeleteUser, callers, profileHist
  <1>8. ASSUME NEW u \in Users, NEW x \in Accounts, NEW id \in Ids, Link(u, x, id)
        PROVE Verified' /\ ~guess'
    BY <1>8, <1>a DEF Link, callers
  <1>9. ASSUME NEW r \in Callers, NEW x \in Accounts, NEW id \in Ids,
               CallbackFind(r, x, id)
        PROVE Verified' /\ ~guess'
    <2>1. /\ BeginCall(r, "callback", link[id]) /\ link[id] \in Users
          /\ UNCHANGED <<pass, guess, alive, swapped, known>>
      BY <1>0, <1>9 DEF CallbackFind, ProfilesTypeOK, rows
    <2> QED BY <1>0, <1>a, <2>1, ProfileBegin DEF Kinds
  <1>10. CASE UNCHANGED profileVars
    BY <1>10, <1>a, <1>0 DEF profileVars, rows, callers, profileHist, Verified
  <1> QED
    BY <1>1, <1>2, <1>3, <1>4, <1>5, <1>6, <1>7, <1>8, <1>9, <1>10 DEF ProfilesNext

LEMMA LinkedNext ==
    ProfileType /\ LinkedByOwner /\ (wrong => mixed # {})
           /\ [ProfilesNext]_profileVars => LinkedByOwner' /\ (wrong => mixed # {})'
  <1> SUFFICES ASSUME ProfileType, LinkedByOwner, wrong => mixed # {},
                      [ProfilesNext]_profileVars, mixed' = {}
               PROVE  LinkedByOwner' /\ ~wrong'
    BY DEF LinkedByOwner
  <1>0. ProfilesTypeOK /\ Targeted
    BY DEF ProfileType
  <1>1. mixed = {}
    BY ZenonT(40) DEF ProfilesNext, profileVars, profileHist, UpdateCheck, Apply,
           PasswordFetch, PasswordWrite, AdminFetch, AdminWrite,
           DeleteUser, Link, CallbackFind, CallbackUser,
           UserInfo
  <1>2. /\ ~wrong /\ link[Zero] = Absent
        /\ \A x \in Accounts : link[x] # Absent => link[x] \in owner[x]
        /\ \A r \in Callers :
              phase[r] = "callback" => noted[r] \in Accounts /\ target[r] \in owner[noted[r]]
    BY <1>1 DEF LinkedByOwner
  \* Accounts keep their users, or lose them, and no other login finds one.
  <1>a. ASSUME wrong' = wrong, owner' = owner,
               \A x \in Ids : link'[x] # Absent => link'[x] = link[x],
               \A q \in Callers : phase'[q] = "callback" =>
                  phase[q] = "callback" /\ target'[q] = target[q] /\ noted'[q] = noted[q]
        PROVE LinkedByOwner' /\ ~wrong'
    BY <1>2, <1>a DEF LinkedByOwner, Ids
  <1>3. ASSUME NEW r \in Callers, NEW u \in Users, NEW b \in Edits,
               UpdateCheck(r, u, b)
        PROVE LinkedByOwner' /\ ~wrong'
    BY <1>0, <1>3, <1>a, ProfileBegin
    DEF UpdateCheck, rows, profileHist, Kinds
  <1>4. ASSUME NEW r \in Callers,
               Apply(r) \/ PasswordWrite(r) \/ AdminWrite(r)
        PROVE LinkedByOwner' /\ ~wrong'
    <2>1. EndCall(r) /\ UNCHANGED <<link, owner, wrong>>
      BY <1>4 DEF Apply, PasswordWrite, AdminWrite
    <2>2. ASSUME NEW q \in Callers, phase'[q] = "callback"
          PROVE  phase[q] = "callback" /\ target'[q] = target[q] /\ noted'[q] = noted[q]
      BY <1>0, <2>1, <2>2, ProfileDone
    <2> QED BY <1>a, <2>1, <2>2
  <1>5. ASSUME NEW r \in Callers, NEW u \in Users, NEW p \in Passwords, NEW q \in Passwords,
               PasswordFetch(r, u, p, q)
        PROVE LinkedByOwner' /\ ~wrong'
    BY <1>0, <1>5, <1>a, ProfileBegin DEF PasswordFetch, rows, Kinds
  <1>6. ASSUME NEW r \in Callers, NEW u \in Users, NEW b \in AdminBodies,
               NEW p \in AdminPasswords, AdminFetch(r, u, b, p)
        PROVE LinkedByOwner' /\ ~wrong'
    <2>1. /\ BeginCall(r, "admin", u) /\ UNCHANGED <<link, owner, wrong>>
          /\ noted' = [noted EXCEPT ![r] = GivenBy(b)]
      BY <1>6 DEF AdminFetch, rows
    <2> QED BY <1>0, <1>a, <2>1, ProfileBegin DEF Kinds, ProfilesTypeOK
  <1>7. ASSUME NEW u \in Users, DeleteUser(u) PROVE LinkedByOwner' /\ ~wrong'
    BY <1>7, <1>a DEF DeleteUser, callers, profileHist
  <1>8. ASSUME NEW u \in Users, NEW x \in Accounts, NEW id \in Ids, Link(u, x, id)
        PROVE LinkedByOwner' /\ ~wrong'
    <2>1. id = x /\ id # Zero
      BY <1>8, AnsweredOwn DEF Link
    <2>2. /\ wrong' = wrong /\ UNCHANGED callers
          /\ owner' = [owner EXCEPT ![x] = @ \cup {u}]
          /\ link' = IF link[x] = Absent THEN [link EXCEPT ![x] = u] ELSE link
      BY <1>8, <2>1 DEF Link
    <2>3. /\ u \in owner'[x] /\ \A y \in Accounts : owner[y] \subseteq owner'[y]
      BY <1>0, <2>2 DEF ProfilesTypeOK
    <2>4. /\ link'[Zero] = link[Zero]
          /\ \A y \in Accounts : link'[y] = link[y] \/ (y = x /\ link'[y] = u)
      BY <1>0, <2>1, <2>2 DEF ProfilesTypeOK, Ids
    <2>5. \A y \in Accounts : link'[y] # Absent => link'[y] \in owner'[y]
      BY <1>2, <2>3, <2>4
    <2>6. \A q \in Callers :
             phase'[q] = "callback" => noted'[q] \in Accounts /\ target'[q] \in owner'[noted'[q]]
      BY <1>2, <2>2, <2>3 DEF callers
    <2> QED BY <1>2, <2>2, <2>4, <2>5, <2>6 DEF LinkedByOwner
  <1>9. ASSUME NEW r \in Callers, NEW x \in Accounts, NEW id \in Ids,
               CallbackFind(r, x, id)
        PROVE LinkedByOwner' /\ ~wrong'
    <2>1. id = x /\ link[x] \in owner[x]
      BY <1>2, <1>9, AnsweredOwn DEF CallbackFind
    <2>2. /\ BeginCall(r, "callback", link[x]) /\ link[x] \in Users
          /\ noted' = [noted EXCEPT ![r] = x] /\ UNCHANGED <<link, owner, wrong>>
      BY <1>0, <1>9, <2>1 DEF CallbackFind, ProfilesTypeOK, rows
    <2>3. /\ target'[r] = link[x] /\ noted'[r] = x
          /\ \A q \in Callers \ {r} :
                phase'[q] = phase[q] /\ target'[q] = target[q] /\ noted'[q] = noted[q]
      BY <1>0, <2>2, ProfileBegin DEF Kinds, ProfilesTypeOK
    <2> QED BY <1>2, <2>1, <2>2, <2>3 DEF LinkedByOwner
  <1>10. ASSUME NEW r \in Callers, CallbackUser(r) PROVE LinkedByOwner' /\ ~wrong'
    <2>1. EndCall(r) /\ UNCHANGED <<link, owner>> /\ ~wrong'
      BY <1>2, <1>10 DEF CallbackUser, rows
    <2>2. ASSUME NEW q \in Callers, phase'[q] = "callback"
          PROVE  phase[q] = "callback" /\ target'[q] = target[q] /\ noted'[q] = noted[q]
      BY <1>0, <2>1, <2>2, ProfileDone
    <2> QED BY <1>2, <2>1, <2>2 DEF LinkedByOwner, Ids
  <1>11. CASE UNCHANGED profileVars
    BY <1>11, <1>a DEF profileVars, rows, callers, profileHist
  <1> QED
    BY <1>3, <1>4, <1>5, <1>6, <1>7, <1>8, <1>9, <1>10, <1>11 DEF ProfilesNext

LEMMA ProfileAlways == ProfilesSpec => [](ProfileType /\ Merged /\ SignInInv)
  <1>1. ProfilesInit => ProfileType /\ Merged /\ SignInInv
    BY ProfileInit
  <1>2. ProfileType /\ Merged /\ SignInInv /\ [ProfilesNext]_profileVars
           => (ProfileType /\ Merged /\ SignInInv)'
    BY ProfileTypeNext, MergedNext, VerifiedNext, LinkedNext DEF SignInInv, SignInKept
  <1> QED BY <1>1, <1>2, PTL DEF ProfilesSpec

\* The rows of users and the requests that edit them keep their types.
THEOREM ProfileTypeCorrect == ProfilesSpec => []ProfilesTypeOK
  <1>1. ProfileType => ProfilesTypeOK
    BY DEF ProfileType
  <1> QED BY <1>1, ProfileAlways, PTL

\* A change of the password replaces the one it has verified, and a login ends at a user
\* who linked the account, for any users, accounts and requests, but for the overlaps that
\* SignInKept names.
THEOREM SignInKeptCorrect == ProfilesSpec => []SignInKept
  <1>1. SignInInv => SignInKept
    BY DEF SignInInv
  <1> QED BY <1>1, ProfileAlways, PTL

\* A step changes a column only for a body that gives it, or that an edit since the
\* administrator's read gave, and no step moves a linked account to another user.
THEOREM OthersKeptCorrect == ProfilesSpec => OthersKept
  <1> DEFINE Columns ==
                \A u \in alive, k \in Cols : val'[<<u, k>>] # val[<<u, k>>] =>
                   \E r \in Callers :
                      /\ target[r] = u /\ phase'[r] = "idle"
                      /\ \/ phase[r] = "profile" /\ k \in GivenBy(columns[r])
                         \/ phase[r] = "admin" /\ k \in noted[r] \cup fresh[r]
             Linked ==
                \A x \in Ids : link[x] # Absent /\ link[x] \in alive' => link'[x] = link[x]
  <1>1. ProfileType /\ Merged /\ [ProfilesNext]_profileVars
           => [Columns /\ Linked]_profileVars
    <2> SUFFICES ASSUME ProfileType, Merged, ProfilesNext PROVE Columns /\ Linked
      OBVIOUS
    <2>0. ProfilesTypeOK /\ Targeted
      BY DEF ProfileType
    <2>1. Linked
      <3>1. CASE \E u \in Users : DeleteUser(u)
        BY <2>0, <3>1 DEF DeleteUser, ProfilesTypeOK
      <3>2. CASE \E u \in Users, x \in Accounts, id \in Ids : Link(u, x, id)
        BY <2>0, <3>2 DEF Link, ProfilesTypeOK
      <3>3. CASE link' = link
        BY <3>3
      <3> QED
        BY <3>1, <3>2, <3>3, ZenonT(40)
        DEF ProfilesNext, UpdateCheck, Apply, PasswordFetch, rows,
            PasswordWrite, AdminFetch, AdminWrite, CallbackFind,
            CallbackUser
    <2>2. Columns
      <3>1. ASSUME NEW r \in Callers, Apply(r) PROVE Columns
        <4>1. phase[r] = "profile" /\ phase'[r] = "idle"
          BY <2>0, <3>1, ProfileDone DEF Apply
        <4>2. \A u \in Users, k \in Cols : val'[<<u, k>>] # val[<<u, k>>] =>
                 u = target[r] /\ k \in GivenBy(columns[r])
          BY <2>0, <3>1 DEF Apply, GivenBy, ProfilesTypeOK
        <4> QED BY <2>0, <4>1, <4>2 DEF ProfilesTypeOK
      <3>2. ASSUME NEW r \in Callers, AdminWrite(r) PROVE Columns
        <4>1. phase[r] = "admin" /\ phase'[r] = "idle"
          BY <2>0, <3>2, ProfileDone DEF AdminWrite
        <4>2. \A u \in Users, k \in Cols : val'[<<u, k>>] # val[<<u, k>>] =>
                 u = target[r] /\ u \in alive /\ columns[r][k] # val[<<u, k>>]
          BY <2>0, <3>2 DEF AdminWrite, ProfilesTypeOK
        <4>3. \A u \in Users, k \in Cols : val'[<<u, k>>] # val[<<u, k>>] =>
                 u = target[r] /\ k \in noted[r] \cup fresh[r]
          BY <4>1, <4>2 DEF Merged
        <4> QED BY <2>0, <4>1, <4>3 DEF ProfilesTypeOK
      <3>3. CASE val' = val
        BY <3>3
      <3> QED
        BY <3>1, <3>2, <3>3
        DEF ProfilesNext, UpdateCheck, PasswordFetch, rows,
            PasswordWrite, AdminFetch, CallbackFind,
            CallbackUser, DeleteUser, Link
    <2> QED BY <2>1, <2>2
  <1>2. ProfilesSpec => [][Columns /\ Linked]_profileVars
    BY <1>1, ProfileAlways, PTL DEF ProfilesSpec
  <1> QED BY <1>2, PTL DEF OthersKept

(***************************************************************************)
(* System configuration.  Nothing locks config.toml; met, again and late   *)
(* say when requests have met in it, and none of them is ever taken back.  *)
(* So as long as one is FALSE the file and its backups are whole, every    *)
(* request has read what it backed up, and what it reloads is in the file. *)
(***************************************************************************)

\* What a request has read or will write names a language; a backup of no config.toml has
\* read nothing; and what was copied or reloaded is there.
Configured ==
    /\ \A r \in Requests :
          /\ pc[r] \in {"doc", "write", "fill", "reload", "docnew", "writenew", "fillnew"} =>
                config[r]["lang"] # None
          /\ pc[r] \in {"docnew", "writenew", "fillnew"} => old[r] = Empty
          /\ pc[r] \in {"open", "openonly", "copy", "copyonly", "reload", "restored", "found"} => exists
    /\ loaded => exists
    /\ ~exists => \A t \in 0 .. MaxTime : backup[t] = None

\* Undisturbed, config.toml and its backups are TOML, and have keys unless someone is about
\* to fill them.
Undisturbed ==
    ~met =>
        /\ file # Garbled /\ \A t \in 0 .. MaxTime : backup[t] # Garbled
        /\ file = Empty => ~exists \/ Filling
        /\ \A t \in 0 .. MaxTime : backup[t] = Empty => FillingBackup(t)

\* Undisturbed, a backup that fills a new config.toml is the only request at work on it, and
\* no backup can be restored yet.
NewFile ==
    ~met => \A r \in Requests : pc[r] = "fillnew" =>
        /\ file = Empty /\ \A q \in Requests \ {r} : pc[q] \notin {"fill", "fillnew"}
        /\ \A t \in 0 .. MaxTime : backup[t] # None => FillingBackup(t)

\* Undisturbed, what a restore has read has keys.
FoundKeys == ~met => \A r \in Requests : pc[r] = "found" => config[r] # Empty

\* Undisturbed, an update holds every key of the file it has backed up: first those it
\* knows, then the others.
KeysRead ==
    ~met => \A r \in Requests, k \in Keys :
        /\ \/ pc[r] \in {"doc", "write", "fill"} /\ k # "port"
           \/ pc[r] \in {"write", "fill"}
        /\ old[r][k] # None
        => config[r][k] # None

\* The backup of an update is what it has read, from the copy on, and nobody else is
\* about to write it; so is that of the last update.
BackupsKept ==
    ~met /\ ~again =>
        /\ \A r, q \in Requests :
              pc[r] \in {"copy", "copyonly"} /\ pc[q] \in {"copy", "copyonly"} /\ r # q =>
                  stamp[r] # stamp[q]
        /\ \A r \in Requests :
              pc[r] \in {"read", "doc", "write", "fill"} /\ old[r] # Empty =>
                  backup[stamp[r]] = old[r] /\ ~FillingBackup(stamp[r])
        /\ saved # None => backup[saved.stamp] = saved.keys /\ ~FillingBackup(saved.stamp)

\* A hot check in progress has the language of the process, unless a reload fell into it.
HotFollows == hot # None /\ ~late => hot[1] = lang

\* Undisturbed and reloaded, no backup fills a new config.toml, and the language is that of
\* the file or a request is on its way to reload it.
LanguageKept ==
    loaded /\ ~met /\ ~late =>
        /\ \A r \in Requests : pc[r] # "fillnew"
        /\ \/ \E r \in Requests : pc[r] \in {"fill", "reload", "restore", "restored", "found"}
           \/ lang = LanguageOf(file["lang"])

ConfigType == TypeOK /\ disk <= faults /\ Configured

UndoInv == KeysRead /\ BackupsKept

LanguageInv == HotFollows /\ LanguageKept

ConfigInv == ConfigType /\ Undisturbed /\ NewFile /\ FoundKeys /\ UndoInv /\ LanguageInv

LEMMA LanguageKnown == \A v : LanguageOf(v) \in Languages
  BY ConfigValues DEF LanguageOf

LEMMA EmptyIn == Empty \in Contents /\ \A k \in Keys : Empty[k] = None
  BY DEF Empty, Contents

LEMMA FilledType ==
    ASSUME NEW cur \in Contents \cup {Garbled}, NEW new \in Contents \cup {Garbled}
    PROVE  Filled(cur, new) \subseteq Contents \cup {Garbled}
  <1>1. CASE cur \in {Empty, new} \/ Garbled \in {cur, new}
    BY <1>1 DEF Filled
  <1>2. CASE cur \notin {Empty, new} /\ Garbled \notin {cur, new}
    <2>1. [k \in Keys |-> IF new[k] = None THEN cur[k] ELSE new[k]] \in Contents
      BY <1>2 DEF Contents
    <2> QED BY <1>2, <2>1 DEF Filled
  <1> QED BY <1>1, <1>2

\* What an emptied file is filled with, it holds.
LEMMA FilledEmpty == \A new : Filled(Empty, new) = {new}
  BY DEF Filled

LEMMA ConfigTo ==
    ASSUME TypeOK, NEW r \in Requests, NEW l \in Labels, To(r, l)
    PROVE  /\ pc' \in [Requests -> Labels] /\ pc'[r] = l
           /\ \A q \in Requests \ {r} : pc'[q] = pc[q]
  BY DEF TypeOK, To

LEMMA ConfigDone ==
    ASSUME TypeOK, NEW r \in Requests, Done(r)
    PROVE  /\ pc' \in [Requests -> Labels] /\ body' \in [Requests -> Contents]
           /\ config' \in [Requests -> Contents] /\ stamp' \in [Requests -> 0 .. MaxTime]
           /\ old' \in [Requests -> Contents \cup {Garbled}]
           /\ pc'[r] = "idle" /\ body'[r] = Empty /\ config'[r] = Empty /\ old'[r] = Empty
           /\ stamp'[r] = 0
           /\ \A q \in Requests \ {r} :
                 /\ pc'[q] = pc[q] /\ body'[q] = body[q] /\ config'[q] = config[q]
                 /\ stamp'[q] = stamp[q] /\ old'[q] = old[q]
  BY EmptyIn, ConfigBounds DEF TypeOK, Done, To, Labels

LEMMA ConfigTypeInit == Init => ConfigType
  <1> SUFFICES ASSUME Init PROVE ConfigType
    OBVIOUS
  <1>1. file \in Contents
    BY ConfigValues DEF Init, Contents
  <1>2. TypeOK
    BY <1>1, EmptyIn, ConfigBounds, LanguageKnown DEF Init, TypeOK, Labels, Filling
  <1>3. disk <= faults /\ Configured
    BY DEF Init, Configured
  <1> QED BY <1>2, <1>3 DEF ConfigType

LEMMA ConfigTypeNext == ConfigType /\ [Next]_vars => ConfigType'
  <1> SUFFICES ASSUME ConfigType, [Next]_vars PROVE ConfigType'
    OBVIOUS
  <1>0. TypeOK /\ disk <= faults /\ Configured
    BY DEF ConfigType
  <1>n. MaxCalls \in Nat /\ MaxTime \in Nat /\ MaxFaults \in Nat
    BY ConfigBounds
  <1>1. ASSUME NEW r \in Requests, NEW b \in Bodies, UpdateStart(r, b) PROVE ConfigType'
    <2>1. b \in Contents
      BY ConfigValues DEF Bodies, Contents
    <2>2. To(r, IF exists THEN "open" ELSE "read") /\ pc[r] = "idle"
      BY <1>1 DEF UpdateStart, Begin
    <2>3. /\ pc' \in [Requests -> Labels] /\ pc'[r] = IF exists THEN "open" ELSE "read"
          /\ \A q \in Requests \ {r} : pc'[q] = pc[q]
      BY <1>0, <2>2, ConfigTo DEF Labels
    <2>b. /\ body' \in [Requests -> Contents] /\ \A q \in Requests \ {r} : body'[q] = body[q]
          /\ calls' \in 0 .. MaxCalls
      BY <1>0, <1>n, <1>1, <2>1 DEF TypeOK, UpdateStart, Begin
    <2>4. TypeOK'
      BY <1>0, <1>1, <2>b, <2>2, <2>3 DEF TypeOK, UpdateStart, files, i18n, hist, Filling
    <2>5. Configured'
      BY <1>0, <1>1, <2>2, <2>3 DEF Configured, UpdateStart, files, hist
    <2> QED BY <1>0, <1>1, <2>4, <2>5 DEF ConfigType, UpdateStart, i18n
  <1>2. ASSUME NEW r \in Requests, BackupStart(r) PROVE ConfigType'
    <2>1. [k \in Keys |-> IF k \in Known THEN Start ELSE None] \in Contents
      BY ConfigValues DEF Contents
    <2>2. To(r, IF exists THEN "openonly" ELSE "docnew") /\ pc[r] = "idle"
      BY <1>2 DEF BackupStart, Begin
    <2>3. /\ pc' \in [Requests -> Labels] /\ pc'[r] = IF exists THEN "openonly" ELSE "docnew"
          /\ \A q \in Requests \ {r} : pc'[q] = pc[q]
      BY <1>0, <2>2, ConfigTo DEF Labels
    <2>4. TypeOK'
      BY <1>0, <1>n, <1>2, <2>1, <2>2, <2>3
      DEF TypeOK, BackupStart, Begin, files, i18n, hist, Filling
    <2>5. Configured'
      <3>1. ~exists => config'[r]["lang"] = Start /\ Start # None /\ old[r] = Empty
        BY <1>0, <1>2, <2>2, ConfigValues DEF BackupStart, TypeOK, Keys, Known
      <3>2. \A q \in Requests \ {r} : config'[q] = config[q]
        BY <1>0, <1>2 DEF BackupStart, TypeOK
      <3> QED BY <1>0, <1>2, <2>3, <3>1, <3>2 DEF Configured, BackupStart, files, hist
    <2> QED BY <1>0, <1>2, <2>4, <2>5 DEF ConfigType, BackupStart, i18n
  <1>3. ASSUME NEW r \in Requests, NEW t \in 0 .. MaxTime, RestoreStart(r, t) PROVE ConfigType'
    <2>1. To(r, "restore") /\ pc[r] = "idle"
      BY <1>3 DEF RestoreStart, Begin
    <2>2. /\ pc' \in [Requests -> Labels] /\ pc'[r] = "restore"
          /\ \A q \in Requests \ {r} : pc'[q] = pc[q]
      BY <1>0, <2>1, ConfigTo DEF Labels
    <2>b. /\ stamp' \in [Requests -> 0 .. MaxTime] /\ stamp'[r] = t
          /\ \A q \in Requests \ {r} : stamp'[q] = stamp[q]
          /\ calls' \in 0 .. MaxCalls
      BY <1>0, <1>n, <1>3 DEF TypeOK, RestoreStart, Begin
    <2>3. TypeOK'
      BY <1>0, <1>3, <2>b, <2>2, EmptyIn DEF TypeOK, RestoreStart, i18n, hist, Filling
    <2>4. Configured'
      BY <1>0, <1>3, <2>2 DEF Configured, RestoreStart, hist
    <2> QED BY <1>0, <1>3, <2>3, <2>4 DEF ConfigType, RestoreStart, i18n
  <1>4. ASSUME NEW r \in Requests, BackupOpen(r) PROVE ConfigType'
    <2>1. To(r, IF pc[r] = "open" THEN "copy" ELSE "copyonly") /\ pc[r] \in {"open", "openonly"}
      BY <1>4 DEF BackupOpen
    <2>2. /\ pc' \in [Requests -> Labels] /\ pc'[r] \in {"copy", "copyonly"}
          /\ \A q \in Requests \ {r} : pc'[q] = pc[q]
      BY <1>0, <2>1, ConfigTo DEF Labels
    <2>3. Empty # None /\ Empty \in Contents
      BY EmptyIn, ContentsApart
    <2>4. TypeOK'
      BY <1>0, <1>4, <2>1, <2>2, <2>3 DEF TypeOK, BackupOpen, i18n, bounds, Filling
    <2>5. Configured'
      BY <1>0, <1>4, <2>1, <2>2 DEF Configured, BackupOpen
    <2> QED BY <1>0, <1>4, <2>4, <2>5 DEF ConfigType, BackupOpen, i18n, bounds
  <1>5. ASSUME NEW r \in Requests, BackupCopy(r) PROVE ConfigType'
    <2>1. PICK f \in Filled(backup[stamp[r]], file) : backup' = [backup EXCEPT ![stamp[r]] = f]
      BY <1>5 DEF BackupCopy
    <2>2. f \in Contents \cup {Garbled} /\ f # None
      BY <1>0, <1>5, FilledType, ContentsApart DEF TypeOK, BackupCopy
    <2>3. CASE pc[r] = "copy"
      <3>1. To(r, "read") /\ old' = [old EXCEPT ![r] = file] /\ UNCHANGED <<body, config, stamp>>
        BY <1>5, <2>3 DEF BackupCopy
      <3>2. /\ pc' \in [Requests -> Labels] /\ pc'[r] = "read"
            /\ \A q \in Requests \ {r} : pc'[q] = pc[q]
        BY <1>0, <3>1, ConfigTo DEF Labels
      <3>3. TypeOK'
        BY <1>0, <1>5, <2>1, <2>2, <2>3, <3>1, <3>2 DEF TypeOK, BackupCopy, i18n, bounds, Filling
      <3>4. Configured'
        BY <1>0, <1>5, <3>1, <3>2 DEF Configured, BackupCopy, TypeOK
      <3> QED BY <1>0, <1>5, <3>3, <3>4 DEF ConfigType, BackupCopy, i18n, bounds
    <2>4. CASE pc[r] # "copy"
      <3>1. Done(r) /\ pc[r] = "copyonly"
        BY <1>5, <2>4 DEF BackupCopy
      <3>b. backup' \in [0 .. MaxTime -> Contents \cup {None, Garbled}]
        BY <1>0, <2>1, <2>2 DEF TypeOK
      <3>c. \A q \in Requests : pc'[q] \in {"copy", "copyonly", "restore"} => backup'[stamp'[q]] # None
        BY <1>0, <2>1, <2>2, <3>1, ConfigDone DEF TypeOK
      <3>2. TypeOK'
        BY <1>0, <1>5, <3>1, <3>b, <3>c, ConfigDone, SMTT(30)
        DEF TypeOK, BackupCopy, i18n, bounds, Filling
      <3>3. Configured'
        BY <1>0, <1>5, <3>1, ConfigDone DEF Configured, BackupCopy
      <3> QED BY <1>0, <1>5, <3>2, <3>3 DEF ConfigType, BackupCopy, i18n, bounds
    <2> QED BY <2>3, <2>4
  <1>6. ASSUME NEW r \in Requests, ReadConfig(r) PROVE ConfigType'
    <2>1. To(r, "doc") /\ pc[r] = "read"
      BY <1>6 DEF ReadConfig
    <2>2. /\ pc' \in [Requests -> Labels] /\ pc'[r] = "doc"
          /\ \A q \in Requests \ {r} : pc'[q] = pc[q]
      BY <1>0, <2>1, ConfigTo DEF Labels
    <2> DEFINE new == [k \in Keys |->
                         IF body[r][k] # None THEN body[r][k]
                         ELSE IF k = "lang" /\ Existing[k] = None THEN Start ELSE Existing[k]]
    <2>3. Existing \in Contents /\ body[r] \in Contents /\ Start \in Values /\ Start # None
      BY <1>0, EmptyIn, ConfigValues DEF TypeOK, Existing
    <2>4. new \in Contents /\ new["lang"] # None
      BY <2>3 DEF Contents, Keys, Known
    <2>5. config' = [config EXCEPT ![r] = new]
      BY <1>6 DEF ReadConfig
    <2> HIDE DEF new
    <2>b. config' \in [Requests -> Contents] /\ \A q \in Requests \ {r} : config'[q] = config[q]
      BY <1>0, <2>4, <2>5 DEF TypeOK
    <2>6. TypeOK'
      BY <1>0, <1>6, <2>1, <2>2, <2>b DEF TypeOK, ReadConfig, files, i18n, bounds, Filling
    <2>7. Configured'
      BY <1>0, <1>6, <2>2, <2>4, <2>5 DEF Configured, ReadConfig, TypeOK, files
    <2> QED BY <1>0, <1>6, <2>6, <2>7 DEF ConfigType, ReadConfig, i18n, bounds
  <1>7. ASSUME NEW r \in Requests, ReadDoc(r) PROVE ConfigType'
    <2> DEFINE l == IF pc[r] = "doc" THEN "write" ELSE "writenew"
    <2>1. To(r, l) /\ pc[r] \in {"doc", "docnew"}
      BY <1>7 DEF ReadDoc
    <2>2. /\ pc' \in [Requests -> Labels] /\ pc'[r] = l
          /\ \A q \in Requests \ {r} : pc'[q] = pc[q]
      BY <1>0, <2>1, ConfigTo DEF Labels
    <2>3. config[r] \in Contents /\ file \in Contents
      BY <1>0, <1>7 DEF TypeOK, ReadDoc
    <2>4. /\ config' \in [Requests -> Contents] /\ config'[r]["lang"] = config[r]["lang"]
          /\ \A q \in Requests \ {r} : config'[q] = config[q]
      BY <1>0, <1>7, <2>3 DEF TypeOK, ReadDoc, Contents, Keys, Known
    <2>5. TypeOK'
      BY <1>0, <1>7, <2>1, <2>2, <2>4 DEF TypeOK, ReadDoc, files, i18n, bounds, Filling
    <2>6. Configured'
      BY <1>0, <1>7, <2>1, <2>2, <2>4 DEF Configured, ReadDoc, files
    <2> QED BY <1>0, <1>7, <2>5, <2>6 DEF ConfigType, ReadDoc, i18n, bounds
  <1>8. ASSUME NEW r \in Requests, ReadDocFails(r) PROVE ConfigType'
    <2>1. Done(r) /\ pc[r] \in {"doc", "docnew"}
      BY <1>8 DEF ReadDocFails
    <2>2. TypeOK'
      BY <1>0, <1>8, <2>1, ConfigDone DEF TypeOK, ReadDocFails, files, i18n, bounds, Filling
    <2>3. Configured'
      BY <1>0, <1>8, <2>1, ConfigDone DEF Configured, ReadDocFails, files
    <2> QED BY <1>0, <1>8, <2>2, <2>3 DEF ConfigType, ReadDocFails, i18n, bounds
  <1>9. ASSUME NEW r \in Requests, WriteOpen(r) PROVE ConfigType'
    <2> DEFINE l == IF pc[r] = "write" THEN "fill" ELSE "fillnew"
    <2>1. To(r, l) /\ pc[r] \in {"write", "writenew"}
      BY <1>9 DEF WriteOpen
    <2>2. /\ pc' \in [Requests -> Labels] /\ pc'[r] = l
          /\ \A q \in Requests \ {r} : pc'[q] = pc[q]
      BY <1>0, <2>1, ConfigTo DEF Labels
    <2>3. TypeOK'
      BY <1>0, <1>9, <2>1, <2>2, EmptyIn DEF TypeOK, WriteOpen, i18n, bounds, Filling
    <2>4. Configured'
      BY <1>0, <1>9, <2>1, <2>2 DEF Configured, WriteOpen
    <2> QED BY <1>0, <1>9, <2>3, <2>4 DEF ConfigType, WriteOpen, i18n, bounds
  <1>10. ASSUME NEW r \in Requests, WriteFill(r) PROVE ConfigType'
    <2> DEFINE l == IF pc[r] = "fill" THEN "reload" ELSE "openonly"
    <2>1. To(r, l) /\ pc[r] \in {"fill", "fillnew"}
      BY <1>10 DEF WriteFill
    <2>2. /\ pc' \in [Requests -> Labels] /\ pc'[r] = l
          /\ \A q \in Requests \ {r} : pc'[q] = pc[q]
      BY <1>0, <2>1, ConfigTo DEF Labels
    <2>3. exists /\ file' \in Contents \cup {Garbled}
      BY <1>0, <1>10, FilledType DEF TypeOK, WriteFill, Filling
    <2>4. saved' \in [stamp : 0 .. MaxTime, keys : Contents \cup {Garbled}] \cup {None}
      BY <1>0, <1>10 DEF TypeOK, WriteFill
    <2>5. TypeOK'
      BY <1>0, <1>10, <2>1, <2>2, <2>3, <2>4 DEF TypeOK, WriteFill, i18n, bounds, Filling
    <2>6. Configured'
      BY <1>0, <1>10, <2>1, <2>2, <2>3 DEF Configured, WriteFill
    <2> QED BY <1>0, <1>10, <2>5, <2>6 DEF ConfigType, WriteFill, i18n, bounds
  <1>11. ASSUME NEW r \in Requests, Reload(r) PROVE ConfigType'
    <2>1. Done(r) /\ pc[r] = "reload" /\ exists
      BY <1>0, <1>11 DEF Reload, Configured
    <2>2. lang' \in Languages
      BY <1>11, LanguageKnown DEF Reload
    <2>3. TypeOK'
      BY <1>0, <1>11, <2>1, <2>2, ConfigDone DEF TypeOK, Reload, files, bounds, Filling
    <2>4. Configured'
      BY <1>0, <1>11, <2>1, ConfigDone DEF Configured, Reload, files
    <2> QED BY <1>0, <1>11, <2>3, <2>4 DEF ConfigType, Reload, bounds
  <1>12. ASSUME NEW r \in Requests, RestoreFill(r) PROVE ConfigType'
    <2>1. To(r, "restored") /\ pc[r] = "restore"
      BY <1>12 DEF RestoreFill
    <2>2. /\ pc' \in [Requests -> Labels] /\ pc'[r] = "restored"
          /\ \A q \in Requests \ {r} : pc'[q] = pc[q]
      BY <1>0, <2>1, ConfigTo DEF Labels
    <2>3. backup[stamp[r]] \in Contents \cup {Garbled}
      BY <1>0, <2>1 DEF TypeOK
    <2>4. exists /\ file' \in Contents \cup {Garbled}
      BY <1>0, <1>12, <2>3, FilledType DEF TypeOK, RestoreFill, Filling
    <2>5. TypeOK'
      BY <1>0, <1>12, <2>1, <2>2, <2>4 DEF TypeOK, RestoreFill, i18n, bounds, Filling
    <2>6. Configured'
      BY <1>0, <1>12, <2>1, <2>2, <2>4 DEF Configured, RestoreFill
    <2> QED BY <1>0, <1>12, <2>5, <2>6 DEF ConfigType, RestoreFill, i18n, bounds
  <1>r. ASSUME NEW r \in Requests, RestoreRead(r) PROVE ConfigType'
    <2>1. To(r, "found") /\ pc[r] = "restored" /\ exists
      BY <1>0, <1>r DEF RestoreRead, Configured
    <2>2. /\ pc' \in [Requests -> Labels] /\ pc'[r] = "found"
          /\ \A q \in Requests \ {r} : pc'[q] = pc[q]
      BY <1>0, <2>1, ConfigTo DEF Labels
    <2>3. Existing \in Contents
      BY <1>0, EmptyIn DEF TypeOK, Existing
    <2>4. config' \in [Requests -> Contents] /\ \A q \in Requests \ {r} : config'[q] = config[q]
      BY <1>0, <1>r, <2>3 DEF TypeOK, RestoreRead
    <2>5. TypeOK'
      BY <1>0, <1>r, <2>1, <2>2, <2>4 DEF TypeOK, RestoreRead, files, i18n, bounds, Filling
    <2>6. Configured'
      BY <1>0, <1>r, <2>1, <2>2, <2>4 DEF Configured, RestoreRead, files
    <2> QED BY <1>0, <1>r, <2>5, <2>6 DEF ConfigType, RestoreRead, i18n, bounds
  <1>13. ASSUME NEW r \in Requests, RestoreReload(r) PROVE ConfigType'
    <2>1. Done(r) /\ pc[r] = "found" /\ exists
      BY <1>0, <1>13 DEF RestoreReload, Configured
    <2>2. lang' \in Languages
      BY <1>13, LanguageKnown DEF RestoreReload
    <2>3. TypeOK'
      BY <1>0, <1>13, <2>1, <2>2, ConfigDone DEF TypeOK, RestoreReload, files, bounds, Filling
    <2>4. Configured'
      BY <1>0, <1>13, <2>1, ConfigDone DEF Configured, RestoreReload, files
    <2> QED BY <1>0, <1>13, <2>3, <2>4 DEF ConfigType, RestoreReload, bounds
  <1>14. CASE HotLoad \/ HotStore \/ LocaleEdit \/ Tick
    <2>1. UNCHANGED <<files, requests, hist>>
      BY <1>14 DEF HotLoad, HotStore, LocaleEdit, Tick
    <2>2. hot # None => hot[1] \in Languages /\ hot[2] \in 0 .. MaxFaults
      BY <1>0 DEF TypeOK
    <2>3. TypeOK'
      BY <1>0, <1>n, <1>14, <2>1, <2>2, SMTT(30)
      DEF TypeOK, HotLoad, HotStore, LocaleEdit, Tick, files, i18n, requests, hist, bounds, Filling
    <2>4. disk' <= faults'
      BY <1>0, <1>14 DEF TypeOK, HotLoad, HotStore, LocaleEdit, Tick, i18n, bounds
    <2> QED BY <1>0, <2>1, <2>3, <2>4 DEF ConfigType, Configured, files, requests, hist
  <1>15. CASE Restart
    <2>1. TypeOK'
      BY <1>0, <1>n, <1>15, EmptyIn, LanguageKnown DEF TypeOK, Restart, files, Filling, Labels
    <2>2. disk' <= faults'
      BY <1>0, <1>15 DEF TypeOK, Restart
    <2> QED BY <1>0, <1>15, <2>1, <2>2 DEF ConfigType, Configured, Restart, files
  <1>16. CASE UNCHANGED vars
    BY <1>0, <1>16
    DEF vars, files, i18n, requests, bounds, hist, TypeOK, Filling, Configured, ConfigType
  <1> QED
    BY <1>1, <1>2, <1>3, <1>4, <1>5, <1>6, <1>7, <1>8, <1>9, <1>10, <1>11, <1>12, <1>r, <1>13,
       <1>14, <1>15, <1>16
    DEF Next

\* The steps of one request.
Work(r) ==
    \/ (\E b \in Bodies : UpdateStart(r, b)) \/ BackupStart(r)
    \/ (\E t \in 0 .. MaxTime : RestoreStart(r, t))
    \/ BackupOpen(r) \/ BackupCopy(r) \/ ReadConfig(r) \/ ReadDoc(r) \/ ReadDocFails(r)
    \/ WriteOpen(r) \/ WriteFill(r) \/ Reload(r) \/ RestoreFill(r)
    \/ RestoreRead(r) \/ RestoreReload(r)

\* They are about no other.
LEMMA WorkOthers ==
    ASSUME TypeOK, NEW r \in Requests, Work(r)
    PROVE  \A q \in Requests \ {r} :
              /\ pc'[q] = pc[q] /\ config'[q] = config[q] /\ stamp'[q] = stamp[q]
              /\ old'[q] = old[q]
  <1>1. CASE ReadDocFails(r) \/ Reload(r) \/ RestoreReload(r)
    <2>1. Done(r)
      BY <1>1 DEF ReadDocFails, Reload, RestoreReload
    <2> QED BY <2>1, ConfigDone
  <1>2. CASE BackupCopy(r)
    <2>1. CASE pc[r] = "copy"
      BY <1>2, <2>1 DEF BackupCopy, To, TypeOK
    <2>2. CASE pc[r] # "copy"
      <3>1. Done(r)
        BY <1>2, <2>2 DEF BackupCopy
      <3> QED BY <3>1, ConfigDone
    <2> QED BY <2>1, <2>2
  <1>3. CASE (\E b \in Bodies : UpdateStart(r, b)) \/ BackupStart(r)
    BY <1>3 DEF UpdateStart, BackupStart, Begin, To, TypeOK, hist
  <1>4. CASE \E t \in 0 .. MaxTime : RestoreStart(r, t)
    BY <1>4 DEF RestoreStart, Begin, To, TypeOK, hist
  <1>5. CASE BackupOpen(r) \/ RestoreFill(r)
    BY <1>5 DEF BackupOpen, RestoreFill, To, TypeOK
  <1>6. CASE ReadConfig(r) \/ ReadDoc(r) \/ RestoreRead(r)
    BY <1>6 DEF ReadConfig, ReadDoc, RestoreRead, To, TypeOK
  <1>7. CASE WriteOpen(r) \/ WriteFill(r)
    BY <1>7 DEF WriteOpen, WriteFill, To, TypeOK
  <1> QED BY <1>1, <1>2, <1>3, <1>4, <1>5, <1>6, <1>7 DEF Work

\* The steps of Next, a request's as its work.
LEMMA ConfigNextCases ==
    ASSUME [Next]_vars
    PROVE  \/ \E r \in Requests : Work(r)
           \/ Restart
           \/ /\ HotLoad \/ HotStore \/ LocaleEdit \/ Tick \/ UNCHANGED vars
              /\ UNCHANGED <<files, requests, hist>>
  BY DEF Next, Work, vars, HotLoad, HotStore, LocaleEdit, Tick

\* What has been disturbed stays so.
LEMMA ConfigFlags ==
    ASSUME [Next]_vars
    PROVE  (met => met') /\ (again => again') /\ (late => late')
  <1>1. ASSUME NEW r \in Requests, Work(r)
        PROVE  (met => met') /\ (again => again') /\ (late => late')
    <2>1. CASE (\E b \in Bodies : UpdateStart(r, b)) \/ BackupStart(r)
               \/ (\E t \in 0 .. MaxTime : RestoreStart(r, t))
      BY <2>1 DEF UpdateStart, BackupStart, RestoreStart, hist
    <2>2. CASE BackupOpen(r)
      BY <2>2 DEF BackupOpen
    <2>3. CASE BackupCopy(r)
      BY <2>3 DEF BackupCopy
    <2>4. CASE ReadConfig(r)
      BY <2>4 DEF ReadConfig
    <2>5. CASE ReadDoc(r)
      BY <2>5 DEF ReadDoc
    <2>6. CASE ReadDocFails(r)
      BY <2>6 DEF ReadDocFails
    <2>7. CASE WriteOpen(r)
      BY <2>7 DEF WriteOpen
    <2>8. CASE WriteFill(r)
      BY <2>8 DEF WriteFill
    <2>9. CASE Reload(r)
      BY <2>9 DEF Reload
    <2>10. CASE RestoreFill(r)
      BY <2>10 DEF RestoreFill
    <2>11. CASE RestoreRead(r)
      BY <2>11 DEF RestoreRead
    <2>12. CASE RestoreReload(r)
      BY <2>12 DEF RestoreReload
    <2> QED
      BY <1>1, <2>1, <2>2, <2>3, <2>4, <2>5, <2>6, <2>7, <2>8, <2>9, <2>10, <2>11, <2>12 DEF Work
  <1>2. CASE Restart
    BY <1>2 DEF Restart
  <1>3. CASE UNCHANGED <<files, requests, hist>>
    BY <1>3 DEF hist
  <1> QED BY <1>1, <1>2, <1>3, ConfigNextCases

LEMMA ConfigInit == Init => ConfigInv
  <1> SUFFICES ASSUME Init PROVE ConfigInv
    OBVIOUS
  <1>1. ConfigType
    BY ConfigTypeInit
  <1>2. ~exists \/ file # Empty
    <2>1. exists => file["url"] = Start
      BY DEF Init, Keys, Known
    <2> QED BY <2>1, EmptyIn, ConfigValues DEF Keys, Known
  <1>3. Undisturbed
    BY <1>1, <1>2, ContentsApart, EmptyIn, ConfigValues
    DEF Init, Undisturbed, Contents
  <1>n. NewFile
    BY DEF Init, NewFile
  <1>4. UndoInv
    BY DEF Init, UndoInv, KeysRead, BackupsKept
  <1>5. FoundKeys /\ LanguageInv
    BY DEF Init, FoundKeys, LanguageInv, HotFollows, LanguageKept
  <1> QED BY <1>1, <1>3, <1>n, <1>4, <1>5 DEF ConfigInv

LEMMA UndisturbedNext == ConfigType /\ Undisturbed /\ [Next]_vars => Undisturbed'
  <1> SUFFICES ASSUME ConfigType, Undisturbed, [Next]_vars, ~met' PROVE Undisturbed'
    BY DEF Undisturbed
  <1>0. TypeOK /\ Configured /\ ~met
    BY ConfigFlags DEF ConfigType
  <1>u. /\ file # Garbled /\ \A t \in 0 .. MaxTime : backup[t] # Garbled
        /\ file = Empty => ~exists \/ Filling
        /\ \A t \in 0 .. MaxTime : backup[t] = Empty => FillingBackup(t)
    BY <1>0 DEF Undisturbed
  <1>e. Empty # Garbled /\ Empty \in Contents
    BY EmptyIn, ContentsApart
  \* The files stay, and so do those who fill them.
  <1>a. ASSUME UNCHANGED files,
               \A q \in Requests :
                  /\ pc[q] \in {"fill", "fillnew", "restore"} => pc'[q] = pc[q]
                  /\ pc[q] \in {"copy", "copyonly"} => pc'[q] = pc[q] /\ stamp'[q] = stamp[q]
        PROVE Undisturbed'
    <2>1. Filling => Filling'
      BY <1>a DEF Filling
    <2>2. \A t : FillingBackup(t) => FillingBackup(t)'
      BY <1>a DEF FillingBackup
    <2> QED BY <1>u, <1>a, <2>1, <2>2 DEF Undisturbed, files
  <1>1. ASSUME NEW r \in Requests, Work(r) PROVE Undisturbed'
    <2>0. \A q \in Requests \ {r} : pc'[q] = pc[q] /\ stamp'[q] = stamp[q]
      BY <1>0, <1>1, WorkOthers
    <2>1. CASE \E b \in Bodies : UpdateStart(r, b)
      BY <1>a, <2>0, <2>1 DEF UpdateStart, Begin
    <2>2. CASE BackupStart(r)
      BY <1>a, <2>0, <2>2 DEF BackupStart, Begin
    <2>3. CASE ReadConfig(r) \/ ReadDoc(r) \/ ReadDocFails(r) \/ RestoreRead(r)
      BY <1>a, <2>0, <2>3 DEF ReadConfig, ReadDoc, ReadDocFails, RestoreRead
    <2>4. CASE Reload(r) \/ RestoreReload(r)
      BY <1>a, <2>0, <2>4 DEF Reload, RestoreReload
    <2>5. CASE \/ \E t \in 0 .. MaxTime : RestoreStart(r, t)
               \/ WriteOpen(r)
      <3>1. file' = Empty /\ backup' = backup /\ pc'[r] \in {"restore", "fill", "fillnew"}
        BY <1>0, <2>5 DEF RestoreStart, WriteOpen, Begin, To, TypeOK
      <3>2. pc[r] \notin {"copy", "copyonly"}
        BY <2>5 DEF RestoreStart, WriteOpen, Begin
      <3>3. Filling'
        BY <3>1 DEF Filling
      <3>4. \A t : FillingBackup(t) => FillingBackup(t)'
        BY <2>0, <3>2 DEF FillingBackup
      <3> QED BY <1>u, <1>e, <3>1, <3>3, <3>4 DEF Undisturbed
    <2>6. CASE BackupOpen(r)
      <3>1. /\ backup' = [backup EXCEPT ![now] = Empty] /\ file' = file /\ exists' = exists
            /\ pc[r] \in {"open", "openonly"}
        BY <2>6 DEF BackupOpen
      <3>2. pc'[r] \in {"copy", "copyonly"} /\ stamp'[r] = now
        BY <1>0, <2>6 DEF BackupOpen, To, TypeOK
      <3>3. Filling => Filling'
        BY <2>0, <3>1 DEF Filling
      <3>4. \A t : FillingBackup(t) \/ t = now => FillingBackup(t)'
        BY <2>0, <3>1, <3>2 DEF FillingBackup
      <3>5. \A t \in 0 .. MaxTime : backup'[t] = IF t = now THEN Empty ELSE backup[t]
        BY <1>0, <3>1 DEF TypeOK
      <3> QED BY <1>u, <1>e, <3>1, <3>3, <3>4, <3>5 DEF Undisturbed
    <2>7. CASE BackupCopy(r)
      <3>1. /\ backup[stamp[r]] = Empty /\ ~Filling /\ file' = file /\ exists' = exists
            /\ pc[r] \in {"copy", "copyonly"}
        BY <2>7 DEF BackupCopy
      <3>2. backup' = [backup EXCEPT ![stamp[r]] = file]
        BY <2>7, <3>1, FilledEmpty DEF BackupCopy
      <3>3. file # Empty
        BY <1>0, <1>u, <3>1 DEF Configured
      <3>4. \A t : t # stamp[r] /\ FillingBackup(t) => FillingBackup(t)'
        BY <2>0 DEF FillingBackup
      <3>5. \A t \in 0 .. MaxTime : backup'[t] = IF t = stamp[r] THEN file ELSE backup[t]
        BY <1>0, <3>2 DEF TypeOK
      <3> QED BY <1>u, <3>1, <3>3, <3>4, <3>5 DEF Undisturbed
    <2>8. CASE WriteFill(r)
      <3>1. file = Empty /\ pc[r] \in {"fill", "fillnew"} /\ backup' = backup
        BY <2>8 DEF WriteFill
      <3>2. file' = config[r]
        BY <2>8, <3>1, FilledEmpty DEF WriteFill
      <3>3. config[r] \in Contents /\ config[r] # Empty
        BY <1>0, <3>1, EmptyIn DEF TypeOK, Configured, Keys, Known
      <3>4. \A t : FillingBackup(t) => FillingBackup(t)'
        BY <2>0, <3>1 DEF FillingBackup
      <3> QED BY <1>u, <3>1, <3>2, <3>3, <3>4, ContentsApart DEF Undisturbed
    <2>9. CASE RestoreFill(r)
      <3>1. /\ file = Empty /\ ~FillingBackup(stamp[r]) /\ pc[r] = "restore"
            /\ backup' = backup
        BY <2>9 DEF RestoreFill
      <3>2. file' = backup[stamp[r]]
        BY <2>9, <3>1, FilledEmpty DEF RestoreFill
      <3>3. stamp[r] \in 0 .. MaxTime
        BY <1>0 DEF TypeOK
      <3>4. \A t : FillingBackup(t) => FillingBackup(t)'
        BY <2>0, <3>1 DEF FillingBackup
      <3> QED BY <1>u, <3>1, <3>2, <3>3, <3>4 DEF Undisturbed
    <2> QED BY <1>1, <2>1, <2>2, <2>3, <2>4, <2>5, <2>6, <2>7, <2>8, <2>9 DEF Work
  <1>2. CASE Restart
    <2>1. UNCHANGED files /\ ~Filling /\ \A t \in 0 .. MaxTime : ~FillingBackup(t)
      BY <1>2 DEF Restart
    <2> QED BY <1>u, <2>1 DEF Undisturbed, files
  <1>3. CASE UNCHANGED <<files, requests, hist>>
    BY <1>a, <1>3 DEF requests
  <1> QED BY <1>1, <1>2, <1>3, ConfigNextCases

LEMMA NewFileNext == ConfigType /\ Undisturbed /\ NewFile /\ [Next]_vars => NewFile'
  <1> SUFFICES ASSUME ConfigType, Undisturbed, NewFile, [Next]_vars, ~met',
                      NEW s \in Requests, pc'[s] = "fillnew"
               PROVE  /\ file' = Empty
                      /\ \A q \in Requests \ {s} : pc'[q] \notin {"fill", "fillnew"}
                      /\ \A t \in 0 .. MaxTime : backup'[t] # None => FillingBackup(t)'
    BY DEF NewFile
  <1> DEFINE Kept == /\ file' = Empty
                     /\ \A q \in Requests \ {s} : pc'[q] \notin {"fill", "fillnew"}
                     /\ \A t \in 0 .. MaxTime : backup'[t] # None => FillingBackup(t)'
  <1> SUFFICES Kept
    OBVIOUS
  <1>0. TypeOK /\ Configured /\ ~met /\ (file = Empty => ~exists \/ Filling)
    BY ConfigFlags DEF ConfigType, Undisturbed
  <1>n. pc[s] = "fillnew" =>
           /\ file = Empty /\ Filling
           /\ \A q \in Requests \ {s} : pc[q] \notin {"fill", "fillnew"}
           /\ \A t \in 0 .. MaxTime : backup[t] # None => FillingBackup(t)
    BY <1>0 DEF NewFile, Filling
  \* The file stays empty, and nobody ends a backup.
  <1>a. ASSUME pc[s] = "fillnew", file' \in {file, Empty}, backup' = backup,
               \A q \in Requests :
                  /\ pc[q] \in {"copy", "copyonly"} => pc'[q] = pc[q] /\ stamp'[q] = stamp[q]
                  /\ pc'[q] \in {"fill", "fillnew"} => pc[q] \in {"fill", "fillnew"}
        PROVE Kept
    <2>1. \A t : FillingBackup(t) => FillingBackup(t)'
      BY <1>a DEF FillingBackup
    <2> QED BY <1>n, <1>a, <2>1
  <1>1. ASSUME NEW r \in Requests, Work(r), pc[s] = "fillnew" PROVE Kept
    <2> HIDE DEF Kept
    <2>0. \A q \in Requests \ {r} : pc'[q] = pc[q] /\ stamp'[q] = stamp[q]
      BY <1>0, <1>1, WorkOthers
    <2>1. CASE (\E b \in Bodies : UpdateStart(r, b)) \/ BackupStart(r)
      <3>1. /\ UNCHANGED files /\ pc[r] = "idle" /\ pc'[r] \notin {"fill", "fillnew"}
        BY <1>0, <2>1 DEF UpdateStart, BackupStart, Begin, To, TypeOK
      <3> QED BY <1>1, <1>a, <2>0, <3>1 DEF files
    <2>2. CASE \E t \in 0 .. MaxTime : RestoreStart(r, t)
      <3>1. file' = Empty /\ backup' = backup /\ pc[r] = "idle" /\ pc'[r] = "restore"
        BY <1>0, <2>2 DEF RestoreStart, Begin, To, TypeOK
      <3> QED BY <1>1, <1>a, <2>0, <3>1
    <2>3. CASE BackupOpen(r)
      <3>1. /\ backup' = [backup EXCEPT ![now] = Empty] /\ file' = file
            /\ pc[r] \in {"open", "openonly"}
        BY <2>3 DEF BackupOpen
      <3>2. pc'[r] \in {"copy", "copyonly"} /\ stamp'[r] = now
        BY <1>0, <2>3 DEF BackupOpen, To, TypeOK
      <3>3. \A t : FillingBackup(t) \/ t = now => FillingBackup(t)'
        BY <2>0, <3>1, <3>2 DEF FillingBackup
      <3>4. \A t \in 0 .. MaxTime : t # now => backup'[t] = backup[t]
        BY <1>0, <3>1 DEF TypeOK
      <3> QED BY <1>1, <1>n, <2>0, <3>1, <3>2, <3>3, <3>4 DEF Kept
    <2>4. CASE BackupCopy(r)
      BY <1>1, <1>n, <2>4 DEF BackupCopy
    <2>5. CASE ReadConfig(r) \/ ReadDoc(r) \/ RestoreRead(r)
      BY <1>1, <1>n, <2>5 DEF ReadConfig, ReadDoc, RestoreRead
    <2>6. CASE ReadDocFails(r) \/ Reload(r) \/ RestoreReload(r)
      <3>1. Done(r) /\ UNCHANGED files /\ pc[r] \notin {"copy", "copyonly"}
        BY <2>6 DEF ReadDocFails, Reload, RestoreReload
      <3> QED BY <1>0, <1>1, <1>a, <2>0, <3>1, ConfigDone DEF files
    <2>7. CASE WriteOpen(r)
      BY <1>1, <1>n, <2>7 DEF WriteOpen
    <2>8. CASE WriteFill(r)
      <3>1. r = s
        BY <1>1, <1>n, <2>8 DEF WriteFill
      <3> QED BY <1>0, <2>8, <3>1 DEF WriteFill, To, TypeOK
    <2>9. CASE RestoreFill(r)
      <3>1. FillingBackup(stamp[r])
        BY <1>0, <1>1, <1>n, <2>9 DEF RestoreFill, TypeOK
      <3> QED BY <2>9, <3>1 DEF RestoreFill
    <2> QED BY <1>1, <2>1, <2>2, <2>3, <2>4, <2>5, <2>6, <2>7, <2>8, <2>9 DEF Work
  <1>2. ASSUME NEW r \in Requests, Work(r), pc[s] # "fillnew" PROVE Kept
    <2>0. r = s /\ \A q \in Requests \ {s} : pc'[q] = pc[q]
      BY <1>0, <1>2, WorkOthers
    <2>1. WriteOpen(s)
      <3>1. CASE (\E b \in Bodies : UpdateStart(s, b)) \/ BackupStart(s)
                 \/ (\E t \in 0 .. MaxTime : RestoreStart(s, t))
        BY <1>0, <3>1 DEF UpdateStart, BackupStart, RestoreStart, Begin, To, TypeOK
      <3>2. CASE BackupOpen(s) \/ BackupCopy(s) \/ WriteFill(s) \/ RestoreFill(s)
        BY <1>0, <3>2 DEF BackupOpen, BackupCopy, WriteFill, RestoreFill, Done, To, TypeOK
      <3>3. CASE ReadDocFails(s) \/ Reload(s) \/ RestoreReload(s)
        BY <1>0, <3>3 DEF ReadDocFails, Reload, RestoreReload, Done, To, TypeOK
      <3>4. CASE ReadConfig(s) \/ ReadDoc(s) \/ RestoreRead(s)
        BY <1>0, <3>4 DEF ReadConfig, ReadDoc, RestoreRead, To, TypeOK
      <3> QED BY <1>2, <2>0, <3>1, <3>2, <3>3, <3>4 DEF Work
    <2>2. /\ file' = Empty /\ backup' = backup /\ ~Filling /\ file = old[s]
          /\ pc[s] = "writenew"
      BY <1>0, <2>1 DEF WriteOpen, To, TypeOK
    <2>3. \A t \in 0 .. MaxTime : backup[t] = None
      BY <1>0, <2>2 DEF Configured
    <2> QED BY <2>0, <2>2, <2>3 DEF Filling
  <1>3. CASE Restart
    BY <1>3 DEF Restart
  <1>4. CASE UNCHANGED <<files, requests, hist>>
    BY <1>4, <1>a DEF files, requests
  <1> QED BY <1>1, <1>2, <1>3, <1>4, ConfigNextCases

LEMMA KeysNext ==
    ConfigType /\ Undisturbed /\ KeysRead /\ [Next]_vars => KeysRead'
  <1> SUFFICES ASSUME ConfigType, Undisturbed, KeysRead, [Next]_vars, ~met' PROVE KeysRead'
    BY DEF KeysRead
  <1>0. TypeOK /\ ~met /\ file # Garbled
    BY ConfigFlags DEF ConfigType, Undisturbed
  <1>u. \A r \in Requests, k \in Keys :
           /\ \/ pc[r] \in {"doc", "write", "fill"} /\ k # "port"
              \/ pc[r] \in {"write", "fill"}
           /\ old[r][k] # None
           => config[r][k] # None
    BY <1>0 DEF KeysRead
  \* No update reads on.
  <1>a. ASSUME \A q \in Requests :
                  pc'[q] \in {"doc", "write", "fill"} =>
                     /\ pc'[q] = pc[q] \/ (pc[q] = "write" /\ pc'[q] = "fill")
                     /\ old'[q] = old[q] /\ config'[q] = config[q]
        PROVE KeysRead'
    BY <1>u, <1>a DEF KeysRead
  <1>1. ASSUME NEW r \in Requests, Work(r) PROVE KeysRead'
    <2>0. \A q \in Requests \ {r} :
             pc'[q] = pc[q] /\ old'[q] = old[q] /\ config'[q] = config[q]
      BY <1>0, <1>1, WorkOthers
    <2>1. CASE pc'[r] \notin {"doc", "write", "fill"}
      BY <1>a, <2>0, <2>1
    <2>2. CASE ReadConfig(r)
      <3>1. file = old[r] /\ pc'[r] = "doc" /\ old' = old
        BY <1>0, <2>2 DEF ReadConfig, To, TypeOK
      <3>2. \A k \in Keys : config'[r][k] = IF body[r][k] # None THEN body[r][k]
                                            ELSE IF k = "lang" /\ file[k] = None THEN Start
                                            ELSE file[k]
        BY <1>0, <2>2 DEF ReadConfig, Existing, TypeOK
      <3>3. \A k \in Keys : old'[r][k] # None => config'[r][k] # None
        BY <3>1, <3>2
      <3> QED BY <1>u, <2>0, <3>3 DEF KeysRead
    <2>3. CASE ReadDoc(r)
      <3>1. file = old[r] /\ old' = old /\ (pc'[r] = "write" => pc[r] = "doc")
        BY <1>0, <2>3 DEF ReadDoc, To, TypeOK
      <3>2. \A k \in Keys : config'[r][k] = IF k = "port" THEN file[k] ELSE config[r][k]
        BY <1>0, <2>3 DEF ReadDoc, TypeOK, Contents
      <3>3. pc'[r] = "write" => \A k \in Keys : old'[r][k] # None => config'[r][k] # None
        BY <1>u, <3>1, <3>2
      <3>4. pc'[r] \in {"write", "writenew"}
        BY <1>0, <2>3 DEF ReadDoc, To, TypeOK
      <3> QED BY <1>u, <2>0, <3>3, <3>4 DEF KeysRead
    <2>4. CASE WriteOpen(r)
      <3>1. /\ old' = old /\ config' = config
            /\ pc'[r] = "fillnew" \/ (pc[r] = "write" /\ pc'[r] = "fill")
        BY <1>0, <2>4 DEF WriteOpen, To, TypeOK
      <3> QED BY <1>a, <2>0, <3>1
    <2>5. pc'[r] \in {"doc", "write", "fill"} => ReadConfig(r) \/ ReadDoc(r) \/ WriteOpen(r)
      <3>1. CASE (\E b \in Bodies : UpdateStart(r, b)) \/ BackupStart(r)
                 \/ (\E t \in 0 .. MaxTime : RestoreStart(r, t))
        BY <1>0, <3>1 DEF UpdateStart, BackupStart, RestoreStart, Begin, To, TypeOK
      <3>2. CASE BackupOpen(r) \/ BackupCopy(r) \/ WriteFill(r) \/ RestoreFill(r)
        BY <1>0, <3>2 DEF BackupOpen, BackupCopy, WriteFill, RestoreFill, Done, To, TypeOK
      <3>3. CASE ReadDocFails(r) \/ Reload(r) \/ RestoreReload(r)
        BY <1>0, <3>3 DEF ReadDocFails, Reload, RestoreReload, Done, To, TypeOK
      <3>4. CASE RestoreRead(r)
        BY <1>0, <3>4 DEF RestoreRead, To, TypeOK
      <3> QED BY <1>1, <3>1, <3>2, <3>3, <3>4 DEF Work
    <2> QED BY <2>1, <2>2, <2>3, <2>4, <2>5
  <1>2. CASE Restart
    BY <1>2 DEF Restart, KeysRead
  <1>3. CASE UNCHANGED <<files, requests, hist>>
    BY <1>a, <1>3 DEF requests, hist
  <1> QED BY <1>1, <1>2, <1>3, ConfigNextCases

LEMMA BackupsNext ==
    ConfigType /\ Undisturbed /\ BackupsKept /\ [Next]_vars => BackupsKept'
  <1> SUFFICES ASSUME ConfigType, BackupsKept, [Next]_vars, ~met', ~again' PROVE BackupsKept'
    BY DEF BackupsKept
  <1>0. TypeOK /\ ~met /\ ~again
    BY ConfigFlags DEF ConfigType
  <1>b. /\ \A r, q \in Requests :
              pc[r] \in {"copy", "copyonly"} /\ pc[q] \in {"copy", "copyonly"} /\ r # q =>
                  stamp[r] # stamp[q]
        /\ \A r \in Requests :
              pc[r] \in {"read", "doc", "write", "fill"} /\ old[r] # Empty =>
                  backup[stamp[r]] = old[r] /\ ~FillingBackup(stamp[r])
        /\ saved # None => backup[saved.stamp] = saved.keys /\ ~FillingBackup(saved.stamp)
    BY <1>0 DEF BackupsKept
  \* No backup is written, and nobody has read one that had not.
  <1>a. ASSUME backup' = backup, saved' = saved,
               \A q \in Requests :
                  /\ pc'[q] \in {"copy", "copyonly"} =>
                        pc[q] \in {"copy", "copyonly"} /\ stamp'[q] = stamp[q]
                  /\ pc'[q] \in {"read", "doc", "write", "fill"} /\ old'[q] # Empty =>
                        /\ pc[q] \in {"read", "doc", "write", "fill"}
                        /\ stamp'[q] = stamp[q] /\ old'[q] = old[q]
        PROVE BackupsKept'
    <2>1. \A t : FillingBackup(t)' => FillingBackup(t)
      BY <1>a DEF FillingBackup
    <2> QED BY <1>b, <1>a, <2>1 DEF BackupsKept
  <1>1. ASSUME NEW r \in Requests, Work(r) PROVE BackupsKept'
    <2>0. \A q \in Requests \ {r} :
             pc'[q] = pc[q] /\ old'[q] = old[q] /\ stamp'[q] = stamp[q]
      BY <1>0, <1>1, WorkOthers
    \* FillingBackup of the next state, of a backup named in either state.
    <2> DEFINE Busy(t) == \E q \in Requests : pc'[q] \in {"copy", "copyonly"} /\ stamp'[q] = t
    <2>1. CASE (\E b \in Bodies : UpdateStart(r, b)) \/ BackupStart(r)
      <3>1. /\ backup' = backup /\ saved' = saved /\ old'[r] = Empty
            /\ pc'[r] \notin {"copy", "copyonly"}
        BY <1>0, <2>1 DEF UpdateStart, BackupStart, Begin, To, TypeOK, files, hist
      <3> QED BY <1>a, <2>0, <3>1
    <2>2. CASE \E t \in 0 .. MaxTime : RestoreStart(r, t)
      <3>1. backup' = backup /\ saved' = saved /\ pc'[r] = "restore"
        BY <1>0, <2>2 DEF RestoreStart, Begin, To, TypeOK, hist
      <3> QED BY <1>a, <2>0, <3>1
    <2>3. CASE ReadConfig(r) \/ ReadDoc(r) \/ WriteOpen(r) \/ RestoreRead(r)
      <3>r. CASE RestoreRead(r)
        BY <1>0, <1>a, <2>0, <3>r DEF RestoreRead, To, TypeOK, files
      <3>1. CASE ReadConfig(r)
        BY <1>0, <1>a, <2>0, <3>1 DEF ReadConfig, To, TypeOK, files
      <3>2. CASE ReadDoc(r)
        BY <1>0, <1>a, <2>0, <3>2 DEF ReadDoc, To, TypeOK, files
      <3>3. CASE WriteOpen(r)
        BY <1>0, <1>a, <2>0, <3>3 DEF WriteOpen, To, TypeOK
      <3> QED BY <2>3, <3>1, <3>2, <3>3, <3>r
    <2>4. CASE ReadDocFails(r) \/ Reload(r) \/ RestoreReload(r)
      <3>1. backup' = backup /\ saved' = saved /\ Done(r)
        BY <2>4 DEF ReadDocFails, Reload, RestoreReload, files
      <3> QED BY <1>0, <1>a, <2>0, <3>1, ConfigDone
    <2>5. CASE RestoreFill(r)
      <3>1. backup' = backup /\ saved' = saved /\ pc'[r] = "restored"
        BY <1>0, <2>5 DEF RestoreFill, To, TypeOK
      <3> QED BY <1>a, <2>0, <3>1
    <2>6. CASE BackupOpen(r)
      <3>1. /\ backup' = [backup EXCEPT ![now] = Empty] /\ backup[now] = None
            /\ pc[r] \in {"open", "openonly"} /\ saved' = saved
        BY <2>6 DEF BackupOpen
      <3>2. pc'[r] \in {"copy", "copyonly"} /\ stamp'[r] = now
        BY <1>0, <2>6 DEF BackupOpen, To, TypeOK
      <3>3. \A t \in 0 .. MaxTime : t # now => backup'[t] = backup[t]
        BY <1>0, <3>1 DEF TypeOK
      <3>4. \A t : Busy(t) => t = now \/ FillingBackup(t)
        BY <2>0, <3>2 DEF FillingBackup
      <3>5. \A q \in Requests : pc[q] \in {"copy", "copyonly"} => stamp[q] # now
        BY <1>0, <3>1 DEF TypeOK
      <3>6. \A q \in Requests :
               pc'[q] \in {"read", "doc", "write", "fill"} /\ old'[q] # Empty =>
                  backup'[stamp'[q]] = old'[q] /\ ~Busy(stamp'[q])
        <4> SUFFICES ASSUME NEW q \in Requests, pc'[q] \in {"read", "doc", "write", "fill"},
                            old'[q] # Empty
                     PROVE  backup'[stamp'[q]] = old'[q] /\ ~Busy(stamp'[q])
          OBVIOUS
        <4>1. q # r
          BY <3>2
        <4>2. /\ backup[stamp[q]] = old[q] /\ ~FillingBackup(stamp[q])
              /\ stamp[q] \in 0 .. MaxTime /\ old[q] # None
          BY <1>0, <1>b, <2>0, <4>1, ContentsApart DEF TypeOK
        <4>3. stamp[q] # now
          BY <3>1, <4>2
        <4> QED BY <2>0, <3>3, <3>4, <4>1, <4>2, <4>3
      <3>7. saved # None => backup'[saved.stamp] = saved.keys /\ ~Busy(saved.stamp)
        <4> SUFFICES ASSUME saved # None
                     PROVE  backup'[saved.stamp] = saved.keys /\ ~Busy(saved.stamp)
          OBVIOUS
        <4>1. /\ saved.stamp \in 0 .. MaxTime /\ saved.keys # None
              /\ backup[saved.stamp] = saved.keys /\ ~FillingBackup(saved.stamp)
          BY <1>0, <1>b, ContentsApart DEF TypeOK
        <4>2. saved.stamp # now
          BY <3>1, <4>1
        <4> QED BY <3>1, <3>3, <3>4, <4>1, <4>2 DEF FillingBackup
      <3> QED BY <1>b, <2>0, <3>1, <3>2, <3>5, <3>6, <3>7 DEF BackupsKept, FillingBackup
    <2>7. CASE BackupCopy(r)
      <3>1. /\ backup[stamp[r]] = Empty /\ file' = file /\ saved' = saved
            /\ pc[r] \in {"copy", "copyonly"}
        BY <2>7 DEF BackupCopy
      <3>2. backup' = [backup EXCEPT ![stamp[r]] = file]
        BY <2>7, <3>1, FilledEmpty DEF BackupCopy
      <3>3. \A t \in 0 .. MaxTime : backup'[t] = IF t = stamp[r] THEN file ELSE backup[t]
        BY <1>0, <3>2 DEF TypeOK
      <3>4. \/ pc'[r] = "read" /\ old'[r] = file /\ stamp'[r] = stamp[r]
            \/ pc'[r] = "idle"
        <4>1. CASE pc[r] = "copy"
          BY <1>0, <2>7, <4>1 DEF BackupCopy, To, TypeOK
        <4>2. CASE pc[r] # "copy"
          BY <1>0, <2>7, <4>2, ConfigDone DEF BackupCopy
        <4> QED BY <4>1, <4>2
      <3>5. FillingBackup(stamp[r])
        BY <3>1 DEF FillingBackup
      <3>6. \A t : Busy(t) => FillingBackup(t) /\ t # stamp[r]
        BY <1>b, <2>0, <3>1, <3>4 DEF FillingBackup
      <3>7. ASSUME NEW q \in Requests, pc'[q] \in {"read", "doc", "write", "fill"}, old'[q] # Empty
            PROVE  backup'[stamp'[q]] = old'[q] /\ ~Busy(stamp'[q])
        <4>1. CASE q = r
          BY <1>0, <3>3, <3>4, <3>6, <3>7, <4>1 DEF TypeOK
        <4>2. CASE q # r
          <5>1. backup[stamp[q]] = old[q] /\ ~FillingBackup(stamp[q]) /\ stamp[q] \in 0 .. MaxTime
            BY <1>0, <1>b, <2>0, <3>7, <4>2 DEF TypeOK
          <5>2. stamp[q] # stamp[r]
            BY <3>5, <5>1
          <5> QED BY <2>0, <3>3, <3>6, <4>2, <5>1, <5>2
        <4> QED BY <4>1, <4>2
      <3>8. saved # None => backup'[saved.stamp] = saved.keys /\ ~Busy(saved.stamp)
        <4> SUFFICES ASSUME saved # None
                     PROVE  backup'[saved.stamp] = saved.keys /\ ~Busy(saved.stamp)
          OBVIOUS
        <4>1. /\ saved.stamp \in 0 .. MaxTime
              /\ backup[saved.stamp] = saved.keys /\ ~FillingBackup(saved.stamp)
          BY <1>0, <1>b DEF TypeOK
        <4>2. saved.stamp # stamp[r]
          BY <3>5, <4>1
        <4> QED BY <3>1, <3>3, <3>6, <4>1, <4>2 DEF FillingBackup
      <3>9. \A p, q \in Requests :
               pc'[p] \in {"copy", "copyonly"} /\ pc'[q] \in {"copy", "copyonly"} /\ p # q =>
                  stamp'[p] # stamp'[q]
        BY <1>b, <2>0, <3>4
      <3> QED BY <3>1, <3>7, <3>8, <3>9 DEF BackupsKept, FillingBackup
    <2>8. CASE WriteFill(r)
      <3>1. /\ backup' = backup /\ stamp' = stamp /\ old' = old /\ pc[r] \in {"fill", "fillnew"}
            /\ \/ saved' = saved
               \/ /\ pc[r] = "fill" /\ old[r] # Empty
                  /\ saved' = [stamp |-> stamp[r], keys |-> old[r]]
        BY <2>8 DEF WriteFill
      <3>2. pc'[r] \in {"reload", "openonly"}
        BY <1>0, <2>8 DEF WriteFill, To, TypeOK
      <3>3. \A t : Busy(t) => FillingBackup(t)
        BY <2>0, <3>1, <3>2 DEF FillingBackup
      <3>4. CASE saved' = saved
        BY <1>a, <2>0, <3>1, <3>2, <3>4
      <3>5. CASE /\ pc[r] = "fill" /\ old[r] # Empty
                 /\ saved' = [stamp |-> stamp[r], keys |-> old[r]]
        <4>1. backup'[saved'.stamp] = saved'.keys /\ ~Busy(saved'.stamp)
          BY <1>b, <3>1, <3>3, <3>5 DEF FillingBackup
        <4> QED BY <1>b, <2>0, <3>1, <3>2, <3>3, <4>1 DEF BackupsKept, FillingBackup
      <3> QED BY <3>1, <3>4, <3>5
    <2> QED BY <1>1, <2>1, <2>2, <2>3, <2>4, <2>5, <2>6, <2>7, <2>8 DEF Work
  <1>2. CASE Restart
    BY <1>2, <1>a DEF Restart, files
  <1>3. CASE UNCHANGED <<files, requests, hist>>
    BY <1>3, <1>a DEF files, requests, hist
  <1> QED BY <1>1, <1>2, <1>3, ConfigNextCases

LEMMA FoundNext == ConfigType /\ Undisturbed /\ FoundKeys /\ [Next]_vars => FoundKeys'
  <1> SUFFICES ASSUME ConfigType, Undisturbed, FoundKeys, [Next]_vars, ~met' PROVE FoundKeys'
    BY DEF FoundKeys
  <1>0. TypeOK /\ Configured /\ ~met
    BY ConfigFlags DEF ConfigType
  <1>f. \A r \in Requests : pc[r] = "found" => config[r] # Empty
    BY <1>0 DEF FoundKeys
  <1>1. ASSUME NEW r \in Requests, Work(r) PROVE FoundKeys'
    <2>0. \A q \in Requests \ {r} : pc'[q] = pc[q] /\ config'[q] = config[q]
      BY <1>0, <1>1, WorkOthers
    <2>1. CASE RestoreRead(r)
      <3>1. exists /\ ~Filling /\ file # Empty /\ file # Garbled
        BY <1>0, <2>1 DEF RestoreRead, Configured, Undisturbed
      <3>2. config'[r] = file
        BY <1>0, <2>1, <3>1 DEF RestoreRead, Existing, TypeOK
      <3> QED BY <1>f, <2>0, <3>1, <3>2 DEF FoundKeys
    <2>2. pc'[r] = "found" => RestoreRead(r)
      <3>1. CASE (\E b \in Bodies : UpdateStart(r, b)) \/ BackupStart(r)
                 \/ (\E t \in 0 .. MaxTime : RestoreStart(r, t))
        BY <1>0, <3>1 DEF UpdateStart, BackupStart, RestoreStart, Begin, To, TypeOK
      <3>2. CASE BackupOpen(r) \/ BackupCopy(r) \/ WriteFill(r) \/ RestoreFill(r)
        BY <1>0, <3>2 DEF BackupOpen, BackupCopy, WriteFill, RestoreFill, Done, To, TypeOK
      <3>3. CASE ReadDocFails(r) \/ Reload(r) \/ RestoreReload(r)
        BY <1>0, <3>3 DEF ReadDocFails, Reload, RestoreReload, Done, To, TypeOK
      <3>4. CASE ReadConfig(r) \/ ReadDoc(r) \/ WriteOpen(r)
        BY <1>0, <3>4 DEF ReadConfig, ReadDoc, WriteOpen, To, TypeOK
      <3> QED BY <1>1, <3>1, <3>2, <3>3, <3>4 DEF Work
    <2>3. CASE pc'[r] # "found"
      BY <1>f, <2>0, <2>3 DEF FoundKeys
    <2> QED BY <2>1, <2>2, <2>3
  <1>2. CASE Restart
    BY <1>2 DEF Restart, FoundKeys
  <1>3. CASE UNCHANGED <<files, requests, hist>>
    BY <1>f, <1>3 DEF requests, FoundKeys
  <1> QED BY <1>1, <1>2, <1>3, ConfigNextCases

LEMMA LanguageNext ==
    ConfigType /\ Undisturbed /\ NewFile /\ FoundKeys /\ LanguageInv /\ [Next]_vars => LanguageInv'
  <1> SUFFICES ASSUME ConfigType, Undisturbed, NewFile, FoundKeys, LanguageInv, [Next]_vars, ~late'
               PROVE  LanguageInv'
    BY DEF LanguageInv, HotFollows, LanguageKept
  <1>0. /\ TypeOK /\ Configured /\ ~late
        /\ hot # None => hot[1] = lang
    BY ConfigFlags DEF ConfigType, LanguageInv, HotFollows
  <1> DEFINE Awaited == \E r \in Requests : pc[r] \in {"fill", "reload", "restore", "restored", "found"}
             Language == LanguageOf(file["lang"])
  <1>m. ~met => /\ file # Garbled /\ (file = Empty => ~exists \/ Filling)
                /\ loaded => /\ \A r \in Requests : pc[r] # "fillnew"
                             /\ Awaited \/ lang = Language
    BY <1>0 DEF Undisturbed, LanguageInv, LanguageKept
  <1>f. ~met' => ~met
    BY ConfigFlags
  \* The file stays, no request reloads it, and nothing starts to fill it.
  <1>a. ASSUME file' = file, lang' = lang, hot' = hot, loaded' = loaded,
               \A q \in Requests :
                  /\ pc[q] \in {"fill", "reload", "restore", "restored", "found"} => pc'[q] = pc[q]
                  /\ pc'[q] = "fillnew" => pc[q] = "fillnew"
        PROVE LanguageInv'
    BY <1>0, <1>a, <1>m, <1>f DEF LanguageInv, HotFollows, LanguageKept
  \* A request that will reload the file is at work on it.
  <1>b. ASSUME lang' = lang, hot' = hot,
               ~met' /\ loaded' => \A q \in Requests : pc'[q] # "fillnew",
               \E q \in Requests : pc'[q] \in {"fill", "reload", "restore", "restored", "found"}
        PROVE LanguageInv'
    BY <1>0, <1>b DEF LanguageInv, HotFollows, LanguageKept
  <1>1. ASSUME NEW r \in Requests, Work(r) PROVE LanguageInv'
    <2>0. \A q \in Requests \ {r} : pc'[q] = pc[q] /\ config'[q] = config[q]
      BY <1>0, <1>1, WorkOthers
    <2>1. CASE (\E b \in Bodies : UpdateStart(r, b)) \/ BackupStart(r)
      BY <1>0, <1>a, <2>0, <2>1
      DEF UpdateStart, BackupStart, Begin, To, TypeOK, files, i18n, hist
    <2>2. CASE \E t \in 0 .. MaxTime : RestoreStart(r, t)
      <3>1. UNCHANGED <<lang, hot, loaded, met>> /\ pc'[r] = "restore"
        BY <1>0, <2>2 DEF RestoreStart, Begin, To, TypeOK, i18n, hist
      <3> QED BY <1>b, <1>m, <2>0, <3>1
    <2>3. CASE BackupOpen(r)
      BY <1>0, <1>a, <2>0, <2>3 DEF BackupOpen, To, TypeOK, i18n
    <2>4. CASE BackupCopy(r)
      <3>1. /\ UNCHANGED <<file, lang, hot, loaded>> /\ pc[r] \in {"copy", "copyonly"}
            /\ pc'[r] \in {"read", "idle"}
        <4>1. CASE pc[r] = "copy"
          BY <1>0, <2>4, <4>1 DEF BackupCopy, To, TypeOK, i18n
        <4>2. CASE pc[r] # "copy"
          BY <1>0, <2>4, <4>2, ConfigDone DEF BackupCopy, i18n
        <4> QED BY <4>1, <4>2
      <3> QED BY <1>a, <2>0, <3>1
    <2>5. CASE ReadConfig(r)
      BY <1>0, <1>a, <2>0, <2>5 DEF ReadConfig, To, TypeOK, i18n, files
    <2>6. CASE ReadDoc(r)
      BY <1>0, <1>a, <2>0, <2>6 DEF ReadDoc, To, TypeOK, i18n, files
    <2>7. CASE ReadDocFails(r)
      <3>1. Done(r) /\ UNCHANGED <<file, lang, hot, loaded>> /\ pc[r] \in {"doc", "docnew"}
        BY <2>7 DEF ReadDocFails, i18n, files
      <3> QED BY <1>0, <1>a, <2>0, <3>1, ConfigDone
    <2>8. CASE WriteOpen(r)
      <3>1. CASE pc[r] = "write"
        <4>1. UNCHANGED <<lang, hot, loaded>> /\ pc'[r] = "fill"
          BY <1>0, <2>8, <3>1 DEF WriteOpen, To, TypeOK, i18n
        <4> QED BY <1>b, <1>m, <1>f, <2>0, <4>1
      \* A new file: none was there, so none was loaded.
      <3>2. CASE pc[r] = "writenew"
        <4>1. UNCHANGED <<lang, hot, loaded>>
          BY <2>8 DEF WriteOpen, i18n
        <4>2. ~met' => file = Empty /\ ~Filling
          BY <1>0, <2>8, <3>2 DEF WriteOpen, Configured
        <4>3. ~met' => ~loaded
          BY <1>0, <1>m, <1>f, <4>2 DEF Configured
        <4> QED BY <1>0, <4>1, <4>3 DEF LanguageInv, HotFollows, LanguageKept
      <3> QED BY <2>8, <3>1, <3>2 DEF WriteOpen
    <2>9. CASE WriteFill(r)
      <3>1. CASE pc[r] = "fill"
        <4>1. UNCHANGED <<lang, hot, loaded>> /\ pc'[r] = "reload"
          BY <1>0, <2>9, <3>1 DEF WriteFill, To, TypeOK, i18n
        <4> QED BY <1>b, <1>m, <1>f, <2>0, <4>1
      <3>2. CASE pc[r] = "fillnew"
        <4>1. UNCHANGED <<lang, hot, loaded>>
          BY <2>9 DEF WriteFill, i18n
        <4>2. ~met' => ~loaded
          BY <1>m, <1>f, <3>2
        <4> QED BY <1>0, <4>1, <4>2 DEF LanguageInv, HotFollows, LanguageKept
      <3> QED BY <2>9, <3>1, <3>2 DEF WriteFill
    <2>10. CASE Reload(r)
      <3>1. /\ Done(r) /\ pc[r] = "reload" /\ hot = None /\ hot' = None /\ file = config[r]
            /\ file' = file /\ lang' = LanguageOf(config[r]["lang"]) /\ met' = met
        BY <1>0, <2>10 DEF Reload, files
      <3>2. lang' = Language
        BY <1>0, <3>1 DEF Configured
      <3>3. ~met' => \A q \in Requests : pc'[q] # "fillnew"
        <4>1. file["lang"] # None /\ exists
          BY <1>0, <3>1 DEF Configured
        <4>2. file # Empty
          BY <4>1, EmptyIn DEF Keys, Known
        <4> SUFFICES ASSUME ~met', NEW q \in Requests, pc'[q] = "fillnew" PROVE FALSE
          OBVIOUS
        <4>3. pc[q] = "fillnew"
          BY <1>0, <2>0, <3>1, ConfigDone
        <4> QED BY <1>f, <3>1, <4>2, <4>3 DEF NewFile
      <3> QED BY <3>1, <3>2, <3>3 DEF LanguageInv, HotFollows, LanguageKept
    <2>11. CASE RestoreFill(r)
      <3>1. UNCHANGED <<lang, hot, loaded>> /\ pc'[r] = "restored"
        BY <1>0, <2>11 DEF RestoreFill, To, TypeOK, i18n
      <3> QED BY <1>b, <1>m, <1>f, <2>0, <3>1
    <2>r. CASE RestoreRead(r)
      <3>1. UNCHANGED <<lang, hot, loaded>> /\ pc'[r] = "found"
        BY <1>0, <2>r DEF RestoreRead, To, TypeOK, i18n
      <3> QED BY <1>b, <1>m, <1>f, <2>0, <3>1
    <2>12. CASE RestoreReload(r)
      <3>1. /\ Done(r) /\ pc[r] = "found" /\ hot = None /\ hot' = None /\ file' = file
            /\ lang' = LanguageOf(config[r]["lang"]) /\ Existing = config[r] /\ met' = met
        BY <1>0, <2>12 DEF RestoreReload, files
      <3>2. ~met' => file = config[r] /\ file # Empty
        BY <1>m, <3>1 DEF Existing, FoundKeys
      <3>3. ~met' => lang' = Language
        BY <3>1, <3>2
      <3>4. ~met' => \A q \in Requests : pc'[q] # "fillnew"
        BY <1>0, <2>0, <3>1, <3>2, ConfigDone DEF NewFile
      <3> QED BY <3>1, <3>3, <3>4 DEF LanguageInv, HotFollows, LanguageKept
    <2> QED
      BY <1>1, <2>1, <2>2, <2>3, <2>4, <2>5, <2>6, <2>7, <2>8, <2>9, <2>10, <2>11, <2>r, <2>12
      DEF Work
  <1>2. CASE Restart
    BY <1>2 DEF Restart, LanguageInv, HotFollows, LanguageKept
  <1>3. CASE HotLoad
    <2>1. hot' = <<lang, disk>> /\ UNCHANGED <<file, lang, loaded, met, late, pc>>
      BY <1>3 DEF HotLoad, files, requests, hist
    <2> QED BY <1>m, <2>1 DEF LanguageInv, HotFollows, LanguageKept
  <1>4. CASE HotStore
    <2>1. lang' = lang /\ hot' = None /\ UNCHANGED <<file, loaded, met, late, pc>>
      BY <1>0, <1>4 DEF HotStore, files, requests, hist
    <2> QED BY <1>m, <2>1 DEF LanguageInv, HotFollows, LanguageKept
  <1>5. CASE LocaleEdit \/ Tick \/ UNCHANGED vars
    <2>1. UNCHANGED <<file, lang, hot, loaded, pc>>
      BY <1>5 DEF LocaleEdit, Tick, vars, files, i18n, requests, hist
    <2> QED BY <1>a, <2>1
  <1> QED BY <1>1, <1>2, <1>3, <1>4, <1>5, ConfigNextCases

LEMMA ConfigAlways == AdminSpec => []ConfigInv
  <1>1. AdminInit => ConfigInv
    BY ConfigInit DEF AdminInit
  <1>2. ConfigInv /\ [AdminNext]_adminVars => ConfigInv'
    <2> SUFFICES ASSUME ConfigInv, [AdminNext]_adminVars PROVE ConfigInv'
      OBVIOUS
    <2>1. [Next]_vars
      BY DEF AdminNext, adminVars
    <2> QED
      BY <2>1, ConfigTypeNext, UndisturbedNext, NewFileNext, FoundNext, KeysNext, BackupsNext,
         LanguageNext
      DEF ConfigInv, UndoInv
  <1> QED BY <1>1, <1>2, PTL DEF AdminSpec

\* config.toml, its backups and the requests for it keep their types; a file that is being
\* filled exists, and a backup is opened before it is filled.
THEOREM ConfigTypeCorrect == AdminSpec => []TypeOK
  <1>1. ConfigInv => TypeOK
    BY DEF ConfigInv, ConfigType
  <1> QED BY <1>1, ConfigAlways, PTL

\* A partial update never wipes a key, for any number of requests, keys and values, as long
\* as no request has met another one in the file.
THEOREM KeysKeptCorrect == AdminSpec => []KeysKept
  <1>1. ConfigInv => KeysKept
    BY DEF ConfigInv, UndoInv, KeysRead, KeysKept
  <1> QED BY <1>1, ConfigAlways, PTL

\* The last update can be undone from the backup it made, whoever backs up, updates and
\* restores after it, but for two backups in one second and requests that met.
THEOREM UndoPossibleCorrect == AdminSpec => []UndoPossible
  <1>1. ConfigInv => UndoPossible
    BY DEF ConfigInv, UndoInv, BackupsKept, UndoPossible
  <1> QED BY <1>1, ConfigAlways, PTL

\* The language of the process is the one the file names, as the process understands it,
\* when all requests are done, whatever hot checks, restarts and other requests do in
\* between.
THEOREM LanguageFollowsCorrect == AdminSpec => []LanguageFollows
  <1>1. ConfigInv => LanguageFollows
    BY DEF ConfigInv, LanguageInv, LanguageKept, LanguageFollows
  <1> QED BY <1>1, ConfigAlways, PTL

(***************************************************************************)
(* Statistics.  past says which values a figure had at a time; a hash is   *)
(* filled in two steps and lapses in one.  Once a request was slow, or two *)
(* met in a hash, nothing is said any more.                                *)
(***************************************************************************)

\* The figures queried before another one, of the hash of all users.
Asked == [users |-> {}, images |-> {"users"}, quota |-> {"users", "images"},
          local |-> {"users", "images", "quota"},
          rustfs |-> {"users", "images", "quota", "local"}]

\* A request has the figures it has queried, and none before that.  The backends of all
\* users always have a figure.
Queried ==
    /\ \A v \in Viewers :
          /\ at[v] \in {"idle", "lookup"} => found[v] = Blank
          /\ at[v] \in DOMAIN After /\ whose[v] = "me" => at[v] = "images" /\ found[v] = Blank
          /\ at[v] \in DOMAIN After /\ whose[v] = "all" =>
                \A f \in Asked[at[v]] \ {"quota"} : found[v][f] # Nothing
    /\ \A t \in 0 .. MaxTicks, f \in {"local", "rustfs"} : past[t]["all"][f] \subseteq Nat

StatsType == StatsTypeOK /\ Queried

Current(h) == Figure(count, members, limit, h)

Told == Figures \ {"rimages"}

\* What a hash holds was true when its time began, and that is not over.
Fresh(h) ==
    \/ hash[h] = Blank
    \/ /\ tick < until[h]
       /\ \E t \in 0 .. tick :
             until[h] = t + StatsTtl /\ \A f \in Told : hash[h][f] \in past[t][h][f]

\* What a request has queried is true now, a hash that it fills has its first figures, and
\* what it answers was true, each figure at most StatsTtl ago.
Recent(v) ==
    /\ at[v] \in DOMAIN After /\ whose[v] = "all" =>
          \A f \in Asked[at[v]] : found[v][f] \in past[tick]["all"][f]
    /\ at[v] \in {"store", "rest"} =>
          \A f \in Told : found[v][f] \in past[tick][whose[v]][f]
    /\ at[v] = "rest" =>
          \A f \in {"users", "images", "quota"} : hash[whose[v]][f] = found[v][f]
    /\ at[v] = "over" =>
          \A f \in Told :
             \E t \in 0 .. tick : t + StatsTtl >= tick /\ found[v][f] \in past[t][whose[v]][f]

\* The figures of now are among those that were true now.
NowKept == \A h \in Hashes, f \in Figures : Current(h)[f] \in past[tick][h][f]

\* With no request slow and no pipelines amid each other, every request is recent, and so is
\* every hash that none is filling.
RecentInv ==
    /\ NowKept
    /\ ~slow /\ ~split =>
          /\ \A v \in Viewers : Recent(v)
          /\ \A h \in Hashes : ~Amid(h) => Fresh(h)

\* One request at a time fills a hash.
OneFills ==
    ~split => \A v, w \in Viewers :
        at[v] = "rest" /\ at[w] = "rest" /\ whose[v] = whose[w] => v = w

Covers(g) == g["images"] >= g["local"] + g["rustfs"]

\* A request that nothing has moved has figures that are true together; so has a hash
\* whose images can be read, once it is filled.
TotalInv ==
    /\ \A v \in Viewers : at[v] \in DOMAIN After /\ whose[v] = "all" /\ v \notin moved =>
          \A f \in Asked[at[v]] : found[v][f] = Current("all")[f]
    /\ ~split =>
          /\ \A v \in Viewers : 
                at[v] \in {"store", "rest", "over"} /\ whose[v] = "all" /\ v \notin moved =>
                    Covers(found[v])
          /\ \A v \in Viewers : at[v] = "rest" /\ whose[v] = "all" =>
                /\ hash["all"]["images"] \in {Nothing, found[v]["images"]}
                /\ "all" \notin moved => v \notin moved
          /\ ~Amid("all") /\ hash["all"]["images"] # Nothing =>
                /\ hash["all"]["local"] # Nothing /\ hash["all"]["rustfs"] # Nothing
                /\ "all" \notin moved => Covers(hash["all"])

Tables == [Owners -> [Backends -> Nat]]

LEMMA FigureOf ==
    ASSUME NEW c \in Tables, NEW m \in Nat, NEW l \in FigureValues
    PROVE  /\ \A h \in Hashes : Figure(c, m, l, h) \in [Figures -> FigureValues]
           /\ Figure(c, m, l, "me")["images"] \in Nat
           /\ \A f \in Figures \ {"images"} : Figure(c, m, l, "me")[f] = Nothing
           /\ \A f \in Figures \ {"quota"} : Figure(c, m, l, "all")[f] \in Nat
           /\ Covers(Figure(c, m, l, "all"))
  <1>1. \A o \in Owners, b \in Backends : c[o][b] \in Nat
    BY DEF Tables
  <1>2. \A o \in Owners : Sum(c, o) \in Nat
    BY <1>1 DEF Sum, Backends
  <1>3. \A b \in Backends : Of(c, b) \in Nat
    BY <1>1 DEF Of, Owners
  <1>4. /\ Figure(c, m, l, "me") \in [Figures -> FigureValues]
        /\ Figure(c, m, l, "me")["images"] \in Nat
        /\ \A f \in Figures \ {"images"} : Figure(c, m, l, "me")[f] = Nothing
    BY <1>2 DEF Figure, Blank, Figures, FigureValues, Owners
  <1>5. Figure(c, m, l, "all") =
           [users |-> m, images |-> Sum(c, "me") + Sum(c, "other"), quota |-> l,
            local |-> Of(c, "local"), rustfs |-> Of(c, "rustfs"), rimages |-> Of(c, "rustfs")]
    BY DEF Figure
  <1>6. \A f \in Figures \ {"quota"} : Figure(c, m, l, "all")[f] \in Nat
    BY <1>2, <1>3, <1>5 DEF Figures, Owners, Backends
  <1>7. Sum(c, "me") + Sum(c, "other") >= Of(c, "local") + Of(c, "rustfs")
    BY <1>1 DEF Sum, Of, Owners, Backends
  <1>8. Covers(Figure(c, m, l, "all"))
    BY <1>5, <1>7 DEF Covers
  <1>9. Figure(c, m, l, "all") \in [Figures -> FigureValues]
    BY <1>2, <1>3, <1>5 DEF Figures, FigureValues, Owners, Backends
  <1> QED BY <1>4, <1>6, <1>8, <1>9 DEF Hashes

LEMMA CurrentFigures ==
    ASSUME StatsTypeOK
    PROVE  /\ \A h \in Hashes : Current(h) \in [Figures -> FigureValues]
           /\ Current("me")["images"] \in Nat
           /\ \A f \in Figures \ {"images"} : Current("me")[f] = Nothing
           /\ \A f \in Figures \ {"quota"} : Current("all")[f] \in Nat
           /\ Covers(Current("all"))
  BY FigureOf DEF StatsTypeOK, Current, Tables

\* Uploads, deletes, registrations and quota changes are one change of what is counted.
LEMMA StatsChange ==
    ASSUME StatsTypeOK,
           \/ \E s \in Sites : ImageAdded(s[1], s[2]) \/ ImageRemoved(s[1], s[2])
           \/ UserAdded \/ QuotaSet
    PROVE  \E c \in Tables, m \in Nat, l \in FigureValues : Change(c, m, l)
  <1>0. count \in Tables /\ members \in Nat /\ limit \in FigureValues
    BY DEF StatsTypeOK, Tables
  <1>1. ASSUME NEW s \in Sites, ImageAdded(s[1], s[2]) \/ ImageRemoved(s[1], s[2])
        PROVE  \E c \in Tables : Change(c, members, limit)
    <2>1. s[1] \in Owners /\ s[2] \in Backends
      BY StatsBounds
    <2>2. CASE ImageAdded(s[1], s[2])
      <3>1. [count EXCEPT ![s[1]][s[2]] = @ + 1] \in Tables
        BY <1>0, <2>1 DEF Tables
      <3> QED BY <2>2, <3>1 DEF ImageAdded
    <2>3. CASE ImageRemoved(s[1], s[2])
      <3>1. [count EXCEPT ![s[1]][s[2]] = @ - 1] \in Tables
        BY <1>0, <2>1, <2>3 DEF Tables, ImageRemoved
      <3> QED BY <2>3, <3>1 DEF ImageRemoved
    <2> QED BY <1>1, <2>2, <2>3
  <1>2. CASE UserAdded
    BY <1>0, <1>2 DEF UserAdded
  <1>3. CASE QuotaSet
    BY <1>0, <1>3 DEF QuotaSet, FigureValues
  <1> QED BY <1>0, <1>1, <1>2, <1>3

Stages == DOMAIN After \cup {"idle", "lookup", "store", "rest", "over"}

LEMMA AfterStages ==
    /\ DOMAIN After = {"users", "images", "quota", "local", "rustfs"}
    /\ \A l \in DOMAIN After : After[l] \in Stages
  BY DEF After, Stages

\* What a change and the clock make of the past.
LEMMA PastKept ==
    ASSUME StatsTypeOK,
           \/ \E c \in Tables, m \in Nat, l \in FigureValues : Change(c, m, l)
           \/ Clock
    PROVE  /\ past' \in [0 .. MaxTicks -> [Hashes -> [Figures -> SUBSET FigureValues]]]
           /\ \A t \in 0 .. tick, h \in Hashes, f \in Figures : past[t][h][f] \subseteq past'[t][h][f]
           /\ \A h \in Hashes, f \in Figures :
                 Figure(count', members', limit', h)[f] \in past'[tick'][h][f]
           /\ \A t \in 0 .. MaxTicks, h \in Hashes, f \in Figures :
                 past'[t][h][f] \subseteq past[t][h][f] \cup {Figure(count', members', limit', h)[f]}
  <1>0. /\ tick \in 0 .. MaxTicks /\ MaxTicks \in Nat
        /\ past \in [0 .. MaxTicks -> [Hashes -> [Figures -> SUBSET FigureValues]]]
    BY StatsBounds DEF StatsTypeOK
  <1>1. ASSUME NEW c \in Tables, NEW m \in Nat, NEW l \in FigureValues, Change(c, m, l)
        PROVE  /\ count' = c /\ members' = m /\ limit' = l /\ tick' = tick
               /\ past' \in [0 .. MaxTicks -> [Hashes -> [Figures -> SUBSET FigureValues]]]
               /\ \A t \in 0 .. MaxTicks, h \in Hashes, f \in Figures :
                     past'[t][h][f] = IF t = tick THEN past[t][h][f] \cup {Figure(c, m, l, h)[f]}
                                      ELSE past[t][h][f]
    <2> DEFINE new == [h \in Hashes |-> [f \in Figures |->
                         past[tick][h][f] \cup {Figure(c, m, l, h)[f]}]]
    <2>1. \A h \in Hashes, f \in Figures : Figure(c, m, l, h)[f] \in FigureValues
      BY FigureOf
    <2>2. new \in [Hashes -> [Figures -> SUBSET FigureValues]]
      BY <1>0, <2>1
    <2>3. \A h \in Hashes, f \in Figures :
             new[h][f] = past[tick][h][f] \cup {Figure(c, m, l, h)[f]}
      OBVIOUS
    <2>4. past' = [past EXCEPT ![tick] = new]
      BY <1>1 DEF Change
    <2> HIDE DEF new
    <2> QED BY <1>0, <1>1, <2>2, <2>3, <2>4 DEF Change
  <1>2. ASSUME Clock
        PROVE  /\ UNCHANGED <<count, members, limit>> /\ tick' = tick + 1 /\ tick' \in 0 .. MaxTicks
               /\ past' \in [0 .. MaxTicks -> [Hashes -> [Figures -> SUBSET FigureValues]]]
               /\ \A t \in 0 .. MaxTicks, h \in Hashes, f \in Figures :
                     past'[t][h][f] = IF t = tick + 1 THEN {Figure(count, members, limit, h)[f]}
                                      ELSE past[t][h][f]
    <2> DEFINE new == [h \in Hashes |-> [f \in Figures |-> {Figure(count, members, limit, h)[f]}]]
    <2>1. \A h \in Hashes, f \in Figures : Figure(count, members, limit, h)[f] \in FigureValues
      BY CurrentFigures DEF Current
    <2>2. new \in [Hashes -> [Figures -> SUBSET FigureValues]]
      BY <2>1
    <2>3. \A h \in Hashes, f \in Figures : new[h][f] = {Figure(count, members, limit, h)[f]}
      OBVIOUS
    <2>4. past' = [past EXCEPT ![tick + 1] = new] /\ tick' = tick + 1 /\ tick < MaxTicks
          /\ UNCHANGED <<count, members, limit>>
      BY <1>2 DEF Clock, statsDb
    <2> HIDE DEF new
    <2>5. tick + 1 \in 0 .. MaxTicks
      BY <1>0, <2>4
    <2>6. \A t \in 0 .. MaxTicks : past'[t] = IF t = tick + 1 THEN new ELSE past[t]
      BY <1>0, <2>4
    <2>7. past' \in [0 .. MaxTicks -> [Hashes -> [Figures -> SUBSET FigureValues]]]
      BY <1>0, <2>2, <2>4
    <2> QED BY <2>3, <2>4, <2>5, <2>6, <2>7
  <1>3. CASE \E c \in Tables, m \in Nat, l \in FigureValues : Change(c, m, l)
    <2>1. PICK c \in Tables, m \in Nat, l \in FigureValues : Change(c, m, l)
      BY <1>3
    <2>2. /\ count' = c /\ members' = m /\ limit' = l /\ tick' = tick
          /\ past' \in [0 .. MaxTicks -> [Hashes -> [Figures -> SUBSET FigureValues]]]
          /\ \A t \in 0 .. MaxTicks, h \in Hashes, f \in Figures :
                past'[t][h][f] = IF t = tick THEN past[t][h][f] \cup {Figure(c, m, l, h)[f]}
                                 ELSE past[t][h][f]
      BY <1>1, <2>1
    <2>3. \A t \in 0 .. tick : t \in 0 .. MaxTicks
      BY <1>0
    <2>4. \A t \in 0 .. tick, h \in Hashes, f \in Figures : past[t][h][f] \subseteq past'[t][h][f]
      <3> TAKE t \in 0 .. tick, h \in Hashes, f \in Figures
      <3>1. past'[t][h][f] = IF t = tick THEN past[t][h][f] \cup {Figure(c, m, l, h)[f]}
                               ELSE past[t][h][f]
        BY <2>2, <2>3
      <3> QED BY <2>3, <3>1
    <2>5. \A h \in Hashes, f \in Figures : Figure(c, m, l, h)[f] \in past'[tick][h][f]
      <3> TAKE h \in Hashes, f \in Figures
      <3>1. past'[tick][h][f] = past[tick][h][f] \cup {Figure(c, m, l, h)[f]}
        BY <1>0, <2>2
      <3> QED BY <3>1
    <2>6. \A t \in 0 .. MaxTicks, h \in Hashes, f \in Figures :
             past'[t][h][f] \subseteq past[t][h][f] \cup {Figure(c, m, l, h)[f]}
      <3> TAKE t \in 0 .. MaxTicks, h \in Hashes, f \in Figures
      <3>1. past'[t][h][f] = IF t = tick THEN past[t][h][f] \cup {Figure(c, m, l, h)[f]}
                               ELSE past[t][h][f]
        BY <2>2
      <3> QED BY <3>1
    <2> QED BY <2>2, <2>4, <2>5, <2>6
  <1>4. CASE Clock
    <2>2. /\ UNCHANGED <<count, members, limit>> /\ tick' = tick + 1 /\ tick' \in 0 .. MaxTicks
          /\ past' \in [0 .. MaxTicks -> [Hashes -> [Figures -> SUBSET FigureValues]]]
          /\ \A t \in 0 .. MaxTicks, h \in Hashes, f \in Figures :
                past'[t][h][f] = IF t = tick + 1 THEN {Figure(count, members, limit, h)[f]}
                                 ELSE past[t][h][f]
      BY <1>2, <1>4
    <2>3. \A t \in 0 .. tick : t \in 0 .. MaxTicks /\ t # tick + 1
      BY <1>0
    <2>4. \A t \in 0 .. tick, h \in Hashes, f \in Figures : past[t][h][f] \subseteq past'[t][h][f]
      <3> TAKE t \in 0 .. tick, h \in Hashes, f \in Figures
      <3>1. past'[t][h][f] = IF t = tick + 1 THEN {Figure(count, members, limit, h)[f]}
                               ELSE past[t][h][f]
        BY <2>2, <2>3
      <3> QED BY <2>3, <3>1
    <2>5. \A h \in Hashes, f \in Figures : Figure(count, members, limit, h)[f] \in past'[tick'][h][f]
      <3> TAKE h \in Hashes, f \in Figures
      <3>1. past'[tick'][h][f] = {Figure(count, members, limit, h)[f]}
        BY <1>0, <2>2
      <3> QED BY <3>1
    <2>6. \A t \in 0 .. MaxTicks, h \in Hashes, f \in Figures :
             past'[t][h][f] \subseteq past[t][h][f] \cup {Figure(count, members, limit, h)[f]}
      <3> TAKE t \in 0 .. MaxTicks, h \in Hashes, f \in Figures
      <3>1. past'[t][h][f] = IF t = tick + 1 THEN {Figure(count, members, limit, h)[f]}
                               ELSE past[t][h][f]
        BY <2>2
      <3> QED BY <3>1
    <2> QED BY <2>2, <2>4, <2>5, <2>6
  <1> QED BY <1>3, <1>4

\* A step of one request.
Serve(v) ==
    \/ \E h \in Hashes : Ask(v, h)
    \/ Lookup(v) \/ Query(v) \/ QueryFails(v)
    \/ Populate(v) \/ PopulateRest(v) \/ PopulateFails(v) \/ Answered(v)

LEMMA ServeOthers ==
    ASSUME StatsTypeOK, NEW v \in Viewers, Serve(v)
    PROVE  /\ \A w \in Viewers \ {v} : at'[w] = at[w] /\ whose'[w] = whose[w] /\ found'[w] = found[w]
           /\ UNCHANGED <<count, members, limit, changes, tick, past, slow>>
  <1>1. CASE (\E h \in Hashes : Ask(v, h)) \/ Lookup(v)
    BY <1>1 DEF Ask, Lookup, AtTo, StatsTypeOK, statsDb, statsHist
  <1>2. CASE Query(v)
    BY <1>2 DEF Query, AtTo, StatsTypeOK, statsDb, statsHist
  <1>3. CASE QueryFails(v) \/ PopulateFails(v) \/ Answered(v)
    BY <1>3 DEF QueryFails, PopulateFails, Answered, AtTo, StatsTypeOK, statsDb, statsHist
  <1>4. CASE Populate(v)
    BY <1>4 DEF Populate, AtTo, StatsTypeOK, statsDb
  <1>5. CASE PopulateRest(v)
    BY <1>5 DEF PopulateRest, AtTo, StatsTypeOK, statsDb, statsHist
  <1> QED BY <1>1, <1>2, <1>3, <1>4, <1>5 DEF Serve

LEMMA StatsNextCases ==
    ASSUME StatsTypeOK, [StatsNext]_statsVars
    PROVE  \/ \E v \in Viewers : Serve(v)
           \/ \E c \in Tables, m \in Nat, l \in FigureValues : Change(c, m, l)
           \/ Clock
           \/ UNCHANGED statsVars
  BY StatsChange DEF StatsNext, Serve

LEMMA StatsTypeInit == StatsInit => StatsType
  <1> SUFFICES ASSUME StatsInit PROVE StatsType
    OBVIOUS
  <1>1. count \in Tables /\ members \in Nat /\ limit \in FigureValues
    BY DEF StatsInit, Tables, FigureValues
  <1>2. \A h \in Hashes, f \in Figures : Figure(count, members, limit, h)[f] \in FigureValues
    BY <1>1, FigureOf
  <1>3. past \in [0 .. MaxTicks -> [Hashes -> [Figures -> SUBSET FigureValues]]]
    BY <1>2 DEF StatsInit
  <1>b. Blank \in [Figures -> FigureValues]
    BY DEF Blank, FigureValues
  <1>4. StatsTypeOK
    <2>0. changes = 0 /\ asks = 0 /\ tick = 0
      BY DEF StatsInit
    <2>1. /\ changes \in 0 .. MaxChanges /\ asks \in 0 .. MaxAsks /\ tick \in 0 .. MaxTicks
      BY <2>0, StatsBounds
    <2>5. slow \in BOOLEAN /\ split \in BOOLEAN /\ moved \subseteq Viewers \cup Hashes
      BY DEF StatsInit
    <2>2. hash \in [Hashes -> [Figures -> FigureValues]] /\ until \in [Hashes -> Nat]
      BY <1>b DEF StatsInit
    <2>3. /\ at \in [Viewers -> Stages] /\ whose \in [Viewers -> Hashes]
          /\ found \in [Viewers -> [Figures -> FigureValues]]
      BY <1>b DEF StatsInit, Stages, Hashes
    <2>4. \A v \in Viewers : at[v] = "idle"
      BY DEF StatsInit
    <2> QED BY <1>1, <1>3, <2>1, <2>2, <2>3, <2>4, <2>5 DEF StatsTypeOK, Tables, Stages
  <1>5. ASSUME NEW t \in 0 .. MaxTicks, NEW f \in {"local", "rustfs"}
        PROVE  past[t]["all"][f] \subseteq Nat
    <2>1. past[t]["all"][f] \subseteq {Figure(count, members, limit, "all")[f]}
      BY DEF StatsInit, Hashes, Figures
    <2> QED BY <1>1, <2>1, FigureOf DEF Figures
  <1>6. Queried
    BY <1>5, AfterStages DEF StatsInit, Queried
  <1> QED BY <1>4, <1>6 DEF StatsType

LEMMA StatsTypeNext == StatsType /\ [StatsNext]_statsVars => StatsType'
  <1> SUFFICES ASSUME StatsType, [StatsNext]_statsVars PROVE StatsType'
    OBVIOUS
  <1>0. StatsTypeOK /\ Queried
    BY DEF StatsType
  <1>n. StatsTtl \in Nat \ {0} /\ MaxTicks \in Nat /\ MaxChanges \in Nat /\ MaxAsks \in Nat
    BY StatsBounds
  <1>b. Blank \in [Figures -> FigureValues] /\ Nothing \notin Nat
    BY StatsApart DEF Blank, FigureValues
  <1>1. ASSUME NEW v \in Viewers, Serve(v) PROVE StatsType'
    <2>0. /\ \A w \in Viewers \ {v} : at'[w] = at[w] /\ whose'[w] = whose[w] /\ found'[w] = found[w]
          /\ UNCHANGED <<count, members, limit, changes, tick, past, slow>>
      BY <1>0, <1>1, ServeOthers
    \* What is left to show of the request itself and of the hashes.
    <2>a. ASSUME asks' \in 0 .. MaxAsks,
                 hash' \in [Hashes -> [Figures -> FigureValues]], until' \in [Hashes -> Nat],
                 at' \in [Viewers -> Stages], whose' \in [Viewers -> Hashes],
                 found' \in [Viewers -> [Figures -> FigureValues]],
                 split' \in BOOLEAN, moved' \subseteq Viewers \cup Hashes,
                 at'[v] \in {"store", "rest", "over"} =>
                    \A f \in IF whose'[v] = "me" THEN {"images"} ELSE Figures \ {"quota"} :
                       found'[v][f] # Nothing,
                 at'[v] \in {"idle", "lookup"} => found'[v] = Blank,
                 at'[v] \in DOMAIN After /\ whose'[v] = "me" =>
                    at'[v] = "images" /\ found'[v] = Blank,
                 at'[v] \in DOMAIN After /\ whose'[v] = "all" =>
                    \A f \in Asked[at'[v]] \ {"quota"} : found'[v][f] # Nothing
          PROVE StatsType'
      <3>1. StatsTypeOK'
        BY <1>0, <2>0, <2>a, ZenonT(40) DEF StatsTypeOK, Stages
      <3>2. Queried'
        BY <1>0, <2>0, <2>a DEF Queried
      <3> QED BY <3>1, <3>2 DEF StatsType
    <2>1. CASE \E h \in Hashes : Ask(v, h)
      <3>1. PICK h \in Hashes : Ask(v, h)
        BY <2>1
      <3>2. at'[v] = "lookup" /\ whose'[v] = h /\ found' = found /\ found[v] = Blank
        BY <1>0, <3>1 DEF Ask, AtTo, StatsTypeOK, Queried
      <3>3. /\ asks' \in 0 .. MaxAsks /\ at' \in [Viewers -> Stages] /\ whose' \in [Viewers -> Hashes]
            /\ UNCHANGED <<hash, until, split, moved>>
        BY <1>0, <1>n, <3>1 DEF Ask, AtTo, StatsTypeOK, Stages, statsHist
      <3> QED BY <1>0, <2>a, <3>2, <3>3, AfterStages DEF StatsTypeOK
    <2>2. CASE Lookup(v)
      <3> DEFINE h == whose[v]
      <3>0. /\ at[v] = "lookup" /\ h \in Hashes /\ found[v] = Blank
            /\ UNCHANGED <<asks, hash, until, whose>>
        BY <1>0, <2>2 DEF Lookup, StatsTypeOK, Queried
      <3>1. CASE /\ Usable(h) /\ AtTo(v, "over")
                 /\ found' = [found EXCEPT ![v] = Parsed(h)]
                 /\ split' = (split \/ Amid(h))
                 /\ moved' = IF h \in moved THEN moved \cup {v} ELSE moved \ {v}
        <4>1. Parsed(h) \in [Figures -> FigureValues]
          <5>1. hash[h] \in [Figures -> FigureValues]
            BY <1>0, <3>0 DEF StatsTypeOK
          <5>2. hash[h]["images"] \in FigureValues /\ 0 \in FigureValues
            BY <5>1 DEF Figures, FigureValues
          <5> QED BY <5>1, <5>2 DEF Parsed
        <4>2. \A f \in IF h = "me" THEN {"images"} ELSE Figures \ {"quota"} :
                 Parsed(h)[f] # Nothing
          BY <1>0, <1>b, <3>0, <3>1 DEF Parsed, Usable, StatsTypeOK, Figures, Hashes
        <4>3. at'[v] = "over" /\ at' \in [Viewers -> Stages]
          BY <1>0, <3>1 DEF AtTo, StatsTypeOK, Stages
        <4>4. found'[v] = Parsed(h) /\ found' \in [Viewers -> [Figures -> FigureValues]]
          BY <1>0, <3>1, <4>1 DEF StatsTypeOK
        <4>5. split' \in BOOLEAN /\ moved' \subseteq Viewers \cup Hashes
          BY <1>0, <3>0, <3>1 DEF StatsTypeOK
        <4> QED BY <1>0, <2>a, <3>0, <4>2, <4>3, <4>4, <4>5, AfterStages DEF StatsTypeOK
      <3>2. CASE /\ AtTo(v, FirstFigure(h)) /\ moved' = moved \ {v}
                 /\ UNCHANGED <<found, split>>
        <4>1. at'[v] = (IF h = "me" THEN "images" ELSE "users") /\ at' \in [Viewers -> Stages]
          BY <1>0, <3>2, AfterStages DEF AtTo, StatsTypeOK, Stages, FirstFigure
        <4>2. h = "all" => Asked[at'[v]] = {}
          BY <4>1 DEF Asked
        <4> QED BY <1>0, <2>a, <3>0, <3>2, <4>1, <4>2 DEF StatsTypeOK
      <3> QED BY <2>2, <3>1, <3>2 DEF Lookup
    <2>3. CASE Query(v)
      <3> DEFINE h == whose[v]
                 f == at[v]
      <3>0. /\ f \in DOMAIN After /\ h \in Hashes
            /\ UNCHANGED <<asks, hash, until, whose, split, moved>>
            /\ at' = [at EXCEPT ![v] = IF h = "me" THEN "store" ELSE After[f]]
        BY <1>0, <2>3 DEF Query, AtTo, StatsTypeOK, statsHist
      <3>1. /\ found' \in [Viewers -> [Figures -> FigureValues]]
            /\ \A g \in Figures : found'[v][g] = IF g = f \/ (f = "rustfs" /\ g = "rimages")
                                                 THEN Current(h)[g] ELSE found[v][g]
        BY <1>0, <2>3, <3>0, CurrentFigures DEF Query, StatsTypeOK, Current
      <3>2. CASE h = "me"
        <4>1. at'[v] = "store" /\ at' \in [Viewers -> Stages] /\ f = "images"
          BY <1>0, <3>0, <3>2 DEF StatsTypeOK, Stages, Queried
        <4>2. found'[v]["images"] # Nothing
          BY <1>0, <1>b, <3>1, <3>2, <4>1, CurrentFigures DEF Figures
        <4> QED BY <1>0, <2>a, <3>0, <3>1, <3>2, <4>1, <4>2, AfterStages DEF StatsTypeOK
      <3>3. CASE h = "all"
        <4>1. /\ at'[v] = After[f] /\ at' \in [Viewers -> Stages]
              /\ \A g \in Asked[f] \ {"quota"} : found[v][g] # Nothing
          BY <1>0, <3>0, <3>3, AfterStages DEF StatsTypeOK, Stages, Queried
        <4>2. \A g \in Figures \ {"quota"} : Current("all")[g] # Nothing
          BY <1>0, <1>b, CurrentFigures
        <4>3. \A g \in (Asked[f] \cup {f}) \ {"quota"} : found'[v][g] # Nothing
          BY <3>0, <3>1, <3>3, <4>1, <4>2, AfterStages DEF Asked, Figures
        <4>4. CASE f = "rustfs"
          <5>1. at'[v] = "store"
            BY <4>1, <4>4 DEF After
          <5>2. \A g \in Figures \ {"quota"} : found'[v][g] # Nothing
            BY <3>1, <3>3, <4>2, <4>3, <4>4 DEF Asked, Figures
          <5> QED BY <1>0, <2>a, <3>0, <3>1, <3>3, <4>1, <5>1, <5>2, AfterStages DEF StatsTypeOK
        <4>5. CASE f # "rustfs"
          <5>1. at'[v] \in DOMAIN After /\ Asked[at'[v]] = Asked[f] \cup {f}
            BY <3>0, <4>1, <4>5 DEF After, Asked
          <5> QED BY <1>0, <2>a, <3>0, <3>1, <3>3, <4>1, <4>3, <5>1, AfterStages DEF StatsTypeOK
        <4> QED BY <4>4, <4>5
      <3> QED BY <3>0, <3>2, <3>3 DEF Hashes
    <2>4. CASE QueryFails(v) \/ Answered(v)
      <3>1. /\ at'[v] = "idle" /\ found'[v] = Blank /\ at' \in [Viewers -> Stages]
            /\ found' \in [Viewers -> [Figures -> FigureValues]]
            /\ moved' \subseteq Viewers \cup Hashes
            /\ UNCHANGED <<asks, hash, until, whose, split>>
        BY <1>0, <1>b, <2>4 DEF QueryFails, Answered, AtTo, StatsTypeOK, Stages
      <3> QED BY <1>0, <2>a, <3>1, AfterStages DEF StatsTypeOK
    <2>5. CASE Populate(v)
      <3>1. /\ at[v] = "store" /\ at'[v] = "rest" /\ at' \in [Viewers -> Stages]
            /\ UNCHANGED <<asks, until, whose, found>>
            /\ split' \in BOOLEAN /\ moved' \subseteq Viewers \cup Hashes
        BY <1>0, <2>5 DEF Populate, AtTo, StatsTypeOK, Stages
      <3>2. hash' \in [Hashes -> [Figures -> FigureValues]]
        <4>1. \A f \in {"users", "images", "quota"} : found[v][f] \in FigureValues
          BY <1>0 DEF StatsTypeOK, Figures
        <4>2. hash' = [hash EXCEPT ![whose[v]] = [@ EXCEPT !["users"] = found[v]["users"],
                          !["images"] = found[v]["images"], !["quota"] = found[v]["quota"]]]
          BY <1>0, <2>5 DEF Populate, StatsTypeOK
        <4>3. [hash[whose[v]] EXCEPT !["users"] = found[v]["users"],
                  !["images"] = found[v]["images"], !["quota"] = found[v]["quota"]]
                \in [Figures -> FigureValues]
          BY <1>0, <4>1 DEF StatsTypeOK
        <4> QED BY <1>0, <4>2, <4>3 DEF StatsTypeOK
      <3> QED BY <1>0, <2>a, <3>1, <3>2, AfterStages DEF StatsTypeOK
    <2>6. CASE PopulateRest(v)
      <3>1. /\ at[v] = "rest" /\ at'[v] = "over" /\ at' \in [Viewers -> Stages]
            /\ UNCHANGED <<asks, whose, found, split, moved>>
        BY <1>0, <2>6 DEF PopulateRest, AtTo, StatsTypeOK, Stages, statsHist
      <3>2. until' \in [Hashes -> Nat]
        BY <1>0, <1>n, <2>6 DEF PopulateRest, StatsTypeOK
      <3>3. hash' \in [Hashes -> [Figures -> FigureValues]]
        <4>1. \A f \in {"local", "rustfs"} : found[v][f] \in FigureValues
          BY <1>0 DEF StatsTypeOK, Figures
        <4>2. hash' = [hash EXCEPT ![whose[v]] =
                          [@ EXCEPT !["local"] = found[v]["local"],
                                    !["rustfs"] = found[v]["rustfs"]]]
          BY <1>0, <2>6 DEF PopulateRest, StatsTypeOK
        <4>3. [hash[whose[v]] EXCEPT !["local"] = found[v]["local"],
                  !["rustfs"] = found[v]["rustfs"]] \in [Figures -> FigureValues]
          BY <1>0, <4>1 DEF StatsTypeOK
        <4> QED BY <1>0, <4>2, <4>3 DEF StatsTypeOK
      <3> QED BY <1>0, <2>a, <3>1, <3>2, <3>3, AfterStages DEF StatsTypeOK
    <2>7. CASE PopulateFails(v)
      <3>1. /\ at[v] = "store" /\ at'[v] = "over" /\ at' \in [Viewers -> Stages]
            /\ UNCHANGED <<asks, hash, until, whose, found, split, moved>>
        BY <1>0, <2>7 DEF PopulateFails, AtTo, StatsTypeOK, Stages, statsHist
      <3> QED BY <1>0, <2>a, <3>1, AfterStages DEF StatsTypeOK
    <2> QED BY <1>1, <2>1, <2>2, <2>3, <2>4, <2>5, <2>6, <2>7 DEF Serve
  \* The numbers of all users stay numbers when the past goes on.
  <1>2. ASSUME \/ \E c \in Tables, m \in Nat, l \in FigureValues : Change(c, m, l)
               \/ Clock
        PROVE StatsType'
    <2>1. past' \in [0 .. MaxTicks -> [Hashes -> [Figures -> SUBSET FigureValues]]]
      BY <1>0, <1>2, PastKept
    <2>2. /\ count' \in Tables /\ members' \in Nat /\ limit' \in FigureValues
          /\ UNCHANGED <<asks, at, whose, found, split>>
      BY <1>0, <1>2 DEF Change, Clock, StatsTypeOK, Tables, statsDb
    <2>3. /\ changes' \in 0 .. MaxChanges /\ tick' \in 0 .. MaxTicks /\ slow' \in BOOLEAN
          /\ moved' \subseteq Viewers \cup Hashes
      <3>1. CASE \E c \in Tables, m \in Nat, l \in FigureValues : Change(c, m, l)
        <4>1. changes < MaxChanges /\ changes' = changes + 1 /\ UNCHANGED <<tick, slow>>
          BY <3>1 DEF Change
        <4>2. moved' = moved \cup {v \in Viewers : at[v] \in DOMAIN After}
          BY <3>1 DEF Change
        <4> QED BY <1>0, <1>n, <4>1, <4>2 DEF StatsTypeOK
      <3>2. CASE Clock
        <4>1. /\ tick < MaxTicks /\ tick' = tick + 1 /\ changes' = changes /\ moved' = moved
              /\ slow' \in BOOLEAN
          BY <1>0, <3>2 DEF Clock, StatsTypeOK, statsDb
        <4> QED BY <1>0, <1>n, <4>1 DEF StatsTypeOK
      <3> QED BY <1>2, <3>1, <3>2
    <2>4. hash' \in [Hashes -> [Figures -> FigureValues]] /\ until' \in [Hashes -> Nat]
      BY <1>0, <1>b, <1>2 DEF Change, Clock, StatsTypeOK
    <2>5. StatsTypeOK'
      BY <1>0, <2>1, <2>2, <2>3, <2>4 DEF StatsTypeOK, Tables
    <2>6. ASSUME NEW t \in 0 .. MaxTicks, NEW f \in {"local", "rustfs"}
          PROVE  past'[t]["all"][f] \subseteq Nat
      <3>1. past'[t]["all"][f] \subseteq
               past[t]["all"][f] \cup {Figure(count', members', limit', "all")[f]}
        BY <1>0, <1>2, PastKept DEF Hashes, Figures
      <3>2. Figure(count', members', limit', "all")[f] \in Nat
        BY <2>2, FigureOf DEF Figures
      <3> QED BY <1>0, <3>1, <3>2 DEF Queried
    <2>7. Queried'
      BY <1>0, <2>2, <2>6 DEF Queried
    <2> QED BY <2>5, <2>7 DEF StatsType
  <1>3. CASE UNCHANGED statsVars
    BY <1>0, <1>3 DEF statsVars, statsDb, statsHist, StatsType, StatsTypeOK, Queried
  <1> QED BY <1>0, <1>1, <1>2, <1>3, StatsNextCases

\* What a step of one request leaves alone: the other hash, the marks of the others, and
\* without a pipeline of its own every hash.
LEMMA ServeMarks ==
    ASSUME StatsType, NEW v \in Viewers, Serve(v)
    PROVE  /\ \A w \in Viewers \ {v} : w \in moved' <=> w \in moved
           /\ split => split'
           /\ ~Populate(v) /\ ~PopulateRest(v) =>
                 /\ hash' = hash /\ until' = until /\ at[v] # "rest" /\ at'[v] # "rest"
                 /\ \A h \in Hashes : (h \in moved' <=> h \in moved) /\ (Amid(h)' <=> Amid(h))
           /\ Populate(v) \/ PopulateRest(v) =>
                 /\ whose' = whose /\ found' = found
                 /\ \A h \in Hashes \ {whose[v]} :
                       /\ hash'[h] = hash[h] /\ until'[h] = until[h]
                       /\ (h \in moved' <=> h \in moved) /\ (Amid(h)' <=> Amid(h))
  <1>0. StatsTypeOK /\ Queried
    BY DEF StatsType
  <1>1. /\ \A w \in Viewers \ {v} : at'[w] = at[w] /\ whose'[w] = whose[w] /\ found'[w] = found[w]
        /\ UNCHANGED <<count, members, limit, changes, tick, past, slow>>
    BY <1>0, ServeOthers
  <1>2. \A x \in Viewers, h \in Hashes : x # h
    BY StatsApart
  <1>3. CASE ~Populate(v) /\ ~PopulateRest(v)
    <2>1. /\ \A w \in Viewers \cup Hashes : w # v => (w \in moved' <=> w \in moved)
          /\ split => split'
          /\ hash' = hash /\ until' = until /\ at[v] # "rest" /\ at'[v] # "rest"
      <3>1. CASE \E h \in Hashes : Ask(v, h)
        BY <1>0, <3>1 DEF Ask, AtTo, StatsTypeOK, statsHist
      <3>2. CASE Lookup(v)
        BY <1>0, <3>2 DEF Lookup, AtTo, StatsTypeOK, FirstFigure
      <3>3. CASE Query(v)
        <4>1. at[v] \in DOMAIN After /\ at'[v] \in {"store"} \cup {After[f] : f \in DOMAIN After}
              /\ UNCHANGED <<hash, until, split, moved>>
          BY <1>0, <3>3 DEF Query, AtTo, StatsTypeOK, statsHist
        <4>2. \A f \in DOMAIN After : f # "rest" /\ After[f] # "rest"
          BY DEF After
        <4> QED BY <4>1, <4>2
      <3>4. CASE QueryFails(v) \/ PopulateFails(v) \/ Answered(v)
        BY <1>0, <3>4, AfterStages DEF QueryFails, PopulateFails, Answered, AtTo, StatsTypeOK, statsHist
      <3> QED BY <1>3, <3>1, <3>2, <3>3, <3>4 DEF Serve
    <2>2. \A h \in Hashes : Amid(h)' <=> Amid(h)
      BY <1>1, <2>1 DEF Amid
    <2> QED BY <1>2, <1>3, <2>1, <2>2
  <1>4. CASE Populate(v) \/ PopulateRest(v)
    <2>1. /\ whose' = whose /\ found' = found /\ whose[v] \in Hashes
          /\ split => split'
          /\ \A x \in Viewers \cup Hashes : x # whose[v] => (x \in moved' <=> x \in moved)
          /\ \A h \in Hashes \ {whose[v]} : hash'[h] = hash[h] /\ until'[h] = until[h]
      <3>1. CASE Populate(v)
        BY <1>0, <3>1 DEF Populate, StatsTypeOK
      <3>2. CASE PopulateRest(v)
        BY <1>0, <3>2 DEF PopulateRest, StatsTypeOK, statsHist
      <3> QED BY <1>4, <3>1, <3>2
    <2>2. \A h \in Hashes \ {whose[v]} : Amid(h)' <=> Amid(h)
      BY <1>1, <2>1 DEF Amid
    <2> QED BY <1>2, <1>4, <2>1, <2>2
  <1> QED BY <1>3, <1>4

\* The two steps of a pipeline, field by field.
LEMMA PipelineSteps ==
    ASSUME StatsType, NEW v \in Viewers
    PROVE  /\ Populate(v) =>
                 /\ at[v] = "store" /\ at'[v] = "rest"
                 /\ hash' \in [Hashes -> [Figures -> FigureValues]]
                 /\ \A f \in {"users", "images", "quota"} : hash'[whose[v]][f] = found[v][f]
                 /\ split' = (split \/ Amid(whose[v]))
                 /\ whose[v] \in moved' <=> v \in moved
           /\ PopulateRest(v) =>
                 /\ at[v] = "rest" /\ at'[v] = "over"
                 /\ \A f \in {"local", "rustfs"} : hash'[whose[v]][f] = found[v][f]
                 /\ \A f \in {"users", "images", "quota"} :
                       hash'[whose[v]][f] = hash[whose[v]][f]
                 /\ until'[whose[v]] = tick + StatsTtl
                 /\ UNCHANGED <<split, moved>>
  <1>0. StatsTypeOK
    BY DEF StatsType
  <1>1. whose[v] \in Hashes /\ hash[whose[v]] \in [Figures -> FigureValues]
    BY <1>0 DEF StatsTypeOK
  <1>2. ASSUME Populate(v)
        PROVE  /\ at[v] = "store" /\ at'[v] = "rest"
               /\ \A f \in {"users", "images", "quota"} : hash'[whose[v]][f] = found[v][f]
               /\ split' = (split \/ Amid(whose[v]))
               /\ whose[v] \in moved' <=> v \in moved
    <2>1. hash' = [hash EXCEPT ![whose[v]] = [@ EXCEPT !["users"] = found[v]["users"],
                      !["images"] = found[v]["images"], !["quota"] = found[v]["quota"]]]
      BY <1>0, <1>2 DEF Populate, StatsTypeOK
    <2>2. \A f \in {"users", "images", "quota"} : hash'[whose[v]][f] = found[v][f]
      BY <1>0, <1>1, <2>1 DEF StatsTypeOK, Figures
    <2>3. at[v] = "store" /\ at'[v] = "rest"
      BY <1>0, <1>2 DEF Populate, AtTo, StatsTypeOK
    <2>4. whose[v] \in moved' <=> v \in moved
      BY <1>2 DEF Populate
    <2> QED BY <1>2, <2>2, <2>3, <2>4 DEF Populate
  <1>3. ASSUME PopulateRest(v)
        PROVE  /\ at[v] = "rest" /\ at'[v] = "over"
               /\ \A f \in {"local", "rustfs"} : hash'[whose[v]][f] = found[v][f]
               /\ \A f \in {"users", "images", "quota"} :
                     hash'[whose[v]][f] = hash[whose[v]][f]
               /\ until'[whose[v]] = tick + StatsTtl
               /\ UNCHANGED <<split, moved>>
    <2>1. hash' = [hash EXCEPT ![whose[v]] =
                      [@ EXCEPT !["local"] = found[v]["local"],
                                !["rustfs"] = found[v]["rustfs"]]]
      BY <1>0, <1>3 DEF PopulateRest, StatsTypeOK
    <2>2. /\ \A f \in {"local", "rustfs"} : hash'[whose[v]][f] = found[v][f]
          /\ \A f \in {"users", "images", "quota"} : hash'[whose[v]][f] = hash[whose[v]][f]
      BY <1>0, <1>1, <2>1 DEF StatsTypeOK, Figures
    <2>3. at[v] = "rest" /\ at'[v] = "over" /\ until'[whose[v]] = tick + StatsTtl
      BY <1>0, <1>1, <1>3 DEF PopulateRest, AtTo, StatsTypeOK
    <2>4. UNCHANGED <<split, moved>>
      BY <1>3 DEF PopulateRest, statsHist
    <2> QED BY <2>2, <2>3, <2>4
  <1>4. Populate(v) => hash' \in [Hashes -> [Figures -> FigureValues]]
    <2>1. Populate(v) => StatsNext
      BY DEF StatsNext
    <2> QED BY <2>1, StatsTypeNext DEF StatsType, StatsTypeOK
  <1> QED BY <1>2, <1>3, <1>4

LEMMA OneFillsNext == StatsType /\ OneFills /\ [StatsNext]_statsVars => OneFills'
  <1> SUFFICES ASSUME StatsType, OneFills, [StatsNext]_statsVars PROVE OneFills'
    OBVIOUS
  <1>0. StatsTypeOK
    BY DEF StatsType
  <1>1. ASSUME NEW v \in Viewers, Serve(v) PROVE OneFills'
    <2>1. /\ \A w \in Viewers \ {v} : at'[w] = at[w] /\ whose'[w] = whose[w]
          /\ split => split'
      BY <1>0, <1>1, ServeOthers, ServeMarks
    <2>2. CASE Populate(v)
      <3>1. whose' = whose /\ split' = (split \/ Amid(whose[v]))
        BY <1>1, <2>2, ServeMarks, PipelineSteps
      <3> QED BY <2>1, <3>1 DEF OneFills, Amid
    <2>3. CASE ~Populate(v)
      <3>1. at'[v] # "rest"
        BY <1>1, <2>3, ServeMarks, PipelineSteps
      <3> QED BY <2>1, <3>1 DEF OneFills
    <2> QED BY <2>2, <2>3
  <1>2. CASE \/ \E c \in Tables, m \in Nat, l \in FigureValues : Change(c, m, l)
             \/ Clock
    BY <1>2 DEF Change, Clock, OneFills
  <1>3. CASE UNCHANGED statsVars
    BY <1>3 DEF statsVars, statsHist, OneFills
  <1> QED BY <1>0, <1>1, <1>2, <1>3, StatsNextCases

LEMMA RecentNext ==
    StatsType /\ StatsType' /\ RecentInv /\ OneFills /\ [StatsNext]_statsVars => RecentInv'
  <1> SUFFICES ASSUME StatsType, StatsType', RecentInv, OneFills, [StatsNext]_statsVars
               PROVE RecentInv'
    OBVIOUS
  <1>0. StatsTypeOK /\ Queried /\ StatsTtl \in Nat \ {0} /\ tick \in Nat /\ tick \in 0 .. MaxTicks
    BY StatsBounds DEF StatsType, StatsTypeOK
  <1>1. ASSUME NEW v \in Viewers, Serve(v) PROVE RecentInv'
    <2>h. PICK h \in Hashes : h = whose[v]
      BY <1>0 DEF StatsTypeOK
    <2>0. /\ \A w \in Viewers \ {v} : at'[w] = at[w] /\ whose'[w] = whose[w] /\ found'[w] = found[w]
          /\ UNCHANGED <<count, members, limit, tick, past, slow>>
          /\ split => split'
      BY <1>0, <1>1, ServeOthers, ServeMarks
    <2>m. h = "me" \/ h = "all"
      BY DEF Hashes
    <2>n. NowKept
      BY DEF RecentInv
    <2>1. NowKept'
      BY <2>0, <2>n DEF NowKept, Current
    <2> SUFFICES ASSUME ~slow', ~split'
                 PROVE  /\ \A w \in Viewers : Recent(w)'
                        /\ \A k \in Hashes : ~Amid(k)' => Fresh(k)'
      BY <2>1 DEF RecentInv
    <2>2. /\ ~slow /\ ~split
          /\ \A w \in Viewers : Recent(w)
          /\ \A k \in Hashes : ~Amid(k) => Fresh(k)
      BY <2>0 DEF RecentInv
    <2>3. CASE ~Populate(v) /\ ~PopulateRest(v)
      <3>1. /\ hash' = hash /\ until' = until /\ at[v] # "rest" /\ at'[v] # "rest"
            /\ \A k \in Hashes : Amid(k)' <=> Amid(k)
        BY <1>1, <2>3, ServeMarks
      <3>2. \A w \in Viewers \ {v} : Recent(w)'
        <4> TAKE w \in Viewers \ {v}
        <4>1. at'[w] = at[w] /\ whose'[w] = whose[w] /\ found'[w] = found[w]
              /\ past' = past /\ tick' = tick /\ hash' = hash
          BY <2>0, <3>1
        <4> QED BY <2>2, <4>1 DEF Recent
      <3>3. \A k \in Hashes : ~Amid(k)' => Fresh(k)'
        BY <2>0, <2>2, <3>1 DEF Fresh
      <3>4. Recent(v)'
        <4>1. CASE (\E k \in Hashes : Ask(v, k)) \/ QueryFails(v) \/ Answered(v)
          <5>1. at'[v] \in {"lookup", "idle"}
            BY <1>0, <4>1 DEF Ask, QueryFails, Answered, AtTo, StatsTypeOK
          <5> QED BY <5>1, AfterStages DEF Recent
        <4>2. CASE Lookup(v)
          <5>0. at[v] = "lookup" /\ whose' = whose
            BY <4>2 DEF Lookup
          <5>1. CASE /\ Usable(h) /\ AtTo(v, "over")
                     /\ found' = [found EXCEPT ![v] = Parsed(h)]
                     /\ split' = (split \/ Amid(h))
            <6>1. at'[v] = "over" /\ found'[v] = Parsed(h)
              BY <1>0, <5>1 DEF AtTo, StatsTypeOK
            <6>2. Fresh(h) /\ hash[h] # Blank
              <7>1. ~Amid(h)
                BY <5>1
              <7>2. hash[h] # Blank
                BY <5>1 DEF Usable, Blank, Figures
              <7> QED BY <2>0, <2>2, <7>1, <7>2
            <6>3. PICK t \in 0 .. tick : /\ until[h] = t + StatsTtl /\ tick < until[h]
                                         /\ \A f \in Told : hash[h][f] \in past[t][h][f]
              BY <6>2 DEF Fresh
            <6>4. t \in 0 .. MaxTicks
              BY <1>0, <6>3, StatsBounds
            <6>5. hash[h] \in [Figures -> FigureValues]
              BY <1>0, <2>0 DEF StatsTypeOK
            <6>6. \A f \in Told : Parsed(h)[f] = hash[h][f]
              <7>1. CASE h = "me"
                BY <7>1 DEF Parsed
              <7>2. CASE h = "all"
                <8>1. \A f \in {"local", "rustfs"} : hash[h][f] \in Nat
                  BY <1>0, <6>3, <6>4, <7>2 DEF Told, Figures, Queried
                <8>2. hash[h]["local"] # Nothing /\ hash[h]["rustfs"] # Nothing
                  BY <8>1, StatsApart
                <8>3. Parsed(h) = [hash[h] EXCEPT !["local"] = hash[h]["local"],
                                     !["rustfs"] = hash[h]["rustfs"], !["rimages"] = 0]
                  BY <6>5, <7>2, <8>2 DEF Parsed, Figures
                <8> QED BY <6>5, <8>3 DEF Told, Figures
              <7> QED BY <2>m, <7>1, <7>2
            <6>7. t + StatsTtl >= tick /\ \A f \in Told : found'[v][f] \in past[t][h][f]
              BY <1>0, <6>1, <6>3, <6>6
            <6> QED BY <2>h, <2>0, <5>0, <6>1, <6>7, AfterStages DEF Recent
          <5>2. CASE AtTo(v, FirstFigure(h))
            <6>1. at'[v] = (IF h = "me" THEN "images" ELSE "users")
              BY <1>0, <5>2 DEF AtTo, StatsTypeOK, FirstFigure
            <6>2. whose'[v] = "all" => Asked[at'[v]] = {}
              BY <2>h, <5>0, <6>1 DEF Asked
            <6> QED BY <6>1, <6>2 DEF Recent
          <5> QED BY <2>h, <4>2, <5>1, <5>2 DEF Lookup
        <4>3. CASE Query(v)
          <5> DEFINE f == at[v]
          <5>0. /\ f \in DOMAIN After /\ whose' = whose
                /\ at'[v] = IF h = "me" THEN "store" ELSE After[f]
            BY <2>h, <1>0, <4>3 DEF Query, AtTo, StatsTypeOK
          <5>1. \A g \in Figures : found'[v][g] = IF g = f \/ (f = "rustfs" /\ g = "rimages")
                                                  THEN Current(h)[g] ELSE found[v][g]
            BY <2>h, <1>0, <4>3 DEF Query, StatsTypeOK, Current
          <5>2. \A g \in Figures : Current(h)[g] \in past[tick][h][g]
            BY <2>0, <2>n DEF NowKept
          <5>3. CASE h = "me"
            <6>1. at'[v] = "store" /\ f = "images" /\ found[v] = Blank
              BY <2>h, <1>0, <5>0, <5>3 DEF Queried
            <6>2. \A g \in Figures : found'[v][g] = Current(h)[g]
              BY <1>0, <5>1, <5>3, <6>1, CurrentFigures DEF Blank
            <6> QED BY <2>h, <2>0, <5>0, <5>2, <6>1, <6>2, AfterStages DEF Recent, Told
          <5>4. CASE h = "all"
            <6>1. \A g \in Asked[f] : found[v][g] \in past[tick]["all"][g]
              BY <2>h, <2>2, <5>0, <5>4 DEF Recent
            <6>2. \A g \in Asked[f] \cup {f} : found'[v][g] \in past[tick]["all"][g]
              BY <5>0, <5>1, <5>2, <5>4, <6>1, AfterStages DEF Asked, Figures
            <6>3. CASE f = "rustfs"
              <7>1. at'[v] = "store" /\ Told = Asked[f] \cup {f}
                BY <5>0, <5>4, <6>3 DEF After, Told, Figures, Asked
              <7> QED BY <2>h, <2>0, <5>0, <5>4, <6>2, <7>1, AfterStages DEF Recent
            <6>4. CASE f # "rustfs"
              <7>1. at'[v] \in DOMAIN After /\ Asked[at'[v]] = Asked[f] \cup {f}
                BY <5>0, <5>4, <6>4 DEF After, Asked
              <7> QED BY <2>h, <2>0, <5>0, <5>4, <6>2, <7>1, AfterStages DEF Recent
            <6> QED BY <6>3, <6>4
          <5> QED BY <2>m, <5>3, <5>4
        <4>4. CASE PopulateFails(v)
          <5>1. at[v] = "store" /\ at'[v] = "over" /\ whose' = whose /\ found' = found
            BY <1>0, <4>4 DEF PopulateFails, AtTo, StatsTypeOK
          <5>2. \A f \in Told : found[v][f] \in past[tick][h][f]
            BY <2>h, <2>2, <5>1 DEF Recent
          <5>3. tick \in 0 .. tick /\ tick + StatsTtl >= tick
            BY <1>0
          <5> QED BY <2>h, <2>0, <5>1, <5>2, <5>3, AfterStages DEF Recent
        <4> QED BY <1>1, <2>3, <4>1, <4>2, <4>3, <4>4 DEF Serve
      <3> QED BY <3>2, <3>3, <3>4
    <2>4. CASE Populate(v)
      <3>a. ~Amid(h)
        <4>1. split' = (split \/ Amid(whose[v]))
          BY <2>4, PipelineSteps
        <4> QED BY <2>h, <4>1
      <3>1. /\ at[v] = "store" /\ at'[v] = "rest"
            /\ \A f \in {"users", "images", "quota"} : hash'[h][f] = found[v][f]
            /\ whose' = whose /\ found' = found
            /\ \A k \in Hashes \ {h} :
                  hash'[k] = hash[k] /\ until'[k] = until[k] /\ (Amid(k)' <=> Amid(k))
        BY <2>h, <1>1, <2>4, ServeMarks, PipelineSteps
      <3>2. \A w \in Viewers \ {v} : Recent(w)'
        <4> TAKE w \in Viewers \ {v}
        <4>1. at'[w] = at[w] /\ whose'[w] = whose[w] /\ found'[w] = found[w]
              /\ past' = past /\ tick' = tick
          BY <2>0
        <4>2. at[w] = "rest" => hash'[whose[w]] = hash[whose[w]]
          BY <1>0, <3>a, <3>1 DEF Amid, StatsTypeOK
        <4> QED BY <2>2, <4>1, <4>2 DEF Recent
      <3>3. Recent(v)'
        <4>1. \A f \in Told : found[v][f] \in past[tick][h][f]
          BY <2>h, <2>2, <3>1 DEF Recent
        <4> QED BY <2>h, <2>0, <3>1, <4>1, AfterStages DEF Recent
      <3>4. \A k \in Hashes : ~Amid(k)' => Fresh(k)'
        <4> TAKE k \in Hashes
        <4>1. CASE k = h
          BY <2>h, <3>1, <4>1 DEF Amid
        <4>2. CASE k # h
          BY <2>0, <2>2, <3>1, <4>2 DEF Fresh
        <4> QED BY <4>1, <4>2
      <3> QED BY <3>2, <3>3, <3>4
    <2>5. CASE PopulateRest(v)
      <3>1. /\ at[v] = "rest" /\ at'[v] = "over"
            /\ \A f \in {"local", "rustfs"} : hash'[h][f] = found[v][f]
            /\ \A f \in {"users", "images", "quota"} : hash'[h][f] = hash[h][f]
            /\ until'[h] = tick + StatsTtl
            /\ whose' = whose /\ found' = found
            /\ \A k \in Hashes \ {h} :
                  hash'[k] = hash[k] /\ until'[k] = until[k] /\ (Amid(k)' <=> Amid(k))
        BY <2>h, <1>1, <2>5, ServeMarks, PipelineSteps
      <3>2. /\ \A f \in Told : found[v][f] \in past[tick][h][f]
            /\ \A f \in {"users", "images", "quota"} : hash[h][f] = found[v][f]
        BY <2>h, <2>2, <3>1 DEF Recent
      <3>3. \A w \in Viewers \ {v} : Recent(w)'
        <4> TAKE w \in Viewers \ {v}
        <4>1. at'[w] = at[w] /\ whose'[w] = whose[w] /\ found'[w] = found[w]
              /\ past' = past /\ tick' = tick
          BY <2>0
        <4>2. at[w] = "rest" => hash'[whose[w]] = hash[whose[w]]
          BY <2>h, <1>0, <2>2, <3>1 DEF OneFills, StatsTypeOK
        <4> QED BY <2>2, <4>1, <4>2 DEF Recent
      <3>4. tick \in 0 .. tick /\ tick + StatsTtl >= tick /\ tick < tick + StatsTtl
        BY <1>0
      <3>5. Recent(v)'
        BY <2>h, <2>0, <3>1, <3>2, <3>4, AfterStages DEF Recent
      <3>6. Fresh(h)'
        <4>1. \A f \in Told : hash'[h][f] \in past'[tick][h][f]
          BY <2>0, <3>1, <3>2 DEF Told, Figures
        <4> QED BY <2>0, <3>1, <3>4, <4>1 DEF Fresh
      <3>7. \A k \in Hashes \ {h} : ~Amid(k)' => Fresh(k)'
        <4> TAKE k \in Hashes \ {h}
        <4> QED BY <2>0, <2>2, <3>1 DEF Fresh
      <3> QED BY <3>3, <3>5, <3>6, <3>7
    <2> QED BY <2>3, <2>4, <2>5
  \* The past only grows, and when the clock goes on no request is at work.
  <1>2. ASSUME \/ \E c \in Tables, m \in Nat, l \in FigureValues : Change(c, m, l)
               \/ Clock
        PROVE RecentInv'
    <2>1. /\ \A t \in 0 .. tick, k \in Hashes, f \in Figures : past[t][k][f] \subseteq past'[t][k][f]
          /\ \A k \in Hashes, f \in Figures :
                Figure(count', members', limit', k)[f] \in past'[tick'][k][f]
          /\ UNCHANGED <<at, whose, found, split>>
      BY <1>0, <1>2, PastKept DEF Change, Clock
    <2>2. NowKept'
      BY <2>1 DEF NowKept, Current
    <2> SUFFICES ASSUME ~slow', ~split'
                 PROVE  /\ \A w \in Viewers : Recent(w)'
                        /\ \A k \in Hashes : ~Amid(k)' => Fresh(k)'
      BY <2>2 DEF RecentInv
    <2>3. \A k \in Hashes : Amid(k)' <=> Amid(k)
      BY <2>1 DEF Amid
    <2>4. ~slow
      BY <1>2 DEF Change, Clock
    <2>5. /\ \A w \in Viewers : Recent(w)
          /\ \A k \in Hashes : ~Amid(k) => Fresh(k)
      BY <2>1, <2>4 DEF RecentInv
    <2>6. CASE \E c \in Tables, m \in Nat, l \in FigureValues : Change(c, m, l)
      <3>1. tick' = tick /\ hash' = hash /\ until' = until
        BY <2>6 DEF Change
      <3>2. \A k \in Hashes : Fresh(k) => Fresh(k)'
        BY <2>1, <3>1 DEF Fresh, Told
      <3>3. ASSUME NEW w \in Viewers PROVE Recent(w)'
        <4>1. Recent(w) /\ whose[w] \in Hashes /\ tick \in 0 .. tick
          BY <1>0, <2>5 DEF StatsTypeOK
        <4>2. at[w] \in DOMAIN After => Asked[at[w]] \subseteq Figures
          BY AfterStages DEF Asked, Figures
        <4> QED BY <2>1, <3>1, <4>1, <4>2 DEF Recent, Told, Hashes
      <3> QED BY <2>3, <2>5, <3>2, <3>3
    <2>7. CASE Clock
      <3>1. /\ \A w \in Viewers : at'[w] \in {"idle", "lookup"}
            /\ tick' = tick + 1
            /\ \A k \in Hashes : /\ hash'[k] = (IF until[k] = tick + 1 THEN Blank ELSE hash[k])
                                 /\ until'[k] = (IF until[k] = tick + 1 THEN 0 ELSE until[k])
        BY <2>7 DEF Clock
      <3>2. \A w \in Viewers : Recent(w)'
        BY <3>1, AfterStages DEF Recent
      <3>3. ASSUME NEW k \in Hashes PROVE Fresh(k)'
        <4>1. Fresh(k) /\ until[k] \in Nat
          BY <1>0, <2>1, <2>5, <3>1 DEF Amid, StatsTypeOK
        <4>2. CASE until[k] = tick + 1 \/ hash[k] = Blank
          BY <3>1, <4>2 DEF Fresh
        <4>3. CASE until[k] # tick + 1 /\ hash[k] # Blank
          <5>1. PICK t \in 0 .. tick : /\ tick < until[k] /\ until[k] = t + StatsTtl
                                       /\ \A f \in Told : hash[k][f] \in past[t][k][f]
            BY <4>1, <4>3 DEF Fresh
          <5>2. tick + 1 < until[k] /\ t \in 0 .. tick + 1
            BY <1>0, <4>1, <4>3, <5>1
          <5>3. \A f \in Told : hash[k][f] \in past'[t][k][f]
            BY <2>1, <5>1 DEF Told
          <5> QED BY <3>1, <4>3, <5>1, <5>2, <5>3 DEF Fresh
        <4> QED BY <4>2, <4>3
      <3> QED BY <3>2, <3>3
    <2> QED BY <1>2, <2>6, <2>7
  <1>3. CASE UNCHANGED statsVars
    BY <1>3 DEF statsVars, statsDb, statsHist, RecentInv, NowKept, Current, Recent, Fresh, Amid
  <1> QED BY <1>0, <1>1, <1>2, <1>3, StatsNextCases

LEMMA TotalNext ==
    StatsType /\ StatsType' /\ TotalInv /\ OneFills /\ [StatsNext]_statsVars => TotalInv'
  <1> SUFFICES ASSUME StatsType, StatsType', TotalInv, OneFills, [StatsNext]_statsVars
               PROVE TotalInv'
    OBVIOUS
  <1>0. StatsTypeOK /\ Queried /\ Nothing \notin Nat /\ \A v \in Viewers, h \in Hashes : v # h
    BY StatsApart DEF StatsType
  <1>t. "all" \in Hashes /\ hash["all"] \in [Figures -> FigureValues]
    BY <1>0 DEF StatsTypeOK, Hashes
  <1>1. ASSUME NEW v \in Viewers, Serve(v) PROVE TotalInv'
    <2>h. PICK h \in Hashes : h = whose[v]
      BY <1>0 DEF StatsTypeOK
    <2>m. h = "me" \/ h = "all"
      BY DEF Hashes
    <2>0. /\ \A w \in Viewers \ {v} :
                /\ at'[w] = at[w] /\ whose'[w] = whose[w] /\ found'[w] = found[w]
                /\ w \in moved' <=> w \in moved
          /\ UNCHANGED <<count, members, limit>>
          /\ split => split'
      BY <1>0, <1>1, ServeOthers, ServeMarks
    \* The figures queried so far.
    <2>1. ASSUME NEW w \in Viewers, at'[w] \in DOMAIN After, whose'[w] = "all", w \notin moved',
                 NEW f \in Asked[at'[w]]
          PROVE  found'[w][f] = Figure(count, members, limit, "all")[f]
      <3>1. CASE w # v
        BY <2>0, <2>1, <3>1 DEF TotalInv, Current
      <3>2. CASE w = v /\ Lookup(v)
        <4>1. at'[v] = "over" \/ at'[v] = FirstFigure(whose[v])
          BY <1>0, <3>2 DEF Lookup, AtTo, StatsTypeOK
        <4>2. whose'[v] = whose[v]
          BY <3>2 DEF Lookup
        <4>3. at'[v] = "users"
          BY <2>1, <3>2, <4>1, <4>2, AfterStages DEF FirstFigure
        <4> QED BY <2>1, <3>2, <4>3 DEF Asked
      <3>3. CASE w = v /\ Query(v)
        <4>1. /\ at[v] \in DOMAIN After /\ whose' = whose /\ moved' = moved
              /\ at'[v] = IF whose[v] = "me" THEN "store" ELSE After[at[v]]
          BY <1>0, <3>3 DEF Query, AtTo, StatsTypeOK, statsHist
        <4>2. whose[v] = "all" /\ at'[v] = After[at[v]] /\ at[v] # "rustfs"
          BY <2>1, <3>3, <4>1, AfterStages DEF After
        <4>3. Asked[at'[v]] = Asked[at[v]] \cup {at[v]} /\ Asked[at'[v]] \subseteq Figures
          BY <4>1, <4>2 DEF After, Asked, Figures
        <4>4. \A g \in Figures : found'[v][g] = IF g = at[v]
                                    THEN Figure(count, members, limit, whose[v])[g] ELSE found[v][g]
          BY <1>0, <3>3, <4>2 DEF Query, StatsTypeOK
        <4>5. \A g \in Asked[at[v]] : found[v][g] = Figure(count, members, limit, "all")[g]
          BY <2>1, <3>3, <4>1, <4>2 DEF TotalInv, Current
        <4> QED BY <2>1, <3>3, <4>2, <4>3, <4>4, <4>5
      <3>4. CASE w = v /\ ~Lookup(v) /\ ~Query(v)
        <4>1. at'[v] \in {"idle", "lookup", "rest", "over"}
          BY <1>0, <1>1, <3>4
          DEF Serve, Ask, QueryFails, Populate, PopulateRest, PopulateFails, Answered, AtTo,
              StatsTypeOK
        <4> QED BY <2>1, <3>4, <4>1, AfterStages
      <3> QED BY <1>1, <3>1, <3>2, <3>3, <3>4
    <2>2. TotalInv' <=>
             (~split' =>
                /\ \A w \in Viewers :
                      at'[w] \in {"store", "rest", "over"} /\ whose'[w] = "all" /\ w \notin moved' =>
                          Covers(found'[w])
                /\ \A w \in Viewers : at'[w] = "rest" /\ whose'[w] = "all" =>
                      /\ hash'["all"]["images"] \in {Nothing, found'[w]["images"]}
                      /\ "all" \notin moved' => w \notin moved'
                /\ ~Amid("all")' /\ hash'["all"]["images"] # Nothing =>
                      /\ hash'["all"]["local"] # Nothing /\ hash'["all"]["rustfs"] # Nothing
                      /\ "all" \notin moved' => Covers(hash'["all"]))
      BY <2>0, <2>1 DEF TotalInv, Current, Covers
    <2> SUFFICES
          ASSUME ~split'
          PROVE  /\ \A w \in Viewers :
                       at'[w] \in {"store", "rest", "over"} /\ whose'[w] = "all" /\ w \notin moved' =>
                           Covers(found'[w])
                 /\ \A w \in Viewers : at'[w] = "rest" /\ whose'[w] = "all" =>
                       /\ hash'["all"]["images"] \in {Nothing, found'[w]["images"]}
                       /\ "all" \notin moved' => w \notin moved'
                 /\ ~Amid("all")' /\ hash'["all"]["images"] # Nothing =>
                       /\ hash'["all"]["local"] # Nothing /\ hash'["all"]["rustfs"] # Nothing
                       /\ "all" \notin moved' => Covers(hash'["all"])
      BY <2>2
    <2>3. /\ ~split
          /\ \A w \in Viewers :
                at[w] \in {"store", "rest", "over"} /\ whose[w] = "all" /\ w \notin moved =>
                    Covers(found[w])
          /\ \A w \in Viewers : at[w] = "rest" /\ whose[w] = "all" =>
                /\ hash["all"]["images"] \in {Nothing, found[w]["images"]}
                /\ "all" \notin moved => w \notin moved
          /\ ~Amid("all") /\ hash["all"]["images"] # Nothing =>
                /\ hash["all"]["local"] # Nothing /\ hash["all"]["rustfs"] # Nothing
                /\ "all" \notin moved => Covers(hash["all"])
      BY <2>0 DEF TotalInv
    <2>4. CASE ~Populate(v) /\ ~PopulateRest(v)
      <3>1. /\ hash' = hash /\ at'[v] # "rest"
            /\ "all" \in moved' <=> "all" \in moved
            /\ Amid("all")' <=> Amid("all")
        BY <1>1, <1>t, <2>4, ServeMarks
      <3>2. ASSUME at'[v] \in {"store", "over"}, whose'[v] = "all", v \notin moved'
            PROVE  Covers(found'[v])
        <4>1. CASE Lookup(v)
          <5>1. /\ Usable(whose[v]) /\ AtTo(v, "over") /\ whose' = whose
                /\ found' = [found EXCEPT ![v] = Parsed(whose[v])]
                /\ split' = (split \/ Amid(whose[v]))
                /\ moved' = IF whose[v] \in moved THEN moved \cup {v} ELSE moved \ {v}
            <6>1. ~AtTo(v, FirstFigure(whose[v]))
              BY <1>0, <3>2, AfterStages DEF AtTo, StatsTypeOK, FirstFigure
            <6> QED BY <4>1, <6>1 DEF Lookup
          <5>2. whose[v] = "all" /\ ~Amid("all") /\ "all" \notin moved
            BY <3>2, <5>1
          <5>3. /\ hash["all"]["images"] # Nothing
                /\ hash["all"]["local"] # Nothing /\ hash["all"]["rustfs"] # Nothing
                /\ Covers(hash["all"])
            BY <2>3, <5>1, <5>2 DEF Usable
          <5>4. found'[v] = Parsed("all")
            BY <1>0, <5>1, <5>2 DEF StatsTypeOK
          <5>5. \A f \in {"images", "local", "rustfs"} : Parsed("all")[f] = hash["all"][f]
            BY <1>t, <5>3 DEF Parsed, Figures
          <5> QED BY <5>3, <5>4, <5>5 DEF Covers
        <4>2. CASE Query(v)
          <5>1. /\ at[v] \in DOMAIN After /\ whose' = whose /\ moved' = moved
                /\ at'[v] = IF whose[v] = "me" THEN "store" ELSE After[at[v]]
            BY <1>0, <4>2 DEF Query, AtTo, StatsTypeOK, statsHist
          <5>2. whose[v] = "all" /\ at[v] = "rustfs"
            BY <3>2, <5>1 DEF After
          <5>3. \A g \in Figures : found'[v][g] =
                   IF g \in {"rustfs", "rimages"} THEN Figure(count, members, limit, "all")[g]
                   ELSE found[v][g]
            BY <1>0, <4>2, <5>2 DEF Query, StatsTypeOK
          <5>4. \A g \in Asked["rustfs"] : found[v][g] = Figure(count, members, limit, "all")[g]
            BY <3>2, <5>1, <5>2 DEF TotalInv, Current
          <5>5. \A g \in {"images", "local", "rustfs"} : found'[v][g] = Current("all")[g]
            BY <5>3, <5>4 DEF Asked, Figures, Current
          <5> QED BY <1>0, <5>5, CurrentFigures DEF Covers
        <4>3. CASE PopulateFails(v)
          <5>1. at[v] = "store" /\ UNCHANGED <<whose, found, moved>>
            BY <4>3 DEF PopulateFails, statsHist
          <5> QED BY <2>3, <3>2, <5>1
        <4>4. CASE (\E k \in Hashes : Ask(v, k)) \/ QueryFails(v) \/ Answered(v)
          <5>1. at'[v] \in {"lookup", "idle"}
            BY <1>0, <4>4 DEF Ask, QueryFails, Answered, AtTo, StatsTypeOK
          <5> QED BY <3>2, <5>1
        <4> QED BY <1>1, <2>4, <4>1, <4>2, <4>3, <4>4 DEF Serve
      <3>3. \A w \in Viewers :
               at'[w] \in {"store", "rest", "over"} /\ whose'[w] = "all" /\ w \notin moved' =>
                   Covers(found'[w])
        <4> TAKE w \in Viewers
        <4>1. CASE w = v
          BY <3>1, <3>2, <4>1
        <4>2. CASE w # v
          BY <2>0, <2>3, <4>2
        <4> QED BY <4>1, <4>2
      <3>4. \A w \in Viewers : at'[w] = "rest" /\ whose'[w] = "all" =>
               /\ hash'["all"]["images"] \in {Nothing, found'[w]["images"]}
               /\ "all" \notin moved' => w \notin moved'
        <4> TAKE w \in Viewers
        <4>1. CASE w = v
          BY <3>1, <4>1
        <4>2. CASE w # v
          BY <2>0, <2>3, <3>1, <4>2
        <4> QED BY <4>1, <4>2
      <3> QED BY <2>3, <3>1, <3>3, <3>4
    <2>5. CASE Populate(v) \/ PopulateRest(v)
      <3>1. /\ whose' = whose /\ found' = found
            /\ h # "all" => /\ hash'["all"] = hash["all"]
                            /\ "all" \in moved' <=> "all" \in moved
                            /\ Amid("all")' <=> Amid("all")
        BY <1>1, <1>t, <2>h, <2>5, ServeMarks
      <3>2. /\ at[v] \in {"store", "rest"} /\ at'[v] \in {"rest", "over"}
            /\ v \in moved' <=> v \in moved
        <4>1. CASE Populate(v)
          BY <1>0, <2>h, <4>1, PipelineSteps DEF Populate
        <4>2. CASE PopulateRest(v)
          BY <4>2, PipelineSteps
        <4> QED BY <2>5, <4>1, <4>2
      <3>3. \A w \in Viewers :
               at'[w] \in {"store", "rest", "over"} /\ whose'[w] = "all" /\ w \notin moved' =>
                   Covers(found'[w])
        <4> TAKE w \in Viewers
        <4>1. CASE w = v
          BY <2>3, <3>1, <3>2, <4>1
        <4>2. CASE w # v
          BY <2>0, <2>3, <4>2
        <4> QED BY <4>1, <4>2
      <3>4. CASE h = "me"
        <4>1. \A w \in Viewers : at'[w] = "rest" /\ whose'[w] = "all" =>
                 w # v /\ at[w] = "rest" /\ whose[w] = "all"
          BY <2>0, <2>h, <3>1, <3>4
        <4>2. \A w \in Viewers : at'[w] = "rest" /\ whose'[w] = "all" =>
                 /\ hash'["all"]["images"] \in {Nothing, found'[w]["images"]}
                 /\ "all" \notin moved' => w \notin moved'
          <5> TAKE w \in Viewers
          <5> HAVE at'[w] = "rest" /\ whose'[w] = "all"
          <5>1. w # v /\ at[w] = "rest" /\ whose[w] = "all"
            BY <4>1
          <5> QED BY <2>0, <2>3, <3>1, <3>4, <5>1
        <4> QED BY <2>3, <3>1, <3>3, <3>4, <4>2
      <3>5. CASE h = "all" /\ Populate(v)
        <4>1. /\ at'[v] = "rest" /\ hash'["all"]["images"] = found[v]["images"]
              /\ split' = (split \/ Amid(whose[v]))
              /\ whose[v] \in moved' <=> v \in moved
          BY <2>h, <3>5, PipelineSteps
        <4>2. \A w \in Viewers : at'[w] = "rest" /\ whose'[w] = "all" => w = v
          <5>1. ~Amid(whose[v]) /\ whose[v] = "all"
            BY <2>h, <3>5, <4>1
          <5> QED BY <2>0, <5>1 DEF Amid
        <4>3. Amid("all")'
          BY <2>h, <3>1, <3>5, <4>1 DEF Amid
        <4> QED BY <2>h, <3>1, <3>2, <3>3, <3>5, <4>1, <4>2, <4>3
      <3>6. CASE h = "all" /\ PopulateRest(v)
        <4>1. /\ at[v] = "rest" /\ at'[v] = "over"
              /\ \A f \in {"local", "rustfs"} : hash'["all"][f] = found[v][f]
              /\ hash'["all"]["images"] = hash["all"]["images"]
              /\ UNCHANGED <<split, moved>>
          BY <2>h, <3>6, PipelineSteps
        <4>2. \A w \in Viewers : ~(at'[w] = "rest" /\ whose'[w] = "all")
          <5> TAKE w \in Viewers
          <5>1. CASE w = v
            BY <4>1, <5>1
          <5>2. CASE w # v
            <6>1. at'[w] = at[w] /\ whose'[w] = whose[w]
              BY <2>0, <5>2
            <6>2. at[w] = "rest" /\ whose[w] = "all" => w = v
              BY <2>3, <2>h, <3>6, <4>1 DEF OneFills
            <6> QED BY <5>2, <6>1, <6>2
          <5> QED BY <5>1, <5>2
        <4>3. ASSUME hash'["all"]["images"] # Nothing
              PROVE  /\ hash'["all"]["local"] # Nothing /\ hash'["all"]["rustfs"] # Nothing
                     /\ "all" \notin moved' => Covers(hash'["all"])
          <5>1. /\ hash'["all"]["images"] = found[v]["images"]
                /\ "all" \notin moved => v \notin moved
            BY <2>3, <2>h, <3>6, <4>1, <4>3
          <5>2. found[v]["local"] # Nothing /\ found[v]["rustfs"] # Nothing
            BY <1>0, <2>h, <3>6, <4>1 DEF StatsTypeOK, Figures
          <5>3. v \notin moved => Covers(found[v])
            BY <2>3, <2>h, <3>6, <4>1
          <5> QED BY <4>1, <5>1, <5>2, <5>3 DEF Covers
        <4> QED BY <3>3, <4>2, <4>3
      <3> QED BY <2>m, <2>5, <3>4, <3>5, <3>6
    <2> QED BY <2>4, <2>5
  \* A change marks the requests that are querying, and the clock lets a hash lapse.
  <1>2. CASE \E c \in Tables, m \in Nat, l \in FigureValues : Change(c, m, l)
    <2>1. /\ UNCHANGED <<hash, at, whose, found, split>>
          /\ moved' = moved \cup {v \in Viewers : at[v] \in DOMAIN After}
      BY <1>2 DEF Change
    <2>2. "all" \in moved' <=> "all" \in moved
      BY <1>0, <1>t, <2>1
    <2>3. \A v \in Viewers : at[v] \in {"store", "rest", "over"} => (v \in moved' <=> v \in moved)
      BY <2>1, AfterStages
    <2>4. Amid("all")' <=> Amid("all")
      BY <2>1 DEF Amid
    <2> QED BY <2>1, <2>2, <2>3, <2>4 DEF TotalInv, Covers
  <1>3. CASE Clock
    <2>1. /\ UNCHANGED <<count, members, limit, at, whose, found, split, moved>>
          /\ hash'["all"] = Blank \/ hash'["all"] = hash["all"]
      BY <1>t, <1>3 DEF Clock, statsDb
    <2>2. Amid("all")' <=> Amid("all")
      BY <2>1 DEF Amid
    <2>3. Blank["images"] = Nothing
      BY DEF Blank, Figures
    <2> QED BY <2>1, <2>2, <2>3 DEF TotalInv, Covers, Current
  <1>4. CASE UNCHANGED statsVars
    BY <1>4 DEF statsVars, statsDb, statsHist, TotalInv, Covers, Current, Amid
  <1> QED BY <1>0, <1>1, <1>2, <1>3, <1>4, StatsNextCases

\* A step of the administration is one of the statistics or leaves them alone.
LEMMA StatsAlways == AdminSpec => [](StatsType /\ RecentInv /\ OneFills /\ TotalInv)
  <1>1. AdminInit => StatsType /\ RecentInv /\ OneFills /\ TotalInv
    <2> SUFFICES ASSUME StatsInit PROVE StatsType /\ RecentInv /\ OneFills /\ TotalInv
      BY DEF AdminInit
    <2>1. StatsType
      BY StatsTypeInit
    <2>2. /\ tick = 0 /\ MaxTicks \in Nat /\ \A v \in Viewers : at[v] = "idle"
          /\ \A h \in Hashes : hash[h] = Blank
      BY StatsBounds DEF StatsInit
    <2>3. \A h \in Hashes, f \in Figures : Current(h)[f] \in past[tick][h][f]
      BY <2>2 DEF StatsInit, Current
    <2>4. RecentInv
      BY <2>2, <2>3, AfterStages DEF RecentInv, NowKept, Recent, Fresh
    <2>5. OneFills
      BY <2>2 DEF OneFills
    <2>6. Blank["images"] = Nothing /\ "all" \in Hashes
      BY DEF Blank, Figures, Hashes
    <2>7. TotalInv
      BY <2>2, <2>6, AfterStages DEF TotalInv
    <2> QED BY <2>1, <2>4, <2>5, <2>7
  <1>2. [AdminNext]_adminVars => [StatsNext]_statsVars
    BY DEF AdminNext, adminVars
  <1>3. (StatsType /\ RecentInv /\ OneFills /\ TotalInv) /\ [StatsNext]_statsVars
           => (StatsType /\ RecentInv /\ OneFills /\ TotalInv)'
    BY StatsTypeNext, RecentNext, OneFillsNext, TotalNext
  <1> QED BY <1>1, <1>2, <1>3, PTL DEF AdminSpec

\* The statistics keep their types: a request has the figures it has queried, none before, and
\* a request that has something to store has everything.
THEOREM StatsTypeCorrect == AdminSpec => []StatsTypeOK
  <1>1. StatsType => StatsTypeOK
    BY DEF StatsType
  <1> QED BY <1>1, StatsAlways, PTL

\* What is answered was true at most StatsTtl ago, and the backends of an answer never hold
\* more than its total, whether it was queried or read from a hash that another request
\* filled, replaced or let lapse.
THEOREM FiguresTrueCorrect == AdminSpec => []FiguresTrue
  <1>1. StatsType /\ RecentInv /\ TotalInv => FiguresTrue
    <2> SUFFICES ASSUME StatsType, RecentInv, TotalInv PROVE FiguresTrue
      OBVIOUS
    <2>1. CountsRecent
      BY AfterStages DEF RecentInv, Recent, CountsRecent, Told
    <2>2. TotalCoversBackends
      BY DEF TotalInv, TotalCoversBackends, Covers
    <2> QED BY <2>1, <2>2 DEF FiguresTrue
  <1> QED BY <1>1, StatsAlways, PTL
=============================================================================
