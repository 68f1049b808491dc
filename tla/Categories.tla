----------------------------- MODULE Categories -----------------------------
(***************************************************************************)
(* A user's tree of categories and the images filed in it: the handlers of *)
(* pichost-api/src/routes/categories.rs and the moves of routes/images.rs, *)
(* over table categories with UNIQUE(user_id, name, parent_id), deletes    *)
(* that cascade to subcategories and set images' category_id to NULL.      *)
(*                                                                         *)
(* One user is modelled: every statement is restricted to a user.  The     *)
(* metadata cache that a move invalidates is module MetaCache.             *)
(***************************************************************************)
EXTENDS Naturals, FiniteSets

CONSTANTS
    Cats,         \* ids of categories
    Names,
    Images,
    Editors,
    Null          \* NULL

ASSUME NoneNothing == Null \notin Cats \cup Names

VARIABLES
    live,         \* rows of categories
    used,         \* ids ever inserted
    parent,       \* parent_id
    name,
    filed,        \* images.category_id
    \* requests
    doing,
    what,         \* the category updated, moved to, or created under
    title,        \* the name
    batch,        \* the images moved
    \* history, read by no action
    want          \* where an image was last moved to

categoryRows == <<live, used, parent, name>>
editing == <<doing, what, title, batch>>
categoryVars     == <<categoryRows, filed, editing, want>>

CategoriesInit ==
    /\ live = {} /\ used = {}
    /\ parent = [c \in Cats |-> Null]
    /\ name = [c \in Cats |-> Null]
    /\ filed = [i \in Images |-> Null]
    /\ doing = [r \in Editors |-> "idle"]
    /\ what = [r \in Editors |-> Null]
    /\ title = [r \in Editors |-> Null]
    /\ batch = [r \in Editors |-> {}]
    /\ want = filed

BeginEdit(r, l, c, n, b) ==
    /\ doing[r] = "idle"
    /\ doing' = [doing EXCEPT ![r] = l]
    /\ what' = [what EXCEPT ![r] = c]
    /\ title' = [title EXCEPT ![r] = n]
    /\ batch' = [batch EXCEPT ![r] = b]

EndEdit(r) ==
    /\ doing' = [doing EXCEPT ![r] = "idle"]
    /\ what' = [what EXCEPT ![r] = Null]
    /\ title' = [title EXCEPT ![r] = Null]
    /\ batch' = [batch EXCEPT ![r] = {}]

\* UNIQUE(user_id, name, parent_id): NULLs are not equal, so roots never clash.
Clash(c, n, p) == p # Null /\ \E d \in live \ {c} : name[d] = n /\ parent[d] = p

(***************************************************************************)
(* create_category: validate_depth follows the parents, then the INSERT.   *)
(***************************************************************************)
\* The parent exists and is a root: a parent of its own would be at MAX_DEPTH.
CreateCheck(r, n, p) ==
    /\ p # Null => p \in live /\ parent[p] = Null
    /\ BeginEdit(r, "create", p, n, {})
    /\ UNCHANGED <<categoryRows, filed, want>>

\* Mutant: no foreign key on parent_id.
CreateInsertLoose(r, c) ==
    LET p == what[r]
        n == title[r]
    IN
    /\ doing[r] = "create"
    /\ c \notin used
    /\ IF Clash(c, n, p)
       THEN UNCHANGED categoryRows
       ELSE /\ live' = live \cup {c} /\ used' = used \cup {c}
            /\ parent' = [parent EXCEPT ![c] = p]
            /\ name' = [name EXCEPT ![c] = n]
    /\ EndEdit(r)
    /\ UNCHANGED <<filed, want>>

\* The INSERT: refused if the parent is gone (500) or a sibling has the name (409).
CreateInsert(r, c) ==
    LET p == what[r]
        n == title[r]
    IN
    /\ doing[r] = "create"
    /\ c \notin used
    /\ IF (p # Null /\ p \notin live) \/ Clash(c, n, p)
       THEN UNCHANGED categoryRows
       ELSE /\ live' = live \cup {c} /\ used' = used \cup {c}
            /\ parent' = [parent EXCEPT ![c] = p]
            /\ name' = [name EXCEPT ![c] = n]
    /\ EndEdit(r)
    /\ UNCHANGED <<filed, want>>

(***************************************************************************)
(* update_category: the row is read, a name is written whether given or    *)
(* not.                                                                    *)
(***************************************************************************)
UpdateFetch(r, c, n) ==
    /\ c \in live
    /\ BeginEdit(r, "update", c, IF n = Null THEN name[c] ELSE n, {})
    /\ UNCHANGED <<categoryRows, filed, want>>

\* The UPDATE: refused if the row is gone or a sibling has the name, both 500.
UpdateWrite(r) ==
    LET c == what[r] IN
    /\ doing[r] = "update"
    /\ name' = IF c \notin live \/ Clash(c, title[r], parent[c])
               THEN name ELSE [name EXCEPT ![c] = title[r]]
    /\ EndEdit(r)
    /\ UNCHANGED <<live, used, parent, filed, want>>

(***************************************************************************)
(* delete_category: one DELETE, which cascades.                            *)
(***************************************************************************)
Subtree(c) == {c} \cup {d \in live : parent[d] = c}

\* Mutant: images of subcategories are forgotten.
DeleteCategoryShallow(c) ==
    /\ c \in live
    /\ live' = live \ Subtree(c)
    /\ filed' = [i \in Images |-> IF filed[i] = c THEN Null ELSE filed[i]]
    /\ UNCHANGED <<used, parent, name, editing, want>>

DeleteCategory(c) ==
    /\ c \in live
    /\ live' = live \ Subtree(c)
    /\ filed' = [i \in Images |-> IF filed[i] \in Subtree(c) THEN Null ELSE filed[i]]
    /\ UNCHANGED <<used, parent, name, editing, want>>

(***************************************************************************)
(* move_image and batch_move_images: is the category the user's, then one  *)
(* UPDATE of the images.                                                   *)
(***************************************************************************)
\* ensure_category_owned.
Owned(c) == c \in live

\* A single image can also be taken out of its category.
MoveImage(r, c, i) ==
    /\ Owned(c) \/ c = Null
    /\ BeginEdit(r, "move", c, Null, {i})
    /\ UNCHANGED <<categoryRows, filed, want>>

BatchMoveImages(r, c, b) ==
    /\ b # {}
    /\ Owned(c)
    /\ BeginEdit(r, "move", c, Null, b)
    /\ UNCHANGED <<categoryRows, filed, want>>

\* The UPDATE: refused by the foreign key if the category is gone, 500.
MoveWrite(r) ==
    LET c == what[r] IN
    /\ doing[r] = "move"
    /\ IF c # Null /\ c \notin live
       THEN UNCHANGED <<filed, want>>
       ELSE /\ filed' = [i \in Images |-> IF i \in batch[r] THEN c ELSE filed[i]]
            /\ want' = [i \in Images |-> IF i \in batch[r] THEN c ELSE want[i]]
    /\ EndEdit(r)
    /\ UNCHANGED categoryRows

CategoriesNext ==
    \/ \E r \in Editors :
          \/ \E n \in Names, p \in Cats \cup {Null} : CreateCheck(r, n, p)
          \/ \E c \in Cats, n \in Names \cup {Null} : UpdateFetch(r, c, n)
          \/ \E c \in Cats \cup {Null}, i \in Images : MoveImage(r, c, i)
          \/ \E c \in Cats, b \in SUBSET Images : BatchMoveImages(r, c, b)
          \/ \E c \in Cats : CreateInsert(r, c)
          \/ UpdateWrite(r) \/ MoveWrite(r)
    \/ \E c \in Cats : DeleteCategory(c)

CategoriesSpec == CategoriesInit /\ [][CategoriesNext]_categoryVars

(***************************************************************************)
(* Properties                                                              *)
(***************************************************************************)
\* build_tree: the categories without a parent, and the children of those.
Roots == {c \in live : parent[c] = Null}
Tree == Roots \cup {c \in live : parent[c] \in Roots}

\* Every variable has its type.
CategoriesTypeOK ==
    /\ live \subseteq used /\ used \subseteq Cats
    /\ parent \in [Cats -> Cats \cup {Null}]
    /\ name \in [Cats -> Names \cup {Null}]
    /\ filed \in [Images -> Cats \cup {Null}]
    /\ doing \in [Editors -> {"idle", "create", "update", "move"}]
    /\ what \in [Editors -> Cats \cup {Null}]
    /\ title \in [Editors -> Names \cup {Null}]
    /\ batch \in [Editors -> SUBSET Images]
    /\ want \in [Images -> Cats \cup {Null}]
    /\ \A c \in live : name[c] # Null

\* list_categories shows every category: build_tree looks no deeper than
\* validate_depth lets the tree grow, whatever is deleted meanwhile.
TreeComplete == Tree = live

\* An image is in the category it was last moved to, or in none if that one, or
\* the one above it, was deleted.
FiledAsMoved == \A i \in Images : filed[i] = IF want[i] \in live THEN want[i] ELSE Null
=============================================================================
