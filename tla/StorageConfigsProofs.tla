------------------------ MODULE StorageConfigsProofs ------------------------
(***************************************************************************)
(* Proofs about StorageConfigs, for any configs, repositories, images,     *)
(* requests, settings and faults.                                          *)
(***************************************************************************)
EXTENDS StorageConfigs, FiniteSetTheorems, TLAPS

(***************************************************************************)
(* The parts of the inductive invariants.                                  *)
(***************************************************************************)
\* A request works on a row it has fetched; only creations have none.
TargetsKnown ==
    \A r \in Requests :
        /\ pc[r] \in {"set", "rename", "write", "count", "delete"}
              => target[r] \in Configs /\ cfg[target[r]] # "none"
        /\ pc[r] = "name" => target[r] = None
        /\ pc[r] = "clear" /\ target[r] # None
              => target[r] \in Configs /\ cfg[target[r]] # "none"
        /\ pc[r] \in {"file", "row"}
              => target[r] \in Images /\ up[target[r]] \in {"live", "gone"}

\* A config that was created has a repository, also in the updates under way.
ReposKnown ==
    /\ \A c \in Configs \ {Home} : cfg[c] # "none" => repo[c] \in Repos
    /\ \A r \in Requests : pc[r] \in {"rename", "write"} /\ target[r] # Home => given[r] \in Repos

\* An image in use has a Git config, its upload and its task a repository.
ImagesKnown ==
    \A i \in Images :
        /\ up[i] # "none" => at[i] \in Configs \ {Home} /\ cfg[at[i]] # "none"
        /\ up[i] # "none" => snap[i] \in Repos
        /\ up[i] = "none" => twin[i] = "none"
        /\ job[i] # "none" => up[i] \in {"live", "gone"}
        /\ job[i] \in {"resolved", "written"} => jat[i] \in Repos

TypeInv == TypeOK /\ TargetsKnown /\ ReposKnown /\ ImagesKnown

\* Creations proper: what a request in "clear" without a target is.
Creators == {q \in Requests : \/ pc[q] \in {"name", "insert", "insertdef"}
                              \/ pc[q] = "clear" /\ target[q] = None}

\* As long as creations do not overlap there is room for the one under way.
RoomKept ==
    /\ IsFiniteSet(Live)
    /\ ~crowded => /\ \A q, r \in Creators : q = r
                   /\ Creators # {} => Cardinality(Live) < setting.limit

\* One update at most works on a config outside overlap, and one without a repo in
\* its body holds the repository of the row.
UpdatesAlone ==
    \A r \in Requests :
        pc[r] \in {"rename", "write"} /\ target[r] \notin overlap =>
            /\ \A q \in Requests :
                  pc[q] \in {"rename", "write"} /\ target[q] = target[r] => q = r
            /\ keeps[r] => given[r] = repo[target[r]]

\* The inductive invariant behind ConfigRowsKept and RepoAsGiven.
RowsInv == TypeInv /\ DefaultKept /\ LimitUnlessOverlap /\ RoomKept /\ UpdatesAlone /\ RepoAsGiven

\* An image stored since the API started is where the router has its backend.
RoutedWhereStored ==
    \A i \in Images :
        /\ up[i] \in {"none", "resolved"} => file[i] = None
        /\ up[i] \in {"stored", "live"} /\ i \notin risk /\ file[i] # None
              => router[at[i]] = file[i]

\* A delete that has come to the row has removed the file, or has an excuse.
RemovalsExcused ==
    \A r \in Requests :
        pc[r] = "row" /\ file[target[r]] # None => target[r] \in risk \cup leaked \cup unnamed

\* The inductive invariant behind ReadableUntilRestart and OrphansAccounted.
FilesInv == TypeInv /\ RoutedWhereStored /\ RemovalsExcused /\ OrphansAccounted

\* While a config's repository is not changed the router, uploads and tasks that
\* know one know the same.
OneRepo ==
    /\ \A c \in Configs : /\ cfg[c] = "none" => router[c] = None
                          /\ c \notin edited => router[c] \in {None, repo[c]}
    /\ \A i \in Images : up[i] # "none" /\ at[i] \notin edited =>
          /\ snap[i] = repo[at[i]]
          /\ up[i] \in {"stored", "live"} /\ i \notin removed => file[i] = repo[at[i]]
          /\ job[i] \in {"resolved", "written"} => jat[i] = repo[at[i]]

\* An attempt works with the backend the router has, an image has its file until its
\* deletion has begun, and what was missed has a task.
AttemptsRouted ==
    \A i \in Images :
        /\ job[i] \in {"resolved", "written"} => jat[i] = router[at[i]]
        /\ up[i] \in {"stored", "live"} /\ i \notin removed => file[i] # None
        /\ i \in missed => job[i] # "none"

\* An image whose task exists has its row unless its deletion has begun.
RemovalsSeen ==
    /\ \A r \in Requests : pc[r] \in {"file", "row"} => target[r] \in removed
    /\ \A i \in Images \ removed : job[i] # "none" => up[i] = "live"

\* An attempt that has written a variant publishes, unless the task runs again.
WrittenPublished ==
    \A i \in Images :
        made[i] # {} /\ i \notin again => job[i] \in {"written", "published", "done"}

\* The inductive invariant behind AttemptsAccounted: an image outside risk is where
\* the router looks for it, one whose config was not edited where every row says.
WorkInv == FilesInv /\ OneRepo /\ AttemptsRouted /\ RemovalsSeen /\ WrittenPublished
           /\ AttemptsAccounted
-----------------------------------------------------------------------------
(***************************************************************************)
(* What a setting lets occur is a part of everything there is.             *)
(***************************************************************************)
LEMMA SettingScope ==
    ASSUME TypeOK
    PROVE  /\ setting.configs \subseteq Configs /\ setting.requests \subseteq Requests
           /\ setting.images \subseteq Images /\ setting.limit \in Nat \ {0}
  BY SettingsKnown DEF TypeOK

LEMMA NextSteps ==
    ASSUME TypeOK, [Next]_vars
    PROVE  \/ \E r \in Requests :
                 \/ ConfigStep(r) \/ RemoveFile(r) \/ RemoveRow(r) \/ RequestStops(r)
                 \/ \E i \in Images : RemoveFetch(r, i)
           \/ \E i \in Images : ImageStep(i)
           \/ Restart
           \/ UNCHANGED vars
  BY SettingScope DEF Next

(***************************************************************************)
(* The type invariant.                                                     *)
(***************************************************************************)
LEMMA InitType == Init => TypeInv
<1> SUFFICES ASSUME Init PROVE TypeInv
  OBVIOUS
<1>1. TypeOK
  <2>1. Live \subseteq Configs /\ default = {}
    BY DEF Init, Live
  <2>2. 0 \in 0 .. MaxFaults
    BY FaultBound
  <2> QED
    BY <2>1, <2>2, ConfigNames DEF Init, TypeOK
<1>2. TargetsKnown /\ ReposKnown /\ ImagesKnown
  BY DEF Init, TargetsKnown, ReposKnown, ImagesKnown
<1> QED
  BY <1>1, <1>2 DEF TypeInv

LEMMA NextType == TypeInv /\ [Next]_vars => TypeInv'
<1> SUFFICES ASSUME TypeInv, [Next]_vars PROVE TypeInv'
  OBVIOUS
<1> USE SettingScope, ConfigNames, FaultBound
    DEF TypeInv, TypeOK, TargetsKnown, ReposKnown, ImagesKnown, Live, rows, images,
        uploaded, attempts,
        requests, hist
<1>1. ASSUME NEW r \in Requests, CreateCheck(r)
      PROVE  TypeInv'
  BY <1>1 DEF CreateCheck, Begin, To
<1>2. ASSUME NEW r \in Requests, CreateConflict(r)
      PROVE  TypeInv'
  BY <1>2 DEF CreateConflict, Done, To
<1>3. ASSUME NEW r \in Requests, NEW l \in {"clear", "insert"}, CreateVerified(r, l)
      PROVE  TypeInv'
  BY <1>3 DEF CreateVerified, To
<1>4. ASSUME NEW r \in Requests, NEW c \in setting.configs, NEW q \in Repos, CreateInsert(r, c, q)
      PROVE  TypeInv'
  BY <1>4 DEF CreateInsert, Done, To
<1>5. ASSUME NEW r \in Requests, UnsetDefaults(r)
      PROVE  TypeInv'
  BY <1>5 DEF UnsetDefaults, To
<1>6. ASSUME NEW r \in Requests, SetDefault(r)
      PROVE  TypeInv'
  BY <1>6 DEF SetDefault, Done, To
<1>7. ASSUME NEW r \in Requests, SetDefaultFails(r)
      PROVE  TypeInv'
  BY <1>7 DEF SetDefaultFails, Done, To
<1>8. ASSUME NEW r \in Requests, UpdateName(r)
      PROVE  TypeInv'
  BY <1>8 DEF UpdateName, To
<1>9. ASSUME NEW r \in Requests, UpdateWrite(r)
      PROVE  TypeInv'
  BY <1>9 DEF UpdateWrite, Done, To
<1>10. ASSUME NEW r \in Requests, UpdateFails(r)
      PROVE  TypeInv'
  BY <1>10 DEF UpdateFails, Done, To
<1>11. ASSUME NEW r \in Requests, DeleteCount(r)
      PROVE  TypeInv'
  <2>1. CASE Done(r)
    BY <1>11, <2>1 DEF DeleteCount, Done, To
  <2>2. CASE To(r, "delete") /\ UNCHANGED <<target, given, keeps>>
    BY <1>11, <2>2 DEF DeleteCount, To
  <2> QED
    BY <1>11, <2>1, <2>2 DEF DeleteCount
<1>12. ASSUME NEW r \in Requests, DeleteRow(r)
      PROVE  TypeInv'
  <2>1. target[r] \in Configs /\ cfg[target[r]] # "none" /\ pc[r] = "delete"
    BY <1>12 DEF DeleteRow
  <2>2. CASE UNCHANGED <<cfg, default, undone>>
    BY <1>12, <2>2 DEF DeleteRow, Done, To
  <2>3. CASE /\ ~Referenced(target[r])
             /\ cfg' = [cfg EXCEPT ![target[r]] = "deleted"]
             /\ default' = default \ {target[r]}
             /\ undone' = (undone \/ target[r] \in default)
    <3>1. \A i \in Images : /\ up[i] = "live" => at[i] # target[r]
                            /\ twin[i] = "live" => Home # target[r]
      BY <2>3 DEF Referenced
    <3>2. UNCHANGED <<setting, repo, images, faults, want, edited, overlap, crowded, chosen, risk,
                      removed, uploaded, attempts>>
      BY <1>12 DEF DeleteRow
    <3>3. TypeOK'
      BY <1>12, <2>1, <2>3, <3>1, <3>2 DEF DeleteRow, Done, To
    <3>4. TargetsKnown'
      BY <1>12, <2>1, <2>3, <3>2 DEF DeleteRow, Done, To
    <3>5. ReposKnown' /\ ImagesKnown'
      BY <1>12, <2>1, <2>3, <3>2 DEF DeleteRow, Done, To
    <3> QED
      BY <3>3, <3>4, <3>5
  <2> QED
    BY <1>12, <2>2, <2>3 DEF DeleteRow
<1>13. ASSUME NEW r \in Requests, NEW c \in Configs, DefaultFetch(r, c)
      PROVE  TypeInv'
  BY <1>13 DEF DefaultFetch, Begin, To
<1>14. ASSUME NEW r \in Requests, NEW c \in Configs, DeleteFetch(r, c)
      PROVE  TypeInv'
  BY <1>14 DEF DeleteFetch, Begin, To
<1>15. ASSUME NEW r \in Requests, NEW c \in Configs, NEW l \in {"rename", "write"},
             NEW k \in BOOLEAN, NEW q \in Repos, UpdateFetch(r, c, l, k, q)
      PROVE  TypeInv'
  BY <1>15 DEF UpdateFetch, Begin, To, Merged
<1>16. ASSUME NEW r \in Requests, RemoveFile(r)
      PROVE  TypeInv'
  BY <1>16 DEF RemoveFile, Deleted, Fault, To
<1>17. ASSUME NEW r \in Requests, RemoveRow(r)
      PROVE  TypeInv'
  <2>1. target[r] \in Images /\ up[target[r]] \in {"live", "gone"}
    BY <1>17 DEF RemoveRow
  <2>2. TypeOK'
    <3>1. /\ up' = [up EXCEPT ![target[r]] = "gone"]
          /\ pc' = [pc EXCEPT ![r] = "idle"] /\ target' = [target EXCEPT ![r] = None]
          /\ given' = [given EXCEPT ![r] = None] /\ keeps' = [keeps EXCEPT ![r] = FALSE]
          /\ UNCHANGED <<setting, rows, router, at, snap, file, job, jat, made, twin, faults, hist>>
      BY <1>17 DEF RemoveRow, Done, To
    <3>2. \A i \in Images : up'[i] = "live" => up[i] = "live"
      BY <2>1, <3>1
    <3>3. up' \in [Images -> {"none", "resolved", "stored", "live", "gone"}]
      BY <2>1, <3>1
    <3> QED
      BY <3>1, <3>2, <3>3
  <2>3. TargetsKnown' /\ ReposKnown' /\ ImagesKnown'
    BY <1>17, <2>1 DEF RemoveRow, Done, To
  <2> QED
    BY <2>2, <2>3
<1>18. ASSUME NEW r \in Requests, RequestStops(r)
      PROVE  TypeInv'
  BY <1>18 DEF RequestStops, Fault, Done, To
<1>19. ASSUME NEW r \in Requests, NEW i \in Images, RemoveFetch(r, i)
      PROVE  TypeInv'
  BY <1>19 DEF RemoveFetch, Begin, To
<1>20. ASSUME NEW i \in Images, NEW c \in Configs, UploadResolve(i, c)
      PROVE  TypeInv'
  BY <1>20 DEF UploadResolve
<1>21. ASSUME NEW i \in Images, UploadPut(i)
      PROVE  TypeInv'
  <2> DEFINE b == Backend(at[i], snap[i])
  <2>1. at[i] \in Configs /\ b \in Repos
    BY <1>21 DEF UploadPut, Backend
  <2>2. /\ router' = [router EXCEPT ![at[i]] = b]
        /\ up' \in {[up EXCEPT ![i] = "stored"], [up EXCEPT ![i] = "gone"]}
        /\ file' \in {file, [file EXCEPT ![i] = b]}
        /\ faults' \in 0 .. MaxFaults
        /\ UNCHANGED <<setting, rows, at, snap, job, jat, made, twin, requests, hist>>
    BY <1>21 DEF UploadPut, Fault
  <2>3. up[i] = "resolved"
    BY <1>21 DEF UploadPut
  <2> HIDE DEF b
  <2>4. router' \in [Configs -> Repos \cup {None}]
    BY <2>1, <2>2
  <2>5. file' \in [Images -> Repos \cup {None}]
    BY <2>1, <2>2
  <2>6. /\ up' \in [Images -> {"none", "resolved", "stored", "live", "gone"}]
        /\ \A j \in Images : /\ up'[j] = "live" => up[j] = "live"
                             /\ up'[j] = "none" <=> up[j] = "none"
                             /\ up[j] \in {"live", "gone"} => up'[j] = up[j]
    BY <2>2, <2>3, SMTT(30)
  <2>7. TypeOK'
    BY <2>2, <2>4, <2>5, <2>6
  <2>8. TargetsKnown' /\ ReposKnown' /\ ImagesKnown'
    BY <2>2, <2>6
  <2> QED
    BY <2>7, <2>8
<1>22. ASSUME NEW i \in Images, UploadInsert(i)
      PROVE  TypeInv'
  <2>1. up[i] = "stored" /\ at[i] \in Configs
    BY <1>22 DEF UploadInsert, NameFits
  <2>2. CASE NameFits /\ cfg[at[i]] = "live" /\ twin[i] # "live"
    BY <1>22, <2>1, <2>2, SMTT(30) DEF UploadInsert, NameFits
  <2>3. CASE ~(NameFits /\ cfg[at[i]] = "live" /\ twin[i] # "live")
    BY <1>22, <2>1, <2>3 DEF UploadInsert, NameFits
  <2> QED
    BY <2>2, <2>3
<1>23. ASSUME NEW i \in Images, UploadStops(i)
      PROVE  TypeInv'
  BY <1>23 DEF UploadStops, Fault
<1>24. ASSUME NEW i \in Images, TwinInsert(i)
      PROVE  TypeInv'
  BY <1>24 DEF TwinInsert, Fault
<1>25. ASSUME NEW i \in Images, TwinRemove(i)
      PROVE  TypeInv'
  BY <1>25 DEF TwinRemove
<1>26. ASSUME NEW i \in Images, JobResolve(i)
      PROVE  TypeInv'
  BY <1>26 DEF JobResolve, Backend
<1>27. ASSUME NEW i \in Images, JobWrite(i)
      PROVE  TypeInv'
  BY <1>27 DEF JobWrite, Found
<1>28. ASSUME NEW i \in Images, JobPublish(i)
      PROVE  TypeInv'
  BY <1>28 DEF JobPublish
<1>29. ASSUME NEW i \in Images, JobAck(i)
      PROVE  TypeInv'
  BY <1>29 DEF JobAck
<1>30. ASSUME NEW i \in Images, JobStops(i)
      PROVE  TypeInv'
  BY <1>30 DEF JobStops, Fault
<1>31. ASSUME NEW i \in Images, JobFails(i)
      PROVE  TypeInv'
  BY <1>31 DEF JobFails
<1>32. ASSUME NEW i \in Images, JobRefused(i)
      PROVE  TypeInv'
  BY <1>32 DEF JobRefused
<1>33. ASSUME Restart
      PROVE  TypeInv'
  <2>1. /\ router' = [c \in Configs |-> None]
        /\ faults' \in 0 .. MaxFaults
        /\ job' = [i \in Images |-> IF job[i] \in Claimed THEN "queued" ELSE job[i]]
        /\ up' = [i \in Images |-> IF up[i] \in {"resolved", "stored"} THEN "gone" ELSE up[i]]
        /\ twin' = [i \in Images |-> IF twin[i] = "up" THEN "gone" ELSE twin[i]]
        /\ pc' = [q \in Requests |-> "idle"]
        /\ target' = [q \in Requests |-> None]
        /\ given' = [q \in Requests |-> None]
        /\ keeps' = [q \in Requests |-> FALSE]
        /\ UNCHANGED <<setting, rows, at, snap, file, jat, made, want, edited, overlap, crowded,
                       chosen, removed, unnamed, clashed, missed, refused>>
    BY <1>33 DEF Restart, Fault
  <2>2. again' \subseteq Images /\ leaked' \subseteq Images /\ risk' \subseteq Images
        /\ undone' \in BOOLEAN
    BY <1>33 DEF Restart
  <2>3. /\ \A i \in Images : job'[i] = job[i] \/ (job'[i] = "queued" /\ job[i] # "none")
        /\ job' \in [Images -> {"none", "queued", "resolved", "written", "published", "done"}]
    BY <2>1 DEF Claimed
  <2>4. TypeOK'
    BY <2>1, <2>2, <2>3
  <2>5. TargetsKnown' /\ ReposKnown' /\ ImagesKnown'
    BY <2>1, <2>3
  <2> QED
    BY <2>4, <2>5
<1>34. CASE UNCHANGED vars
  BY <1>34 DEF vars
<1>35. TypeOK
  OBVIOUS
<1> HIDE DEF TypeInv
<1> QED
  BY <1>1, <1>2, <1>3, <1>4, <1>5, <1>6, <1>7, <1>8, <1>9, <1>10, <1>11, <1>12, <1>13,
     <1>14, <1>15, <1>16, <1>17, <1>18, <1>19, <1>20, <1>21, <1>22, <1>23, <1>24,
     <1>25, <1>26, <1>27, <1>28, <1>29, <1>30, <1>31, <1>32, <1>33, <1>34, <1>35, NextSteps DEF ConfigStep, ImageStep

\* Rows, routers, images, tasks and requests keep their types, and a row of images
\* refers to a row of configs: no delete overtakes an upload.
THEOREM TypeCorrect == Spec => []TypeOK
<1>1. Spec => []TypeInv
  BY InitType, NextType, PTL DEF Spec
<1>2. TypeInv => TypeOK
  BY DEF TypeInv
<1> QED
  BY <1>1, <1>2, PTL
-----------------------------------------------------------------------------
(***************************************************************************)
(* The limit on configs.                                                   *)
(***************************************************************************)
RoomInv == RoomKept /\ LimitUnlessOverlap

\* A step that adds no row and no creation leaves room.
LEMMA RoomFrame ==
    ASSUME TypeOK, RoomInv, setting' = setting, crowded' = crowded, Live' \subseteq Live,
           Creators' \subseteq Creators
    PROVE  RoomInv'
<1>1. /\ IsFiniteSet(Live') /\ Cardinality(Live') <= Cardinality(Live)
      /\ Cardinality(Live) \in Nat /\ Cardinality(Live') \in Nat
  BY FS_Subset, FS_CardinalityType DEF RoomInv, RoomKept
<1> QED
  BY <1>1, SettingScope DEF RoomInv, RoomKept, LimitUnlessOverlap

LEMMA InitRoom == Init => RoomInv
<1> SUFFICES ASSUME Init PROVE RoomInv
  OBVIOUS
<1>1. TypeOK
  BY InitType DEF TypeInv
<1>2. Live \subseteq {Home}
  BY DEF Init, Live
<1>3. IsFiniteSet(Live) /\ Cardinality(Live) <= 1 /\ Cardinality(Live) \in Nat
  <2>1. IsFiniteSet({Home}) /\ Cardinality({Home}) = 1
    BY FS_Singleton
  <2> QED
    BY <1>2, <2>1, FS_Subset, FS_CardinalityType
<1>4. Creators = {}
  BY DEF Init, Creators
<1> QED
  BY <1>1, <1>3, <1>4, SettingScope DEF RoomInv, RoomKept, LimitUnlessOverlap

LEMMA NextRoom == TypeInv /\ RoomInv /\ [Next]_vars => RoomInv'
<1> SUFFICES ASSUME TypeInv, RoomInv, [Next]_vars PROVE RoomInv'
  OBVIOUS
<1>0. TypeOK /\ TargetsKnown
  BY DEF TypeInv
<1> USE <1>0, SettingScope, ConfigNames DEF TypeOK, TargetsKnown, rows, images, requests, uploaded, attempts, hist
<1>1. ASSUME NEW r \in Requests, CreateCheck(r)
      PROVE  RoomInv'
  <2>1. /\ Cardinality(Live) < setting.limit
        /\ crowded' = (crowded \/ Creating # {})
        /\ UNCHANGED <<setting, rows>>
        /\ \A q \in Requests \ {r} : pc'[q] = pc[q] /\ target'[q] = target[q]
    BY <1>1 DEF CreateCheck, Begin, To
  <2>2. Live' = Live
    BY <2>1 DEF Live
  <2>3. ~crowded' => Creators' \subseteq {r}
    BY <2>1 DEF Creators, Creating
  <2> QED
    BY <2>1, <2>2, <2>3 DEF RoomInv, RoomKept, LimitUnlessOverlap
<1>2. ASSUME NEW r \in Requests, CreateConflict(r)
      PROVE  RoomInv'
  BY <1>2, RoomFrame DEF CreateConflict, Done, To, Live, Creators
<1>3. ASSUME NEW r \in Requests, NEW l \in {"clear", "insert"}, CreateVerified(r, l)
      PROVE  RoomInv'
  BY <1>3, RoomFrame DEF CreateVerified, To, Live, Creators
<1>4. ASSUME NEW r \in Requests, NEW c \in setting.configs, NEW q \in Repos, CreateInsert(r, c, q)
      PROVE  RoomInv'
  <2>1. /\ c \in Configs /\ cfg[c] = "none"
        /\ cfg' = [cfg EXCEPT ![c] = "live"]
        /\ UNCHANGED <<setting, crowded>>
        /\ pc' = [pc EXCEPT ![r] = "idle"]
        /\ target' = [target EXCEPT ![r] = None]
        /\ r \in Creators
    BY <1>4 DEF CreateInsert, Done, To, Creators
  <2>2. Live' = Live \cup {c} /\ c \notin Live
    BY <2>1 DEF Live
  <2>3. IsFiniteSet(Live') /\ Cardinality(Live') = Cardinality(Live) + 1
    BY <2>2, FS_AddElement DEF RoomInv, RoomKept
  <2>4. Cardinality(Live) \in Nat
    BY FS_CardinalityType DEF RoomInv, RoomKept
  <2>5. ~crowded => Creators' = {} /\ Cardinality(Live) < setting.limit
    BY <2>1 DEF Creators, RoomInv, RoomKept
  <2> QED
    BY <2>1, <2>3, <2>4, <2>5 DEF RoomInv, RoomKept, LimitUnlessOverlap
<1>5. ASSUME NEW r \in Requests, UnsetDefaults(r)
      PROVE  RoomInv'
  BY <1>5, RoomFrame DEF UnsetDefaults, To, Live, Creators
<1>6. ASSUME NEW r \in Requests, SetDefault(r)
      PROVE  RoomInv'
  BY <1>6, RoomFrame DEF SetDefault, Done, To, Live, Creators
<1>7. ASSUME NEW r \in Requests, SetDefaultFails(r)
      PROVE  RoomInv'
  BY <1>7, RoomFrame DEF SetDefaultFails, Done, To, Live, Creators
<1>8. ASSUME NEW r \in Requests, UpdateName(r)
      PROVE  RoomInv'
  BY <1>8, RoomFrame DEF UpdateName, To, Live, Creators
<1>9. ASSUME NEW r \in Requests, UpdateWrite(r)
      PROVE  RoomInv'
  BY <1>9, RoomFrame DEF UpdateWrite, Done, To, Live, Creators
<1>10. ASSUME NEW r \in Requests, UpdateFails(r)
      PROVE  RoomInv'
  BY <1>10, RoomFrame DEF UpdateFails, Done, To, Live, Creators
<1>11. ASSUME NEW r \in Requests, DeleteCount(r)
      PROVE  RoomInv'
  BY <1>11, RoomFrame DEF DeleteCount, Done, To, Live, Creators
<1>12. ASSUME NEW r \in Requests, DeleteRow(r)
      PROVE  RoomInv'
  BY <1>12, RoomFrame DEF DeleteRow, Done, To, Referenced, Live, Creators
<1>13. ASSUME NEW r \in Requests, NEW c \in Configs, DefaultFetch(r, c)
      PROVE  RoomInv'
  BY <1>13, RoomFrame DEF DefaultFetch, Begin, To, Live, Creators
<1>14. ASSUME NEW r \in Requests, NEW c \in Configs, DeleteFetch(r, c)
      PROVE  RoomInv'
  BY <1>14, RoomFrame DEF DeleteFetch, Begin, To, Live, Creators
<1>15. ASSUME NEW r \in Requests, NEW c \in Configs, NEW l \in {"rename", "write"},
             NEW k \in BOOLEAN, NEW q \in Repos, UpdateFetch(r, c, l, k, q)
      PROVE  RoomInv'
  BY <1>15, RoomFrame DEF UpdateFetch, Begin, To, Merged, Live, Creators
<1>16. ASSUME NEW r \in Requests, RemoveFile(r)
      PROVE  RoomInv'
  BY <1>16, RoomFrame DEF RemoveFile, Deleted, Fault, To, Live, Creators
<1>17. ASSUME NEW r \in Requests, RemoveRow(r)
      PROVE  RoomInv'
  BY <1>17, RoomFrame DEF RemoveRow, Done, To, Live, Creators
<1>18. ASSUME NEW r \in Requests, RequestStops(r)
      PROVE  RoomInv'
  BY <1>18, RoomFrame DEF RequestStops, Fault, Done, To, Live, Creators
<1>19. ASSUME NEW r \in Requests, NEW i \in Images, RemoveFetch(r, i)
      PROVE  RoomInv'
  BY <1>19, RoomFrame DEF RemoveFetch, Begin, To, Live, Creators
<1>20. ASSUME NEW i \in Images, NEW c \in Configs, UploadResolve(i, c)
      PROVE  RoomInv'
  BY <1>20, RoomFrame DEF UploadResolve, Live, Creators
<1>21. ASSUME NEW i \in Images, UploadPut(i)
      PROVE  RoomInv'
  BY <1>21, RoomFrame DEF UploadPut, Backend, Fault, Live, Creators
<1>22. ASSUME NEW i \in Images, UploadInsert(i)
      PROVE  RoomInv'
  BY <1>22, RoomFrame DEF UploadInsert, Live, Creators
<1>23. ASSUME NEW i \in Images, UploadStops(i)
      PROVE  RoomInv'
  BY <1>23, RoomFrame DEF UploadStops, Fault, Live, Creators
<1>24. ASSUME NEW i \in Images, TwinInsert(i)
      PROVE  RoomInv'
  BY <1>24, RoomFrame DEF TwinInsert, Fault, Live, Creators
<1>25. ASSUME NEW i \in Images, TwinRemove(i)
      PROVE  RoomInv'
  BY <1>25, RoomFrame DEF TwinRemove, Live, Creators
<1>26. ASSUME NEW i \in Images, JobResolve(i)
      PROVE  RoomInv'
  BY <1>26, RoomFrame DEF JobResolve, Backend, Live, Creators
<1>27. ASSUME NEW i \in Images, JobWrite(i)
      PROVE  RoomInv'
  BY <1>27, RoomFrame DEF JobWrite, Found, Live, Creators
<1>28. ASSUME NEW i \in Images, JobPublish(i)
      PROVE  RoomInv'
  BY <1>28, RoomFrame DEF JobPublish, Live, Creators
<1>29. ASSUME NEW i \in Images, JobAck(i)
      PROVE  RoomInv'
  BY <1>29, RoomFrame DEF JobAck, Live, Creators
<1>30. ASSUME NEW i \in Images, JobStops(i)
      PROVE  RoomInv'
  BY <1>30, RoomFrame DEF JobStops, Fault, Live, Creators
<1>31. ASSUME NEW i \in Images, JobFails(i)
      PROVE  RoomInv'
  BY <1>31, RoomFrame DEF JobFails, Live, Creators
<1>32. ASSUME NEW i \in Images, JobRefused(i)
      PROVE  RoomInv'
  BY <1>32, RoomFrame DEF JobRefused, Live, Creators
<1>33. ASSUME Restart
      PROVE  RoomInv'
  BY <1>33, RoomFrame DEF Restart, Fault, Live, Creators
<1>34. CASE UNCHANGED vars
  BY <1>34, RoomFrame DEF vars, Live, Creators
<1> QED
  BY <1>1, <1>2, <1>3, <1>4, <1>5, <1>6, <1>7, <1>8, <1>9, <1>10, <1>11, <1>12, <1>13,
     <1>14, <1>15, <1>16, <1>17, <1>18, <1>19, <1>20, <1>21, <1>22, <1>23, <1>24,
     <1>25, <1>26, <1>27, <1>28, <1>29, <1>30, <1>31, <1>32, <1>33, <1>34, NextSteps DEF ConfigStep, ImageStep
-----------------------------------------------------------------------------
(***************************************************************************)
(* The default and the repositories of the rows.                           *)
(***************************************************************************)
LEMMA InitRows == Init => RowsInv
<1> SUFFICES ASSUME Init PROVE RowsInv
  OBVIOUS
<1>1. DefaultKept /\ UpdatesAlone /\ RepoAsGiven
  BY DEF Init, DefaultKept, UpdatesAlone, RepoAsGiven
<1> QED
  BY <1>1, InitType, InitRoom DEF RowsInv, RoomInv

LEMMA NextRows == RowsInv /\ [Next]_vars => RowsInv'
<1> DEFINE Kept == DefaultKept /\ UpdatesAlone /\ RepoAsGiven
<1> SUFFICES ASSUME RowsInv, [Next]_vars PROVE Kept'
  BY NextType, NextRoom DEF RowsInv, RoomInv
<1>0. TypeOK /\ TargetsKnown /\ Kept
  BY DEF RowsInv, TypeInv
<1> USE <1>0, SettingScope, ConfigNames
    DEF TypeOK, TargetsKnown, DefaultKept, UpdatesAlone, RepoAsGiven, Live, rows, images,
        requests, hist
<1>1. ASSUME NEW r \in Requests, CreateCheck(r)
      PROVE  Kept'
  BY <1>1 DEF CreateCheck, Begin, To
<1>2. ASSUME NEW r \in Requests, CreateConflict(r)
      PROVE  Kept'
  BY <1>2 DEF CreateConflict, Done, To
<1>3. ASSUME NEW r \in Requests, NEW l \in {"clear", "insert"}, CreateVerified(r, l)
      PROVE  Kept'
  BY <1>3 DEF CreateVerified, To
<1>4. ASSUME NEW r \in Requests, NEW c \in setting.configs, NEW q \in Repos, CreateInsert(r, c, q)
      PROVE  Kept'
  BY <1>4 DEF CreateInsert, Done, To
<1>5. ASSUME NEW r \in Requests, UnsetDefaults(r)
      PROVE  Kept'
  BY <1>5 DEF UnsetDefaults, To
<1>6. ASSUME NEW r \in Requests, SetDefault(r)
      PROVE  Kept'
  BY <1>6 DEF SetDefault, Done, To
<1>7. ASSUME NEW r \in Requests, SetDefaultFails(r)
      PROVE  Kept'
  BY <1>7 DEF SetDefaultFails, Done, To
<1>8. ASSUME NEW r \in Requests, UpdateName(r)
      PROVE  Kept'
  BY <1>8 DEF UpdateName, To
<1>9. ASSUME NEW r \in Requests, UpdateWrite(r)
      PROVE  Kept'
  BY <1>9 DEF UpdateWrite, Done, To
<1>10. ASSUME NEW r \in Requests, UpdateFails(r)
      PROVE  Kept'
  BY <1>10 DEF UpdateFails, Done, To
<1>11. ASSUME NEW r \in Requests, DeleteCount(r)
      PROVE  Kept'
  BY <1>11 DEF DeleteCount, Done, To
<1>12. ASSUME NEW r \in Requests, DeleteRow(r)
      PROVE  Kept'
  BY <1>12 DEF DeleteRow, Done, To, Referenced
<1>13. ASSUME NEW r \in Requests, NEW c \in Configs, DefaultFetch(r, c)
      PROVE  Kept'
  BY <1>13 DEF DefaultFetch, Begin, To
<1>14. ASSUME NEW r \in Requests, NEW c \in Configs, DeleteFetch(r, c)
      PROVE  Kept'
  BY <1>14 DEF DeleteFetch, Begin, To
<1>15. ASSUME NEW r \in Requests, NEW c \in Configs, NEW l \in {"rename", "write"},
             NEW k \in BOOLEAN, NEW q \in Repos, UpdateFetch(r, c, l, k, q)
      PROVE  Kept'
  BY <1>15 DEF UpdateFetch, Begin, To, Merged, Updating
<1>16. ASSUME NEW r \in Requests, RemoveFile(r)
      PROVE  Kept'
  BY <1>16 DEF RemoveFile, Deleted, Fault, To
<1>17. ASSUME NEW r \in Requests, RemoveRow(r)
      PROVE  Kept'
  BY <1>17 DEF RemoveRow, Done, To
<1>18. ASSUME NEW r \in Requests, RequestStops(r)
      PROVE  Kept'
  BY <1>18 DEF RequestStops, Fault, Done, To
<1>19. ASSUME NEW r \in Requests, NEW i \in Images, RemoveFetch(r, i)
      PROVE  Kept'
  BY <1>19 DEF RemoveFetch, Begin, To
<1>20. ASSUME NEW i \in Images, NEW c \in Configs, UploadResolve(i, c)
      PROVE  Kept'
  BY <1>20 DEF UploadResolve
<1>21. ASSUME NEW i \in Images, UploadPut(i)
      PROVE  Kept'
  BY <1>21 DEF UploadPut, Backend, Fault
<1>22. ASSUME NEW i \in Images, UploadInsert(i)
      PROVE  Kept'
  BY <1>22 DEF UploadInsert, NameFits
<1>23. ASSUME NEW i \in Images, UploadStops(i)
      PROVE  Kept'
  BY <1>23 DEF UploadStops, Fault
<1>24. ASSUME NEW i \in Images, TwinInsert(i)
      PROVE  Kept'
  BY <1>24 DEF TwinInsert, Fault
<1>25. ASSUME NEW i \in Images, TwinRemove(i)
      PROVE  Kept'
  BY <1>25 DEF TwinRemove
<1>26. ASSUME NEW i \in Images, JobResolve(i)
      PROVE  Kept'
  BY <1>26 DEF JobResolve, Backend
<1>27. ASSUME NEW i \in Images, JobWrite(i)
      PROVE  Kept'
  BY <1>27 DEF JobWrite, Found
<1>28. ASSUME NEW i \in Images, JobPublish(i)
      PROVE  Kept'
  BY <1>28 DEF JobPublish
<1>29. ASSUME NEW i \in Images, JobAck(i)
      PROVE  Kept'
  BY <1>29 DEF JobAck
<1>30. ASSUME NEW i \in Images, JobStops(i)
      PROVE  Kept'
  BY <1>30 DEF JobStops, Fault
<1>31. ASSUME NEW i \in Images, JobFails(i)
      PROVE  Kept'
  BY <1>31 DEF JobFails
<1>32. ASSUME NEW i \in Images, JobRefused(i)
      PROVE  Kept'
  BY <1>32 DEF JobRefused
<1>33. ASSUME Restart
      PROVE  Kept'
  BY <1>33 DEF Restart, Fault, Claimed
<1>34. CASE UNCHANGED vars
  BY <1>34 DEF vars
<1>35. TypeOK
  OBVIOUS
<1> HIDE DEF Kept, TypeOK, TargetsKnown
<1> QED
  BY <1>1, <1>2, <1>3, <1>4, <1>5, <1>6, <1>7, <1>8, <1>9, <1>10, <1>11, <1>12, <1>13,
     <1>14, <1>15, <1>16, <1>17, <1>18, <1>19, <1>20, <1>21, <1>22, <1>23, <1>24,
     <1>25, <1>26, <1>27, <1>28, <1>29, <1>30, <1>31, <1>32, <1>33, <1>34, <1>35, NextSteps DEF ConfigStep, ImageStep

\* One default at most, no default lost without a reason, and no more configs than
\* the limit unless creations overlap, in any interleaving of any requests.
THEOREM ConfigRowsKeptCorrect == Spec => []ConfigRowsKept
<1>1. Spec => []RowsInv
  BY InitRows, NextRows, PTL DEF Spec
<1>2. RowsInv => ConfigRowsKept
  BY DEF RowsInv, ConfigRowsKept
<1> QED
  BY <1>1, <1>2, PTL

\* A partial update writes back the repository it has read, and nothing else was
\* there to be lost unless updates of the config overlap.
THEOREM RepoAsGivenCorrect == Spec => []RepoAsGiven
<1>1. Spec => []RowsInv
  BY InitRows, NextRows, PTL DEF Spec
<1>2. RowsInv => RepoAsGiven
  BY DEF RowsInv
<1> QED
  BY <1>1, <1>2, PTL
-----------------------------------------------------------------------------
(***************************************************************************)
(* Where files are.                                                        *)
(***************************************************************************)
LEMMA InitFiles == Init => FilesInv
<1> SUFFICES ASSUME Init PROVE FilesInv
  OBVIOUS
<1>1. RoutedWhereStored /\ RemovalsExcused /\ OrphansAccounted
  BY DEF Init, RoutedWhereStored, RemovalsExcused, OrphansAccounted
<1> QED
  BY <1>1, InitType DEF FilesInv

LEMMA NextFiles == FilesInv /\ [Next]_vars => FilesInv'
<1> DEFINE Kept == RoutedWhereStored /\ RemovalsExcused /\ OrphansAccounted
<1> SUFFICES ASSUME FilesInv, [Next]_vars PROVE Kept'
  BY NextType DEF FilesInv
<1>0. TypeOK /\ TargetsKnown /\ ImagesKnown /\ Kept
  BY DEF FilesInv, TypeInv
<1> USE <1>0, SettingScope, ConfigNames
    DEF TypeOK, TargetsKnown, ImagesKnown, RoutedWhereStored, RemovalsExcused, OrphansAccounted,
        rows, images, requests, uploaded, attempts, hist
<1>1. ASSUME NEW r \in Requests, CreateCheck(r)
      PROVE  Kept'
  BY <1>1 DEF CreateCheck, Begin, To
<1>2. ASSUME NEW r \in Requests, CreateConflict(r)
      PROVE  Kept'
  BY <1>2 DEF CreateConflict, Done, To
<1>3. ASSUME NEW r \in Requests, NEW l \in {"clear", "insert"}, CreateVerified(r, l)
      PROVE  Kept'
  BY <1>3 DEF CreateVerified, To
<1>4. ASSUME NEW r \in Requests, NEW c \in setting.configs, NEW q \in Repos, CreateInsert(r, c, q)
      PROVE  Kept'
  BY <1>4 DEF CreateInsert, Done, To
<1>5. ASSUME NEW r \in Requests, UnsetDefaults(r)
      PROVE  Kept'
  BY <1>5 DEF UnsetDefaults, To
<1>6. ASSUME NEW r \in Requests, SetDefault(r)
      PROVE  Kept'
  BY <1>6 DEF SetDefault, Done, To
<1>7. ASSUME NEW r \in Requests, SetDefaultFails(r)
      PROVE  Kept'
  BY <1>7 DEF SetDefaultFails, Done, To
<1>8. ASSUME NEW r \in Requests, UpdateName(r)
      PROVE  Kept'
  BY <1>8 DEF UpdateName, To
<1>9. ASSUME NEW r \in Requests, UpdateWrite(r)
      PROVE  Kept'
  BY <1>9 DEF UpdateWrite, Done, To
<1>10. ASSUME NEW r \in Requests, UpdateFails(r)
      PROVE  Kept'
  BY <1>10 DEF UpdateFails, Done, To
<1>11. ASSUME NEW r \in Requests, DeleteCount(r)
      PROVE  Kept'
  BY <1>11 DEF DeleteCount, Done, To
<1>12. ASSUME NEW r \in Requests, DeleteRow(r)
      PROVE  Kept'
  BY <1>12 DEF DeleteRow, Done, To, Referenced
<1>13. ASSUME NEW r \in Requests, NEW c \in Configs, DefaultFetch(r, c)
      PROVE  Kept'
  BY <1>13 DEF DefaultFetch, Begin, To
<1>14. ASSUME NEW r \in Requests, NEW c \in Configs, DeleteFetch(r, c)
      PROVE  Kept'
  BY <1>14 DEF DeleteFetch, Begin, To
<1>15. ASSUME NEW r \in Requests, NEW c \in Configs, NEW l \in {"rename", "write"},
             NEW k \in BOOLEAN, NEW q \in Repos, UpdateFetch(r, c, l, k, q)
      PROVE  Kept'
  BY <1>15 DEF UpdateFetch, Begin, To, Merged
<1>16. ASSUME NEW r \in Requests, RemoveFile(r)
      PROVE  Kept'
  BY <1>16 DEF RemoveFile, Deleted, Fault, To, Routed
<1>17. ASSUME NEW r \in Requests, RemoveRow(r)
      PROVE  Kept'
  BY <1>17 DEF RemoveRow, Done, To
<1>18. ASSUME NEW r \in Requests, RequestStops(r)
      PROVE  Kept'
  BY <1>18 DEF RequestStops, Fault, Done, To
<1>19. ASSUME NEW r \in Requests, NEW i \in Images, RemoveFetch(r, i)
      PROVE  Kept'
  BY <1>19 DEF RemoveFetch, Begin, To
<1>20. ASSUME NEW i \in Images, NEW c \in Configs, UploadResolve(i, c)
      PROVE  Kept'
  <2>1. up[i] = "none" /\ file[i] = None
    BY <1>20 DEF UploadResolve
  <2>2. /\ up' = [up EXCEPT ![i] = "resolved"]
        /\ \A j \in Images : j # i => up'[j] = up[j] /\ at'[j] = at[j]
        /\ UNCHANGED <<router, file, pc, target, risk, leaked, unnamed>>
    BY <1>20 DEF UploadResolve
  <2>3. RoutedWhereStored'
    BY <2>1, <2>2
  <2>4. RemovalsExcused' /\ OrphansAccounted'
    BY <2>1, <2>2
  <2> QED
    BY <2>3, <2>4
<1>21. ASSUME NEW i \in Images, UploadPut(i)
      PROVE  Kept'
  <2> DEFINE b == Backend(at[i], snap[i])
  <2>1. up[i] = "resolved" /\ at[i] \in Configs
    BY <1>21 DEF UploadPut
  <2>2. /\ router' = [router EXCEPT ![at[i]] = b]
        /\ \/ file' = [file EXCEPT ![i] = b] /\ up' = [up EXCEPT ![i] = "stored"]
           \/ UNCHANGED file /\ up' = [up EXCEPT ![i] = "gone"]
        /\ UNCHANGED <<at, pc, target, risk, leaked, unnamed>>
    BY <1>21 DEF UploadPut
  <2>3. router[at[i]] # None => b = router[at[i]]
    BY DEF Backend
  <2> HIDE DEF b
  <2>4. \A j \in Images : up[j] # "none" =>
          router'[at[j]] = IF at[j] = at[i] THEN b ELSE router[at[j]]
    <3> TAKE j \in Images
    <3> HAVE up[j] # "none"
    <3>1. at[j] \in Configs
      OBVIOUS
    <3> QED
      BY <2>1, <2>2, <3>1
  <2>5. RoutedWhereStored'
    BY <2>1, <2>2, <2>3, <2>4
  <2>6. RemovalsExcused' /\ OrphansAccounted'
    BY <2>1, <2>2
  <2> QED
    BY <2>5, <2>6
<1>22. ASSUME NEW i \in Images, UploadInsert(i)
      PROVE  Kept'
  BY <1>22 DEF UploadInsert, NameFits
<1>23. ASSUME NEW i \in Images, UploadStops(i)
      PROVE  Kept'
  BY <1>23 DEF UploadStops, Fault
<1>24. ASSUME NEW i \in Images, TwinInsert(i)
      PROVE  Kept'
  BY <1>24 DEF TwinInsert, Fault
<1>25. ASSUME NEW i \in Images, TwinRemove(i)
      PROVE  Kept'
  BY <1>25 DEF TwinRemove
<1>26. ASSUME NEW i \in Images, JobResolve(i)
      PROVE  Kept'
  BY <1>26 DEF JobResolve, Backend
<1>27. ASSUME NEW i \in Images, JobWrite(i)
      PROVE  Kept'
  BY <1>27 DEF JobWrite, Found
<1>28. ASSUME NEW i \in Images, JobPublish(i)
      PROVE  Kept'
  BY <1>28 DEF JobPublish
<1>29. ASSUME NEW i \in Images, JobAck(i)
      PROVE  Kept'
  BY <1>29 DEF JobAck
<1>30. ASSUME NEW i \in Images, JobStops(i)
      PROVE  Kept'
  BY <1>30 DEF JobStops, Fault
<1>31. ASSUME NEW i \in Images, JobFails(i)
      PROVE  Kept'
  BY <1>31 DEF JobFails
<1>32. ASSUME NEW i \in Images, JobRefused(i)
      PROVE  Kept'
  BY <1>32 DEF JobRefused
<1>33. ASSUME Restart
      PROVE  Kept'
  BY <1>33 DEF Restart, Fault
<1>34. CASE UNCHANGED vars
  BY <1>34 DEF vars
<1>35. TypeOK
  OBVIOUS
<1> HIDE DEF Kept, TypeOK, TargetsKnown, ImagesKnown
<1> QED
  BY <1>1, <1>2, <1>3, <1>4, <1>5, <1>6, <1>7, <1>8, <1>9, <1>10, <1>11, <1>12, <1>13,
     <1>14, <1>15, <1>16, <1>17, <1>18, <1>19, <1>20, <1>21, <1>22, <1>23, <1>24,
     <1>25, <1>26, <1>27, <1>28, <1>29, <1>30, <1>31, <1>32, <1>33, <1>34, <1>35, NextSteps DEF ConfigStep, ImageStep

\* Whatever is done to configs, an image is read where it was stored as long as the
\* API is not restarted, for any number of configs, images and processes' steps.
THEOREM ReadableUntilRestartCorrect == Spec => []ReadableUntilRestart
<1>1. Spec => []FilesInv
  BY InitFiles, NextFiles, PTL DEF Spec
<1>2. FilesInv => ReadableUntilRestart
  BY ConfigNames
     DEF FilesInv, TypeInv, TypeOK, ImagesKnown, RoutedWhereStored, ReadableUntilRestart, Routed
<1> QED
  BY <1>1, <1>2, PTL

\* A file outlives its row only after an upload that ended early or whose row was
\* refused for the name of its backend, a failed storage call or a restart.
THEOREM OrphansAccountedCorrect == Spec => []OrphansAccounted
<1>1. Spec => []FilesInv
  BY InitFiles, NextFiles, PTL DEF Spec
<1>2. FilesInv => OrphansAccounted
  BY DEF FilesInv
<1> QED
  BY <1>1, <1>2, PTL
-----------------------------------------------------------------------------
(***************************************************************************)
(* What keeps the worker from an image.                                    *)
(***************************************************************************)
LEMMA InitWork == Init => WorkInv
<1> SUFFICES ASSUME Init PROVE WorkInv
  OBVIOUS
<1>1. OneRepo /\ AttemptsRouted /\ RemovalsSeen /\ WrittenPublished /\ AttemptsAccounted
  BY DEF Init, OneRepo, AttemptsRouted, RemovalsSeen, WrittenPublished, AttemptsAccounted, WorkerFindsSource,
         RefusedOnlyRedelivered
<1> QED
  BY <1>1, InitFiles DEF WorkInv

LEMMA NextWork == WorkInv /\ [Next]_vars => WorkInv'
<1> DEFINE Kept == /\ OneRepo /\ AttemptsRouted /\ RemovalsSeen /\ WrittenPublished
                  /\ AttemptsAccounted
<1> SUFFICES ASSUME WorkInv, [Next]_vars PROVE Kept'
  BY NextFiles DEF WorkInv
<1>0. TypeOK /\ TargetsKnown /\ ReposKnown /\ ImagesKnown /\ RoutedWhereStored /\ Kept
  BY DEF WorkInv, FilesInv, TypeInv
<1> USE <1>0, SettingScope, ConfigNames
    DEF TypeOK, TargetsKnown, ReposKnown, ImagesKnown, RoutedWhereStored, OneRepo,
        AttemptsRouted, RemovalsSeen, WrittenPublished, AttemptsAccounted, WorkerFindsSource, RefusedOnlyRedelivered, Live,
        rows, images, requests, uploaded, attempts, hist
<1>1. ASSUME NEW r \in Requests, CreateCheck(r)
      PROVE  Kept'
  BY <1>1 DEF CreateCheck, Begin, To
<1>2. ASSUME NEW r \in Requests, CreateConflict(r)
      PROVE  Kept'
  BY <1>2 DEF CreateConflict, Done, To
<1>3. ASSUME NEW r \in Requests, NEW l \in {"clear", "insert"}, CreateVerified(r, l)
      PROVE  Kept'
  BY <1>3 DEF CreateVerified, To
<1>4. ASSUME NEW r \in Requests, NEW c \in setting.configs, NEW q \in Repos, CreateInsert(r, c, q)
      PROVE  Kept'
  BY <1>4 DEF CreateInsert, Done, To
<1>5. ASSUME NEW r \in Requests, UnsetDefaults(r)
      PROVE  Kept'
  BY <1>5 DEF UnsetDefaults, To
<1>6. ASSUME NEW r \in Requests, SetDefault(r)
      PROVE  Kept'
  BY <1>6 DEF SetDefault, Done, To
<1>7. ASSUME NEW r \in Requests, SetDefaultFails(r)
      PROVE  Kept'
  BY <1>7 DEF SetDefaultFails, Done, To
<1>8. ASSUME NEW r \in Requests, UpdateName(r)
      PROVE  Kept'
  BY <1>8 DEF UpdateName, To
<1>9. ASSUME NEW r \in Requests, UpdateWrite(r)
      PROVE  Kept'
  BY <1>9 DEF UpdateWrite, Done, To
<1>10. ASSUME NEW r \in Requests, UpdateFails(r)
      PROVE  Kept'
  BY <1>10 DEF UpdateFails, Done, To
<1>11. ASSUME NEW r \in Requests, DeleteCount(r)
      PROVE  Kept'
  BY <1>11 DEF DeleteCount, Done, To
<1>12. ASSUME NEW r \in Requests, DeleteRow(r)
      PROVE  Kept'
  BY <1>12 DEF DeleteRow, Done, To, Referenced
<1>13. ASSUME NEW r \in Requests, NEW c \in Configs, DefaultFetch(r, c)
      PROVE  Kept'
  BY <1>13 DEF DefaultFetch, Begin, To
<1>14. ASSUME NEW r \in Requests, NEW c \in Configs, DeleteFetch(r, c)
      PROVE  Kept'
  BY <1>14 DEF DeleteFetch, Begin, To
<1>15. ASSUME NEW r \in Requests, NEW c \in Configs, NEW l \in {"rename", "write"},
             NEW k \in BOOLEAN, NEW q \in Repos, UpdateFetch(r, c, l, k, q)
      PROVE  Kept'
  BY <1>15 DEF UpdateFetch, Begin, To, Merged
<1>16. ASSUME NEW r \in Requests, RemoveFile(r)
      PROVE  Kept'
  BY <1>16 DEF RemoveFile, Deleted, Fault, To
<1>17. ASSUME NEW r \in Requests, RemoveRow(r)
      PROVE  Kept'
  BY <1>17 DEF RemoveRow, Done, To
<1>18. ASSUME NEW r \in Requests, RequestStops(r)
      PROVE  Kept'
  BY <1>18 DEF RequestStops, Fault, Done, To
<1>19. ASSUME NEW r \in Requests, NEW i \in Images, RemoveFetch(r, i)
      PROVE  Kept'
  BY <1>19 DEF RemoveFetch, Begin, To
<1>20. ASSUME NEW i \in Images, NEW c \in Configs, UploadResolve(i, c)
      PROVE  Kept'
  <2>1. up[i] = "none" /\ job[i] = "none" /\ cfg[c] = "live"
    BY <1>20 DEF UploadResolve
  <2>2. /\ up' = [up EXCEPT ![i] = "resolved"] /\ at' = [at EXCEPT ![i] = c]
        /\ snap' = [snap EXCEPT ![i] = repo[c]]
        /\ UNCHANGED <<cfg, repo, router, file, job, jat, made, pc, target, edited, risk,
                       removed, missed, refused, again>>
    BY <1>20 DEF UploadResolve
  <2>3. up'[i] = "resolved" /\ at'[i] = c /\ snap'[i] = repo[c]
    BY <2>2
  <2>4. \A j \in Images \ {i} : up'[j] = up[j] /\ at'[j] = at[j] /\ snap'[j] = snap[j]
    BY <2>2
  <2> QED
    BY <2>1, <2>2, <2>3, <2>4
<1>21. ASSUME NEW i \in Images, UploadPut(i)
      PROVE  Kept'
  BY <1>21 DEF UploadPut, Backend, Fault
<1>22. ASSUME NEW i \in Images, UploadInsert(i)
      PROVE  Kept'
  BY <1>22, SMTT(30) DEF UploadInsert, NameFits
<1>23. ASSUME NEW i \in Images, UploadStops(i)
      PROVE  Kept'
  BY <1>23 DEF UploadStops, Fault
<1>24. ASSUME NEW i \in Images, TwinInsert(i)
      PROVE  Kept'
  BY <1>24 DEF TwinInsert, Fault
<1>25. ASSUME NEW i \in Images, TwinRemove(i)
      PROVE  Kept'
  BY <1>25 DEF TwinRemove
<1>26. ASSUME NEW i \in Images, JobResolve(i)
      PROVE  Kept'
  BY <1>26 DEF JobResolve, Backend
<1>27. ASSUME NEW i \in Images, JobWrite(i)
      PROVE  Kept'
  BY <1>27 DEF JobWrite, Found
<1>28. ASSUME NEW i \in Images, JobPublish(i)
      PROVE  Kept'
  BY <1>28 DEF JobPublish
<1>29. ASSUME NEW i \in Images, JobAck(i)
      PROVE  Kept'
  BY <1>29 DEF JobAck
<1>30. ASSUME NEW i \in Images, JobStops(i)
      PROVE  Kept'
  BY <1>30 DEF JobStops, Fault
<1>31. ASSUME NEW i \in Images, JobFails(i)
      PROVE  Kept'
  BY <1>31 DEF JobFails, Found
<1>32. ASSUME NEW i \in Images, JobRefused(i)
      PROVE  Kept'
  BY <1>32 DEF JobRefused, Found, Taken
<1>33. ASSUME Restart
      PROVE  Kept'
  BY <1>33 DEF Restart, Fault, Claimed
<1>34. CASE UNCHANGED vars
  BY <1>34 DEF vars
<1>35. TypeOK
  OBVIOUS
<1> HIDE DEF Kept, TypeOK, TargetsKnown, ReposKnown, ImagesKnown
<1> QED
  BY <1>1, <1>2, <1>3, <1>4, <1>5, <1>6, <1>7, <1>8, <1>9, <1>10, <1>11, <1>12, <1>13,
     <1>14, <1>15, <1>16, <1>17, <1>18, <1>19, <1>20, <1>21, <1>22, <1>23, <1>24,
     <1>25, <1>26, <1>27, <1>28, <1>29, <1>30, <1>31, <1>32, <1>33, <1>34, <1>35, NextSteps DEF ConfigStep, ImageStep

\* The embedded worker misses the source of an image nobody deletes only after a
\* restart and an edit of its config; Git refuses it a variant only after a second
\* delivery.
THEOREM AttemptsAccountedCorrect == Spec => []AttemptsAccounted
<1>1. Spec => []WorkInv
  BY InitWork, NextWork, PTL DEF Spec
<1>2. WorkInv => AttemptsAccounted
  BY DEF WorkInv
<1> QED
  BY <1>1, <1>2, PTL
=============================================================================
