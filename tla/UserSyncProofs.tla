--------------------------- MODULE UserSyncProofs ---------------------------
(***************************************************************************)
(* Proofs about ProtoCache, for every number of objects, saves and users:  *)
(* type correctness and the order of the two files on disk; and about      *)
(* UserSync, for every number of users, changes, processes and fetches:    *)
(* type correctness, and that a sync token is stored only after the        *)
(* changes before it have been handed to the handlers.                     *)
(***************************************************************************)
EXTENDS UserSync, WellFoundedInduction, TLAPS

(* ProtoCache.                                                             *)

(* Users data on disk that was written by object c.                        *)
OwnsUsers(c) == usersFile.kind = "data" /\ usersFile.owner = c

OwnsInfo(c) == infoFile.kind = "data" /\ infoFile.owner = c

(***************************************************************************)
(* What makes the order of the files inductive: while an object saves, the *)
(* files it owns are on the right side of the save it is in.               *)
(***************************************************************************)
SaverInv(c) ==
    /\ saver[c].pc # "sleep" => cache[c].phase = "open"
    /\ saver[c].save <= saves
    /\ saver[c].pc = "users_writing" => (cache[c].users # NoUsers /\ ~OwnsUsers(c))
    /\ (saver[c].pc \in {"info", "info_writing"} /\ OwnsUsers(c))
          => saver[c].save <= usersFile.save
    /\ (saver[c].pc # "sleep" /\ OwnsInfo(c)) => infoFile.save <= saver[c].save
    /\ OwnsUsers(c) => \/ cache[c].phase = "dropped"
                       \/ cache[c].phase = "open" /\ cache[c].users # NoUsers
    /\ c > created => cache[c].phase = "unused"

(* The removals of the directory are counted by objects created after it.  *)
CountInv == dir <= created

OrderInv ==
    /\ infoFile.save <= saves
    /\ usersFile.save <= saves
    /\ usersFile.kind = "data" => usersFile.owner \in Caches
    /\ \A c \in Caches : SaverInv(c)
    /\ InfoNotAheadOfUsers

IInv == TypeOK /\ CountInv /\ OrderInv

-----------------------------------------------------------------------------
(* Types: the records the model is built from.                             *)

(* The defaults of an empty cache are well typed.                          *)
LEMMA DefaultTypes ==
    /\ DefaultInfo \in Info
    /\ NoUsers \in CachedUsers
    /\ IdleSaver \in SaverState
    /\ MissingFile(DefaultInfo) \in InfoFile
    /\ MissingFile(NoUsers) \in UsersFile
<1>1. DefaultInfo \in Info /\ NoUsers \in CachedUsers
    BY DEF DefaultInfo, Info, NoUsers, CachedUsers
<1> QED
    BY <1>1, ProtoCacheAssumption
    DEF IdleSaver, SaverState, MissingFile, InfoFile, UsersFile, FileKind

(* Opening a file for writing leaves a file.                               *)
LEMMA TruncatedTypes ==
    ASSUME NEW c \in Caches
    PROVE  /\ \A f \in InfoFile : Truncated(f, c) \in InfoFile
           /\ \A f \in UsersFile : Truncated(f, c) \in UsersFile
<1>1. c \in 0 .. MaxCaches
    BY ProtoCacheAssumption DEF Caches
<1>2. ASSUME NEW f \in InfoFile PROVE Truncated(f, c) \in InfoFile
    BY <1>1 DEF Truncated, InfoFile, FileKind
<1>3. ASSUME NEW f \in UsersFile PROVE Truncated(f, c) \in UsersFile
    BY <1>1 DEF Truncated, UsersFile, FileKind
<1> QED
    BY <1>2, <1>3

(* So does the end of a write, whichever of its outcomes it has.           *)
LEMMA WriteTypes ==
    ASSUME NEW c \in Caches, saver[c].save \in 0 .. MaxSaves
    PROVE  /\ \A f \in InfoFile, d \in Info : WriteOutcomes(f, c, d) \subseteq InfoFile
           /\ \A f \in UsersFile, d \in CachedUsers :
                WriteOutcomes(f, c, d) \subseteq UsersFile
BY DEF WriteOutcomes, Torn, InfoFile, UsersFile, FileKind, Caches

(* A new object is well typed, and is the next one.                        *)
LEMMA BeginNewTypes ==
    ASSUME TypeOK, NEW d \in 0 .. MaxCaches, BeginNew(d)
    PROVE  /\ created + 1 \in Caches
           /\ created' \in 0 .. MaxCaches
           /\ cache' \in [Caches -> CacheState]
<1>1. created + 1 \in Caches
    BY ProtoCacheAssumption DEF BeginNew, TypeOK, Caches
<1> QED
    BY <1>1 DEF BeginNew, TypeOK, CacheState, Caches

-----------------------------------------------------------------------------
(* Types: the actions.                                                     *)

(* The initial state is well typed.                                        *)
LEMMA TypeInit == Init => TypeOK /\ CountInv
BY DefaultTypes, ProtoCacheAssumption
DEF Init, CacheInit, TypeOK, CountInv, Caches, CacheState

(* The life of an object and of the process keep the types.                *)
LEMMA LifeTypes ==
    ASSUME TypeOK, CountInv, Start \/ InitializeFails \/ Reset \/ Crash
    PROVE  TypeOK' /\ CountInv'
<1>1. CASE Start
    <2>1. BeginNew(dir) /\ UNCHANGED <<saver, infoFile, usersFile, current, saves, dir>>
        BY <1>1 DEF Start
    <2>2. created' = created + 1
        BY <2>1 DEF BeginNew
    <2> QED
        BY <2>1, <2>2, BeginNewTypes DEF TypeOK, CountInv
<1>2. CASE InitializeFails
    BY <1>2, ProtoCacheAssumption DEF InitializeFails, TypeOK, CountInv
<1>3. CASE Reset
    <2>1. BeginNew(dir + 1) /\ dir' = dir + 1
        BY <1>3 DEF Reset
    <2>2. created' = created + 1 /\ created < MaxCaches
        BY <2>1 DEF BeginNew
    <2>3. dir + 1 \in 0 .. MaxCaches
        BY <2>2, ProtoCacheAssumption DEF TypeOK, CountInv
    <2>4. created' \in 0 .. MaxCaches /\ cache' \in [Caches -> CacheState]
        BY <2>1, <2>3, BeginNewTypes
    <2>5. /\ infoFile' \in InfoFile
          /\ usersFile' \in UsersFile
          /\ UNCHANGED <<saver, current, saves>>
        BY <1>3, DefaultTypes DEF Reset
    <2> QED
        BY <2>1, <2>2, <2>3, <2>4, <2>5 DEF TypeOK, CountInv
<1>4. CASE Crash
    <2>1. saver' \in [Caches -> SaverState]
        BY <1>4, DefaultTypes DEF Crash
    <2>2. ASSUME NEW c \in Caches
          PROVE  [cache[c] EXCEPT !.phase = "dropped", !.info = DefaultInfo,
                                  !.users = NoUsers] \in CacheState
        BY DefaultTypes DEF TypeOK, CacheState
    <2>3. cache' \in [Caches -> CacheState]
        BY <1>4, <2>2 DEF Crash, TypeOK
    <2>4. current' = 0 /\ UNCHANGED <<infoFile, usersFile, created, saves, dir>>
        BY <1>4 DEF Crash
    <2> QED
        BY <2>1, <2>3, <2>4, ProtoCacheAssumption DEF TypeOK, CountInv
<1> QED
    BY <1>1, <1>2, <1>3, <1>4

(* Reading the files keeps the types.                                      *)
LEMMA ReadTypes ==
    ASSUME TypeOK, CountInv, NEW c \in Caches, ReadInfo(c) \/ ReadUsers(c)
    PROVE  TypeOK' /\ CountInv'
<1>1. CASE ReadInfo(c)
    BY <1>1 DEF ReadInfo, TypeOK, CountInv, CacheState, InfoFile
<1>2. CASE ReadUsers(c)
    <2>1. usersFile.data \in CachedUsers
        BY DEF TypeOK, UsersFile
    <2>2. cache' \in [Caches -> CacheState]
        BY <1>2, <2>1 DEF ReadUsers, TypeOK, CacheState
    <2> QED
        BY <1>2, <2>2 DEF ReadUsers, TypeOK, CountInv, Caches
<1> QED
    BY <1>1, <1>2

(* The calls of the rest of the program keep the types.                    *)
LEMMA CallTypes ==
    ASSUME TypeOK, CountInv, Calls
    PROVE  TypeOK' /\ CountInv'
<1>1. ASSUME NEW c \in Caches, NEW t \in Tokens, set_sync_token(c, t)
      PROVE  TypeOK' /\ CountInv'
    BY <1>1 DEF set_sync_token, TypeOK, CountInv, CacheState, Info
<1>2. ASSUME NEW c \in Caches, NEW s \in Statuses, set_user_status(c, s)
      PROVE  TypeOK' /\ CountInv'
    BY <1>2 DEF set_user_status, TypeOK, CountInv, CacheState, Info
<1>3. ASSUME NEW c \in Caches, NEW u \in Users, NEW v \in Versions, cache_user(c, u, v)
      PROVE  TypeOK' /\ CountInv'
    BY <1>3 DEF cache_user, TypeOK, CountInv, CacheState, CachedUsers
<1>4. ASSUME NEW c \in Caches, NEW u \in Users, NEW v \in Versions, update_user(c, u, v)
      PROVE  TypeOK' /\ CountInv'
    BY <1>4 DEF update_user, TypeOK, CountInv, CacheState, CachedUsers
<1>5. current # 0 => current \in Caches
    BY DEF TypeOK, Caches
<1> QED
    BY <1>1, <1>2, <1>3, <1>4, <1>5 DEF Calls

(* The save task keeps the types.                                          *)
LEMMA SaveTypes ==
    ASSUME TypeOK, CountInv, NEW c \in Caches, SaveStep(c)
    PROVE  TypeOK' /\ CountInv'
<1>1. CASE BeginWriteUsers(c)
    <2>1. saves' = saves + 1 /\ saves' \in 0 .. MaxSaves
        BY <1>1, ProtoCacheAssumption DEF BeginWriteUsers, TypeOK
    <2>2. cache[c].users \in CachedUsers
        BY DEF TypeOK, CacheState
    <2>3. saver' \in [Caches -> SaverState]
        <3>1. CASE saver' = [saver EXCEPT ![c].pc = "info", ![c].save = saves + 1]
            BY <2>1, <3>1 DEF TypeOK, SaverState
        <3>2. CASE saver' = [saver EXCEPT ![c].pc = "users_writing",
                                          ![c].save = saves + 1,
                                          ![c].users = cache[c].users,
                                          ![c].dir = dir]
            <4> DEFINE new == [saver[c] EXCEPT !.pc = "users_writing", !.save = saves + 1,
                                               !.users = cache[c].users, !.dir = dir]
            <4>1. new \in SaverState
                BY <2>1, <2>2 DEF TypeOK, SaverState
            <4>2. saver' = [saver EXCEPT ![c] = new]
                BY <3>2
            <4> QED
                BY <4>1, <4>2 DEF TypeOK
        <3> QED
            BY <1>1, <3>1, <3>2 DEF BeginWriteUsers
    <2>4. usersFile' \in UsersFile
        BY <1>1, TruncatedTypes DEF BeginWriteUsers, TypeOK
    <2> QED
        BY <1>1, <2>1, <2>3, <2>4 DEF BeginWriteUsers, TypeOK, CountInv
<1>2. CASE FailOpenUsers(c)
    BY <1>2, ProtoCacheAssumption DEF FailOpenUsers, TypeOK, CountInv
<1>3. CASE EndWriteUsers(c)
    <2>1. saver[c].save \in 0 .. MaxSaves /\ saver[c].users \in CachedUsers
        BY DEF TypeOK, SaverState
    <2>2. saver' \in [Caches -> SaverState]
        BY <1>3 DEF EndWriteUsers, TypeOK, SaverState
    <2>3. usersFile' \in UsersFile
        BY <1>3, <2>1, WriteTypes DEF EndWriteUsers, TypeOK
    <2> QED
        BY <1>3, <2>2, <2>3 DEF EndWriteUsers, TypeOK, CountInv
<1>4. CASE FailWriteUsers(c)
    <2>1. usersFile' \in UsersFile
        BY <1>4 DEF FailWriteUsers, Torn, TypeOK, UsersFile, FileKind
    <2> QED
        BY <1>4, <2>1 DEF FailWriteUsers, TypeOK, CountInv, SaverState
<1>5. CASE BeginWriteInfo(c)
    <2> DEFINE new == [saver[c] EXCEPT !.pc = "info_writing", !.info = cache[c].info,
                                       !.dir = dir]
    <2>1. new \in SaverState
        BY DEF TypeOK, CacheState, SaverState
    <2>2. saver' = [saver EXCEPT ![c] = new]
        BY <1>5 DEF BeginWriteInfo
    <2>3. saver' \in [Caches -> SaverState]
        BY <2>1, <2>2 DEF TypeOK
    <2>4. infoFile' \in InfoFile
        BY <1>5, TruncatedTypes DEF BeginWriteInfo, TypeOK
    <2> QED
        BY <1>5, <2>3, <2>4 DEF BeginWriteInfo, TypeOK, CountInv
<1>6. CASE FailOpenInfo(c)
    BY <1>6 DEF FailOpenInfo, TypeOK, CountInv, SaverState
<1>7. CASE EndWriteInfo(c)
    <2>1. saver[c].save \in 0 .. MaxSaves /\ saver[c].info \in Info
        BY DEF TypeOK, SaverState
    <2>2. saver' \in [Caches -> SaverState]
        BY <1>7 DEF EndWriteInfo, TypeOK, SaverState
    <2>3. infoFile' \in InfoFile
        BY <1>7, <2>1, WriteTypes DEF EndWriteInfo, TypeOK
    <2> QED
        BY <1>7, <2>2, <2>3 DEF EndWriteInfo, TypeOK, CountInv
<1>8. CASE FailWriteInfo(c)
    <2>1. infoFile' \in InfoFile
        BY <1>8 DEF FailWriteInfo, Torn, TypeOK, InfoFile, FileKind
    <2> QED
        BY <1>8, <2>1 DEF FailWriteInfo, TypeOK, CountInv, SaverState
<1> QED
    BY <1>1, <1>2, <1>3, <1>4, <1>5, <1>6, <1>7, <1>8 DEF SaveStep

(* Every step keeps the types.                                             *)
LEMMA TypeStep == TypeOK /\ CountInv /\ [Next]_cacheVars => TypeOK' /\ CountInv'
<1> SUFFICES ASSUME TypeOK, CountInv, [Next]_cacheVars
             PROVE  TypeOK' /\ CountInv'
    OBVIOUS
<1>1. CASE UNCHANGED cacheVars
    BY <1>1 DEF cacheVars, TypeOK, CountInv
<1> QED
    BY <1>1, LifeTypes, ReadTypes, CallTypes, SaveTypes DEF Next

(***************************************************************************)
(* Type correctness of ProtoCache, for all sets of users, versions and     *)
(* tokens and all bounds.                                                  *)
(***************************************************************************)
THEOREM TypeCorrect == Spec => []TypeOK
BY TypeInit, TypeStep, PTL DEF Spec

-----------------------------------------------------------------------------
(* The order of the files.                                                 *)

(* It holds initially: nothing is on disk.                                 *)
LEMMA OrderInit == Init => OrderInv
BY ProtoCacheAssumption
DEF Init, CacheInit, OrderInv, SaverInv, OwnsUsers, OwnsInfo, InfoNotAheadOfUsers,
    IdleSaver, MissingFile, Caches

(* The life of an object and of the process keep the order.                *)
LEMMA LifeOrder ==
    ASSUME IInv, Start \/ InitializeFails \/ Reset \/ Crash
    PROVE  OrderInv'
<1>1. CASE Start
    <2>1. /\ UNCHANGED <<saver, infoFile, usersFile, saves>>
          /\ created' = created + 1
          /\ created + 1 \in Caches
          /\ \A c \in Caches \ {created + 1} : cache'[c] = cache[c]
        BY <1>1, BeginNewTypes DEF Start, BeginNew, IInv, TypeOK
    <2> QED
        BY <2>1
        DEF IInv, TypeOK, OrderInv, SaverInv, OwnsUsers, OwnsInfo, InfoNotAheadOfUsers,
            Caches
<1>2. CASE InitializeFails
    BY <1>2
    DEF InitializeFails, IInv, OrderInv, SaverInv, OwnsUsers, OwnsInfo,
        InfoNotAheadOfUsers
<1>3. CASE Reset
    <2>1. /\ UNCHANGED <<saver, saves>>
          /\ infoFile'.kind = "missing" /\ infoFile'.save = 0
          /\ usersFile'.kind = "missing" /\ usersFile'.save = 0
          /\ created' = created + 1
        BY <1>3 DEF Reset, BeginNew, MissingFile
    <2>2. dir + 1 \in 0 .. MaxCaches
        BY <1>3, ProtoCacheAssumption DEF Reset, BeginNew, IInv, TypeOK, CountInv
    <2>3. /\ created + 1 \in Caches
          /\ \A c \in Caches \ {created + 1} : cache'[c] = cache[c]
        BY <1>3, <2>2, BeginNewTypes DEF Reset, BeginNew, IInv, TypeOK
    <2> QED
        BY <2>1, <2>3
        DEF IInv, TypeOK, OrderInv, SaverInv, OwnsUsers, OwnsInfo, InfoNotAheadOfUsers,
            Caches
<1>4. CASE Crash
    <2>1. /\ UNCHANGED <<infoFile, usersFile, saves, created>>
          /\ \A c \in Caches : saver'[c].pc = "sleep" /\ saver'[c].save = 0
        BY <1>4 DEF Crash, IdleSaver
    <2>2. \A c \in Caches :
             IF cache[c].phase = "unused" THEN cache'[c].phase = "unused"
                                          ELSE cache'[c].phase = "dropped"
        BY <1>4 DEF Crash, IInv, TypeOK, CacheState
    <2> QED
        BY <2>1, <2>2
        DEF IInv, TypeOK, OrderInv, SaverInv, OwnsUsers, OwnsInfo, InfoNotAheadOfUsers
<1> QED
    BY <1>1, <1>2, <1>3, <1>4

(* Reading the files keeps the order.                                      *)
LEMMA ReadOrder ==
    ASSUME IInv, NEW c \in Caches, ReadInfo(c) \/ ReadUsers(c)
    PROVE  OrderInv'
<1>1. /\ UNCHANGED <<saver, infoFile, usersFile, saves, created>>
      /\ \A d \in Caches \ {c} : cache'[d] = cache[d]
      /\ cache[c].phase \in {"reading_info", "reading_users"}
      /\ cache'[c].phase \in {"reading_users", "open"}
    BY DEF ReadInfo, ReadUsers, IInv, TypeOK, CacheState
<1> QED
    BY <1>1 DEF IInv, OrderInv, SaverInv, OwnsUsers, OwnsInfo, InfoNotAheadOfUsers

(* A call leaves phases and files alone, and a cached user stays cached.   *)
OnlyData ==
    /\ UNCHANGED <<saver, infoFile, usersFile, saves, created>>
    /\ \A c \in Caches : cache'[c].phase = cache[c].phase
    /\ \A c \in Caches : cache[c].users # NoUsers => cache'[c].users # NoUsers

(* The calls of the rest of the program keep the order.                    *)
LEMMA CallOrder ==
    ASSUME IInv, Calls
    PROVE  OrderInv'
<1>1. ASSUME NEW c \in Caches, NEW t \in Tokens, set_sync_token(c, t)
      PROVE  OnlyData
    BY <1>1 DEF set_sync_token, OnlyData, IInv, TypeOK, CacheState
<1>2. ASSUME NEW c \in Caches, NEW s \in Statuses, set_user_status(c, s)
      PROVE  OnlyData
    BY <1>2 DEF set_user_status, OnlyData, IInv, TypeOK, CacheState
<1>3. ASSUME NEW c \in Caches, NEW u \in Users, NEW v \in Versions,
             cache_user(c, u, v) \/ update_user(c, u, v)
      PROVE  OnlyData
    <2>1. CASE cache' = [cache EXCEPT ![c].users[u] = v]
        <3>1. cache'[c].users[u] = v
            BY <2>1 DEF IInv, TypeOK, CacheState, CachedUsers
        <3>2. cache'[c].users # NoUsers
            BY <3>1, ProtoCacheAssumption DEF NoUsers
        <3> QED
            BY <1>3, <2>1, <3>2
            DEF cache_user, update_user, OnlyData, IInv, TypeOK, CacheState
    <2>2. CASE cache' = cache
        BY <1>3, <2>2 DEF cache_user, update_user, OnlyData
    <2> QED
        BY <1>3, <2>1, <2>2 DEF cache_user, update_user
<1>4. current # 0 => current \in Caches
    BY DEF IInv, TypeOK, Caches
<1>5. OnlyData
    BY <1>1, <1>2, <1>3, <1>4 DEF Calls
<1> QED
    BY <1>5
    DEF OnlyData, IInv, OrderInv, SaverInv, OwnsUsers, OwnsInfo, InfoNotAheadOfUsers

(* What a step of the save task of c leaves alone.                         *)
OnlySaver(c) ==
    /\ UNCHANGED <<cache, created>>
    /\ \A d \in Caches \ {c} : saver'[d] = saver[d]

(* The save task keeps the order.                                          *)
LEMMA SaveOrder ==
    ASSUME IInv, NEW c \in Caches, SaveStep(c)
    PROVE  OrderInv'
<1> USE DEF IInv, OrderInv, SaverInv, OwnsUsers, OwnsInfo, InfoNotAheadOfUsers, OnlySaver
<1>1. CASE BeginWriteUsers(c)
    <2>1. /\ OnlySaver(c) /\ UNCHANGED infoFile
          /\ saves' = saves + 1
          /\ saver'[c].save = saves + 1
          /\ \/ /\ cache[c].users = NoUsers
                /\ saver'[c].pc = "info"
                /\ UNCHANGED usersFile
             \/ /\ cache[c].users # NoUsers
                /\ saver'[c].pc = "users_writing"
                /\ usersFile'.kind = "empty" /\ usersFile'.save = usersFile.save
          /\ cache[c].phase = "open"
        BY <1>1 DEF BeginWriteUsers, Truncated, TypeOK, SaverState, UsersFile
    <2>2. saves \in Nat /\ infoFile.save \in Nat /\ usersFile.save \in Nat
          /\ \A d \in Caches : saver[d].save \in Nat
        BY DEF TypeOK, InfoFile, UsersFile, SaverState
    <2> QED
        BY <2>1, <2>2
<1>2. CASE FailOpenUsers(c)
    <2>1. saves \in Nat /\ infoFile.save \in Nat /\ usersFile.save \in Nat
          /\ \A d \in Caches : saver[d].save \in Nat
        BY DEF TypeOK, InfoFile, UsersFile, SaverState
    <2> QED
        BY <1>2, <2>1 DEF FailOpenUsers
<1>3. CASE EndWriteUsers(c)
    <2>1. /\ OnlySaver(c) /\ UNCHANGED <<infoFile, saves>>
          /\ saver[c].pc = "users_writing"
          /\ saver'[c].pc = "info" /\ saver'[c].save = saver[c].save
        BY <1>3 DEF EndWriteUsers, TypeOK, SaverState
    <2>2. \/ usersFile' = usersFile
          \/ usersFile'.kind = "torn" /\ usersFile'.save = usersFile.save
          \/ usersFile'.kind = "data" /\ usersFile'.owner = c
             /\ usersFile'.save = saver[c].save
        BY <1>3 DEF EndWriteUsers, WriteOutcomes, Torn, TypeOK, UsersFile
    <2>3. saver[c].save \in Nat
        BY DEF TypeOK, SaverState
    <2> QED
        BY <2>1, <2>2, <2>3
<1>4. CASE EndWriteInfo(c)
    <2>1. /\ OnlySaver(c) /\ UNCHANGED <<usersFile, saves>>
          /\ saver[c].pc = "info_writing"
          /\ saver'[c].pc = "sleep" /\ saver'[c].save = saver[c].save
        BY <1>4 DEF EndWriteInfo, TypeOK, SaverState
    <2>2. \/ infoFile' = infoFile
          \/ infoFile'.kind = "torn" /\ infoFile'.save = infoFile.save
          \/ infoFile'.kind = "data" /\ infoFile'.owner = c
             /\ infoFile'.save = saver[c].save
        BY <1>4 DEF EndWriteInfo, WriteOutcomes, Torn, TypeOK, InfoFile
    <2> QED
        BY <2>1, <2>2
<1>5. CASE BeginWriteInfo(c)
    <2>1. /\ OnlySaver(c) /\ UNCHANGED <<usersFile, saves>>
          /\ saver[c].pc = "info"
          /\ saver'[c].pc = "info_writing" /\ saver'[c].save = saver[c].save
          /\ infoFile'.kind = "empty" /\ infoFile'.save = infoFile.save
        BY <1>5 DEF BeginWriteInfo, Truncated, TypeOK, SaverState, InfoFile
    <2> QED
        BY <2>1
<1>6. CASE FailWriteUsers(c) \/ FailOpenInfo(c) \/ FailWriteInfo(c)
    <2>1. /\ OnlySaver(c) /\ UNCHANGED saves
          /\ saver'[c].pc = "sleep" /\ saver'[c].save = saver[c].save
        BY <1>6 DEF FailWriteUsers, FailOpenInfo, FailWriteInfo, TypeOK, SaverState
    <2>2. \/ usersFile' = usersFile
          \/ usersFile'.kind = "torn" /\ usersFile'.save = usersFile.save
        BY <1>6
        DEF FailWriteUsers, FailOpenInfo, FailWriteInfo, Torn, TypeOK, UsersFile
    <2>3. \/ infoFile' = infoFile
          \/ infoFile'.kind = "torn" /\ infoFile'.save = infoFile.save
        BY <1>6 DEF FailWriteUsers, FailOpenInfo, FailWriteInfo, Torn, TypeOK, InfoFile
    <2> QED
        BY <2>1, <2>2, <2>3
<1> QED
    BY <1>1, <1>2, <1>3, <1>4, <1>5, <1>6 DEF SaveStep

(***************************************************************************)
(* The users file is never from an earlier save than the info file of the  *)
(* same object (save() in proto_cache.rs), for any number of objects that  *)
(* save into the directory, saves, failures and crashes.                   *)
(***************************************************************************)
THEOREM SaveOrderCorrect == Spec => []InfoNotAheadOfUsers
<1>1. Init => IInv
    BY TypeInit, OrderInit DEF IInv
<1>2. IInv /\ [Next]_cacheVars => IInv'
    <2> SUFFICES ASSUME IInv, [Next]_cacheVars
                 PROVE  IInv'
        OBVIOUS
    <2>1. TypeOK' /\ CountInv'
        BY TypeStep DEF IInv
    <2>2. ASSUME UNCHANGED cacheVars PROVE OrderInv'
        BY <2>2 DEF cacheVars, IInv, OrderInv, SaverInv, OwnsUsers, OwnsInfo,
                    InfoNotAheadOfUsers
    <2>3. OrderInv'
        BY <2>2, LifeOrder, ReadOrder, CallOrder, SaveOrder DEF Next, IInv
    <2> QED
        BY <2>1, <2>3 DEF IInv
<1>3. IInv => InfoNotAheadOfUsers
    BY DEF IInv, OrderInv
<1> QED
    BY <1>1, <1>2, <1>3, PTL DEF Spec

-----------------------------------------------------------------------------
(* UserSync.                                                               *)

(***************************************************************************)
(* What the types of the pipeline rest on: a queued change and the end of  *)
(* a response are positions of the log, a running fetch has a user, and    *)
(* an initialized client has a session.                                    *)
(***************************************************************************)
PipeInv ==
    /\ SyncTypeOK
    /\ CountInv
    /\ \A c \in Caches : /\ \A k \in 1 .. Len(channel[c]) : channel[c][k] \in 1 .. Len(log)
                         /\ sync[c].end <= Len(log)
    /\ \A f \in Fetchers : fetch[f].pc # "idle" => fetch[f].user \in Users
    /\ initialized => current # 0

(* A token that points behind no change that was not handed over.          *)
Reached(info) == info.sync_token # Nothing => info.sync_token <= handed

(***************************************************************************)
(* What makes TokenOnlyAfterHandlers inductive: the token a save has       *)
(* encoded and the token in a file that is being rewritten are covered     *)
(* too, and so is every change the response in progress has gone through.  *)
(***************************************************************************)
StoredInv ==
    /\ \A c \in Caches : Reached(cache[c].info) /\ Reached(saver[c].info)
    /\ Reached(infoFile.data)

LoopInv ==
    /\ handed <= Len(log)
    /\ \A c \in Caches : sync[c].pc = "processing" => sync[c].next <= handed

TokenInv == PipeInv /\ StoredInv /\ LoopInv

-----------------------------------------------------------------------------
(* Positions of the log.                                                   *)

(* A nonempty set of naturals has a least element.                         *)
LEMMA LeastNatural ==
    ASSUME NEW S \in SUBSET Nat, S # {}
    PROVE  \E x \in S : \A y \in S : x <= y
<1> DEFINE R == OpToRel(<, Nat)
<1>1. IsWellFoundedOn(R, Nat)
    BY NatLessThanWellFounded, Zenon
<1>2. \A x, y \in Nat : x < y => <<x, y>> \in R
    BY Zenon DEF OpToRel
<1> HIDE DEF R
<1>3. PICK x \in S : \A y \in S : <<y, x>> \notin R
    BY <1>1, WFMin
<1>4. ASSUME NEW y \in S PROVE x <= y
    <2>1. x \in Nat /\ y \in Nat
        OBVIOUS
    <2>2. ~ (y < x)
        BY <1>2, <1>3, <2>1
    <2> QED
        BY <2>1, <2>2
<1> QED
    BY <1>4

(* A nonempty set of positions up to p has a last one.                     *)
LEMMA LastPosition ==
    ASSUME NEW p \in Nat, NEW S \in SUBSET (1 .. p), S # {}
    PROVE  \E i \in S : \A j \in S : j <= i
<1> DEFINE T == {x \in 0 .. p : p - x \in S}
<1>1. PICK s \in S : TRUE
    OBVIOUS
<1>2. p - s \in T
    BY <1>1
<1>3. T \in SUBSET Nat
    OBVIOUS
<1>4. PICK x \in T : \A y \in T : x <= y
    BY <1>2, <1>3, LeastNatural
<1>5. ASSUME NEW j \in S PROVE j <= p - x
    <2>1. p - j \in T
        OBVIOUS
    <2>2. x <= p - j
        BY <1>4, <2>1
    <2> QED
        BY <2>2
<1> QED
    BY <1>4, <1>5

(* The version of a user is 0 or the position of the change it is from.    *)
LEMMA VersionType ==
    ASSUME log \in Seq(Users), NEW u, NEW p \in 0 .. Len(log)
    PROVE  VersionAt(u, p) \in 0 .. p
<1> DEFINE S == {i \in 1 .. p : log[i] = u}
<1>0. p \in Nat
    OBVIOUS
<1>1. CASE \E i \in 1 .. p : log[i] = u
    <2>1. S \in SUBSET (1 .. p) /\ S # {}
        BY <1>1
    <2>2. PICK i \in S : \A j \in S : j <= i
        BY <1>0, <2>1, LastPosition
    <2>3. \A j \in i + 1 .. p : log[j] # u
        <3>1. SUFFICES ASSUME NEW j \in i + 1 .. p, log[j] = u PROVE FALSE
            OBVIOUS
        <3>2. j \in S
            BY <1>0, <3>1
        <3> QED
            BY <2>2, <3>2
    <2>4. \E k \in 1 .. p : log[k] = u /\ \A j \in k + 1 .. p : log[j] # u
        BY <2>2, <2>3
    <2>5. VersionAt(u, p) = CHOOSE k \in 1 .. p : log[k] = u /\ \A j \in k + 1 .. p : log[j] # u
        BY <1>1 DEF VersionAt
    <2>6. VersionAt(u, p) \in 1 .. p
        BY <2>4, <2>5, Zenon
    <2> QED
        BY <1>0, <2>6
<1>2. CASE ~ \E i \in 1 .. p : log[i] = u
    BY <1>0, <1>2 DEF VersionAt
<1> QED
    BY <1>1, <1>2

-----------------------------------------------------------------------------
(* Types: the pieces.                                                      *)

(* Tokens are numbers, and Nothing is none of them.                        *)
LEMMA TokenFacts ==
    /\ Tokens = 0 .. MaxChanges
    /\ Versions = 0 .. MaxChanges
    /\ MaxChanges \in Nat
    /\ Nothing \notin Tokens
BY UserSyncAssumption, ProtoCacheAssumption

(* The defaults of the pipeline are well typed.                            *)
LEMMA DefaultSyncTypes == SyncOff \in SyncState /\ FetchIdle \in FetchState
BY TokenFacts DEF SyncOff, SyncState, FetchIdle, FetchState

(* The token sync_once sends is a position of the log.                     *)
LEMMA TokenOfType ==
    ASSUME TypeOK, NEW c \in Caches
    PROVE  /\ TokenOf(c) \in Tokens
           /\ cache[c].info.sync_token \in Tokens => TokenOf(c) = cache[c].info.sync_token
<1>1. cache[c].info.sync_token \in Tokens \cup {Nothing}
    BY DEF TypeOK, CacheState, Info
<1> QED
    BY <1>1, TokenFacts DEF TokenOf

(* What keeps the queue of responses.                                      *)
LEMMA RespondTypes ==
    ASSUME responses \in Seq(Response), NEW r \in Response, Respond(r)
    PROVE  responses' \in Seq(Response)
BY DEF Respond

(* The initial state.                                                      *)
LEMMA PipeInit == SyncInit => PipeInv
<1> SUFFICES ASSUME SyncInit PROVE PipeInv
    OBVIOUS
<1>1. TypeOK /\ CountInv
    BY TypeInit DEF SyncInit, Init
<1>2. log = <<>> /\ log \in Seq(Users) /\ Len(log) = 0
    BY DEF SyncInit
<1>3. /\ sync \in [Caches -> SyncState]
      /\ \A c \in Caches : sync[c].end <= Len(log)
    BY <1>2, DefaultSyncTypes DEF SyncInit, SyncOff
<1>4. /\ channel \in [Caches -> Seq(Tokens)]
      /\ \A c \in Caches : Len(channel[c]) = 0
    BY DEF SyncInit
<1>5. /\ fetch \in [Fetchers -> FetchState]
      /\ \A f \in Fetchers : fetch[f].pc = "idle"
    BY DefaultSyncTypes DEF SyncInit, FetchIdle
<1>6. /\ responses \in Seq(Response)
      /\ initialized = FALSE
      /\ view \in [Users -> Versions \cup {Nothing}]
      /\ handed \in Tokens
    BY TokenFacts DEF SyncInit
<1>7. Len(log) <= MaxChanges /\ \A c \in Caches : Len(channel[c]) <= ChannelCapacity
    BY <1>2, <1>4, UserSyncAssumption
<1>8. \A c \in Caches : \A k \in 1 .. Len(channel[c]) : channel[c][k] \in 1 .. Len(log)
    BY <1>4
<1> QED
    BY <1>1, <1>2, <1>3, <1>5, <1>4, <1>6, <1>7, <1>8 DEF PipeInv, SyncTypeOK

-----------------------------------------------------------------------------
(* Types: the actions.                                                     *)

(* Steps of the cache alone, and the start and end of the process.         *)
LEMMA ProcessPipe ==
    ASSUME PipeInv,
           \/ StartProcess
           \/ RestoreFails
           \/ EndProcess
           \/ InitializeDone
           \/ \E c \in Caches : OpenCache(c) \/ Save(c)
    PROVE  PipeInv'
<1> USE DEF PipeInv
<1>0. TypeOK /\ CountInv
    BY DEF SyncTypeOK
<1>1. CASE StartProcess
    <2>1. TypeOK' /\ CountInv'
        BY <1>0, <1>1, LifeTypes DEF StartProcess
    <2>2. current' = current /\ UNCHANGED pipeVars
        BY <1>1 DEF StartProcess, Start
    <2> QED
        BY <2>1, <2>2 DEF pipeVars, SyncTypeOK
<1>2. CASE RestoreFails
    <2>1. TypeOK' /\ CountInv'
        BY <1>0, <1>2, LifeTypes DEF RestoreFails
    <2>2. current \in Caches
        BY <1>0, <1>2 DEF RestoreFails, InitializeFails, TypeOK, Caches
    <2>3. sync' = [sync EXCEPT ![current] = SyncOff]
        BY <1>2 DEF RestoreFails
    <2>4. sync' \in [Caches -> SyncState]
        BY <2>2, <2>3, DefaultSyncTypes DEF SyncTypeOK
    <2>5. \A c \in Caches : sync'[c].end <= Len(log)
        <3>1. SyncOff.end <= Len(log)
            BY DEF SyncOff, SyncTypeOK
        <3> QED
            BY <2>2, <2>3, <3>1 DEF SyncTypeOK
    <2>6. ~initialized /\ UNCHANGED <<log, channel, responses, initialized, fetch, view, handed>>
        BY <1>2 DEF RestoreFails
    <2> QED
        BY <2>1, <2>4, <2>5, <2>6 DEF SyncTypeOK
<1>3. CASE EndProcess
    <2>1. TypeOK' /\ CountInv'
        BY <1>0, <1>3, LifeTypes DEF EndProcess
    <2>2. /\ sync' \in [Caches -> SyncState]
          /\ \A c \in Caches : sync'[c].end = 0
        BY <1>3, DefaultSyncTypes DEF EndProcess, SyncOff
    <2>3. /\ channel' \in [Caches -> Seq(Tokens)]
          /\ \A c \in Caches : Len(channel'[c]) = 0
        BY <1>3 DEF EndProcess
    <2>4. /\ fetch' \in [Fetchers -> FetchState]
          /\ \A f \in Fetchers : fetch'[f].pc = "idle"
        BY <1>3, DefaultSyncTypes DEF EndProcess, FetchIdle
    <2>5. /\ responses' \in Seq(Response)
          /\ initialized' = FALSE
          /\ view' \in [Users -> Versions \cup {Nothing}]
          /\ UNCHANGED <<log, handed>>
        BY <1>3 DEF EndProcess
    <2>6. \A c \in Caches : Len(channel'[c]) <= ChannelCapacity /\ sync'[c].end <= Len(log)
        BY <2>2, <2>3, UserSyncAssumption DEF SyncTypeOK
    <2>7. \A c \in Caches :
            \A k \in 1 .. Len(channel'[c]) : channel'[c][k] \in 1 .. Len(log')
        BY <2>3
    <2> QED
        BY <2>1, <2>2, <2>3, <2>4, <2>5, <2>6, <2>7 DEF SyncTypeOK
<1>4. CASE InitializeDone
    <2>1. TypeOK' /\ CountInv'
        BY <1>0, <1>4 DEF InitializeDone, cacheVars, TypeOK, CountInv
    <2>2. /\ current # 0 /\ current' = current /\ initialized' = TRUE
          /\ UNCHANGED <<log, sync, channel, responses, fetch, view, handed>>
        BY <1>4 DEF InitializeDone, cacheVars
    <2> QED
        BY <2>1, <2>2 DEF SyncTypeOK
<1>5. ASSUME NEW c \in Caches, OpenCache(c) \/ Save(c)
      PROVE  PipeInv'
    <2>1. TypeOK' /\ CountInv'
        BY <1>0, <1>5, ReadTypes, SaveTypes DEF OpenCache, Save
    <2>2. UNCHANGED pipeVars
        BY <1>5 DEF OpenCache, Save
    <2>3. current' = current \/ current' = c
        BY <1>5
        DEF OpenCache, ReadInfo, ReadUsers, Save, SaveStep, BeginWriteUsers, FailOpenUsers,
            EndWriteUsers, FailWriteUsers, BeginWriteInfo, FailOpenInfo, EndWriteInfo,
            FailWriteInfo
    <2>4. c # 0
        BY DEF Caches
    <2> QED
        BY <2>1, <2>2, <2>3, <2>4 DEF pipeVars, SyncTypeOK
<1> QED
    BY <1>1, <1>2, <1>3, <1>4, <1>5

(* A step that leaves the cache alone keeps its types.                     *)
LEMMA CacheUnchanged ==
    ASSUME PipeInv, UNCHANGED cacheVars
    PROVE  TypeOK' /\ CountInv' /\ current' = current
BY DEF PipeInv, SyncTypeOK, cacheVars, TypeOK, CountInv

(* The homeserver and the sync loop.                                       *)
LEMMA LoopPipe ==
    ASSUME PipeInv,
           \/ \E u \in Users : ServerChange(u)
           \/ \E c \in Caches : \/ BeginSync(c)
                                \/ SyncResponse(c)
                                \/ HandleChange(c)
                                \/ SyncDone(c)
    PROVE  PipeInv'
<1> USE DEF PipeInv
<1>0. TypeOK /\ CountInv /\ Len(log) \in Nat /\ Len(log) \in Tokens
    BY TokenFacts DEF SyncTypeOK
<1>1. ASSUME NEW u \in Users, ServerChange(u) PROVE PipeInv'
    <2>1. TypeOK' /\ CountInv' /\ current' = current
        BY <1>1, CacheUnchanged DEF ServerChange
    <2>2. /\ log' \in Seq(Users) /\ Len(log') = Len(log) + 1 /\ Len(log) < MaxChanges
          /\ UNCHANGED <<sync, channel, responses, initialized, fetch, view, handed>>
        BY <1>1 DEF ServerChange, SyncTypeOK
    <2>3. Len(log') <= MaxChanges /\ \A c \in Caches : sync[c].end <= Len(log')
        <3>1. \A c \in Caches : sync[c].end \in Nat
            BY TokenFacts DEF SyncTypeOK, SyncState
        <3> QED
            BY <1>0, <2>2, <3>1, TokenFacts
    <2>4. \A i \in 1 .. Len(log) : i \in 1 .. Len(log')
        BY <1>0, <2>2
    <2> QED
        BY <2>1, <2>2, <2>3, <2>4 DEF SyncTypeOK
<1>2. ASSUME NEW c \in Caches, BeginSync(c) PROVE PipeInv'
    <2>1. TypeOK' /\ CountInv' /\ current' = current
        BY <1>2, CacheUnchanged DEF BeginSync
    <2> DEFINE new == [SyncOff EXCEPT !.pc = "initial"]
    <2>2. new \in SyncState /\ new.end = 0
        <3>1. SyncOff \in SyncState /\ SyncOff.end = 0
            BY DefaultSyncTypes DEF SyncOff
        <3> QED
            BY <3>1 DEF SyncState
    <2>3. sync' = [sync EXCEPT ![c] = new]
        BY <1>2 DEF BeginSync
    <2> HIDE DEF new
    <2>4. /\ sync' \in [Caches -> SyncState]
          /\ \A d \in Caches : sync'[d].end <= Len(log)
        BY <1>0, <2>2, <2>3 DEF SyncTypeOK
    <2>5. UNCHANGED <<log, channel, responses, initialized, fetch, view, handed>>
        BY <1>2 DEF BeginSync
    <2> QED
        BY <2>1, <2>4, <2>5 DEF SyncTypeOK
<1>3. ASSUME NEW c \in Caches, SyncResponse(c) PROVE PipeInv'
    <2>1. TypeOK' /\ CountInv' /\ current' = current
        BY <1>3, CacheUnchanged DEF SyncResponse
    <2> DEFINE new == [sync[c] EXCEPT !.pc = "processing", !.next = TokenOf(c), !.end = Len(log)]
    <2>2. TokenOf(c) \in Tokens
        BY <1>0, TokenOfType
    <2>3. new \in SyncState /\ new.end = Len(log)
        BY <1>0, <2>2 DEF SyncTypeOK, SyncState
    <2>4. sync' = [sync EXCEPT ![c] = new]
        BY <1>3 DEF SyncResponse
    <2> HIDE DEF new
    <2>5. /\ sync' \in [Caches -> SyncState]
          /\ \A d \in Caches : sync'[d].end <= Len(log)
        BY <1>0, <2>3, <2>4 DEF SyncTypeOK
    <2>6. UNCHANGED <<log, channel, responses, initialized, fetch, view, handed>>
        BY <1>3 DEF SyncResponse
    <2> QED
        BY <2>1, <2>5, <2>6 DEF SyncTypeOK
<1>4. ASSUME NEW c \in Caches, HandleChange(c) PROVE PipeInv'
    <2> DEFINE i == sync[c].next + 1
    <2>1. TypeOK' /\ CountInv' /\ current' = current
        BY <1>4, CacheUnchanged DEF HandleChange
    <2>2. sync[c].next \in Tokens /\ sync[c].end \in Tokens /\ sync[c].next < sync[c].end
        BY <1>4 DEF HandleChange, SyncTypeOK, SyncState
    <2>3. i \in Tokens /\ i \in 1 .. Len(log)
        BY <1>0, <2>2, TokenFacts
    <2>4. /\ sync' = [sync EXCEPT ![c].next = i]
          /\ handed' \in {i, handed}
          /\ UNCHANGED <<log, responses, initialized, fetch, view>>
          /\ \/ /\ Len(channel[c]) < ChannelCapacity
                /\ channel' = [channel EXCEPT ![c] = Append(channel[c], i)]
             \/ channel' = channel
        BY <1>4 DEF HandleChange
    <2> HIDE DEF i
    <2>5. /\ sync' \in [Caches -> SyncState]
          /\ \A d \in Caches : sync'[d].end = sync[d].end
        BY <2>3, <2>4 DEF SyncTypeOK, SyncState
    <2>6. handed' \in Tokens
        BY <2>3, <2>4 DEF SyncTypeOK
    <2>7. CASE channel' = channel
        BY <2>1, <2>4, <2>5, <2>6, <2>7 DEF SyncTypeOK
    <2>8. CASE /\ Len(channel[c]) < ChannelCapacity
               /\ channel' = [channel EXCEPT ![c] = Append(channel[c], i)]
        <3>1. channel \in [Caches -> Seq(Tokens)] /\ channel[c] \in Seq(Tokens)
            BY DEF SyncTypeOK
        <3>2. /\ Append(channel[c], i) \in Seq(Tokens)
              /\ Len(Append(channel[c], i)) = Len(channel[c]) + 1
              /\ \A k \in 1 .. Len(channel[c]) + 1 :
                   Append(channel[c], i)[k] = IF k = Len(channel[c]) + 1 THEN i ELSE channel[c][k]
            BY <2>3, <3>1
        <3>3. \A k \in 1 .. Len(channel[c]) + 1 : Append(channel[c], i)[k] \in 1 .. Len(log)
            BY <2>3, <3>1, <3>2
        <3>4. /\ channel' \in [Caches -> Seq(Tokens)]
              /\ channel'[c] = Append(channel[c], i)
              /\ \A d \in Caches : d # c => channel'[d] = channel[d]
            BY <2>8, <3>1, <3>2
        <3>5. \A d \in Caches : Len(channel'[d]) <= ChannelCapacity
            BY <2>8, <3>1, <3>2, <3>4, UserSyncAssumption DEF SyncTypeOK
        <3>6. \A d \in Caches : \A k \in 1 .. Len(channel'[d]) : channel'[d][k] \in 1 .. Len(log)
            BY <3>2, <3>3, <3>4
        <3> QED
            BY <2>1, <2>4, <2>5, <2>6, <3>4, <3>5, <3>6 DEF SyncTypeOK
    <2> QED
        BY <2>4, <2>7, <2>8
<1>5. ASSUME NEW c \in Caches, SyncDone(c) PROVE PipeInv'
    <2>1. sync[c].end \in Tokens
        BY DEF SyncTypeOK, SyncState
    <2>2. set_sync_token(c, sync[c].end)
        BY <1>5 DEF SyncDone
    <2>3. TypeOK' /\ CountInv'
        BY <1>0, <2>1, <2>2, CallTypes DEF Calls
    <2>4. current' = current
        BY <2>2 DEF set_sync_token
    <2> DEFINE new == [sync[c] EXCEPT !.pc = "idle", !.handlers = TRUE]
    <2>5. new \in SyncState /\ new.end = sync[c].end
        BY DEF SyncTypeOK, SyncState
    <2>6. sync' = [sync EXCEPT ![c] = new]
        BY <1>5 DEF SyncDone
    <2> HIDE DEF new
    <2>7. /\ sync' \in [Caches -> SyncState]
          /\ \A d \in Caches : sync'[d].end <= Len(log)
        BY <2>5, <2>6 DEF SyncTypeOK
    <2>8. UNCHANGED <<log, channel, responses, initialized, fetch, view, handed>>
        BY <1>5 DEF SyncDone
    <2> QED
        BY <2>3, <2>4, <2>7, <2>8 DEF SyncTypeOK
<1> QED
    BY <1>1, <1>2, <1>3, <1>4, <1>5

(* The event executor, the responses and the fetches.                      *)
LEMMA ResponsePipe ==
    ASSUME PipeInv,
           \/ OnResponse
           \/ \E c \in Caches : ExecChange(c)
           \/ \E f \in Fetchers : \/ \E u \in Users : GetUser(f, u)
                                  \/ FetchOk(f)
                                  \/ FetchError(f)
                                  \/ FetchDone(f)
    PROVE  PipeInv'
<1> USE DEF PipeInv
<1>0. TypeOK /\ CountInv /\ Len(log) \in Nat /\ Len(log) <= MaxChanges
    BY DEF SyncTypeOK
<1>1. CASE OnResponse
    <2> DEFINE r == Head(responses)
    <2>1. r \in Response /\ responses' = Tail(responses) /\ responses' \in Seq(Response)
        BY <1>1 DEF OnResponse, SyncTypeOK
    <2>2. r.user \in Users /\ r.version \in Versions
        BY <2>1 DEF Response
    <2>3. /\ view' = [view EXCEPT ![r.user] =
                        IF r.kind = "UserResponse" \/ @ # Nothing THEN r.version ELSE @]
          /\ UNCHANGED <<log, sync, channel, initialized, fetch, handed>>
        BY <1>1 DEF OnResponse
    <2>4. \/ initialized /\ cache_user(current, r.user, r.version)
          \/ initialized /\ update_user(current, r.user, r.version)
          \/ UNCHANGED cacheVars
        BY <1>1 DEF OnResponse
    <2> HIDE DEF r
    <2>5. TypeOK' /\ CountInv' /\ current' = current
        <3>1. CASE UNCHANGED cacheVars
            BY <3>1, CacheUnchanged
        <3>2. CASE initialized /\ cache_user(current, r.user, r.version)
            <4>1. Calls
                BY <2>2, <3>2 DEF Calls
            <4>2. current' = current
                BY <3>2 DEF cache_user
            <4> QED
                BY <1>0, <4>1, <4>2, CallTypes
        <3>3. CASE initialized /\ update_user(current, r.user, r.version)
            <4>1. Calls
                BY <2>2, <3>3 DEF Calls
            <4>2. current' = current
                BY <3>3 DEF update_user
            <4> QED
                BY <1>0, <4>1, <4>2, CallTypes
        <3> QED
            BY <2>4, <3>1, <3>2, <3>3
    <2>6. view' \in [Users -> Versions \cup {Nothing}]
        BY <2>2, <2>3 DEF SyncTypeOK
    <2> QED
        BY <2>1, <2>3, <2>5, <2>6 DEF SyncTypeOK
<1>2. ASSUME NEW c \in Caches, ExecChange(c) PROVE PipeInv'
    <2> DEFINE i == Head(channel[c])
               r == [kind |-> "UserChangeEvent", user |-> log[i], version |-> i]
    <2>1. TypeOK' /\ CountInv' /\ current' = current
        BY <1>2, CacheUnchanged DEF ExecChange
    <2>2. channel \in [Caches -> Seq(Tokens)] /\ channel[c] \in Seq(Tokens) /\ channel[c] # <<>>
        BY <1>2 DEF ExecChange, SyncTypeOK
    <2>3. i = channel[c][1] /\ 1 \in 1 .. Len(channel[c])
        BY <2>2
    <2>4. i \in 1 .. Len(log)
        BY <2>3
    <2>5. i \in Versions /\ log[i] \in Users
        BY <1>0, <2>4, TokenFacts DEF SyncTypeOK
    <2>6. r \in Response
        BY <2>5 DEF Response
    <2>7. /\ Respond(r)
          /\ channel' = [channel EXCEPT ![c] = Tail(channel[c])]
          /\ UNCHANGED <<log, sync, initialized, fetch, view, handed>>
        BY <1>2 DEF ExecChange
    <2> HIDE DEF i, r
    <2>8. responses' \in Seq(Response)
        BY <2>6, <2>7, RespondTypes DEF SyncTypeOK
    <2>9. /\ Tail(channel[c]) \in Seq(Tokens)
          /\ Len(Tail(channel[c])) = Len(channel[c]) - 1
          /\ \A k \in 1 .. Len(channel[c]) - 1 : Tail(channel[c])[k] = channel[c][k + 1]
        BY <2>2
    <2>10. \A k \in 1 .. Len(channel[c]) - 1 : Tail(channel[c])[k] \in 1 .. Len(log)
        <3>1. SUFFICES ASSUME NEW k \in 1 .. Len(channel[c]) - 1
                       PROVE  Tail(channel[c])[k] \in 1 .. Len(log)
            OBVIOUS
        <3>2. k + 1 \in 1 .. Len(channel[c])
            BY <2>2
        <3> QED
            BY <2>9, <3>2
    <2>11. /\ channel' \in [Caches -> Seq(Tokens)]
           /\ channel'[c] = Tail(channel[c])
           /\ \A d \in Caches : d # c => channel'[d] = channel[d]
        BY <2>2, <2>7, <2>9
    <2>12. \A d \in Caches : Len(channel'[d]) <= ChannelCapacity
        <3>1. Len(channel[c]) \in Nat /\ Len(channel[c]) <= ChannelCapacity
            BY <2>2 DEF SyncTypeOK
        <3>2. Len(channel[c]) - 1 <= ChannelCapacity
            BY <3>1, UserSyncAssumption
        <3> QED
            BY <2>9, <2>11, <3>2 DEF SyncTypeOK
    <2>13. \A d \in Caches : \A k \in 1 .. Len(channel'[d]) : channel'[d][k] \in 1 .. Len(log)
        BY <2>9, <2>10, <2>11
    <2> QED
        BY <2>1, <2>7, <2>8, <2>11, <2>12, <2>13 DEF SyncTypeOK
<1>3. ASSUME NEW f \in Fetchers, NEW u \in Users, GetUser(f, u) PROVE PipeInv'
    <2> DEFINE cached == cache[current].users[u]
               r == [kind |-> "UserResponse", user |-> u, version |-> cached]
               get == [pc |-> "fetching", kind |-> "get", user |-> u, version |-> 0]
               bg == [pc |-> "fetching", kind |-> "sync", user |-> u, version |-> 0]
    <2>1. TypeOK' /\ CountInv' /\ current' = current
        BY <1>3, CacheUnchanged DEF GetUser
    <2>2. initialized /\ current \in Caches
        BY <1>0, <1>3 DEF GetUser, TypeOK, Caches
    <2>3. cached \in Versions \cup {Nothing}
        BY <1>0, <2>2 DEF TypeOK, CacheState, CachedUsers
    <2>4. \/ /\ cached # Nothing
             /\ Respond(r)
             /\ fetch' = [fetch EXCEPT ![f] = bg]
          \/ /\ fetch' = [fetch EXCEPT ![f] = get]
             /\ UNCHANGED responses
        BY <1>3 DEF GetUser
    <2>5. get \in FetchState /\ bg \in FetchState
        BY TokenFacts DEF FetchState
    <2>6. get.user \in Users /\ bg.user \in Users
        OBVIOUS
    <2>7. cached # Nothing => r \in Response
        BY <2>3 DEF Response
    <2>8. UNCHANGED <<log, sync, channel, initialized, view, handed>>
        BY <1>3 DEF GetUser
    <2> HIDE DEF cached, r, get, bg
    <2>9. responses' \in Seq(Response)
        BY <2>4, <2>7, RespondTypes DEF SyncTypeOK
    <2>10. /\ fetch' \in [Fetchers -> FetchState]
           /\ \A g \in Fetchers : fetch'[g].pc # "idle" => fetch'[g].user \in Users
        BY <2>4, <2>5, <2>6 DEF SyncTypeOK
    <2> QED
        BY <2>1, <2>8, <2>9, <2>10 DEF SyncTypeOK
<1>4. ASSUME NEW f \in Fetchers, FetchOk(f) PROVE PipeInv'
    <2> DEFINE new == [fetch[f] EXCEPT !.pc = "fetched", !.version = Latest(fetch[f].user)]
    <2>1. TypeOK' /\ CountInv' /\ current' = current
        BY <1>4, CacheUnchanged DEF FetchOk
    <2>2. Latest(fetch[f].user) \in 0 .. Len(log)
        <3>1. log \in Seq(Users)
            BY DEF SyncTypeOK
        <3>2. Len(log) \in 0 .. Len(log)
            BY <1>0
        <3>3. VersionAt(fetch[f].user, Len(log)) \in 0 .. Len(log)
            BY <3>1, <3>2, VersionType
        <3> QED
            BY <3>3 DEF Latest
    <2>3. Latest(fetch[f].user) \in Versions
        BY <1>0, <2>2, TokenFacts
    <2>4. new \in FetchState /\ new.user = fetch[f].user /\ fetch[f].user \in Users
        BY <1>4, <2>3 DEF FetchOk, SyncTypeOK, FetchState
    <2>5. /\ fetch' = [fetch EXCEPT ![f] = new]
          /\ UNCHANGED <<log, sync, channel, responses, initialized, view, handed>>
        BY <1>4 DEF FetchOk
    <2> HIDE DEF new
    <2>6. /\ fetch' \in [Fetchers -> FetchState]
          /\ \A g \in Fetchers : fetch'[g].pc # "idle" => fetch'[g].user \in Users
        BY <2>4, <2>5 DEF SyncTypeOK
    <2> QED
        BY <2>1, <2>5, <2>6 DEF SyncTypeOK
<1>5. ASSUME NEW f \in Fetchers, FetchError(f) \/ FetchDone(f) PROVE PipeInv'
    <2>1. TypeOK' /\ CountInv' /\ current' = current
        BY <1>5, CacheUnchanged DEF FetchError, FetchDone
    <2>2. /\ fetch' = [fetch EXCEPT ![f] = FetchIdle]
          /\ UNCHANGED <<log, sync, channel, initialized, view, handed>>
        BY <1>5 DEF FetchError, FetchDone
    <2>3. /\ fetch' \in [Fetchers -> FetchState]
          /\ \A g \in Fetchers : fetch'[g].pc # "idle" => fetch'[g].user \in Users
        <3>1. FetchIdle.pc = "idle"
            BY DEF FetchIdle
        <3> QED
            BY <2>2, <3>1, DefaultSyncTypes DEF SyncTypeOK
    <2>4. responses' \in Seq(Response)
        <3>1. CASE UNCHANGED responses
            BY <3>1 DEF SyncTypeOK
        <3>2. CASE FetchDone(f) /\ ~UNCHANGED responses
            <4> DEFINE u == fetch[f].user
                       v == fetch[f].version
            <4>1. u \in Users /\ v \in Versions
                BY <3>2 DEF FetchDone, SyncTypeOK, FetchState
            <4>2. PICK kind \in {"UserResponse", "UserChangeEvent"} :
                    Respond([kind |-> kind, user |-> u, version |-> v])
                BY <3>2 DEF FetchDone
            <4>3. [kind |-> kind, user |-> u, version |-> v] \in Response
                BY <4>1 DEF Response
            <4> QED
                BY <4>2, <4>3, RespondTypes DEF SyncTypeOK
        <3> QED
            BY <1>5, <3>1, <3>2 DEF FetchError
    <2> QED
        BY <2>1, <2>2, <2>3, <2>4 DEF SyncTypeOK
<1> QED
    BY <1>1, <1>2, <1>3, <1>4, <1>5

(* Every step keeps the types.                                             *)
LEMMA PipeStep == PipeInv /\ [SyncNext]_vars => PipeInv'
<1> SUFFICES ASSUME PipeInv, [SyncNext]_vars PROVE PipeInv'
    OBVIOUS
<1>1. CASE UNCHANGED vars
    <2>1. UNCHANGED cacheVars /\ UNCHANGED pipeVars
        BY <1>1 DEF vars
    <2> QED
        BY <2>1, CacheUnchanged DEF pipeVars, PipeInv, SyncTypeOK
<1>2. CASE SyncNext
    BY <1>2, ProcessPipe, LoopPipe, ResponsePipe DEF SyncNext
<1> QED
    BY <1>1, <1>2

(***************************************************************************)
(* Type correctness of the pipeline, for all users, changes, processes and *)
(* fetches and all bounds.                                                 *)
(***************************************************************************)
THEOREM SyncTypeCorrect == SyncSpec => []SyncTypeOK
<1>1. PipeInv => SyncTypeOK
    BY DEF PipeInv
<1> QED
    BY <1>1, PipeInit, PipeStep, PTL DEF SyncSpec

-----------------------------------------------------------------------------
(* The tokens.                                                             *)

(* Initially there is no token anywhere.                                   *)
LEMMA TokenInit == SyncInit => TokenInv
<1> SUFFICES ASSUME SyncInit PROVE TokenInv
    OBVIOUS
<1>1. Reached(DefaultInfo)
    BY DEF Reached, DefaultInfo
<1>2. \A c \in Caches : cache[c].info = DefaultInfo /\ saver[c].info = DefaultInfo
    BY DEF SyncInit, CacheInit, IdleSaver
<1>3. infoFile.data = DefaultInfo
    BY DEF SyncInit, CacheInit, MissingFile
<1>4. StoredInv
    BY <1>1, <1>2, <1>3 DEF StoredInv
<1>5. \A c \in Caches : sync[c].pc = "off"
    BY DEF SyncInit, SyncOff
<1>6. handed = 0 /\ Len(log) = 0
    BY DEF SyncInit
<1> QED
    BY <1>4, <1>5, <1>6, PipeInit DEF TokenInv, LoopInv

(***************************************************************************)
(* Every step of the cache copies tokens from memory to a save, from a     *)
(* save to the file and from the file to memory, or drops them: when the   *)
(* ones there were point behind no change that was not handed over, nor do *)
(* the ones there are.                                                     *)
(***************************************************************************)
LEMMA CacheCopies ==
    ASSUME TypeOK, StoredInv, handed' = handed,
           \/ Start \/ InitializeFails \/ Crash
           \/ UNCHANGED cacheVars
           \/ \E c \in Caches : ReadInfo(c) \/ ReadUsers(c) \/ SaveStep(c)
           \/ \E u \in Users, v \in Versions :
                current \in Caches /\ (cache_user(current, u, v) \/ update_user(current, u, v))
    PROVE  StoredInv'
<1> DEFINE Ok(i) == i.sync_token # Nothing => i.sync_token <= handed
<1>0. /\ \A c \in Caches : Ok(cache[c].info) /\ Ok(saver[c].info)
      /\ Ok(infoFile.data)
    BY DEF StoredInv, Reached
<1>1. Ok(DefaultInfo)
    BY DEF DefaultInfo
<1> HIDE DEF Ok
<1>2. SUFFICES /\ \A c \in Caches : Ok(cache'[c].info) /\ Ok(saver'[c].info)
               /\ Ok(infoFile'.data)
    BY DEF StoredInv, Reached, Ok
<1>3. CASE Start \/ InitializeFails
    <2>1. /\ UNCHANGED <<saver, infoFile>>
          /\ \A c \in Caches : cache'[c].info = cache[c].info
        BY <1>3 DEF Start, InitializeFails, BeginNew, TypeOK, CacheState
    <2> QED
        BY <1>0, <2>1
<1>4. CASE Crash
    <2>1. infoFile' = infoFile
        BY <1>4 DEF Crash
    <2>2. \A c \in Caches : saver'[c].info = DefaultInfo
        BY <1>4 DEF Crash, IdleSaver
    <2>3. \A c \in Caches : cache'[c] = cache[c] \/ cache'[c].info = DefaultInfo
        BY <1>4 DEF Crash, TypeOK, CacheState
    <2> QED
        BY <1>0, <1>1, <2>1, <2>2, <2>3
<1>5. CASE UNCHANGED cacheVars
    BY <1>0, <1>5 DEF cacheVars
<1>6. ASSUME NEW c \in Caches, ReadInfo(c)
      PROVE  /\ \A d \in Caches : Ok(cache'[d].info) /\ Ok(saver'[d].info)
             /\ Ok(infoFile'.data)
    <2>1. /\ UNCHANGED <<saver, infoFile>>
          /\ \A d \in Caches : cache'[d].info \in {cache[d].info, infoFile.data}
        BY <1>6 DEF ReadInfo, TypeOK, CacheState
    <2> QED
        BY <1>0, <2>1
<1>7. ASSUME NEW c \in Caches, ReadUsers(c)
      PROVE  /\ \A d \in Caches : Ok(cache'[d].info) /\ Ok(saver'[d].info)
             /\ Ok(infoFile'.data)
    <2>1. /\ UNCHANGED <<saver, infoFile>>
          /\ \A d \in Caches : cache'[d].info = cache[d].info
        BY <1>7 DEF ReadUsers, TypeOK, CacheState
    <2> QED
        BY <1>0, <2>1
<1>8. ASSUME NEW c \in Caches, SaveStep(c)
      PROVE  /\ \A d \in Caches : Ok(cache'[d].info) /\ Ok(saver'[d].info)
             /\ Ok(infoFile'.data)
    <2>1. cache' = cache
        BY <1>8
        DEF SaveStep, BeginWriteUsers, FailOpenUsers, EndWriteUsers, FailWriteUsers,
            BeginWriteInfo, FailOpenInfo, EndWriteInfo, FailWriteInfo
    <2>2. \A d \in Caches : saver'[d].info \in {saver[d].info, cache[d].info}
        <3>1. CASE BeginWriteUsers(c)
            BY <3>1 DEF BeginWriteUsers, TypeOK, SaverState
        <3>2. CASE BeginWriteInfo(c)
            BY <3>2 DEF BeginWriteInfo, TypeOK, SaverState
        <3>3. CASE \/ FailOpenUsers(c) \/ EndWriteUsers(c) \/ FailWriteUsers(c)
                   \/ FailOpenInfo(c) \/ EndWriteInfo(c) \/ FailWriteInfo(c)
            BY <3>3
            DEF FailOpenUsers, EndWriteUsers, FailWriteUsers, FailOpenInfo, EndWriteInfo,
                FailWriteInfo, TypeOK, SaverState
        <3> QED
            BY <1>8, <3>1, <3>2, <3>3 DEF SaveStep
    <2>3. infoFile'.data \in {infoFile.data, saver[c].info}
        <3>1. CASE BeginWriteInfo(c)
            BY <3>1 DEF BeginWriteInfo, Truncated, TypeOK, InfoFile
        <3>2. CASE EndWriteInfo(c)
            BY <3>2 DEF EndWriteInfo, WriteOutcomes, Torn, TypeOK, InfoFile
        <3>3. CASE FailWriteInfo(c)
            BY <3>3 DEF FailWriteInfo, Torn, TypeOK, InfoFile
        <3>4. CASE \/ BeginWriteUsers(c) \/ FailOpenUsers(c) \/ EndWriteUsers(c)
                   \/ FailWriteUsers(c) \/ FailOpenInfo(c)
            BY <3>4
            DEF BeginWriteUsers, FailOpenUsers, EndWriteUsers, FailWriteUsers, FailOpenInfo
        <3> QED
            BY <1>8, <3>1, <3>2, <3>3, <3>4 DEF SaveStep
    <2> QED
        BY <1>0, <2>1, <2>2, <2>3
<1>9. ASSUME NEW u \in Users, NEW v \in Versions, current \in Caches,
             cache_user(current, u, v) \/ update_user(current, u, v)
      PROVE  /\ \A d \in Caches : Ok(cache'[d].info) /\ Ok(saver'[d].info)
             /\ Ok(infoFile'.data)
    <2>1. UNCHANGED <<saver, infoFile>>
        BY <1>9 DEF cache_user, update_user
    <2>2. \A d \in Caches : cache'[d].info = cache[d].info
        BY <1>9 DEF cache_user, update_user, TypeOK, CacheState
    <2> QED
        BY <1>0, <2>1, <2>2
<1> QED
    BY <1>3, <1>4, <1>5, <1>6, <1>7, <1>8, <1>9

(* Steps that are not of the sync loop.                                    *)
LEMMA OtherTokens ==
    ASSUME TokenInv,
           \/ StartProcess
           \/ RestoreFails
           \/ EndProcess
           \/ InitializeDone
           \/ OnResponse
           \/ \E u \in Users : ServerChange(u)
           \/ \E c \in Caches : OpenCache(c) \/ Save(c) \/ BeginSync(c) \/ ExecChange(c)
           \/ \E f \in Fetchers : \/ \E u \in Users : GetUser(f, u)
                                  \/ FetchOk(f)
                                  \/ FetchError(f)
                                  \/ FetchDone(f)
    PROVE  StoredInv' /\ LoopInv'
<1>0. TypeOK /\ StoredInv /\ Len(log) \in Nat /\ handed \in Nat
    BY TokenFacts DEF TokenInv, PipeInv, SyncTypeOK
<1>1. handed' = handed
    BY
    DEF StartProcess, RestoreFails, EndProcess, InitializeDone, OnResponse, ServerChange,
        OpenCache, Save, BeginSync, ExecChange, GetUser, FetchOk, FetchError, FetchDone, pipeVars
<1>2. StoredInv'
    <2>1. CASE OnResponse
        <3> DEFINE r == Head(responses)
        <3>1. r \in Response
            BY <2>1 DEF OnResponse, TokenInv, PipeInv, SyncTypeOK
        <3>2. r.user \in Users /\ r.version \in Versions
            BY <3>1 DEF Response
        <3>3. initialized => current \in Caches
            BY <1>0 DEF TokenInv, PipeInv, TypeOK, Caches
        <3>4. \/ initialized /\ cache_user(current, r.user, r.version)
              \/ initialized /\ update_user(current, r.user, r.version)
              \/ UNCHANGED cacheVars
            BY <2>1 DEF OnResponse
        <3> HIDE DEF r
        <3> QED
            BY <1>0, <1>1, <3>2, <3>3, <3>4, CacheCopies
    <2>2. CASE StartProcess \/ RestoreFails \/ EndProcess
        BY <1>0, <1>1, <2>2, CacheCopies DEF StartProcess, RestoreFails, EndProcess
    <2>3. CASE \E c \in Caches : OpenCache(c) \/ Save(c)
        BY <1>0, <1>1, <2>3, CacheCopies DEF OpenCache, Save
    <2>4. CASE ~ (\/ OnResponse \/ StartProcess \/ RestoreFails \/ EndProcess
                  \/ \E c \in Caches : OpenCache(c) \/ Save(c))
        <3>1. UNCHANGED cacheVars
            BY <2>4
            DEF InitializeDone, ServerChange, BeginSync, ExecChange, GetUser, FetchOk,
                FetchError, FetchDone
        <3> QED
            BY <1>0, <1>1, <3>1, CacheCopies
    <2> QED
        BY <2>1, <2>2, <2>3, <2>4
<1>3. Len(log') \in Nat /\ Len(log) <= Len(log')
    <2>1. CASE \E u \in Users : ServerChange(u)
        BY <2>1 DEF ServerChange, TokenInv, PipeInv, SyncTypeOK
    <2>2. CASE ~ \E u \in Users : ServerChange(u)
        <3>1. log' = log
            BY <2>2
            DEF StartProcess, RestoreFails, EndProcess, InitializeDone, OnResponse,
                OpenCache, Save, BeginSync, ExecChange, GetUser, FetchOk, FetchError,
                FetchDone, pipeVars
        <3> QED
            BY <1>0, <3>1
    <2> QED
        BY <2>1, <2>2
<1>4. \A c \in Caches : sync'[c] = sync[c] \/ sync'[c].pc # "processing"
    <2>1. CASE RestoreFails
        BY <2>1 DEF RestoreFails, SyncOff, TokenInv, PipeInv, SyncTypeOK
    <2>2. CASE EndProcess
        BY <2>2 DEF EndProcess, SyncOff
    <2>3. ASSUME NEW c \in Caches, BeginSync(c)
          PROVE  \A d \in Caches : sync'[d] = sync[d] \/ sync'[d].pc # "processing"
        <3>1. [SyncOff EXCEPT !.pc = "initial"].pc = "initial"
            BY DEF SyncOff
        <3> QED
            BY <2>3, <3>1 DEF BeginSync, TokenInv, PipeInv, SyncTypeOK
    <2>4. CASE ~ (RestoreFails \/ EndProcess \/ \E c \in Caches : BeginSync(c))
        <3>1. sync' = sync
            BY <2>4
            DEF StartProcess, InitializeDone, OnResponse, ServerChange, OpenCache, Save,
                ExecChange, GetUser, FetchOk, FetchError, FetchDone, pipeVars
        <3> QED
            BY <3>1
    <2> QED
        BY <2>1, <2>2, <2>3, <2>4
<1>5. LoopInv'
    BY <1>0, <1>1, <1>3, <1>4 DEF TokenInv, LoopInv
<1> QED
    BY <1>2, <1>5

(***************************************************************************)
(* The steps of the sync loop: a response starts at a stored token, goes   *)
(* through one change after the other, and only then stores its end.       *)
(***************************************************************************)
LEMMA LoopTokens ==
    ASSUME TokenInv, NEW c \in Caches,
           SyncResponse(c) \/ HandleChange(c) \/ SyncDone(c)
    PROVE  StoredInv' /\ LoopInv'
<1>0. /\ TypeOK /\ StoredInv /\ LoopInv
      /\ Len(log) \in Nat /\ handed \in Nat
      /\ sync[c].next \in Nat /\ sync[c].end \in Nat /\ sync[c].end <= Len(log)
    BY TokenFacts DEF TokenInv, PipeInv, SyncTypeOK, SyncState
<1>1. log' = log
    BY DEF SyncResponse, HandleChange, SyncDone
<1>2. \A d \in Caches : d # c => sync'[d] = sync[d]
    BY DEF SyncResponse, HandleChange, SyncDone, TokenInv, PipeInv, SyncTypeOK
<1>3. CASE SyncResponse(c)
    <2>1. UNCHANGED cacheVars /\ handed' = handed
        BY <1>3 DEF SyncResponse
    <2>2. StoredInv'
        BY <1>0, <2>1, CacheCopies
    <2>3. sync'[c].next = TokenOf(c)
        BY <1>3 DEF SyncResponse, TokenInv, PipeInv, SyncTypeOK, SyncState
    <2>4. TokenOf(c) <= handed
        BY <1>0 DEF TokenOf, StoredInv, Reached
    <2> QED
        BY <1>0, <1>1, <1>2, <2>1, <2>2, <2>3, <2>4 DEF LoopInv
<1>4. CASE HandleChange(c)
    <2>1. /\ UNCHANGED cacheVars
          /\ sync[c].pc = "processing"
          /\ sync[c].next < sync[c].end
          /\ handed' = IF sync[c].next + 1 = handed + 1 THEN sync[c].next + 1 ELSE handed
        BY <1>4 DEF HandleChange
    <2>2. sync'[c].next = sync[c].next + 1
        BY <1>4 DEF HandleChange, TokenInv, PipeInv, SyncTypeOK, SyncState
    <2>3. sync[c].next <= handed
        BY <1>0, <2>1 DEF LoopInv
    <2>4. /\ handed <= handed'
          /\ handed' <= Len(log)
          /\ handed' \in Nat
          /\ sync[c].next + 1 <= handed'
        BY <1>0, <2>1, <2>3 DEF LoopInv
    <2>5. LoopInv'
        <3>1. \A d \in Caches : sync[d].next \in Nat
            BY TokenFacts DEF TokenInv, PipeInv, SyncTypeOK, SyncState
        <3>2. \A d \in Caches : sync[d].pc = "processing" => sync[d].next <= handed'
            BY <1>0, <2>4, <3>1 DEF LoopInv
        <3> QED
            BY <1>1, <1>2, <2>2, <2>4, <3>2 DEF LoopInv
    <2>6. ASSUME NEW i \in Info, Reached(i) PROVE i.sync_token # Nothing => i.sync_token <= handed'
        <3>1. i.sync_token \in Nat \cup {Nothing}
            BY TokenFacts DEF Info
        <3> QED
            BY <1>0, <2>4, <2>6, <3>1 DEF Reached
    <2>7. /\ \A d \in Caches : cache[d].info \in Info /\ saver[d].info \in Info
          /\ infoFile.data \in Info
        BY <1>0 DEF TypeOK, CacheState, SaverState, InfoFile
    <2>8. UNCHANGED <<cache, saver, infoFile>>
        BY <2>1 DEF cacheVars
    <2>9. StoredInv'
        BY <1>0, <2>6, <2>7, <2>8 DEF StoredInv, Reached
    <2> QED
        BY <2>5, <2>9
<1>5. CASE SyncDone(c)
    <2>1. /\ sync[c].pc = "processing"
          /\ sync[c].next >= sync[c].end
          /\ set_sync_token(c, sync[c].end)
          /\ handed' = handed
        BY <1>5 DEF SyncDone
    <2>2. sync[c].end <= handed
        BY <1>0, <2>1 DEF LoopInv
    <2>3. /\ UNCHANGED <<saver, infoFile>>
          /\ cache'[c].info.sync_token = sync[c].end
          /\ \A d \in Caches : d # c => cache'[d] = cache[d]
        BY <1>0, <2>1 DEF set_sync_token, TypeOK, CacheState, Info
    <2>4. StoredInv'
        BY <1>0, <2>1, <2>2, <2>3 DEF StoredInv, Reached
    <2>5. sync'[c].pc = "idle"
        BY <1>5 DEF SyncDone, TokenInv, PipeInv, SyncTypeOK, SyncState
    <2>6. LoopInv'
        BY <1>0, <1>1, <1>2, <2>1, <2>5 DEF LoopInv
    <2> QED
        BY <2>4, <2>6
<1> QED
    BY <1>3, <1>4, <1>5

(* Every step keeps the tokens behind the handlers.                        *)
LEMMA TokenStep == TokenInv /\ [SyncNext]_vars => TokenInv'
<1> SUFFICES ASSUME TokenInv, [SyncNext]_vars PROVE TokenInv'
    OBVIOUS
<1>1. PipeInv'
    BY PipeStep DEF TokenInv
<1>2. CASE UNCHANGED vars
    <2>1. UNCHANGED <<cache, saver, infoFile, log, sync, handed>>
        BY <1>2 DEF vars, cacheVars, pipeVars
    <2> QED
        BY <1>1, <2>1 DEF TokenInv, StoredInv, Reached, LoopInv
<1>3. CASE SyncNext
    <2>1. StoredInv' /\ LoopInv'
        BY <1>3, OtherTokens, LoopTokens DEF SyncNext
    <2> QED
        BY <1>1, <2>1 DEF TokenInv
<1> QED
    BY <1>2, <1>3

(***************************************************************************)
(* No token in the memory of any object, living or replaced, and no token  *)
(* on disk points behind a change that was handed to no process, wherever  *)
(* the process ends, whatever write fails and however many processes there *)
(* are.                                                                    *)
(***************************************************************************)
THEOREM TokensFollowHandlers == SyncSpec => []TokenOnlyAfterHandlers
<1>1. TokenInv => TokenOnlyAfterHandlers
    <2>1. SUFFICES ASSUME TokenInv PROVE TokenOnlyAfterHandlers
        OBVIOUS
    <2>2. handed \in Nat
        BY <2>1, TokenFacts DEF TokenInv, PipeInv, SyncTypeOK
    <2> QED
        BY <2>1, <2>2 DEF TokenInv, StoredInv, Reached, TokenOnlyAfterHandlers, TokenOf
<1> QED
    BY <1>1, TokenInit, TokenStep, PTL DEF SyncSpec

(***************************************************************************)
(* Both hold of the patient application too, of which liveness is checked. *)
(***************************************************************************)
THEOREM PatientCorrect == PatientSpec => [](SyncTypeOK /\ TokenOnlyAfterHandlers)
<1>1. [PatientNext]_vars => [SyncNext]_vars
    BY DEF PatientNext
<1>2. PatientSpec => SyncSpec
    BY <1>1, PTL DEF PatientSpec, SyncSpec
<1> QED
    BY <1>2, SyncTypeCorrect, TokensFollowHandlers, PTL
=============================================================================
