----------------------------- MODULE ProtoCache -----------------------------
(***************************************************************************)
(* The persistent cache of proto messages (src/src/proto_cache.rs) and the *)
(* directory it is saved in.                                               *)
(*                                                                         *)
(* Every SessionContext owns one ProtoCache object.  The object holds the  *)
(* sync token and the user status (Info) and the cached users in memory,   *)
(* and spawns a task that saves them for ever.  The task is never stopped: *)
(* an object whose session was reset goes on saving, into the directory of *)
(* the session that replaced it.                                           *)
(*                                                                         *)
(* A file is written by tokio::fs::write, which truncates it and then      *)
(* fills it, so a write is two steps and a crash between them leaves an    *)
(* empty file.  The bytes of two writes at the same time may be mixed, and *)
(* a write that fails may leave a part of its bytes: a file that cannot be *)
(* decrypted (Torn).                                                       *)
(***************************************************************************)
EXTENDS Naturals

CONSTANTS
    Users,      \* user ids
    Versions,   \* versions of the data of one user
    Tokens,     \* sync tokens
    Statuses,   \* user statuses (presence state and message)
    Nothing,    \* Option::None: no token, no status, a user not cached
    MaxCaches,  \* bound: ProtoCache objects created in a behaviour
    MaxSaves    \* bound: saves begun in a behaviour

ASSUME ProtoCacheAssumption ==
    /\ MaxCaches \in Nat
    /\ MaxSaves \in Nat
    /\ Nothing \notin Versions

VARIABLES
    cache,      \* [Caches -> the in-memory state of one ProtoCacheInner]
    saver,      \* [Caches -> the state of its save task]
    infoFile,   \* the file at info_file
    usersFile,  \* the file at users_file
    current,    \* the cache of MatrixClientInner::session (0: no process)
    created,    \* how many ProtoCache objects have been created
    saves,      \* how many saves have begun
    dir         \* how often the cache directory has been removed

cacheVars == <<cache, saver, infoFile, usersFile, current, created, saves, dir>>

Caches == 1 .. MaxCaches

Info == [sync_token : Tokens \cup {Nothing}, user_status : Statuses \cup {Nothing}]

DefaultInfo == [sync_token |-> Nothing, user_status |-> Nothing]

(***************************************************************************)
(* cached_users.  The Option<Vec<User>> is None exactly when no user has   *)
(* been cached: the vector is created by the insertion of its first user   *)
(* and never shrinks.                                                      *)
(***************************************************************************)
CachedUsers == [Users -> Versions \cup {Nothing}]

NoUsers == [u \in Users |-> Nothing]

(***************************************************************************)
(* The state of an object: "reading_info" and "reading_users" are the two  *)
(* halves of read_from_file_system, "open" is after ProtoCache::new.  dir  *)
(* is how often the directory had been removed at its creation (history).  *)
(***************************************************************************)
CacheState ==
    [phase : {"unused", "reading_info", "reading_users", "open", "dropped"},
     info  : Info,
     users : CachedUsers,
     dir   : 0 .. MaxCaches]

(***************************************************************************)
(* The state of a save task: where it is in save(), the number of the save *)
(* (history), the data it has encoded and the directory it opened a file   *)
(* in.                                                                     *)
(***************************************************************************)
SaverState ==
    [pc    : {"sleep", "users_writing", "info", "info_writing"},
     save  : 0 .. MaxSaves,
     info  : Info,
     users : CachedUsers,
     dir   : 0 .. MaxCaches]

IdleSaver ==
    [pc |-> "sleep", save |-> 0, info |-> DefaultInfo, users |-> NoUsers, dir |-> 0]

(***************************************************************************)
(* A file: readable data, or missing, or truncated and nothing written     *)
(* since, or not decryptable.  owner and save say which object wrote the   *)
(* data in which save (history); writer is the object whose write          *)
(* truncated the file last.                                                *)
(***************************************************************************)
FileKind == {"missing", "empty", "torn", "data"}

InfoFile ==
    [kind : FileKind, owner : 0 .. MaxCaches, save : 0 .. MaxSaves,
     writer : 0 .. MaxCaches, data : Info]

UsersFile ==
    [kind : FileKind, owner : 0 .. MaxCaches, save : 0 .. MaxSaves,
     writer : 0 .. MaxCaches, data : CachedUsers]

MissingFile(d) == [kind |-> "missing", owner |-> 0, save |-> 0, writer |-> 0, data |-> d]

TypeOK ==
    /\ cache \in [Caches -> CacheState]
    /\ saver \in [Caches -> SaverState]
    /\ infoFile \in InfoFile
    /\ usersFile \in UsersFile
    /\ current \in 0 .. MaxCaches
    /\ created \in 0 .. MaxCaches
    /\ saves \in 0 .. MaxSaves
    /\ dir \in 0 .. MaxCaches

CacheInit ==
    /\ cache = [c \in Caches |->
                  [phase |-> "unused", info |-> DefaultInfo, users |-> NoUsers,
                   dir |-> 0]]
    /\ saver = [c \in Caches |-> IdleSaver]
    /\ infoFile = MissingFile(DefaultInfo)
    /\ usersFile = MissingFile(NoUsers)
    /\ current = 0
    /\ created = 0
    /\ saves = 0
    /\ dir = 0

-----------------------------------------------------------------------------
(* Creation: ProtoCache::new and ProtoCacheInner::from_directory.          *)

BeginNew(d) ==
    /\ created < MaxCaches
    /\ created' = created + 1
    /\ cache' = [cache EXCEPT ![created + 1].phase = "reading_info",
                              ![created + 1].dir = d]

(* MatrixClientInner::new creates the SessionContext of initialize.        *)
Start ==
    /\ current = 0
    /\ \A c \in Caches : cache[c].phase \notin {"reading_info", "reading_users"}
    /\ BeginNew(dir)
    /\ UNCHANGED <<saver, infoFile, usersFile, current, saves, dir>>

(* restore_session fails with a network error, and initialize with it: the *)
(* MatrixClientInner is dropped, but not the save task of its cache.       *)
InitializeFails ==
    /\ current # 0
    /\ current' = 0
    /\ UNCHANGED <<cache, saver, infoFile, usersFile, created, saves, dir>>

(***************************************************************************)
(* reset_session: remove_session_data removes the directory in one         *)
(* blocking step and a new SessionContext is created.  The replaced object *)
(* stays, and so does its save task.  A reset that cannot remove anything  *)
(* changes nothing; a directory removed in part is not modelled.           *)
(***************************************************************************)
Reset ==
    /\ current # 0
    /\ BeginNew(dir + 1)
    /\ infoFile' = MissingFile(DefaultInfo)
    /\ usersFile' = MissingFile(NoUsers)
    /\ dir' = dir + 1
    /\ UNCHANGED <<saver, current, saves>>

(***************************************************************************)
(* read_info and read_users: an error is logged and leaves the default.  A *)
(* missing, empty or torn file is an error, and so may reading a good one. *)
(***************************************************************************)
ReadInfo(c) ==
    /\ cache[c].phase = "reading_info"
    /\ \/ /\ infoFile.kind = "data"
          /\ cache' = [cache EXCEPT ![c].phase = "reading_users",
                                    ![c].info = infoFile.data]
       \/ cache' = [cache EXCEPT ![c].phase = "reading_users"]
    /\ UNCHANGED <<saver, infoFile, usersFile, current, created, saves, dir>>

(* The last step of SessionContext::new puts the new session in place.     *)
ReadUsers(c) ==
    /\ cache[c].phase = "reading_users"
    /\ \/ /\ usersFile.kind = "data"
          /\ cache' = [cache EXCEPT ![c].phase = "open",
                                    ![c].users = usersFile.data]
       \/ cache' = [cache EXCEPT ![c].phase = "open"]
    /\ current' = c
    /\ UNCHANGED <<saver, infoFile, usersFile, created, saves, dir>>

(* The process ends at any point; what is on disk stays.                   *)
Crash ==
    /\ \E c \in Caches : cache[c].phase \notin {"unused", "dropped"}
    /\ cache' = [c \in Caches |->
                   IF cache[c].phase = "unused"
                     THEN cache[c]
                     ELSE [cache[c] EXCEPT !.phase = "dropped",
                                           !.info = DefaultInfo,
                                           !.users = NoUsers]]
    /\ saver' = [c \in Caches |-> IdleSaver]
    /\ current' = 0
    /\ UNCHANGED <<infoFile, usersFile, created, saves, dir>>

-----------------------------------------------------------------------------
(* Calls of the rest of the program on an open object.                     *)

(* Fault: the token is stored in the wrong field.                          *)
set_sync_token_swapped(c, t) ==
    /\ cache[c].phase = "open"
    /\ cache' = [cache EXCEPT ![c].info.user_status = t]
    /\ UNCHANGED <<saver, infoFile, usersFile, current, created, saves, dir>>

set_sync_token(c, t) ==
    /\ cache[c].phase = "open"
    /\ cache' = [cache EXCEPT ![c].info.sync_token = t]
    /\ UNCHANGED <<saver, infoFile, usersFile, current, created, saves, dir>>

set_user_status(c, s) ==
    /\ cache[c].phase = "open"
    /\ cache' = [cache EXCEPT ![c].info.user_status = s]
    /\ UNCHANGED <<saver, infoFile, usersFile, current, created, saves, dir>>

(* A UserResponse was sent: the user is inserted or replaced.              *)
cache_user(c, u, v) ==
    /\ cache[c].phase = "open"
    /\ cache' = [cache EXCEPT ![c].users[u] = v]
    /\ UNCHANGED <<saver, infoFile, usersFile, current, created, saves, dir>>

(* A UserChangeEvent was sent: only a cached user is changed.              *)
update_user(c, u, v) ==
    /\ cache[c].phase = "open"
    /\ cache' = IF cache[c].users[u] = Nothing
                  THEN cache
                  ELSE [cache EXCEPT ![c].users[u] = v]
    /\ UNCHANGED <<saver, infoFile, usersFile, current, created, saves, dir>>

-----------------------------------------------------------------------------
(* The save task.                                                          *)

Torn(file) == [file EXCEPT !.kind = "torn"]

(* What a finished write leaves in a file.  Only a write that truncated    *)
(* the file last, with no bytes of another one since, is sure to leave its *)
(* data: else the bytes of both may be mixed.                              *)
WriteOutcomes(file, c, data) ==
    LET written == [kind |-> "data", owner |-> c, save |-> saver[c].save,
                    writer |-> file.writer, data |-> data]
    IN  IF file.writer = c /\ file.kind = "empty" THEN {written} ELSE {written, Torn(file)}

Truncated(file, c) == [file EXCEPT !.kind = "empty", !.writer = c]

(* write_users, up to the truncation of the file: without any cached user  *)
(* nothing is written and write_info is next.                              *)
BeginWriteUsers(c) ==
    /\ cache[c].phase = "open"
    /\ saver[c].pc = "sleep"
    /\ saves < MaxSaves
    /\ saves' = saves + 1
    /\ \/ /\ cache[c].users = NoUsers
          /\ saver' = [saver EXCEPT ![c].pc = "info", ![c].save = saves + 1]
          /\ UNCHANGED usersFile
       \/ /\ cache[c].users # NoUsers
          /\ saver' = [saver EXCEPT ![c].pc = "users_writing",
                                    ![c].save = saves + 1,
                                    ![c].users = cache[c].users,
                                    ![c].dir = dir]
          /\ usersFile' = Truncated(usersFile, c)
    /\ UNCHANGED <<cache, infoFile, current, created, dir>>

(* Fault: save() ignores the error of write_users.                         *)
FailOpenUsers_ignored(c) ==
    /\ cache[c].phase = "open"
    /\ saver[c].pc = "sleep"
    /\ cache[c].users # NoUsers
    /\ saves < MaxSaves
    /\ saves' = saves + 1
    /\ saver' = [saver EXCEPT ![c].pc = "info", ![c].save = saves + 1]
    /\ UNCHANGED <<cache, infoFile, usersFile, current, created, dir>>

(* The file could not be opened: save() returns and tries again after the  *)
(* next interval.                                                          *)
FailOpenUsers(c) ==
    /\ cache[c].phase = "open"
    /\ saver[c].pc = "sleep"
    /\ cache[c].users # NoUsers
    /\ saves < MaxSaves
    /\ saves' = saves + 1
    /\ UNCHANGED <<cache, saver, infoFile, usersFile, current, created, dir>>

(* A file opened before its directory was removed is gone: what is written *)
(* to it is on no path.                                                    *)
EndWriteUsers(c) ==
    /\ saver[c].pc = "users_writing"
    /\ saver' = [saver EXCEPT ![c].pc = "info"]
    /\ IF saver[c].dir = dir
         THEN usersFile' \in WriteOutcomes(usersFile, c, saver[c].users)
         ELSE UNCHANGED usersFile
    /\ UNCHANGED <<cache, infoFile, current, created, saves, dir>>

(* The write failed (disk full), perhaps in the middle: the error makes    *)
(* save() return.                                                          *)
FailWriteUsers(c) ==
    /\ saver[c].pc = "users_writing"
    /\ saver' = [saver EXCEPT ![c].pc = "sleep"]
    /\ usersFile' = usersFile \/ (saver[c].dir = dir /\ usersFile' = Torn(usersFile))
    /\ UNCHANGED <<cache, infoFile, current, created, saves, dir>>

(* write_info takes its snapshot only now.                                 *)
BeginWriteInfo(c) ==
    /\ saver[c].pc = "info"
    /\ saver' = [saver EXCEPT ![c].pc = "info_writing",
                              ![c].info = cache[c].info,
                              ![c].dir = dir]
    /\ infoFile' = Truncated(infoFile, c)
    /\ UNCHANGED <<cache, usersFile, current, created, saves, dir>>

FailOpenInfo(c) ==
    /\ saver[c].pc = "info"
    /\ saver' = [saver EXCEPT ![c].pc = "sleep"]
    /\ UNCHANGED <<cache, infoFile, usersFile, current, created, saves, dir>>

EndWriteInfo(c) ==
    /\ saver[c].pc = "info_writing"
    /\ saver' = [saver EXCEPT ![c].pc = "sleep"]
    /\ IF saver[c].dir = dir
         THEN infoFile' \in WriteOutcomes(infoFile, c, saver[c].info)
         ELSE UNCHANGED infoFile
    /\ UNCHANGED <<cache, usersFile, current, created, saves, dir>>

FailWriteInfo(c) ==
    /\ saver[c].pc = "info_writing"
    /\ saver' = [saver EXCEPT ![c].pc = "sleep"]
    /\ infoFile' = infoFile \/ (saver[c].dir = dir /\ infoFile' = Torn(infoFile))
    /\ UNCHANGED <<cache, usersFile, current, created, saves, dir>>

SaveStep(c) ==
    \/ BeginWriteUsers(c)
    \/ FailOpenUsers(c)
    \/ EndWriteUsers(c)
    \/ FailWriteUsers(c)
    \/ BeginWriteInfo(c)
    \/ FailOpenInfo(c)
    \/ EndWriteInfo(c)
    \/ FailWriteInfo(c)

-----------------------------------------------------------------------------
(***************************************************************************)
(* The component on its own: the rest of the program calls it in any       *)
(* order.  The sync loop of an object calls set_sync_token on that object, *)
(* also after a reset; everything else goes through the current session.   *)
(***************************************************************************)
Init == CacheInit

Calls ==
    \/ \E c \in Caches, t \in Tokens : set_sync_token(c, t)
    \/ current # 0 /\ \E s \in Statuses : set_user_status(current, s)
    \/ current # 0 /\ \E u \in Users, v \in Versions : cache_user(current, u, v)
    \/ current # 0 /\ \E u \in Users, v \in Versions : update_user(current, u, v)

Next ==
    \/ Start
    \/ InitializeFails
    \/ Reset
    \/ Crash
    \/ \E c \in Caches : ReadInfo(c) \/ ReadUsers(c) \/ SaveStep(c)
    \/ Calls

Spec == Init /\ [][Next]_cacheVars

-----------------------------------------------------------------------------
(* Properties.                                                             *)

(***************************************************************************)
(* save() writes the users before the info and returns at the first error  *)
(* (proto_cache.rs, save): of the two files one object has written, the    *)
(* users file is never from an earlier save than the info file, whatever   *)
(* fails and wherever the process ends.  A restart then never combines the *)
(* sync token of one save of an object with users of an earlier one.       *)
(***************************************************************************)
InfoNotAheadOfUsers ==
    (/\ infoFile.kind = "data"
     /\ usersFile.kind = "data"
     /\ infoFile.owner = usersFile.owner)
        => infoFile.save <= usersFile.save

(***************************************************************************)
(* remove_session_data (client.rs) removes all data of the session,        *)
(* including the cache, and blocks until it is gone: no file may hold data *)
(* of an object that was created before the last removal.                  *)
(***************************************************************************)
RemovedDataStaysRemoved ==
    /\ infoFile.kind = "data" => cache[infoFile.owner].dir = dir
    /\ usersFile.kind = "data" => cache[usersFile.owner].dir = dir
=============================================================================
