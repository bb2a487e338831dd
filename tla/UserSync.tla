------------------------------ MODULE UserSync ------------------------------
(***************************************************************************)
(* How the data of a user travels from the homeserver to the application   *)
(* and into the persistent cache: the sync loop (src/src/session.rs), the  *)
(* event executor (src/src/events.rs), the requests of the application     *)
(* (src/src/user.rs) and on_response (src/src/client.rs), composed with    *)
(* ProtoCache.                                                             *)
(*                                                                         *)
(* The homeserver is a log of user changes.  A sync token is a position of *)
(* the log, and the version of a user's data is the position of the change *)
(* it stems from (0: as it was before the first change).                   *)
(***************************************************************************)
EXTENDS ProtoCache, Sequences

CONSTANTS
    MaxChanges,       \* bound: changes made on the homeserver
    ChannelCapacity,  \* EVENT_CHANNEL_CAPACITY of events.rs
    Fetchers,         \* concurrent tasks that fetch a user
    MaxResponses      \* bound: responses on their way to the application

ASSUME UserSyncAssumption ==
    /\ MaxChanges \in Nat
    /\ ChannelCapacity \in Nat \ {0}
    /\ MaxResponses \in Nat \ {0}
    /\ Versions = 0 .. MaxChanges
    /\ Tokens = 0 .. MaxChanges

VARIABLES
    log,          \* the changes of the homeserver, oldest first
    sync,         \* [Caches -> the state of the session's sync loop]
    channel,      \* [Caches -> the queue of the session's event executor]
    responses,    \* responses and events on their way to the application
    initialized,  \* MatrixClient::inner is set
    fetch,        \* [Fetchers -> a running fetch_user]
    view,         \* [Users -> the version the application shows]
    handed        \* history: changes up to here have been in a processed response

pipeVars == <<log, sync, channel, responses, initialized, fetch, view, handed>>

vars == <<cacheVars, pipeVars>>

(* The version of user u at position p of the log.                         *)
VersionAt(u, p) ==
    IF \E i \in 1 .. p : log[i] = u
      THEN CHOOSE i \in 1 .. p : log[i] = u /\ \A j \in i + 1 .. p : log[j] # u
      ELSE 0

Latest(u) == VersionAt(u, Len(log))

(* The loop of a SyncProcess: "off" before the initial sync and after the  *)
(* end of the process; while a response is processed, next is the last     *)
(* change handed to the handlers and end the next_batch of the response.   *)
SyncState ==
    [pc : {"off", "initial", "idle", "processing"},
     handlers : BOOLEAN, next : Tokens, end : Tokens]

SyncOff == [pc |-> "off", handlers |-> FALSE, next |-> 0, end |-> 0]

Response == [kind : {"UserResponse", "UserChangeEvent"}, user : Users, version : Versions]

FetchState ==
    [pc : {"idle", "fetching", "fetched"}, kind : {"get", "sync"},
     user : Users \cup {Nothing}, version : Versions]

FetchIdle == [pc |-> "idle", kind |-> "get", user |-> Nothing, version |-> 0]

SyncTypeOK ==
    /\ TypeOK
    /\ log \in Seq(Users) /\ Len(log) <= MaxChanges
    /\ sync \in [Caches -> SyncState]
    /\ channel \in [Caches -> Seq(Tokens)]
    /\ \A c \in Caches : Len(channel[c]) <= ChannelCapacity
    /\ responses \in Seq(Response)
    /\ initialized \in BOOLEAN
    /\ fetch \in [Fetchers -> FetchState]
    /\ view \in [Users -> Versions \cup {Nothing}]
    /\ handed \in Tokens

SyncInit ==
    /\ CacheInit
    /\ log = <<>>
    /\ sync = [c \in Caches |-> SyncOff]
    /\ channel = [c \in Caches |-> <<>>]
    /\ responses = <<>>
    /\ initialized = FALSE
    /\ fetch = [f \in Fetchers |-> FetchIdle]
    /\ view = [u \in Users |-> Nothing]
    /\ handed = 0

(* The token sync_once sends; without one the server starts from the       *)
(* beginning.                                                              *)
TokenOf(c) == IF cache[c].info.sync_token = Nothing THEN 0 ELSE cache[c].info.sync_token

Respond(r) ==
    /\ Len(responses) < MaxResponses
    /\ responses' = Append(responses, r)

-----------------------------------------------------------------------------
(* The homeserver.                                                         *)

ServerChange(u) ==
    /\ Len(log) < MaxChanges
    /\ log' = Append(log, u)
    /\ UNCHANGED <<cacheVars, sync, channel, responses, initialized, fetch, view, handed>>

-----------------------------------------------------------------------------
(* The sync loop of session c.                                             *)

(* The session is restored (restore_session) and SyncProcess::sync begins  *)
(* with the initial sync.                                                  *)
BeginSync(c) ==
    /\ c = current
    /\ sync[c].pc = "off"
    /\ sync' = [sync EXCEPT ![c] = [SyncOff EXCEPT !.pc = "initial"]]
    /\ UNCHANGED <<cacheVars, log, channel, responses, initialized, fetch, view, handed>>

(* sync_once: the response to a request with the cached token arrives.     *)
SyncResponse(c) ==
    /\ sync[c].pc \in {"initial", "idle"}
    /\ sync' = [sync EXCEPT ![c] = [@ EXCEPT !.pc = "processing",
                                            !.next = TokenOf(c),
                                            !.end = Len(log)]]
    /\ UNCHANGED <<cacheVars, log, channel, responses, initialized, fetch, view, handed>>

(* Fault: send_action does not wait for room in the channel.               *)
HandleChange_unbounded(c) ==
    /\ sync[c].pc = "processing"
    /\ sync[c].next < sync[c].end
    /\ channel' = [channel EXCEPT ![c] = Append(@, sync[c].next + 1)]
    /\ sync' = [sync EXCEPT ![c].next = @ + 1]
    /\ handed' = IF sync[c].next = handed THEN handed + 1 ELSE handed
    /\ UNCHANGED <<cacheVars, log, responses, initialized, fetch, view>>

(* client.sync_once calls the handlers for the changes of the response:    *)
(* none during the initial sync, and a handler may skip an event as        *)
(* historical.  send_action waits while the channel is full.               *)
HandleChange(c) ==
    LET i == sync[c].next + 1 IN
    /\ sync[c].pc = "processing"
    /\ sync[c].next < sync[c].end
    /\ \/ /\ sync[c].handlers
          /\ Len(channel[c]) < ChannelCapacity
          /\ channel' = [channel EXCEPT ![c] = Append(@, i)]
       \/ UNCHANGED channel
    /\ sync' = [sync EXCEPT ![c].next = i]
    /\ handed' = IF i = handed + 1 THEN i ELSE handed
    /\ UNCHANGED <<cacheVars, log, responses, initialized, fetch, view>>

(* Fault: the token is stored before all handlers have run.                *)
SyncDone_early(c) ==
    /\ sync[c].pc = "processing"
    /\ set_sync_token(c, sync[c].end)
    /\ sync' = [sync EXCEPT ![c] = [@ EXCEPT !.pc = "idle", !.handlers = TRUE]]
    /\ UNCHANGED <<log, channel, responses, initialized, fetch, view, handed>>

(* sync_once ends with set_sync_token; after the initial sync the handlers *)
(* are registered and the background loop begins.                          *)
SyncDone(c) ==
    /\ sync[c].pc = "processing"
    /\ sync[c].next >= sync[c].end
    /\ set_sync_token(c, sync[c].end)
    /\ sync' = [sync EXCEPT ![c] = [@ EXCEPT !.pc = "idle", !.handlers = TRUE]]
    /\ UNCHANGED <<log, channel, responses, initialized, fetch, view, handed>>

(* initialize ends: the background sync is already running when the inner  *)
(* client is set.                                                          *)
InitializeDone ==
    /\ ~initialized
    /\ current # 0
    /\ sync[current].handlers
    /\ initialized' = TRUE
    /\ UNCHANGED <<cacheVars, log, sync, channel, responses, fetch, view, handed>>

-----------------------------------------------------------------------------
(* The event executor and the response path.                               *)

(***************************************************************************)
(* exec_action of a profile or presence change sends a UserChangeEvent.    *)
(* One that equals the user's last one is not sent again                   *)
(* (is_new_user_change); here every change makes a new version.            *)
(***************************************************************************)
ExecChange(c) ==
    /\ channel[c] # <<>>
    /\ LET i == Head(channel[c]) IN
         Respond([kind |-> "UserChangeEvent", user |-> log[i], version |-> i])
    /\ channel' = [channel EXCEPT ![c] = Tail(@)]
    /\ UNCHANGED <<cacheVars, log, sync, initialized, fetch, view, handed>>

(* A response reaches the application, and on_response caches its content  *)
(* in the current session, once the client is initialized.                 *)
OnResponse ==
    /\ responses # <<>>
    /\ LET r == Head(responses) IN
         /\ view' = [view EXCEPT ![r.user] =
                       IF r.kind = "UserResponse" \/ @ # Nothing THEN r.version ELSE @]
         /\ IF initialized
              THEN IF r.kind = "UserResponse"
                     THEN cache_user(current, r.user, r.version)
                     ELSE update_user(current, r.user, r.version)
              ELSE UNCHANGED cacheVars
    /\ responses' = Tail(responses)
    /\ UNCHANGED <<log, sync, channel, initialized, fetch, handed>>

-----------------------------------------------------------------------------
(* The application asks for a user: get_and_sync_user.                     *)

(* A cached user is returned at once and synced in the background; another *)
(* one is fetched first.                                                   *)
GetUser(f, u) ==
    LET cached == cache[current].users[u] IN
    /\ initialized
    /\ fetch[f].pc = "idle"
    /\ \/ /\ cached # Nothing
          /\ Respond([kind |-> "UserResponse", user |-> u, version |-> cached])
          /\ fetch' = [fetch EXCEPT ![f] =
                         [pc |-> "fetching", kind |-> "sync", user |-> u, version |-> 0]]
       \/ /\ cached = Nothing
          /\ fetch' = [fetch EXCEPT ![f] =
                         [pc |-> "fetching", kind |-> "get", user |-> u, version |-> 0]]
          /\ UNCHANGED responses
    /\ UNCHANGED <<cacheVars, log, sync, channel, initialized, view, handed>>

(* fetch_user: the answer of the server, or an error (UserNotFound).       *)
FetchOk(f) ==
    /\ fetch[f].pc = "fetching"
    /\ fetch' = [fetch EXCEPT ![f] = [@ EXCEPT !.pc = "fetched",
                                              !.version = Latest(fetch[f].user)]]
    /\ UNCHANGED <<cacheVars, log, sync, channel, responses, initialized, view, handed>>

FetchError(f) ==
    /\ fetch[f].pc = "fetching"
    /\ fetch' = [fetch EXCEPT ![f] = FetchIdle]
    /\ UNCHANGED <<cacheVars, log, sync, channel, responses, initialized, view, handed>>

(* Fault: the background sync of a cached user sends no difference.        *)
FetchDone_silent(f) ==
    /\ fetch[f].pc = "fetched"
    /\ IF fetch[f].kind = "get"
         THEN Respond([kind |-> "UserResponse", user |-> fetch[f].user,
                       version |-> fetch[f].version])
         ELSE UNCHANGED responses
    /\ fetch' = [fetch EXCEPT ![f] = FetchIdle]
    /\ UNCHANGED <<cacheVars, log, sync, channel, initialized, view, handed>>

(* A user that was not cached is returned.  The background sync compares   *)
(* with what is cached by then and sends the difference.                   *)
FetchDone(f) ==
    LET u == fetch[f].user
        v == fetch[f].version
    IN
    /\ fetch[f].pc = "fetched"
    /\ CASE fetch[f].kind = "get" ->
              Respond([kind |-> "UserResponse", user |-> u, version |-> v])
         [] fetch[f].kind = "sync" /\ cache[current].users[u] # v ->
              Respond([kind |-> "UserChangeEvent", user |-> u, version |-> v])
         [] OTHER -> UNCHANGED responses
    /\ fetch' = [fetch EXCEPT ![f] = FetchIdle]
    /\ UNCHANGED <<cacheVars, log, sync, channel, initialized, view, handed>>

-----------------------------------------------------------------------------
(* The process.                                                            *)

StartProcess == Start /\ UNCHANGED pipeVars

(* The session cannot be restored for lack of a network.                   *)
RestoreFails ==
    /\ ~initialized
    /\ InitializeFails
    /\ sync[current].pc \in {"off", "initial"}
    /\ sync' = [sync EXCEPT ![current] = SyncOff]
    /\ UNCHANGED <<log, channel, responses, initialized, fetch, view, handed>>

OpenCache(c) == (ReadInfo(c) \/ ReadUsers(c)) /\ UNCHANGED pipeVars

Save(c) == SaveStep(c) /\ UNCHANGED pipeVars

EndProcess ==
    /\ Crash
    /\ sync' = [c \in Caches |-> SyncOff]
    /\ channel' = [c \in Caches |-> <<>>]
    /\ responses' = <<>>
    /\ initialized' = FALSE
    /\ fetch' = [f \in Fetchers |-> FetchIdle]
    /\ view' = [u \in Users |-> Nothing]
    /\ UNCHANGED <<log, handed>>

SyncNext ==
    \/ StartProcess
    \/ RestoreFails
    \/ EndProcess
    \/ InitializeDone
    \/ OnResponse
    \/ \E u \in Users : ServerChange(u)
    \/ \E c \in Caches :
         \/ OpenCache(c)
         \/ Save(c)
         \/ BeginSync(c)
         \/ SyncResponse(c)
         \/ HandleChange(c)
         \/ SyncDone(c)
         \/ ExecChange(c)
    \/ \E f \in Fetchers :
         \/ \E u \in Users : GetUser(f, u)
         \/ FetchOk(f)
         \/ FetchError(f)
         \/ FetchDone(f)

SyncSpec == SyncInit /\ [][SyncNext]_vars

-----------------------------------------------------------------------------
(* Properties.                                                             *)

(***************************************************************************)
(* set_sync_token is called after client.sync_once has called every        *)
(* handler (session.rs, sync_once): a token in memory or on disk never     *)
(* points behind a change that was handed to no process at all, so a       *)
(* crash at any point makes the server send every such change again.       *)
(***************************************************************************)
TokenOnlyAfterHandlers ==
    /\ \A c \in Caches : TokenOf(c) <= handed
    /\ (infoFile.kind = "data" /\ infoFile.data.sync_token # Nothing)
          => infoFile.data.sync_token <= handed

(***************************************************************************)
(* The note in save() (proto_cache.rs): the state of the stored data       *)
(* always corresponds to the same point in time or the future of the       *)
(* stored sync token.                                                      *)
(***************************************************************************)
DataNotBehindToken ==
    (/\ infoFile.kind = "data"
     /\ usersFile.kind = "data"
     /\ infoFile.data.sync_token # Nothing)
        => \A u \in Users : usersFile.data[u] # Nothing =>
              usersFile.data[u] >= VersionAt(u, infoFile.data.sync_token)

(***************************************************************************)
(* Whatever was lost, delayed or overwritten by an older answer on the     *)
(* way, an application that asks for a user again and again, each time     *)
(* when nothing is on its way any more, ends up showing the user as the    *)
(* homeserver has it (user.rs, get_and_sync_user).                         *)
(***************************************************************************)
EventuallyFresh == \A u \in Users : <>[](view[u] = Latest(u))

Settled ==
    /\ responses = <<>>
    /\ \A c \in Caches : channel[c] = <<>>
    /\ \A f \in Fetchers : fetch[f].pc = "idle"

(***************************************************************************)
(* The application waits.  The process may be ended and the session may    *)
(* not be restored as long as another start is possible (MaxCaches); the   *)
(* last process runs on.                                                   *)
(***************************************************************************)
PatientNext ==
    /\ SyncNext
    /\ (\E f \in Fetchers : fetch[f].pc = "idle" /\ fetch'[f].pc = "fetching") => Settled
    /\ created = MaxCaches =>
         /\ current # 0 => current' # 0
         /\ \A c \in Caches : cache[c].phase # "dropped" => cache'[c].phase # "dropped"

(***************************************************************************)
(* Fairness: tokio runs every task that can run, the application keeps     *)
(* asking for every user, and of the fetches of one user that are tried    *)
(* for ever infinitely many succeed.                                       *)
(***************************************************************************)
Fairness ==
    /\ WF_vars(StartProcess)
    /\ WF_vars(InitializeDone)
    /\ WF_vars(OnResponse)
    /\ \A c \in Caches :
         /\ WF_vars(OpenCache(c))
         /\ WF_vars(BeginSync(c))
         /\ WF_vars(SyncResponse(c))
         /\ WF_vars(HandleChange(c))
         /\ WF_vars(SyncDone(c))
         /\ WF_vars(ExecChange(c))
    /\ \A f \in Fetchers :
         /\ WF_vars(FetchDone(f))
         /\ \A u \in Users :
              /\ SF_vars(Settled /\ GetUser(f, u))
              /\ SF_vars(fetch[f].user = u /\ FetchOk(f))

PatientSpec == SyncInit /\ [][PatientNext]_vars /\ Fairness
=============================================================================
