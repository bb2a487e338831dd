---------------------------- MODULE SyncSession -----------------------------
(***************************************************************************)
(* The life of a session: initialize, restore_session, login and reset     *)
(* (src/src/client.rs), the SyncProcess with its endless background loop   *)
(* (src/src/session.rs) and the file the authentication is kept in.        *)
(*                                                                         *)
(* Every SessionContext has its own client and, once logged in or          *)
(* restored, its own loop.  A login resets the session: it removes the     *)
(* session directory and creates a new context, but nothing stops the loop *)
(* or the pending single sign-on of the old one.                           *)
(*                                                                         *)
(* The homeserver is the set of its device sessions.  A device session is  *)
(* identified by the context that logged in, and its access token by the   *)
(* number of times it has been refreshed.                                  *)
(***************************************************************************)
EXTENDS Naturals

CONSTANTS
    MaxSessions,   \* bound: SessionContexts created in a behaviour
    MaxRefreshes,  \* bound: refreshes of one access token
    MaxOutages,    \* bound: how often the network becomes unavailable
    MaxDiskErrors  \* bound: failed writes and removals of the auth file

ASSUME SyncSessionAssumption ==
    /\ MaxSessions \in Nat
    /\ MaxRefreshes \in Nat
    /\ MaxOutages \in Nat
    /\ MaxDiskErrors \in Nat

VARIABLES
    process,     \* initialize has not run, runs, or has succeeded
    ctx,         \* [Sessions -> a SessionContext and the task that uses it]
    current,     \* the context in MatrixClientInner::session (0: none)
    created,     \* how many contexts have been created
    request,     \* the login request that has passed is_logged_in
    authFile,    \* the file at get_auth_file
    dir,         \* how often the session directory or its auth file was removed
    dirExists,   \* the session directory is there
    mixed,       \* contexts that write the file while another one does
    overwritten, \* logins whose stored session another login's write replaced
    told,        \* the last status or error the application received
    server,      \* [Sessions -> the device session on the homeserver]
    online,      \* the homeserver can be reached
    outages,     \* how often it became unreachable
    diskErrors   \* how many writes and removals of the auth file have failed

fileVars == <<authFile, dir, dirExists, mixed, overwritten>>

vars == <<process, ctx, current, created, request, authFile, dir, dirExists, mixed,
          overwritten, told, server, online, outages, diskErrors>>

Sessions == 1 .. MaxSessions

(* login 0 is the client that is not logged in.                            *)
Token == [login : 0 .. MaxSessions, gen : 0 .. MaxRefreshes]

NoToken == [login |-> 0, gen |-> 0]

(***************************************************************************)
(* Where the task of a context is.  "loop" waits for the answer of a sync, *)
(* "retry" sleeps for SYNC_RETRY_TIMEOUT; "save" and "saving" are before   *)
(* and after the truncation of the auth file.                              *)
(***************************************************************************)
LoopState == {"loop", "retry", "refreshing", "refresh_save", "refresh_saving"}

TaskState ==
    {"unused", "building", "restore", "login", "save", "saving", "initial",
     "idle", "stopped", "dead"} \cup LoopState

(* offline is network_was_unavailable; reply: the LoggedIn status is still *)
(* to be sent; announced: it has been; cause: the error that stopped the   *)
(* loop; opened and dir: directory of the open file and of the context.    *)
Context ==
    [pc : TaskState, kind : {"restore", "password", "sso"}, token : Token,
     offline : BOOLEAN, reply : BOOLEAN, announced : BOOLEAN,
     cause : {"none", "hard", "network", "rejected", "other"},
     opened : 0 .. MaxSessions, dir : 0 .. MaxSessions]

UnusedContext ==
    [pc |-> "unused", kind |-> "restore", token |-> NoToken, offline |-> FALSE,
     reply |-> FALSE, announced |-> FALSE, cause |-> "none", opened |-> 0, dir |-> 0]

Status ==
    {"none", "Connected", "LoggedIn", "LoggedOut", "NetworkUnavailable",
     "SessionInvalid", "Error"}

(* A torn file has the token that its last writer was to write.            *)
AuthFile ==
    [kind : {"missing", "torn", "data"}, token : Token]

MissingFile == [kind |-> "missing", token |-> NoToken]

FilesOK ==
    /\ authFile \in AuthFile
    /\ dir \in 0 .. MaxSessions
    /\ dirExists \in BOOLEAN
    /\ mixed \subseteq Sessions
    /\ overwritten \subseteq 0 .. MaxSessions

TypeOK ==
    /\ process \in {"down", "initializing", "up"}
    /\ ctx \in [Sessions -> Context]
    /\ current \in 0 .. MaxSessions
    /\ created \in 0 .. MaxSessions
    /\ request \in {"none", "password", "sso"}
    /\ FilesOK
    /\ told \in Status
    /\ server \in [Sessions -> [state : {"none", "valid", "expired", "revoked"},
                                gen : 0 .. MaxRefreshes]]
    /\ online \in BOOLEAN
    /\ outages \in 0 .. MaxOutages
    /\ diskErrors \in 0 .. MaxDiskErrors

Init ==
    /\ process = "down"
    /\ ctx = [c \in Sessions |-> UnusedContext]
    /\ current = 0
    /\ created = 0
    /\ request = "none"
    /\ authFile = MissingFile
    /\ dir = 0
    /\ dirExists = FALSE
    /\ mixed = {}
    /\ overwritten = {}
    /\ told = "none"
    /\ server = [c \in Sessions |-> [state |-> "none", gen |-> 0]]
    /\ online = TRUE
    /\ outages = 0
    /\ diskErrors = 0

(* The homeserver's view of a token.                                       *)
Valid(t) ==
    t.login # 0 /\ server[t.login].state = "valid" /\ server[t.login].gen = t.gen

Revoked(t) == t.login # 0 /\ server[t.login].state = "revoked"

-----------------------------------------------------------------------------
(* Creation of contexts: initialize and the two login requests.            *)

(* The application waits for the answer of initialize or of a login before *)
(* it sends the next one.  A single sign-on is answered with a URL before  *)
(* it is complete.                                                         *)
Busy ==
    \/ process = "initializing"
    \/ request # "none"
    \/ \E c \in Sessions :
         \/ ctx[c].pc = "building"
         \/ /\ ctx[c].kind = "password"
            /\ ctx[c].pc \in {"login", "save", "saving", "initial"} \/ ctx[c].reply

(* SessionContext::new begins.                                             *)
BeginNew(kind, d) ==
    /\ created < MaxSessions
    /\ created' = created + 1
    /\ ctx' = [ctx EXCEPT ![created + 1] = [@ EXCEPT !.pc = "building", !.kind = kind,
                                                    !.dir = d]]

initialize ==
    /\ process = "down"
    /\ BeginNew("restore", dir)
    /\ process' = "initializing"
    /\ UNCHANGED fileVars
    /\ UNCHANGED <<current, request, told, server, online, outages, diskErrors>>

(* is_logged_in asks the homeserver and is answered with an authentication *)
(* error.  Any other answer refuses the login and changes nothing.         *)
CheckLogin(kind) ==
    /\ process = "up"
    /\ ~Busy
    /\ ctx[current].token.login = 0 \/ (online /\ ~Valid(ctx[current].token))
    /\ request' = kind
    /\ UNCHANGED fileVars
    /\ UNCHANGED <<process, ctx, current, created, told, server, online, outages, diskErrors>>

(* reset_session removes the session data and creates a new context.       *)
Reset ==
    /\ request # "none"
    /\ dir < MaxSessions
    /\ BeginNew(request, dir + 1)
    /\ request' = "none"
    /\ authFile' = MissingFile
    /\ dir' = dir + 1
    /\ dirExists' = FALSE
    /\ UNCHANGED <<process, current, mixed, overwritten, told, server, online, outages,
                   diskErrors>>

(* remove_session_data fails before the auth file is gone, after it, or at *)
(* the media or the cache when the session directory is gone: the login is *)
(* answered with the error and the old context stays in place.             *)
ResetFails ==
    /\ request # "none"
    /\ diskErrors < MaxDiskErrors
    /\ diskErrors' = diskErrors + 1
    /\ request' = "none"
    /\ told' = "Error"
    /\ \/ UNCHANGED <<authFile, dir, dirExists>>
       \/ /\ dir < MaxSessions
          /\ authFile' = MissingFile
          /\ dir' = dir + 1
          /\ dirExists' \in {dirExists, FALSE}
    /\ UNCHANGED <<process, ctx, current, created, mixed, overwritten, server, online,
                   outages>>

(* build_client opens the SQLite store, which creates the directory.       *)
OpenStore(c) ==
    /\ ctx[c].pc = "building"
    /\ ~dirExists
    /\ dirExists' = TRUE
    /\ UNCHANGED <<process, ctx, current, created, request, authFile, dir, mixed,
                   overwritten, told, server, online, outages, diskErrors>>

Built(c) ==
    /\ ctx[c].pc = "building"
    /\ dirExists
    /\ ctx' = [ctx EXCEPT ![c].pc = IF ctx[c].kind = "restore" THEN "restore" ELSE "login"]
    /\ current' = c
    /\ UNCHANGED fileVars
    /\ UNCHANGED <<process, created, request, told, server, online, outages, diskErrors>>

(* build_client fails: initialize or the login is answered with the error, *)
(* and the old context stays in place.                                     *)
BuildFails(c) ==
    /\ ctx[c].pc = "building"
    /\ ctx' = [ctx EXCEPT ![c].pc = "dead"]
    /\ process' = IF ctx[c].kind = "restore" THEN "down" ELSE process
    /\ told' = "Error"
    /\ UNCHANGED fileVars
    /\ UNCHANGED <<current, created, request, server, online, outages, diskErrors>>

-----------------------------------------------------------------------------
(* restore_session, login and the initial sync.                            *)

(* The task of context c ends without a loop, and the application gets s.  *)
(* initialize succeeds with every status and fails with an error.          *)
GiveUp(c, s) ==
    /\ told' = s
    /\ ctx' = [ctx EXCEPT ![c].pc = "idle"]
    /\ IF ctx[c].kind = "restore"
         THEN IF s = "Error" THEN process' = "down" /\ current' = 0
                             ELSE process' = "up" /\ current' = current
         ELSE UNCHANGED <<process, current>>

(* The file is read, and client.restore_session is called with what it     *)
(* holds; a network error of that call fails initialize.                   *)
restore_session(c) ==
    /\ ctx[c].pc = "restore"
    /\ \/ authFile.kind = "missing" /\ GiveUp(c, "Connected")
       \/ authFile.kind # "missing" /\ GiveUp(c, "LoggedOut")
       \/ authFile.kind = "data" /\ ~online /\ GiveUp(c, "Error")
       \/ /\ authFile.kind = "data"
          /\ ctx' = [ctx EXCEPT ![c] = [@ EXCEPT !.pc = "initial", !.token = authFile.token]]
          /\ UNCHANGED <<process, current, told>>
    /\ UNCHANGED fileVars
    /\ UNCHANGED <<created, request, server, online, outages, diskErrors>>

(* The homeserver accepts the credentials, or the user completes the       *)
(* single sign-on in the browser, at any time.                             *)
LoginOk(c) ==
    /\ ctx[c].pc = "login"
    /\ online
    /\ server' = [server EXCEPT ![c].state = "valid"]
    /\ ctx' = [ctx EXCEPT ![c] = [@ EXCEPT !.pc = "save",
                                          !.token = [login |-> c, gen |-> 0]]]
    /\ UNCHANGED fileVars
    /\ UNCHANGED <<process, current, created, request, told, online, outages, diskErrors>>

LoginFails(c) ==
    /\ ctx[c].pc = "login"
    /\ GiveUp(c, "Error")
    /\ UNCHANGED fileVars
    /\ UNCHANGED <<created, request, server, online, outages, diskErrors>>

(* initial_sync succeeds, the handlers are registered and the background   *)
(* loop is spawned before the application is told.                         *)
InitialSyncOk(c) ==
    /\ ctx[c].pc = "initial"
    /\ online
    /\ Valid(ctx[c].token)
    /\ ctx' = [ctx EXCEPT ![c] = [@ EXCEPT !.pc = "loop", !.reply = TRUE]]
    /\ UNCHANGED fileVars
    /\ UNCHANGED <<process, current, created, request, told, server, online, outages, diskErrors>>

(* initial_sync fails.  restore_session fails initialize when it was a     *)
(* network error and says LoggedOut otherwise; a login is answered with    *)
(* the error.  The client stays logged in.                                 *)
InitialSyncFails(c) ==
    /\ ctx[c].pc = "initial"
    /\ \/ ~online /\ GiveUp(c, "Error")
       \/ GiveUp(c, IF ctx[c].kind = "restore" THEN "LoggedOut" ELSE "Error")
    /\ UNCHANGED fileVars
    /\ UNCHANGED <<created, request, server, online, outages, diskErrors>>

(* The reply of the request, or the event of the single sign-on.           *)
ReplyLoggedIn(c) ==
    /\ ctx[c].reply
    /\ ctx' = [ctx EXCEPT ![c] = [@ EXCEPT !.reply = FALSE, !.announced = TRUE]]
    /\ told' = "LoggedIn"
    /\ process' = "up"
    /\ UNCHANGED fileVars
    /\ UNCHANGED <<current, created, request, server, online, outages, diskErrors>>

-----------------------------------------------------------------------------
(* Session::save: of a new login, or after a refresh.                      *)

Saving(c) == ctx[c].pc \in {"saving", "refresh_saving"} /\ ctx[c].opened = dir

(* The file is truncated, whoever else has it open.  Nothing but a new     *)
(* context creates the directory again.                                    *)
BeginSave(c) ==
    LET others == {d \in Sessions \ {c} : Saving(d)} IN
    /\ ctx[c].pc \in {"save", "refresh_save"}
    /\ dirExists
    /\ ctx' = [ctx EXCEPT ![c] =
                  [@ EXCEPT !.pc = IF ctx[c].pc = "save" THEN "saving" ELSE "refresh_saving",
                            !.opened = dir]]
    /\ authFile' = [kind |-> "torn", token |-> ctx[c].token]
    /\ mixed' = IF others = {} THEN mixed \ {c} ELSE mixed \cup others \cup {c}
    /\ overwritten' = (overwritten \cup {authFile.token.login}) \ {ctx[c].token.login}
    /\ UNCHANGED <<process, current, created, request, dir, dirExists, told, server,
                   online, outages, diskErrors>>

(* The bytes of two writers are mixed.                                     *)
Tear(c) ==
    /\ c \in mixed
    /\ authFile' = [authFile EXCEPT !.kind = "torn"]
    /\ overwritten' = overwritten \cup {authFile.token.login, ctx[c].token.login}

(* The write ends.  With another write at the same time the bytes of both  *)
(* may be mixed, or those of the other one are what remains; a file whose  *)
(* directory was removed is on no path.                                    *)
EndSave(c) ==
    /\ ctx[c].pc \in {"saving", "refresh_saving"}
    /\ ctx' = [ctx EXCEPT ![c].pc = IF @ = "saving" THEN "initial" ELSE "loop"]
    /\ \/ /\ Saving(c)
          /\ authFile' = [kind |-> "data", token |-> ctx[c].token]
          /\ overwritten' = (overwritten \cup {authFile.token.login}) \ {ctx[c].token.login}
       \/ Saving(c) /\ Tear(c)
       \/ /\ Saving(c) => (c \in mixed /\ authFile.token.login # ctx[c].token.login)
          /\ UNCHANGED <<authFile, overwritten>>
    /\ UNCHANGED <<process, current, created, request, dir, dirExists, mixed, told,
                   server, online, outages, diskErrors>>

(* Fault: a login ignores the error, as the refresh does.                  *)
SaveFails_ignored(c) ==
    /\ ctx[c].pc \in {"save", "saving", "refresh_save", "refresh_saving"}
    /\ diskErrors < MaxDiskErrors
    /\ diskErrors' = diskErrors + 1
    /\ ctx' = [ctx EXCEPT ![c].pc = IF @ \in {"save", "saving"} THEN "initial" ELSE "loop"]
    /\ UNCHANGED fileVars
    /\ UNCHANGED <<process, current, created, request, told, server, online, outages>>

(* The file cannot be opened, because its directory is missing or for      *)
(* another reason, or not be written.  A login fails with the error; after *)
(* a refresh it is only logged.                                            *)
SaveFails(c) ==
    /\ \/ /\ ctx[c].pc \in {"save", "refresh_save"}
          /\ ~dirExists
          /\ UNCHANGED <<diskErrors, authFile, overwritten>>
       \/ /\ ctx[c].pc \in {"save", "saving", "refresh_save", "refresh_saving"}
          /\ diskErrors < MaxDiskErrors
          /\ diskErrors' = diskErrors + 1
          /\ (Saving(c) /\ Tear(c)) \/ UNCHANGED <<authFile, overwritten>>
    /\ IF ctx[c].pc \in {"save", "saving"}
         THEN GiveUp(c, "Error")
         ELSE /\ ctx' = [ctx EXCEPT ![c].pc = "loop"]
              /\ UNCHANGED <<process, current, told>>
    /\ UNCHANGED <<created, request, dir, dirExists, mixed, server, online, outages>>

-----------------------------------------------------------------------------
(* The background loop: sync_once and process_sync_result.                 *)

(* Fault: the end of an outage is not announced.                           *)
SyncOk_silent(c) ==
    /\ ctx[c].pc = "loop"
    /\ online
    /\ Valid(ctx[c].token)
    /\ ctx' = [ctx EXCEPT ![c].offline = FALSE]
    /\ UNCHANGED fileVars
    /\ UNCHANGED <<process, current, created, request, told, server, online, outages, diskErrors>>

(* The first success after an outage is announced.                         *)
SyncOk(c) ==
    /\ ctx[c].pc = "loop"
    /\ online
    /\ Valid(ctx[c].token)
    /\ ctx' = [ctx EXCEPT ![c].offline = FALSE]
    /\ told' = IF ctx[c].offline THEN "LoggedIn" ELSE told
    /\ UNCHANGED fileVars
    /\ UNCHANGED <<process, current, created, request, server, online, outages, diskErrors>>

handle_connection_error(c) ==
    /\ ctx[c].pc = "loop"
    /\ ~online
    /\ told' = IF ctx[c].offline THEN told ELSE "NetworkUnavailable"
    /\ ctx' = [ctx EXCEPT ![c] = [@ EXCEPT !.offline = TRUE, !.pc = "retry"]]
    /\ UNCHANGED fileVars
    /\ UNCHANGED <<process, current, created, request, server, online, outages, diskErrors>>

(* SYNC_RETRY_TIMEOUT has passed.                                          *)
Retry(c) ==
    /\ ctx[c].pc = "retry"
    /\ ctx' = [ctx EXCEPT ![c].pc = "loop"]
    /\ UNCHANGED fileVars
    /\ UNCHANGED <<process, current, created, request, told, server, online, outages, diskErrors>>

(* Fault: the error is passed on without being converted.                  *)
Stop_raw(c, cause) ==
    /\ ctx' = [ctx EXCEPT ![c] = [@ EXCEPT !.pc = "stopped", !.cause = cause]]
    /\ told' = cause

(* The loop breaks, after an event or an error to the application.         *)
Stop(c, cause) ==
    /\ ctx' = [ctx EXCEPT ![c] = [@ EXCEPT !.pc = "stopped", !.cause = cause]]
    /\ told' = IF cause = "hard" THEN "SessionInvalid" ELSE "Error"

(* Fault: a logout is treated like an outage.                              *)
handle_token_error_retried(c) ==
    /\ ctx[c].pc = "loop"
    /\ online
    /\ ~Valid(ctx[c].token)
    /\ ctx' = [ctx EXCEPT ![c].pc = IF Revoked(ctx[c].token) THEN "retry" ELSE "refreshing"]
    /\ UNCHANGED fileVars
    /\ UNCHANGED <<process, current, created, request, told, server, online, outages, diskErrors>>

handle_token_error(c) ==
    /\ ctx[c].pc = "loop"
    /\ online
    /\ ~Valid(ctx[c].token)
    /\ IF Revoked(ctx[c].token)
         THEN Stop(c, "hard")
         ELSE /\ ctx' = [ctx EXCEPT ![c].pc = "refreshing"]
              /\ UNCHANGED told
    /\ UNCHANGED fileVars
    /\ UNCHANGED <<process, current, created, request, server, online, outages, diskErrors>>

(* Any other error of a sync ends the loop.                                *)
SyncOtherError(c) ==
    /\ ctx[c].pc = "loop"
    /\ Stop(c, "other")
    /\ UNCHANGED fileVars
    /\ UNCHANGED <<process, current, created, request, server, online, outages, diskErrors>>

(* Fault: the refreshed session is not saved.                              *)
RefreshOk_unsaved(c) ==
    LET t == ctx[c].token IN
    /\ ctx[c].pc = "refreshing"
    /\ online
    /\ server[t.login] = [state |-> "expired", gen |-> t.gen]
    /\ t.gen < MaxRefreshes
    /\ server' = [server EXCEPT ![t.login] = [state |-> "valid", gen |-> t.gen + 1]]
    /\ ctx' = [ctx EXCEPT ![c] = [@ EXCEPT !.pc = "loop",
                                          !.token = [t EXCEPT !.gen = t.gen + 1]]]
    /\ UNCHANGED fileVars
    /\ UNCHANGED <<process, current, created, request, told, online, outages, diskErrors>>

(* refresh_access_token: the homeserver accepts a refresh token once.      *)
RefreshOk(c) ==
    LET t == ctx[c].token IN
    /\ ctx[c].pc = "refreshing"
    /\ online
    /\ server[t.login].state \in {"valid", "expired"}
    /\ server[t.login].gen = t.gen
    /\ t.gen < MaxRefreshes
    /\ server' = [server EXCEPT ![t.login] = [state |-> "valid", gen |-> t.gen + 1]]
    /\ ctx' = [ctx EXCEPT ![c] = [@ EXCEPT !.pc = "refresh_save",
                                          !.token = [t EXCEPT !.gen = t.gen + 1]]]
    /\ UNCHANGED fileVars
    /\ UNCHANGED <<process, current, created, request, told, online, outages, diskErrors>>

(* It fails: the homeserver cannot be reached or rejects the refresh token *)
(* (or there is none).  Either error is returned and ends the loop.        *)
RefreshFails(c) ==
    /\ ctx[c].pc = "refreshing"
    /\ Stop(c, IF online THEN "rejected" ELSE "network")
    /\ UNCHANGED fileVars
    /\ UNCHANGED <<process, current, created, request, server, online, outages, diskErrors>>

-----------------------------------------------------------------------------
(* The homeserver, the network and the process.                            *)

(* An access token expires (soft_logout), or the device is logged out.     *)
ServerStep(l) ==
    /\ \/ /\ server[l].state = "valid"
          /\ server' = [server EXCEPT ![l].state = "expired"]
       \/ /\ server[l].state \in {"valid", "expired"}
          /\ server' = [server EXCEPT ![l].state = "revoked"]
    /\ UNCHANGED fileVars
    /\ UNCHANGED <<process, ctx, current, created, request, told, online, outages, diskErrors>>

NetworkDown ==
    /\ online
    /\ outages < MaxOutages
    /\ online' = FALSE
    /\ outages' = outages + 1
    /\ UNCHANGED fileVars
    /\ UNCHANGED <<process, ctx, current, created, request, told, server, diskErrors>>

NetworkUp ==
    /\ ~online
    /\ online' = TRUE
    /\ UNCHANGED fileVars
    /\ UNCHANGED <<process, ctx, current, created, request, told, server, outages, diskErrors>>

(* A write that is cut off leaves what it has written so far.              *)
Crash ==
    /\ process # "down"
    /\ process' = "down"
    /\ ctx' = [c \in Sessions |->
                 IF ctx[c].pc = "unused" THEN ctx[c]
                 ELSE [ctx[c] EXCEPT !.pc = "dead", !.reply = FALSE]]
    /\ current' = 0
    /\ request' = "none"
    /\ told' = "none"
    /\ \/ \E c \in Sessions : Saving(c) /\ Tear(c)
       \/ UNCHANGED <<authFile, overwritten>>
    /\ UNCHANGED <<created, dir, dirExists, mixed, server, online, outages, diskErrors>>

-----------------------------------------------------------------------------
LoopStep(c) ==
    \/ SyncOk(c)
    \/ handle_connection_error(c)
    \/ Retry(c)
    \/ handle_token_error(c)
    \/ RefreshOk(c)
    \/ RefreshFails(c)

SaveStep(c) == BeginSave(c) \/ EndSave(c) \/ SaveFails(c)

StartStep(c) ==
    \/ OpenStore(c)
    \/ Built(c)
    \/ BuildFails(c)
    \/ restore_session(c)
    \/ LoginOk(c)
    \/ LoginFails(c)
    \/ InitialSyncOk(c)
    \/ InitialSyncFails(c)
    \/ ReplyLoggedIn(c)

Next ==
    \/ initialize
    \/ \E kind \in {"password", "sso"} : CheckLogin(kind)
    \/ Reset
    \/ ResetFails
    \/ \E c \in Sessions :
         StartStep(c) \/ SaveStep(c) \/ LoopStep(c) \/ SyncOtherError(c)
    \/ \E l \in Sessions : ServerStep(l)
    \/ NetworkDown
    \/ NetworkUp
    \/ Crash

Spec == Init /\ [][Next]_vars

(***************************************************************************)
(* Fairness: tokio runs every task that can run, a request is answered,    *)
(* and an outage ends.  The user need not complete a login, the            *)
(* application need not ask for one, and no sync need fail.                *)
(***************************************************************************)
Fairness ==
    /\ WF_vars(NetworkUp)
    /\ \A c \in Sessions :
         /\ WF_vars(LoopStep(c))
         /\ WF_vars(SaveStep(c))
         /\ WF_vars(OpenStore(c) \/ Built(c) \/ BuildFails(c))
         /\ WF_vars(ReplyLoggedIn(c))

FairSpec == Spec /\ Fairness

-----------------------------------------------------------------------------
(* Properties.                                                             *)

(***************************************************************************)
(* login saves the session before the first sync, and gives up when it     *)
(* cannot (client.rs, login_username_password and login_sso): as long as   *)
(* no later login removed the directory, the auth file has the session the *)
(* application was told it is logged in with, readable.  Two things lose   *)
(* it: the task of a replaced context writes the session of its own login  *)
(* over it, or the save after a refresh has truncated the file and has not *)
(* ended, has failed or was cut off.                                       *)
(***************************************************************************)
LoggedInIsPersisted ==
    \A c \in Sessions :
        (ctx[c].announced /\ ctx[c].dir = dir) =>
            \/ authFile.kind = "data" /\ authFile.token.login = ctx[c].token.login
            \/ ctx[c].token.login \in overwritten
            \/ /\ authFile.kind = "torn"
               /\ authFile.token.login = ctx[c].token.login
               /\ authFile.token.gen > 0

(***************************************************************************)
(* refresh_access_token (session.rs) saves the session before the loop     *)
(* goes on: unless a write failed, the stored token of a device session    *)
(* with a running loop is the one the homeserver expects next.  (A crash   *)
(* between the refresh and the end of the save does lose it.)              *)
(***************************************************************************)
SavedTokenIsCurrent ==
    diskErrors = 0 =>
        \A c \in Sessions :
            (/\ ctx[c].pc \in {"loop", "retry", "refreshing"}
             /\ authFile.kind = "data"
             /\ authFile.token.login = ctx[c].token.login)
                => authFile.token.gen = ctx[c].token.gen

(***************************************************************************)
(* The application is never left offline: after NetworkUnavailable it is   *)
(* told something else once the network is back (process_sync_result).     *)
(***************************************************************************)
OutageEnds == told = "NetworkUnavailable" ~> told # "NetworkUnavailable"

(***************************************************************************)
(* The loop of a device session that was logged out on the homeserver      *)
(* stops (handle_token_error): it does not go on asking for ever.          *)
(***************************************************************************)
RevokedLoopStops ==
    \A c \in Sessions : Revoked(ctx[c].token) ~> ctx[c].pc \notin LoopState

(***************************************************************************)
(* The comment of process_sync_result (session.rs): it returns an error,   *)
(* which ends the loop, only when the sync result is unrecoverable; after  *)
(* a network error the sync is retried.                                    *)
(***************************************************************************)
NetworkErrorIsRetried == \A c \in Sessions : ctx[c].cause # "network"
=============================================================================
