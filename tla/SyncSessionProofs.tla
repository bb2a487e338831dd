-------------------------- MODULE SyncSessionProofs --------------------------
(***************************************************************************)
(* Proofs about SyncSession, for any number of contexts, refreshes,        *)
(* outages and disk errors.                                                *)
(***************************************************************************)
EXTENDS SyncSession, TLAPS

-----------------------------------------------------------------------------
(* The inductive invariant.                                                *)

(* A context with a client that is logged in and a task that uses it.      *)
Live == {"save", "saving", "initial"} \cup LoopState

Active == {"building", "restore", "login"} \cup Live

(* Contexts that were not created yet.                                     *)
UnusedInv == \A c \in Sessions : c > created => ctx[c] = UnusedContext

(***************************************************************************)
(* initialize has no company: as long as it runs, its context is the only  *)
(* one in use, and when it fails none is left.                             *)
(***************************************************************************)
ProcessInv ==
    /\ process = "down" => \A c \in Sessions : ctx[c].pc \notin Active /\ ~ctx[c].reply
    /\ process = "initializing" =>
         \A c \in Sessions : (ctx[c].pc \in Active \/ ctx[c].reply) =>
                                (c = created /\ ctx[c].kind = "restore")
    /\ request # "none" => process = "up"

KindInv ==
    \A c \in Sessions :
        /\ (ctx[c].kind = "restore" /\ ctx[c].pc \in {"building", "restore", "initial"}) =>
              process = "initializing"
        /\ ctx[c].pc = "restore" => ctx[c].kind = "restore"
        /\ ctx[c].pc \in {"login", "save", "saving"} => ctx[c].kind # "restore"
        /\ ctx[c].reply => ctx[c].pc \in LoopState \cup {"stopped"}

(* The directory a file is written to is not older than its context, and   *)
(* one that is not there has neither a file nor a writer.                  *)
DirInv ==
    /\ \A c \in Sessions :
         /\ ctx[c].dir <= dir
         /\ ctx[c].pc \in {"saving", "refresh_saving"} =>
               (ctx[c].dir <= ctx[c].opened /\ ctx[c].opened <= dir)
    /\ ~dirExists => (authFile.kind = "missing" /\ \A c \in Sessions : ~Saving(c))

(* Tokens are those of logins that have happened, and no two contexts use  *)
(* the same device session at the same time.                               *)
Issued(t) == t.login \in Sessions /\ server[t.login].state # "none"

LoginInv ==
    /\ \A c \in Sessions : ctx[c].pc \in Live => Issued(ctx[c].token)
    /\ authFile.kind = "data" => Issued(authFile.token)
    /\ \A c \in Sessions : ctx[c].pc \in {"unused", "building", "login"} => server[c].state = "none"
    /\ \A c, d \in Sessions :
         (c # d /\ ctx[c].pc \in Live /\ ctx[d].pc \in Live) =>
             ctx[c].token.login # ctx[d].token.login

(* The stored token of a running context: while it is being written there  *)
(* is none.                                                                *)
GenInv ==
    diskErrors = 0 =>
        \A c \in Sessions :
            (/\ ctx[c].pc \in Live
             /\ authFile.kind = "data"
             /\ authFile.token.login = ctx[c].token.login) =>
                 /\ ctx[c].pc \notin {"save", "saving", "refresh_saving"}
                 /\ ctx[c].pc # "refresh_save" => authFile.token.gen = ctx[c].token.gen

(***************************************************************************)
(* The session of a context is where LoggedInIsPersisted says.             *)
(***************************************************************************)
Present(c) ==
    \/ authFile.kind = "data" /\ authFile.token.login = ctx[c].token.login
    \/ ctx[c].token.login \in overwritten
    \/ /\ authFile.kind = "torn"
       /\ authFile.token.login = ctx[c].token.login
       /\ authFile.token.gen > 0

(* A login that has not been saved belongs to nobody else.                 *)
FreshInv ==
    \A c \in Sessions :
        /\ ctx[c].pc \in {"unused", "building", "login", "save", "saving"} =>
              \A d \in Sessions \ {c} : ctx[d].token.login # c
        /\ ctx[c].pc \in {"save", "saving"} => ctx[c].token.login = c
        /\ ctx[c].pc \in {"refresh_save", "refresh_saving"} => ctx[c].token.gen > 0
        /\ ctx[c].announced => ctx[c].pc \in LoopState \cup {"stopped", "dead"}

(* The session of a context is present from the end of its first save on;  *)
(* while a write is open, the file is that writer's or another one's.      *)
SavedInv ==
    \A c \in Sessions :
        /\ ((ctx[c].announced \/ ctx[c].reply \/ ctx[c].pc = "initial") /\ ctx[c].dir = dir) =>
              Present(c)
        /\ Saving(c) =>
              \/ ctx[c].token.login \in overwritten
              \/ authFile.kind = "torn" /\ authFile.token.login = ctx[c].token.login

SessionInv ==
    /\ UnusedInv /\ ProcessInv /\ KindInv /\ DirInv /\ LoginInv /\ GenInv
    /\ FreshInv /\ SavedInv

-----------------------------------------------------------------------------
(* Types.                                                                  *)

(* The initial state is well typed.                                        *)
LEMMA TypeInit == Init => TypeOK
<1>1. NoToken \in Token
    BY SyncSessionAssumption DEF NoToken, Token
<1>2. UnusedContext \in Context /\ MissingFile \in AuthFile
    BY <1>1, SyncSessionAssumption
    DEF UnusedContext, Context, TaskState, LoopState, MissingFile, AuthFile
<1>3. Init => /\ ctx \in [Sessions -> Context]
              /\ authFile \in AuthFile
    BY <1>2 DEF Init
<1>4. Init => server \in [Sessions -> [state : {"none", "valid", "expired", "revoked"},
                                       gen : 0 .. MaxRefreshes]]
    BY SyncSessionAssumption DEF Init
<1>5. Init => /\ current \in 0 .. MaxSessions /\ created \in 0 .. MaxSessions
              /\ dir \in 0 .. MaxSessions /\ outages \in 0 .. MaxOutages
              /\ diskErrors \in 0 .. MaxDiskErrors
    BY SyncSessionAssumption DEF Init
<1>6. Init => /\ online \in BOOLEAN /\ told \in Status /\ dirExists \in BOOLEAN
              /\ mixed \subseteq Sessions /\ overwritten \subseteq 0 .. MaxSessions
    BY DEF Init, Status
<1> QED
    BY <1>3, <1>4, <1>5, <1>6 DEF Init, TypeOK, FilesOK

(* Changes of one context.                                                 *)
LEMMA ContextTypes ==
    ASSUME ctx \in [Sessions -> Context], NEW c \in Sessions
    PROVE  /\ \A pc \in TaskState : [ctx EXCEPT ![c].pc = pc] \in [Sessions -> Context]
           /\ [ctx EXCEPT ![c].offline = FALSE] \in [Sessions -> Context]
           /\ [ctx EXCEPT ![c] = [@ EXCEPT !.pc = "retry", !.offline = TRUE]]
                 \in [Sessions -> Context]
           /\ [ctx EXCEPT ![c] = [@ EXCEPT !.reply = FALSE, !.announced = TRUE]]
                 \in [Sessions -> Context]
           /\ [ctx EXCEPT ![c] = [@ EXCEPT !.pc = "loop", !.reply = TRUE]]
                 \in [Sessions -> Context]
           /\ \A pc \in TaskState, t \in Token :
                 [ctx EXCEPT ![c] = [@ EXCEPT !.pc = pc, !.token = t]] \in [Sessions -> Context]
           /\ \A pc \in TaskState, d \in 0 .. MaxSessions :
                 [ctx EXCEPT ![c] = [@ EXCEPT !.pc = pc, !.opened = d]] \in [Sessions -> Context]
           /\ \A cause \in {"hard", "network", "rejected", "other"} :
                 [ctx EXCEPT ![c] = [@ EXCEPT !.pc = "stopped", !.cause = cause]]
                   \in [Sessions -> Context]
           /\ \A kind \in {"restore", "password", "sso"}, d \in 0 .. MaxSessions :
                 [ctx EXCEPT ![c] = [@ EXCEPT !.pc = "building", !.kind = kind, !.dir = d]]
                   \in [Sessions -> Context]
<1> USE DEF Context
<1>1. {"retry", "loop", "stopped", "building"} \subseteq TaskState
    BY DEF TaskState, LoopState
<1>2. \A pc \in TaskState : [ctx EXCEPT ![c].pc = pc] \in [Sessions -> Context]
    OBVIOUS
<1>3. [ctx EXCEPT ![c].offline = FALSE] \in [Sessions -> Context]
    OBVIOUS
<1>4. [ctx EXCEPT ![c] = [@ EXCEPT !.pc = "retry", !.offline = TRUE]] \in [Sessions -> Context]
    BY <1>1
<1>5. [ctx EXCEPT ![c] = [@ EXCEPT !.reply = FALSE, !.announced = TRUE]] \in [Sessions -> Context]
    OBVIOUS
<1>6. [ctx EXCEPT ![c] = [@ EXCEPT !.pc = "loop", !.reply = TRUE]] \in [Sessions -> Context]
    BY <1>1
<1>7. ASSUME NEW pc \in TaskState, NEW t \in Token
      PROVE  [ctx EXCEPT ![c] = [@ EXCEPT !.pc = pc, !.token = t]] \in [Sessions -> Context]
    OBVIOUS
<1>8. ASSUME NEW pc \in TaskState, NEW d \in 0 .. MaxSessions
      PROVE  [ctx EXCEPT ![c] = [@ EXCEPT !.pc = pc, !.opened = d]] \in [Sessions -> Context]
    OBVIOUS
<1>9. ASSUME NEW cause \in {"hard", "network", "rejected", "other"}
      PROVE  [ctx EXCEPT ![c] = [@ EXCEPT !.pc = "stopped", !.cause = cause]]
               \in [Sessions -> Context]
    BY <1>1
<1>10. ASSUME NEW kind \in {"restore", "password", "sso"}, NEW d \in 0 .. MaxSessions
       PROVE  [ctx EXCEPT ![c] = [@ EXCEPT !.pc = "building", !.kind = kind, !.dir = d]]
                \in [Sessions -> Context]
    BY <1>1
<1> QED
    BY <1>2, <1>3, <1>4, <1>5, <1>6, <1>7, <1>8, <1>9, <1>10

(* Every step keeps the types.                                             *)
LEMMA TypeStep == TypeOK /\ [Next]_vars => TypeOK'
<1> SUFFICES ASSUME TypeOK, [Next]_vars
             PROVE  TypeOK'
    OBVIOUS
<1> USE SyncSessionAssumption
<1>1. /\ ctx \in [Sessions -> Context] /\ authFile \in AuthFile /\ created \in 0 .. MaxSessions
      /\ dir \in 0 .. MaxSessions
    BY DEF TypeOK, FilesOK
<1>20. UNCHANGED fileVars => FilesOK'
    BY DEF TypeOK, FilesOK, fileVars
<1>2. \A c \in Sessions : ctx[c] \in Context /\ ctx[c].token \in Token /\ c \in 0 .. MaxSessions
    BY <1>1 DEF Context, Sessions
<1>3. MissingFile \in AuthFile
    BY DEF MissingFile, AuthFile, NoToken, Token
<1>4. TaskState = {"unused", "building", "restore", "login", "save", "saving", "initial",
                   "idle", "stopped", "dead", "loop", "retry", "refreshing", "refresh_save",
                   "refresh_saving"}
    BY DEF TaskState, LoopState
<1>5. ASSUME NEW kind \in {"restore", "password", "sso"}, NEW d \in 0 .. MaxSessions,
             BeginNew(kind, d)
      PROVE  ctx' \in [Sessions -> Context] /\ created' \in 0 .. MaxSessions
    <2>1. created + 1 \in Sessions /\ created' = created + 1
        BY <1>1, <1>5 DEF BeginNew, Sessions
    <2>2. ctx' = [ctx EXCEPT ![created + 1] =
                    [@ EXCEPT !.pc = "building", !.kind = kind, !.dir = d]]
        BY <1>5 DEF BeginNew
    <2>3. ctx' \in [Sessions -> Context]
        BY <1>1, <2>1, <2>2, ContextTypes
    <2> QED
        BY <2>1, <2>3 DEF Sessions
<1>6. ASSUME NEW c \in Sessions, NEW st \in Status, GiveUp(c, st)
      PROVE  /\ ctx' \in [Sessions -> Context] /\ told' \in Status
             /\ process' \in {"down", "initializing", "up"} /\ current' \in 0 .. MaxSessions
    <2>1. ctx' \in [Sessions -> Context]
        BY <1>1, <1>4, <1>6, ContextTypes DEF GiveUp
    <2> QED
        BY <1>6, <2>1 DEF GiveUp, TypeOK
<1>7. {"none", "Connected", "LoggedIn", "LoggedOut", "NetworkUnavailable", "SessionInvalid",
       "Error"} = Status
    BY DEF Status
<1>8. CASE initialize
    BY <1>20, <1>1, <1>5, <1>8 DEF initialize, TypeOK
<1>9. ASSUME NEW kind \in {"password", "sso"}, CheckLogin(kind)
      PROVE  TypeOK'
    BY <1>20, <1>9 DEF CheckLogin, TypeOK
<1>10. CASE Reset
    <2>1. request \in {"restore", "password", "sso"} /\ dir + 1 \in 0 .. MaxSessions
        BY <1>1, <1>10 DEF Reset, TypeOK, FilesOK
    <2> QED
        BY <1>3, <1>5, <1>10, <2>1 DEF Reset, TypeOK, FilesOK
<1>11. CASE ResetFails
    <2>1. diskErrors' \in 0 .. MaxDiskErrors
        BY <1>11 DEF ResetFails, TypeOK, FilesOK
    <2>2. authFile' \in AuthFile /\ dir' \in 0 .. MaxSessions /\ dirExists' \in BOOLEAN
        <3>1. dirExists \in BOOLEAN
            BY DEF TypeOK, FilesOK
        <3>2. CASE UNCHANGED <<authFile, dir, dirExists>>
            BY <1>1, <3>1, <3>2
        <3>3. CASE /\ dir < MaxSessions /\ authFile' = MissingFile /\ dir' = dir + 1
                   /\ dirExists' \in {dirExists, FALSE}
            <4>1. dirExists' \in BOOLEAN
                BY <3>1, <3>3, Zenon
            <4>2. dir + 1 \in 0 .. MaxSessions
                BY <1>1, <3>3
            <4> QED
                BY <1>3, <3>3, <4>1, <4>2
        <3> QED
            BY <1>11, <3>2, <3>3 DEF ResetFails
    <2> QED
        BY <1>7, <1>11, <2>1, <2>2 DEF ResetFails, TypeOK, FilesOK
<1>12. ASSUME NEW c \in Sessions, StartStep(c)
       PROVE  TypeOK'
    <2>0. CASE OpenStore(c)
        BY <2>0 DEF OpenStore, TypeOK, FilesOK
    <2>1. CASE Built(c)
        <3>1. ctx' \in [Sessions -> Context]
            BY <1>1, <1>4, <2>1, ContextTypes DEF Built
        <3> QED
            BY <1>20, <1>2, <2>1, <3>1 DEF Built, TypeOK
    <2>2. CASE BuildFails(c)
        <3>1. ctx' \in [Sessions -> Context]
            BY <1>1, <1>4, <2>2, ContextTypes DEF BuildFails
        <3> QED
            BY <1>20, <1>7, <2>2, <3>1 DEF BuildFails, TypeOK
    <2>3. CASE restore_session(c)
        <3>1. authFile.token \in Token
            BY <1>1 DEF AuthFile
        <3>2. [ctx EXCEPT ![c] = [@ EXCEPT !.pc = "initial", !.token = authFile.token]]
                \in [Sessions -> Context]
            BY <1>1, <1>4, <3>1, ContextTypes
        <3> QED
            BY <1>20, <1>6, <1>7, <2>3, <3>2 DEF restore_session, TypeOK
    <2>4. CASE LoginOk(c)
        <3>1. [login |-> c, gen |-> 0] \in Token
            BY <1>2 DEF Token
        <3>2. ctx' \in [Sessions -> Context]
            BY <1>1, <1>4, <2>4, <3>1, ContextTypes DEF LoginOk
        <3>3. server' \in [Sessions -> [state : {"none", "valid", "expired", "revoked"},
                                        gen : 0 .. MaxRefreshes]]
            BY <1>20, <2>4 DEF LoginOk, TypeOK
        <3> QED
            BY <1>20, <2>4, <3>2, <3>3 DEF LoginOk, TypeOK
    <2>5. CASE LoginFails(c)
        BY <1>20, <1>6, <1>7, <2>5 DEF LoginFails, TypeOK
    <2>6. CASE InitialSyncOk(c)
        <3>1. ctx' \in [Sessions -> Context]
            BY <1>1, <2>6, ContextTypes DEF InitialSyncOk
        <3> QED
            BY <1>20, <2>6, <3>1 DEF InitialSyncOk, TypeOK
    <2>7. CASE InitialSyncFails(c)
        BY <1>20, <1>6, <1>7, <2>7 DEF InitialSyncFails, TypeOK
    <2>8. CASE ReplyLoggedIn(c)
        <3>1. ctx' \in [Sessions -> Context]
            BY <1>1, <2>8, ContextTypes DEF ReplyLoggedIn
        <3> QED
            BY <1>20, <1>7, <2>8, <3>1 DEF ReplyLoggedIn, TypeOK
    <2> QED
        BY <1>12, <2>0, <2>1, <2>2, <2>3, <2>4, <2>5, <2>6, <2>7, <2>8 DEF StartStep
<1>13. ASSUME NEW c \in Sessions, SaveStep(c)
       PROVE  TypeOK'
    <2>0. /\ authFile.token.login \in 0 .. MaxSessions
          /\ ctx[c].token.login \in 0 .. MaxSessions
          /\ mixed \subseteq Sessions /\ overwritten \subseteq 0 .. MaxSessions
        BY <1>1, <1>2 DEF AuthFile, Token, TypeOK, FilesOK
    <2>4. ASSUME Tear(c)
          PROVE  authFile' \in AuthFile /\ overwritten' \subseteq 0 .. MaxSessions
        BY <1>1, <2>0, <2>4 DEF Tear, AuthFile
    <2>1. CASE BeginSave(c)
        <3>1. ctx' \in [Sessions -> Context]
            BY <1>1, <1>4, <2>1, ContextTypes DEF BeginSave
        <3>2. authFile' \in AuthFile
            BY <1>1, <1>2, <2>1 DEF BeginSave, AuthFile
        <3>3. mixed' \subseteq Sessions /\ overwritten' \subseteq 0 .. MaxSessions
            BY <2>0, <2>1 DEF BeginSave
        <3> QED
            BY <2>1, <3>1, <3>2, <3>3 DEF BeginSave, TypeOK, FilesOK
    <2>2. CASE EndSave(c)
        <3>1. ctx' \in [Sessions -> Context]
            BY <1>1, <1>4, <2>2, ContextTypes DEF EndSave
        <3>2. authFile' \in AuthFile /\ overwritten' \subseteq 0 .. MaxSessions
            <4>1. CASE authFile' = [kind |-> "data", token |-> ctx[c].token]
                       /\ overwritten' = (overwritten \cup {authFile.token.login})
                                            \ {ctx[c].token.login}
                BY <1>2, <2>0, <4>1 DEF AuthFile
            <4>2. CASE UNCHANGED <<authFile, overwritten>>
                BY <1>1, <2>0, <4>2
            <4> QED
                BY <2>2, <2>4, <4>1, <4>2 DEF EndSave
        <3> QED
            BY <2>2, <3>1, <3>2 DEF EndSave, TypeOK, FilesOK
    <2>3. CASE SaveFails(c)
        <3>1. /\ diskErrors' \in 0 .. MaxDiskErrors
              /\ authFile' \in AuthFile /\ overwritten' \subseteq 0 .. MaxSessions
            BY <1>1, <2>0, <2>3, <2>4 DEF SaveFails, TypeOK, FilesOK
        <3>2. [ctx EXCEPT ![c].pc = "loop"] \in [Sessions -> Context]
            BY <1>1, <1>4, ContextTypes
        <3> QED
            BY <1>6, <1>7, <2>3, <3>1, <3>2 DEF SaveFails, TypeOK, FilesOK
    <2> QED
        BY <1>13, <2>1, <2>2, <2>3 DEF SaveStep
<1>14. ASSUME NEW c \in Sessions, LoopStep(c) \/ SyncOtherError(c)
       PROVE  TypeOK'
    <2>1. ASSUME NEW cause \in {"hard", "network", "rejected", "other"}, Stop(c, cause)
          PROVE  ctx' \in [Sessions -> Context] /\ told' \in Status
        BY <1>1, <1>7, <2>1, ContextTypes DEF Stop
    <2>2. \A pc \in {"loop", "refreshing"} : [ctx EXCEPT ![c].pc = pc] \in [Sessions -> Context]
        BY <1>1, <1>4, ContextTypes
    <2>3. CASE SyncOk(c)
        <3>1. ctx' \in [Sessions -> Context]
            BY <1>1, <2>3, ContextTypes DEF SyncOk
        <3> QED
            BY <1>20, <1>7, <2>3, <3>1 DEF SyncOk, TypeOK
    <2>4. CASE handle_connection_error(c)
        <3>1. ctx' = [ctx EXCEPT ![c] = [@ EXCEPT !.pc = "retry", !.offline = TRUE]]
            BY <1>1, <2>4 DEF handle_connection_error, Context
        <3>2. ctx' \in [Sessions -> Context]
            BY <1>1, <3>1, ContextTypes
        <3> QED
            BY <1>20, <1>7, <2>4, <3>2 DEF handle_connection_error, TypeOK
    <2>5. CASE Retry(c)
        BY <1>20, <2>2, <2>5 DEF Retry, TypeOK
    <2>6. CASE handle_token_error(c)
        BY <1>20, <2>1, <2>2, <2>6 DEF handle_token_error, TypeOK
    <2>7. CASE RefreshOk(c)
        <3> DEFINE t == ctx[c].token
        <3>1. t.gen + 1 \in 0 .. MaxRefreshes /\ [t EXCEPT !.gen = t.gen + 1] \in Token
            BY <1>2, <2>7 DEF RefreshOk, Token
        <3>2. ctx' \in [Sessions -> Context]
            BY <1>1, <1>4, <2>7, <3>1, ContextTypes DEF RefreshOk
        <3>3. server' \in [Sessions -> [state : {"none", "valid", "expired", "revoked"},
                                        gen : 0 .. MaxRefreshes]]
            BY <1>20, <2>7, <3>1 DEF RefreshOk, TypeOK
        <3> QED
            BY <1>20, <2>7, <3>2, <3>3 DEF RefreshOk, TypeOK
    <2>8. CASE RefreshFails(c)
        BY <1>20, <2>1, <2>8 DEF RefreshFails, TypeOK
    <2>9. CASE SyncOtherError(c)
        BY <1>20, <2>1, <2>9 DEF SyncOtherError, TypeOK
    <2> QED
        BY <1>14, <2>3, <2>4, <2>5, <2>6, <2>7, <2>8, <2>9 DEF LoopStep
<1>15. ASSUME NEW l \in Sessions, ServerStep(l)
       PROVE  TypeOK'
    BY <1>20, <1>15 DEF ServerStep, TypeOK
<1>16. CASE NetworkDown \/ NetworkUp
    <2>1. outages' \in 0 .. MaxOutages
        BY <1>20, <1>16 DEF NetworkDown, NetworkUp, TypeOK
    <2>2. online' \in BOOLEAN
        BY <1>16 DEF NetworkDown, NetworkUp
    <2> QED
        BY <1>20, <1>16, <2>1, <2>2 DEF NetworkDown, NetworkUp, TypeOK
<1>17. CASE Crash
    <2>1. ASSUME NEW x \in Context
          PROVE  [x EXCEPT !.pc = "dead", !.reply = FALSE] \in Context
        BY <1>4 DEF Context
    <2>2. ctx' \in [Sessions -> Context]
        BY <1>2, <1>17, <2>1 DEF Crash
    <2>3. /\ process' = "down" /\ request' = "none" /\ current' = 0 /\ told' = "none"
          /\ UNCHANGED <<created, dir, dirExists, mixed, server, online, outages, diskErrors>>
        BY <1>17 DEF Crash
    <2>5. authFile' \in AuthFile /\ overwritten' \subseteq 0 .. MaxSessions
        <3>1. ASSUME NEW c \in Sessions, Tear(c)
              PROVE  authFile' \in AuthFile /\ overwritten' \subseteq 0 .. MaxSessions
            BY <1>1, <1>2, <3>1 DEF Tear, AuthFile, Token, TypeOK, FilesOK
        <3> QED
            BY <1>1, <1>17, <3>1 DEF Crash, TypeOK, FilesOK
    <2>4. current' \in 0 .. MaxSessions /\ told' \in Status
        BY <1>7, <2>3
    <2>6. FilesOK'
        BY <2>3, <2>5 DEF TypeOK, FilesOK
    <2> QED
        BY <2>2, <2>3, <2>4, <2>5, <2>6 DEF TypeOK
<1>18. CASE UNCHANGED vars
    BY <1>18 DEF vars, TypeOK, FilesOK
<1> QED
    BY <1>8, <1>9, <1>10, <1>11, <1>12, <1>13, <1>14, <1>15, <1>16, <1>17, <1>18 DEF Next

(* SyncSession is well typed.                                              *)
THEOREM TypeCorrect == Spec => []TypeOK
BY TypeInit, TypeStep, PTL DEF Spec

-----------------------------------------------------------------------------
(***************************************************************************)
(* What the steps of a context do to the parts of the state the invariant  *)
(* is about.                                                               *)
(***************************************************************************)

(* Nothing else changes but context c, and this one stays what it is.      *)
Framed(c) ==
    /\ \A d \in Sessions \ {c} : ctx'[d] = ctx[d]
    /\ ctx'[c].kind = ctx[c].kind /\ ctx'[c].dir = ctx[c].dir
    /\ created' = created /\ request' = request /\ dir' = dir /\ dirExists' = dirExists

SameFlags(c) ==
    ctx'[c].reply = ctx[c].reply /\ ctx'[c].announced = ctx[c].announced

SameToken(c) == ctx'[c].token = ctx[c].token

SameFile == authFile' = authFile /\ overwritten' = overwritten

SameFiles == SameFile /\ server' = server

Tears(c) ==
    /\ authFile'.kind = "torn" /\ authFile'.token = authFile.token
    /\ overwritten' = overwritten \cup {authFile.token.login, ctx[c].token.login}

IsBuilt(c) ==
    /\ ctx[c].pc = "building"
    /\ ctx'[c].pc = IF ctx[c].kind = "restore" THEN "restore" ELSE "login"
    /\ SameFlags(c) /\ SameToken(c) /\ SameFiles /\ process' = process /\ diskErrors' = diskErrors

GivesUp(c) ==
    /\ ctx[c].pc \in {"building", "restore", "login", "save", "saving", "initial"}
    /\ ctx'[c].pc \in {"idle", "dead"}
    /\ SameFlags(c) /\ SameToken(c) /\ server' = server
    /\ SameFile \/ (Saving(c) /\ Tears(c))
    /\ process' = process \/ (ctx[c].kind = "restore" /\ process' \in {"up", "down"})
    /\ ctx[c].kind = "restore" => process' # "initializing"
    /\ diskErrors' \in {diskErrors, diskErrors + 1}

IsRestored(c) ==
    /\ ctx[c].pc = "restore" /\ ctx'[c].pc = "initial"
    /\ authFile.kind = "data" /\ ctx'[c].token = authFile.token
    /\ SameFlags(c) /\ SameFiles /\ process' = process /\ diskErrors' = diskErrors

LogsIn(c) ==
    /\ ctx[c].pc = "login" /\ ctx'[c].pc = "save"
    /\ ctx'[c].token = [login |-> c, gen |-> 0]
    /\ server'[c].state = "valid"
    /\ \A l \in Sessions \ {c} : server'[l] = server[l]
    /\ SameFlags(c) /\ SameFile /\ process' = process /\ diskErrors' = diskErrors

Starts(c) ==
    /\ ctx[c].pc = "initial" /\ ctx'[c].pc = "loop"
    /\ ctx'[c].reply = TRUE /\ ctx'[c].announced = ctx[c].announced
    /\ SameToken(c) /\ SameFiles /\ process' = process /\ diskErrors' = diskErrors

Announces(c) ==
    /\ ctx[c].reply = TRUE /\ ctx'[c].reply = FALSE /\ ctx'[c].announced = TRUE
    /\ ctx'[c].pc = ctx[c].pc /\ ctx'[c].opened = ctx[c].opened
    /\ process' = "up"
    /\ SameToken(c) /\ SameFiles /\ diskErrors' = diskErrors

Opens(c) ==
    /\ \/ ctx[c].pc = "save" /\ ctx'[c].pc = "saving"
       \/ ctx[c].pc = "refresh_save" /\ ctx'[c].pc = "refresh_saving"
    /\ ctx'[c].opened = dir
    /\ dirExists
    /\ authFile'.kind = "torn" /\ authFile'.token = ctx[c].token
    /\ overwritten' = (overwritten \cup {authFile.token.login}) \ {ctx[c].token.login}
    /\ SameFlags(c) /\ SameToken(c) /\ server' = server /\ process' = process
    /\ diskErrors' = diskErrors

Writes(c) ==
    /\ \/ ctx[c].pc = "saving" /\ ctx'[c].pc = "initial"
       \/ ctx[c].pc = "refresh_saving" /\ ctx'[c].pc = "loop"
    /\ \/ /\ Saving(c)
          /\ authFile'.kind = "data" /\ authFile'.token = ctx[c].token
          /\ overwritten' = (overwritten \cup {authFile.token.login}) \ {ctx[c].token.login}
       \/ Saving(c) /\ Tears(c)
       \/ (Saving(c) => authFile.token.login # ctx[c].token.login) /\ SameFile
    /\ SameFlags(c) /\ SameToken(c) /\ server' = server /\ process' = process
    /\ diskErrors' = diskErrors

IsUnsaved(c) ==
    /\ ctx[c].pc \in {"refresh_save", "refresh_saving"} /\ ctx'[c].pc = "loop"
    /\ SameFlags(c) /\ SameToken(c) /\ server' = server /\ process' = process
    /\ \/ SameFile /\ diskErrors' = diskErrors /\ ~dirExists
       \/ SameFile /\ diskErrors' = diskErrors + 1
       \/ Saving(c) /\ Tears(c) /\ diskErrors' = diskErrors + 1

Loops(c) ==
    /\ ctx[c].pc \in {"loop", "retry", "refreshing"}
    /\ ctx'[c].pc \in {"loop", "retry", "refreshing", "stopped"}
    /\ SameFlags(c) /\ SameToken(c) /\ SameFiles /\ process' = process /\ diskErrors' = diskErrors

Refreshes(c) ==
    /\ ctx[c].pc = "refreshing" /\ ctx'[c].pc = "refresh_save"
    /\ ctx'[c].token.login = ctx[c].token.login /\ ctx'[c].token.gen > 0
    /\ \A l \in Sessions : server'[l] = server[l] \/ server'[l].state = "valid"
    /\ \A l \in Sessions : server[l].state = "none" => server'[l].state = "none"
    /\ SameFlags(c) /\ SameFile /\ process' = process /\ diskErrors' = diskErrors

Effect(c) ==
    /\ Framed(c)
    /\ \/ IsBuilt(c) \/ GivesUp(c) \/ IsRestored(c) \/ LogsIn(c) \/ Starts(c) \/ Announces(c)
       \/ Opens(c) \/ Writes(c) \/ IsUnsaved(c) \/ Loops(c) \/ Refreshes(c)

(* Every step of a context has one of these effects.                       *)
LEMMA Effects ==
    ASSUME TypeOK, NEW c \in Sessions,
           StartStep(c) \/ SaveStep(c) \/ LoopStep(c) \/ SyncOtherError(c)
    PROVE  OpenStore(c) \/ Effect(c)
<1>1. ctx \in [Sessions -> Context] /\ ctx[c] \in Context
    BY DEF TypeOK
<1>2. ASSUME NEW pc, ctx' = [ctx EXCEPT ![c].pc = pc]
      PROVE  /\ \A d \in Sessions \ {c} : ctx'[d] = ctx[d]
             /\ ctx'[c].pc = pc
             /\ ctx'[c].kind = ctx[c].kind /\ ctx'[c].dir = ctx[c].dir
             /\ SameFlags(c) /\ SameToken(c)
    BY <1>1, <1>2 DEF Context, SameFlags, SameToken
<1> USE DEF Effect, Framed, SameFile, fileVars
<1>3. CASE Built(c)
    BY <1>2, <1>3 DEF Built, IsBuilt, SameFiles
<1>4. CASE BuildFails(c)
    BY <1>2, <1>4 DEF BuildFails, GivesUp, SameFiles
<1>23. ASSUME Tear(c)
       PROVE  Tears(c)
    BY <1>23 DEF Tear, Tears, TypeOK, FilesOK, AuthFile
<1>5. ASSUME NEW st, GiveUp(c, st), server' = server, SameFile \/ (Saving(c) /\ Tears(c)),
             diskErrors' \in {diskErrors, diskErrors + 1}, dirExists' = dirExists,
             ctx[c].pc \in {"building", "restore", "login", "save", "saving", "initial"},
             created' = created, request' = request, dir' = dir
      PROVE  Effect(c)
    <2>1. /\ process' = process \/ (ctx[c].kind = "restore" /\ process' \in {"up", "down"})
          /\ ctx[c].kind = "restore" => process' # "initializing"
        BY <1>5 DEF GiveUp
    <2>2. ctx' = [ctx EXCEPT ![c].pc = "idle"]
        BY <1>5 DEF GiveUp
    <2> QED
        BY <1>2, <1>5, <2>1, <2>2 DEF GivesUp
<1>6. CASE restore_session(c)
    <2>1. ASSUME NEW st, GiveUp(c, st)
          PROVE  Effect(c)
        BY <1>5, <1>6, <2>1 DEF restore_session, SameFiles
    <2>2. ASSUME authFile.kind = "data", process' = process,
                 ctx' = [ctx EXCEPT ![c] = [@ EXCEPT !.pc = "initial", !.token = authFile.token]]
          PROVE  Effect(c)
        <3>1. /\ \A d \in Sessions \ {c} : ctx'[d] = ctx[d]
              /\ ctx'[c].pc = "initial" /\ ctx'[c].token = authFile.token
              /\ ctx'[c].kind = ctx[c].kind /\ ctx'[c].dir = ctx[c].dir /\ SameFlags(c)
            BY <1>1, <2>2 DEF Context, SameFlags
        <3> QED
            BY <1>6, <2>2, <3>1 DEF restore_session, IsRestored, SameFiles
    <2> QED
        BY <1>6, <2>1, <2>2 DEF restore_session
<1>7. CASE LoginOk(c)
    <2>1. /\ \A d \in Sessions \ {c} : ctx'[d] = ctx[d]
          /\ ctx'[c].pc = "save" /\ ctx'[c].token = [login |-> c, gen |-> 0]
          /\ ctx'[c].kind = ctx[c].kind /\ ctx'[c].dir = ctx[c].dir /\ SameFlags(c)
        <3>1. ctx' = [ctx EXCEPT ![c] = [@ EXCEPT !.pc = "save",
                                                  !.token = [login |-> c, gen |-> 0]]]
            BY <1>7 DEF LoginOk
        <3> QED
            BY <1>1, <3>1 DEF Context, SameFlags
    <2>2. server'[c].state = "valid" /\ \A l \in Sessions \ {c} : server'[l] = server[l]
        BY <1>7 DEF LoginOk, TypeOK
    <2> QED
        BY <1>7, <2>1, <2>2 DEF LoginOk, LogsIn
<1>8. CASE LoginFails(c)
    BY <1>5, <1>8 DEF LoginFails, SameFiles
<1>9. CASE InitialSyncOk(c)
    <2>1. /\ \A d \in Sessions \ {c} : ctx'[d] = ctx[d]
          /\ ctx'[c].pc = "loop" /\ ctx'[c].token = ctx[c].token
          /\ ctx'[c].kind = ctx[c].kind /\ ctx'[c].dir = ctx[c].dir
          /\ ctx'[c].reply = TRUE /\ ctx'[c].announced = ctx[c].announced
        BY <1>1, <1>9 DEF InitialSyncOk, Context
    <2> QED
        BY <1>9, <2>1 DEF InitialSyncOk, Starts, SameToken, SameFiles
<1>10. CASE InitialSyncFails(c)
    BY <1>5, <1>10 DEF InitialSyncFails, SameFiles
<1>11. CASE ReplyLoggedIn(c)
    <2>1. /\ \A d \in Sessions \ {c} : ctx'[d] = ctx[d]
          /\ ctx'[c].pc = ctx[c].pc /\ ctx'[c].token = ctx[c].token
          /\ ctx'[c].kind = ctx[c].kind /\ ctx'[c].dir = ctx[c].dir
          /\ ctx'[c].reply = FALSE /\ ctx'[c].announced = TRUE
          /\ ctx'[c].opened = ctx[c].opened
        BY <1>1, <1>11 DEF ReplyLoggedIn, Context
    <2>2. ctx[c].reply = TRUE
        BY <1>1, <1>11 DEF ReplyLoggedIn, Context
    <2> QED
        BY <1>11, <2>1, <2>2 DEF ReplyLoggedIn, Announces, SameToken, SameFiles
<1>12. CASE BeginSave(c)
    <2> DEFINE pc == IF ctx[c].pc = "save" THEN "saving" ELSE "refresh_saving"
    <2>1. ctx' = [ctx EXCEPT ![c] = [@ EXCEPT !.pc = pc, !.opened = dir]]
        BY <1>12 DEF BeginSave
    <2>2. /\ \A d \in Sessions \ {c} : ctx'[d] = ctx[d]
          /\ ctx'[c].pc = pc /\ ctx'[c].opened = dir
          /\ ctx'[c].kind = ctx[c].kind /\ ctx'[c].dir = ctx[c].dir
          /\ SameFlags(c) /\ SameToken(c)
        BY <1>1, <2>1 DEF Context, SameFlags, SameToken
    <2>3. authFile'.kind = "torn" /\ authFile'.token = ctx[c].token
        BY <1>12 DEF BeginSave
    <2> QED
        BY <1>12, <2>2, <2>3 DEF BeginSave, Opens
<1>13. CASE EndSave(c)
    <2> DEFINE pc == IF ctx[c].pc = "saving" THEN "initial" ELSE "loop"
    <2>1. ctx' = [ctx EXCEPT ![c].pc = pc]
        BY <1>1, <1>13 DEF EndSave, Context
    <2>2. \/ /\ Saving(c)
             /\ authFile'.kind = "data" /\ authFile'.token = ctx[c].token
             /\ overwritten' = (overwritten \cup {authFile.token.login})
                                  \ {ctx[c].token.login}
          \/ Saving(c) /\ Tears(c)
          \/ (Saving(c) => authFile.token.login # ctx[c].token.login) /\ SameFile
        BY <1>13, <1>23 DEF EndSave
    <2> QED
        BY <1>2, <1>13, <2>1, <2>2 DEF EndSave, Writes
<1>14. CASE SaveFails(c)
    <2>1. SameFile \/ (Saving(c) /\ Tears(c))
        BY <1>14, <1>23 DEF SaveFails
    <2>2. CASE ctx[c].pc \in {"save", "saving"}
        BY <1>5, <1>14, <2>1, <2>2 DEF SaveFails
    <2>3. CASE ctx[c].pc \notin {"save", "saving"}
        BY <1>2, <1>14, <1>23, <2>1, <2>3 DEF SaveFails, IsUnsaved
    <2> QED
        BY <2>2, <2>3
<1>15. ASSUME NEW cause, Stop(c, cause)
       PROVE  /\ \A d \in Sessions \ {c} : ctx'[d] = ctx[d]
              /\ ctx'[c].pc = "stopped"
              /\ ctx'[c].kind = ctx[c].kind /\ ctx'[c].dir = ctx[c].dir
              /\ SameFlags(c) /\ SameToken(c)
    BY <1>1, <1>15 DEF Stop, Context, SameFlags, SameToken
<1>16. CASE SyncOk(c)
    <2>1. /\ \A d \in Sessions \ {c} : ctx'[d] = ctx[d]
          /\ ctx'[c].pc = ctx[c].pc
          /\ ctx'[c].kind = ctx[c].kind /\ ctx'[c].dir = ctx[c].dir
          /\ SameFlags(c) /\ SameToken(c)
        BY <1>1, <1>16 DEF SyncOk, Context, SameFlags, SameToken
    <2> QED
        BY <1>16, <2>1 DEF SyncOk, Loops, SameFiles
<1>17. CASE handle_connection_error(c)
    <2>1. /\ \A d \in Sessions \ {c} : ctx'[d] = ctx[d]
          /\ ctx'[c].pc = "retry"
          /\ ctx'[c].kind = ctx[c].kind /\ ctx'[c].dir = ctx[c].dir
          /\ SameFlags(c) /\ SameToken(c)
        <3>1. ctx' = [ctx EXCEPT ![c] = [@ EXCEPT !.offline = TRUE, !.pc = "retry"]]
            BY <1>17 DEF handle_connection_error
        <3> QED
            BY <1>1, <3>1 DEF Context, SameFlags, SameToken
    <2> QED
        BY <1>17, <2>1 DEF handle_connection_error, Loops, SameFiles
<1>18. CASE Retry(c)
    BY <1>2, <1>18 DEF Retry, Loops, SameFiles
<1>19. CASE handle_token_error(c)
    BY <1>2, <1>15, <1>19 DEF handle_token_error, Loops, SameFiles
<1>20. CASE RefreshFails(c)
    BY <1>15, <1>20 DEF RefreshFails, Loops, SameFiles
<1>21. CASE SyncOtherError(c)
    BY <1>15, <1>21 DEF SyncOtherError, Loops, SameFiles
<1>22. CASE RefreshOk(c)
    <2> DEFINE t == ctx[c].token
    <2>1. ctx' = [ctx EXCEPT ![c] = [@ EXCEPT !.pc = "refresh_save",
                                              !.token = [t EXCEPT !.gen = t.gen + 1]]]
        BY <1>22 DEF RefreshOk
    <2>2. /\ \A d \in Sessions \ {c} : ctx'[d] = ctx[d]
          /\ ctx'[c].pc = "refresh_save" /\ ctx'[c].token = [t EXCEPT !.gen = t.gen + 1]
          /\ ctx'[c].kind = ctx[c].kind /\ ctx'[c].dir = ctx[c].dir /\ SameFlags(c)
        BY <1>1, <2>1 DEF Context, SameFlags
    <2>3. ctx'[c].token.login = t.login /\ ctx'[c].token.gen > 0
        BY <1>1, <2>2, SyncSessionAssumption DEF Context, Token
    <2>4. /\ \A l \in Sessions : server'[l] = server[l] \/ server'[l].state = "valid"
          /\ \A l \in Sessions : server[l].state = "none" => server'[l].state = "none"
        BY <1>22 DEF RefreshOk, TypeOK
    <2> QED
        BY <1>22, <2>2, <2>3, <2>4 DEF RefreshOk, Refreshes
<1> QED
    BY <1>3, <1>4, <1>6, <1>7, <1>8, <1>9, <1>10, <1>11, <1>12, <1>13, <1>14, <1>16, <1>17,
       <1>18, <1>19, <1>20, <1>21, <1>22
    DEF StartStep, SaveStep, LoopStep

-----------------------------------------------------------------------------
(* The invariant is inductive.                                             *)

(* It holds initially.                                                     *)
LEMMA InvInit == Init => SessionInv
<1> SUFFICES ASSUME Init
             PROVE  SessionInv
    OBVIOUS
<1>1. \A c \in Sessions :
        /\ ctx[c] = UnusedContext /\ ctx[c].pc = "unused" /\ ctx[c].dir = 0
        /\ ctx[c].reply = FALSE /\ ctx[c].announced = FALSE /\ ctx[c].token.login = 0
    BY DEF Init, UnusedContext, NoToken
<1>2. authFile.kind = "missing"
    BY DEF Init, MissingFile
<1>3. UnusedInv /\ ProcessInv /\ KindInv
    BY <1>1 DEF Init, UnusedInv, ProcessInv, KindInv, Active, Live, LoopState
<1>4. DirInv /\ SavedInv
    BY <1>1, <1>2 DEF Init, DirInv, SavedInv, Saving
<1>6. FreshInv
    BY <1>1 DEF FreshInv, Sessions
<1>5. LoginInv /\ GenInv
    BY <1>1, <1>2 DEF Init, LoginInv, GenInv, Live, LoopState
<1> QED
    BY <1>3, <1>4, <1>5, <1>6 DEF SessionInv

(* The steps of a context keep it, part by part.                           *)
LEMMA ContextProcess ==
    ASSUME TypeOK, UnusedInv, ProcessInv, KindInv, NEW c \in Sessions, Effect(c)
    PROVE  UnusedInv' /\ ProcessInv' /\ KindInv'
<1> USE DEF Active, Live, LoopState
<1>1. Framed(c) /\ \A d \in Sessions \ {c} : ctx'[d] = ctx[d]
    BY DEF Effect, Framed
<1>2. ctx[c].pc # "unused" \/ ctx[c].reply = TRUE
    BY DEF Effect, IsBuilt, GivesUp, IsRestored, LogsIn, Starts, Announces, Opens, Writes,
           IsUnsaved, Loops, Refreshes
<1>3. UnusedInv'
    <2>1. ~(c > created)
        BY <1>2 DEF UnusedInv, UnusedContext
    <2> QED
        BY <1>1, <2>1 DEF UnusedInv, Framed
<1>4. \A d \in Sessions : ctx[d].reply \in BOOLEAN
    BY DEF TypeOK, Context
<1>5. ASSUME process' = process, ctx'[c].pc \in Active => ctx[c].pc \in Active,
             ctx'[c].reply => (ctx[c].reply \/ ctx[c].pc \in Active)
      PROVE  ProcessInv'
    BY <1>1, <1>5 DEF ProcessInv, Framed
<1>6. ASSUME process' = process, ctx'[c].pc = "restore" => ctx[c].kind = "restore",
             ctx'[c].pc \in {"login", "save", "saving"} => ctx[c].kind # "restore",
             (ctx[c].kind = "restore" /\ ctx'[c].pc \in {"restore", "initial"}) =>
                 process = "initializing",
             ctx'[c].pc # "building",
             ctx'[c].reply => ctx'[c].pc \in LoopState \cup {"stopped"}
      PROVE  KindInv'
    BY <1>1, <1>6 DEF KindInv, Framed
<1>7. CASE IsBuilt(c)
    BY <1>3, <1>5, <1>6, <1>7 DEF IsBuilt, SameFlags, KindInv
<1>8. CASE GivesUp(c)
    <2>1. ctx'[c].pc \notin Active /\ ctx'[c].reply = ctx[c].reply /\ ~ctx[c].reply
        BY <1>8 DEF GivesUp, SameFlags, KindInv
    <2>2. CASE process' = process /\ ctx[c].kind # "restore"
        BY <1>3, <1>5, <1>6, <1>8, <2>1, <2>2 DEF GivesUp, SameFlags
    <2>3. CASE ctx[c].kind = "restore"
        <3>1. process = "initializing"
            BY <1>8, <2>3 DEF GivesUp, KindInv
        <3>2. \A d \in Sessions : ctx'[d].pc \notin Active /\ ~ctx'[d].reply
            BY <1>1, <1>8, <2>1, <3>1 DEF ProcessInv, GivesUp
        <3>3. request' = "none" /\ process' # "initializing"
            BY <1>1, <1>8, <2>3, <3>1 DEF Framed, ProcessInv, GivesUp
        <3>4. ProcessInv'
            BY <3>2, <3>3 DEF ProcessInv
        <3>5. KindInv'
            BY <3>2 DEF KindInv
        <3> QED
            BY <1>3, <3>4, <3>5
    <2> QED
        BY <1>8, <2>2, <2>3 DEF GivesUp
<1>9. CASE IsRestored(c)
    BY <1>3, <1>5, <1>6, <1>9 DEF IsRestored, SameFlags, KindInv
<1>10. CASE LogsIn(c)
    BY <1>3, <1>5, <1>6, <1>10 DEF LogsIn, SameFlags, KindInv
<1>11. CASE Starts(c)
    BY <1>3, <1>5, <1>6, <1>11 DEF Starts, KindInv
<1>12. CASE Announces(c)
    <2>1. ctx'[c].pc = ctx[c].pc /\ process' = "up" /\ ~ctx'[c].reply /\ ctx[c].reply
        BY <1>12 DEF Announces
    <2>2. ProcessInv'
        BY <2>1 DEF ProcessInv
    <2>3. ctx[c].pc \in LoopState \cup {"stopped"}
        BY <2>1 DEF KindInv
    <2>4. process # "down"
        BY <2>1 DEF ProcessInv
    <2>5. \A d \in Sessions : ~(ctx[d].kind = "restore"
                                /\ ctx[d].pc \in {"building", "restore", "initial"})
        BY <2>1, <2>3 DEF ProcessInv, KindInv
    <2>6. KindInv'
        BY <1>1, <2>1, <2>3, <2>5 DEF KindInv, Framed
    <2> QED
        BY <1>3, <2>2, <2>6
<1>13. CASE Opens(c)
    BY <1>3, <1>5, <1>6, <1>13 DEF Opens, SameFlags, KindInv
<1>14. CASE Writes(c)
    BY <1>3, <1>5, <1>6, <1>14 DEF Writes, SameFlags, KindInv
<1>15. CASE IsUnsaved(c)
    BY <1>3, <1>5, <1>6, <1>15 DEF IsUnsaved, SameFlags, KindInv
<1>16. CASE Loops(c)
    BY <1>3, <1>5, <1>6, <1>16 DEF Loops, SameFlags, KindInv
<1>17. CASE Refreshes(c)
    BY <1>3, <1>5, <1>6, <1>17 DEF Refreshes, SameFlags, KindInv
<1> QED
    BY <1>7, <1>8, <1>9, <1>10, <1>11, <1>12, <1>13, <1>14, <1>15, <1>16, <1>17 DEF Effect

(* The directory.                                                          *)
LEMMA ContextDir ==
    ASSUME TypeOK, DirInv, NEW c \in Sessions, Effect(c)
    PROVE  DirInv'
<1>1. /\ \A d \in Sessions \ {c} : ctx'[d] = ctx[d]
      /\ ctx'[c].dir = ctx[c].dir /\ dir' = dir /\ dirExists' = dirExists
    BY DEF Effect, Framed
<1>2. /\ dir \in Nat
      /\ \A d \in Sessions : ctx[d].dir \in Nat /\ ctx[d].opened \in Nat
    BY SyncSessionAssumption DEF TypeOK, FilesOK, Context
<1> USE DEF SameFiles, SameFile
<1>3. ASSUME authFile' = authFile \/ dirExists,
             ctx'[c].pc \in {"saving", "refresh_saving"} =>
                 /\ ctx[c].dir <= ctx'[c].opened /\ ctx'[c].opened <= dir
                 /\ dirExists \/ (ctx[c].pc = ctx'[c].pc /\ ctx[c].opened = ctx'[c].opened)
      PROVE  DirInv'
    BY <1>1, <1>3 DEF DirInv, Saving
<1>5. Saving(c) => dirExists
    BY DEF DirInv
<1>4. CASE IsBuilt(c) \/ IsRestored(c) \/ LogsIn(c) \/ Starts(c) \/ Loops(c) \/ Refreshes(c)
    BY <1>3, <1>4 DEF IsBuilt, IsRestored, LogsIn, Starts, Loops, Refreshes
<1>6. CASE GivesUp(c) \/ IsUnsaved(c)
    <2>1. ctx'[c].pc \notin {"saving", "refresh_saving"}
        BY <1>6 DEF GivesUp, IsUnsaved
    <2> QED
        BY <1>3, <1>5, <1>6, <2>1 DEF GivesUp, IsUnsaved
<1>7. CASE Announces(c)
    BY <1>3, <1>7 DEF Announces, DirInv
<1>8. CASE Opens(c)
    <2>1. ctx[c].dir <= dir /\ dir <= dir
        BY <1>2 DEF DirInv
    <2> QED
        BY <1>3, <1>8, <2>1 DEF Opens
<1>9. CASE Writes(c)
    <2>1. ctx'[c].pc \notin {"saving", "refresh_saving"}
        BY <1>9 DEF Writes
    <2> QED
        BY <1>3, <1>5, <1>9, <2>1 DEF Writes
<1> QED
    BY <1>4, <1>6, <1>7, <1>8, <1>9 DEF Effect

(* The device sessions.                                                    *)
LEMMA ContextLogin ==
    ASSUME TypeOK, ProcessInv, KindInv, LoginInv, NEW c \in Sessions, Effect(c)
    PROVE  LoginInv'
<1> USE DEF Live, LoopState, SameFiles, SameFile
<1>1. \A d \in Sessions \ {c} : ctx'[d] = ctx[d]
    BY DEF Effect, Framed
<1>2. ASSUME \A l \in Sessions : server[l].state # "none" => server'[l].state # "none",
             \A l \in Sessions : (server[l].state = "none" /\ l # c) => server'[l].state = "none",
             ctx'[c].pc \in {"unused", "building", "login"} => server'[c].state = "none",
             authFile'.kind = "data" => Issued(authFile.token)',
             ctx'[c].pc \in Live =>
                /\ Issued(ctx[c].token)'
                /\ \A d \in Sessions \ {c} :
                      ctx[d].pc \in Live => ctx'[c].token.login # ctx[d].token.login
      PROVE  LoginInv'
    <2>1. \A d \in Sessions : ctx'[d].pc \in Live => Issued(ctx[d].token)'
        BY <1>1, <1>2 DEF LoginInv, Issued
    <2>2. \A d \in Sessions : ctx'[d].pc \in {"unused", "building", "login"} =>
                               server'[d].state = "none"
        BY <1>1, <1>2 DEF LoginInv
    <2>3. \A d, e \in Sessions :
            (d # e /\ ctx'[d].pc \in Live /\ ctx'[e].pc \in Live) =>
                ctx'[d].token.login # ctx'[e].token.login
        BY <1>1, <1>2 DEF LoginInv
    <2> QED
        BY <1>2, <2>1, <2>2, <2>3 DEF LoginInv, Issued
<1>3. \/ server' = server
      \/ LogsIn(c)
      \/ Refreshes(c)
    BY DEF Effect, IsBuilt, GivesUp, IsRestored, LogsIn, Starts, Announces, Opens, Writes,
           IsUnsaved, Loops, SameFiles
<1>4. /\ \A l \in Sessions : server[l].state # "none" => server'[l].state # "none"
      /\ \A l \in Sessions : (server[l].state = "none" /\ l # c) => server'[l].state = "none"
    BY <1>3 DEF LogsIn, Refreshes
<1>5. ASSUME ctx[c].pc \in Live, ctx'[c].token.login = ctx[c].token.login,
             ctx'[c].pc \notin {"unused", "building", "login"},
             authFile'.kind = "data" =>
                 \/ authFile.kind = "data" /\ authFile'.token = authFile.token
                 \/ authFile'.token.login = ctx[c].token.login
      PROVE  LoginInv'
    <2>1. Issued(ctx[c].token)'
        BY <1>4, <1>5 DEF LoginInv, Issued
    <2>2. authFile'.kind = "data" => Issued(authFile.token)'
        BY <1>4, <1>5 DEF LoginInv, Issued
    <2> QED
        BY <1>2, <1>4, <1>5, <2>1, <2>2 DEF LoginInv
<1>6. CASE IsBuilt(c) \/ GivesUp(c)
    <2>1. /\ server' = server /\ ctx'[c].pc \notin Live
          /\ authFile'.kind = "data" => authFile' = authFile
        BY <1>6 DEF IsBuilt, GivesUp, SameFiles, Tears
    <2>2. ctx'[c].pc \in {"unused", "building", "login"} => ctx[c].pc = "building"
        BY <1>6 DEF IsBuilt, GivesUp
    <2> QED
        BY <1>2, <1>4, <2>1, <2>2 DEF LoginInv, Issued
<1>7. CASE IsRestored(c)
    <2>1. process = "initializing"
        BY <1>7 DEF IsRestored, KindInv
    <2>2. \A d \in Sessions \ {c} : ctx[d].pc \notin Live
        BY <1>7, <2>1 DEF ProcessInv, IsRestored, Active
    <2>3. server' = server /\ authFile' = authFile
        BY <1>7 DEF IsRestored, SameFiles
    <2>4. Issued(authFile.token)' /\ Issued(ctx[c].token)'
        BY <1>7, <2>3 DEF IsRestored, LoginInv, Issued
    <2> QED
        BY <1>2, <1>4, <1>7, <2>2, <2>4 DEF IsRestored
<1>8. CASE LogsIn(c)
    <2>1. ctx'[c].token.login = c /\ server'[c].state # "none" /\ server[c].state = "none"
        BY <1>8 DEF LogsIn, LoginInv
    <2>2. \A d \in Sessions \ {c} : ctx[d].pc \in Live => ctx[d].token.login # c
        BY <2>1 DEF LoginInv, Issued
    <2>3. authFile'.kind = "data" => Issued(authFile.token)'
        BY <1>4, <1>8 DEF LogsIn, LoginInv, Issued
    <2>4. Issued(ctx[c].token)'
        BY <2>1 DEF Issued
    <2> QED
        BY <1>2, <1>4, <1>8, <2>1, <2>2, <2>3, <2>4 DEF LogsIn
<1>9. CASE Starts(c)
    BY <1>5, <1>9 DEF Starts, SameToken, SameFiles
<1>10. CASE Announces(c)
    <2>1. ctx[c].pc \in LoopState \cup {"stopped"} /\ ctx'[c].pc = ctx[c].pc
        BY <1>10 DEF Announces, KindInv
    <2>2. ctx'[c].token = ctx[c].token /\ server' = server /\ authFile' = authFile
        BY <1>10 DEF Announces, SameToken, SameFiles
    <2>3. ctx'[c].pc \in Live =>
             /\ Issued(ctx[c].token)'
             /\ \A d \in Sessions \ {c} :
                   ctx[d].pc \in Live => ctx'[c].token.login # ctx[d].token.login
        BY <2>1, <2>2 DEF LoginInv, Issued
    <2>4. authFile'.kind = "data" => Issued(authFile.token)'
        BY <2>2 DEF LoginInv, Issued
    <2> QED
        BY <1>2, <1>4, <2>1, <2>3, <2>4
<1>11. CASE Opens(c)
    BY <1>5, <1>11 DEF Opens, SameToken
<1>12. CASE Writes(c)
    BY <1>5, <1>12 DEF Writes, SameToken, Tears
<1>13. CASE IsUnsaved(c)
    BY <1>5, <1>13 DEF IsUnsaved, SameToken, Tears
<1>14. CASE Loops(c)
    BY <1>5, <1>14 DEF Loops, SameToken, SameFiles
<1>15. CASE Refreshes(c)
    BY <1>5, <1>15 DEF Refreshes
<1> QED
    BY <1>6, <1>7, <1>8, <1>9, <1>10, <1>11, <1>12, <1>13, <1>14, <1>15 DEF Effect

(* The stored token.                                                       *)
LEMMA ContextGen ==
    ASSUME TypeOK, KindInv, DirInv, LoginInv, GenInv, NEW c \in Sessions, Effect(c)
    PROVE  GenInv'
<1> USE DEF Live, LoopState, SameFiles, SameFile
<1>1. \A d \in Sessions \ {c} : ctx'[d] = ctx[d]
    BY DEF Effect, Framed
<1>2. diskErrors \in Nat /\ diskErrors' \in {diskErrors, diskErrors + 1}
    BY SyncSessionAssumption
    DEF TypeOK, Effect, IsBuilt, GivesUp, IsRestored, LogsIn, Starts, Announces, Opens, Writes,
        IsUnsaved, Loops, Refreshes
<1>3. SUFFICES ASSUME diskErrors' = 0
               PROVE  GenInv'
    BY DEF GenInv
<1>4. diskErrors = 0 /\ diskErrors' = diskErrors
    BY <1>2, <1>3
<1> DEFINE Good(d) ==
        (/\ ctx'[d].pc \in Live
         /\ authFile'.kind = "data"
         /\ authFile'.token.login = ctx'[d].token.login) =>
             /\ ctx'[d].pc \notin {"save", "saving", "refresh_saving"}
             /\ ctx'[d].pc # "refresh_save" => authFile'.token.gen = ctx'[d].token.gen
<1>5. ASSUME authFile' = authFile, Good(c)
      PROVE  GenInv'
    BY <1>1, <1>4, <1>5 DEF GenInv
<1>6. CASE IsBuilt(c) \/ GivesUp(c)
    <2>1. ctx'[c].pc \notin Live /\ (authFile' = authFile \/ authFile'.kind = "torn")
        BY <1>6 DEF IsBuilt, GivesUp, SameFiles, Tears
    <2>2. authFile'.kind = "torn" => GenInv'
        BY DEF GenInv
    <2> QED
        BY <1>5, <2>1, <2>2
<1>7. CASE IsRestored(c)
    BY <1>5, <1>7 DEF IsRestored, SameFiles
<1>8. CASE LogsIn(c)
    <2>1. ctx'[c].token.login = c /\ server[c].state = "none" /\ authFile' = authFile
        BY <1>8 DEF LogsIn, LoginInv
    <2>2. authFile'.kind = "data" => authFile'.token.login # c
        BY <2>1 DEF LoginInv, Issued
    <2> QED
        BY <1>5, <2>1, <2>2
<1>9. CASE Starts(c)
    BY <1>4, <1>5, <1>9 DEF Starts, SameToken, SameFiles, GenInv
<1>10. CASE Announces(c)
    BY <1>4, <1>5, <1>10 DEF Announces, SameToken, SameFiles, GenInv
<1>11. CASE Opens(c)
    BY <1>11 DEF Opens, GenInv
<1>12. CASE Writes(c)
    <2>1. CASE authFile' = authFile
        BY <1>4, <1>5, <1>12, <2>1 DEF Writes, SameToken, GenInv
    <2>2. CASE authFile'.kind = "torn"
        BY <2>2 DEF GenInv
    <2>3. CASE authFile'.token = ctx[c].token
        <3>1. \A d \in Sessions \ {c} : ctx[d].pc \in Live =>
                                          authFile'.token.login # ctx[d].token.login
            BY <1>12, <2>3 DEF Writes, LoginInv
        <3>2. Good(c)
            BY <1>12, <2>3 DEF Writes, SameToken
        <3> QED
            BY <1>1, <3>1, <3>2 DEF GenInv
    <2> QED
        BY <1>12, <2>1, <2>2, <2>3 DEF Writes, Tears
<1>13. CASE IsUnsaved(c)
    <2>1. authFile' = authFile /\ ~dirExists
        BY <1>2, <1>4, <1>13 DEF IsUnsaved
    <2>2. authFile'.kind = "missing"
        BY <2>1 DEF DirInv
    <2> QED
        BY <2>2 DEF GenInv
<1>14. CASE Loops(c)
    BY <1>4, <1>5, <1>14 DEF Loops, SameToken, SameFiles, GenInv
<1>15. CASE Refreshes(c)
    BY <1>5, <1>15 DEF Refreshes
<1> QED
    BY <1>6, <1>7, <1>8, <1>9, <1>10, <1>11, <1>12, <1>13, <1>14, <1>15 DEF Effect

(* A login that is not saved.                                              *)
LEMMA ContextFresh ==
    ASSUME TypeOK, UnusedInv, ProcessInv, KindInv, LoginInv, FreshInv, NEW c \in Sessions,
           Effect(c)
    PROVE  FreshInv'
<1> USE DEF LoopState
<1> DEFINE Early == {"unused", "building", "login", "save", "saving"}
<1>1. \A d \in Sessions \ {c} : ctx'[d] = ctx[d]
    BY DEF Effect, Framed
<1>2. ASSUME ctx'[c].pc \in Early => ctx[c].pc \in Early,
             ctx'[c].token.login # ctx[c].token.login =>
                 \A d \in Sessions \ {c} : ctx[d].pc \in Early => ctx'[c].token.login # d,
             ctx'[c].pc \in {"save", "saving"} => ctx'[c].token.login = c,
             ctx'[c].pc \in {"refresh_save", "refresh_saving"} => ctx'[c].token.gen > 0,
             ctx'[c].announced => ctx'[c].pc \in LoopState \cup {"stopped", "dead"}
      PROVE  FreshInv'
    BY <1>1, <1>2 DEF FreshInv
<1>3. CASE IsBuilt(c) \/ GivesUp(c)
    BY <1>2, <1>3 DEF IsBuilt, GivesUp, SameFlags, SameToken, FreshInv
<1>4. CASE IsRestored(c)
    <2>1. process = "initializing"
        BY <1>4 DEF IsRestored, KindInv
    <2>2. ASSUME NEW d \in Sessions \ {c}, ctx[d].pc \in Early
          PROVE  ctx'[c].token.login # d
        <3>1. ctx[d].pc = "unused"
            BY <1>4, <2>1, <2>2 DEF ProcessInv, IsRestored, Active, Live
        <3>2. server[d].state = "none"
            BY <3>1 DEF LoginInv
        <3> QED
            BY <1>4, <3>2 DEF IsRestored, LoginInv, Issued
    <2> QED
        BY <1>2, <1>4, <2>2 DEF IsRestored, SameFlags, FreshInv
<1>5. CASE LogsIn(c)
    BY <1>2, <1>5 DEF LogsIn, SameFlags, FreshInv
<1>6. CASE Starts(c)
    BY <1>2, <1>6 DEF Starts, SameToken, FreshInv
<1>7. CASE Announces(c)
    BY <1>2, <1>7 DEF Announces, SameToken, FreshInv, KindInv
<1>8. CASE Opens(c)
    BY <1>2, <1>8 DEF Opens, SameFlags, SameToken, FreshInv
<1>9. CASE Writes(c)
    BY <1>2, <1>9 DEF Writes, SameFlags, SameToken, FreshInv
<1>10. CASE IsUnsaved(c)
    BY <1>2, <1>10 DEF IsUnsaved, SameFlags, SameToken, FreshInv
<1>11. CASE Loops(c)
    BY <1>2, <1>11 DEF Loops, SameFlags, SameToken, FreshInv
<1>12. CASE Refreshes(c)
    BY <1>2, <1>12 DEF Refreshes, SameFlags, FreshInv
<1> QED
    BY <1>3, <1>4, <1>5, <1>6, <1>7, <1>8, <1>9, <1>10, <1>11, <1>12 DEF Effect

(* The stored sessions.                                                    *)
LEMMA ContextSaved ==
    ASSUME TypeOK, KindInv, DirInv, LoginInv, FreshInv, SavedInv, NEW c \in Sessions, Effect(c)
    PROVE  SavedInv'
<1> USE DEF LoopState, SameFiles, SameFile
<1> DEFINE Due(d) == ctx[d].announced \/ ctx[d].reply \/ ctx[d].pc = "initial"
           L == ctx[c].token.login
           Begun == /\ ctx[c].pc \in {"save", "refresh_save"}
                    /\ authFile'.kind = "torn" /\ authFile'.token = ctx[c].token
                    /\ overwritten' = (overwritten \cup {authFile.token.login}) \ {L}
           Ended == /\ Saving(c)
                    /\ authFile'.kind = "data" /\ authFile'.token = ctx[c].token
                    /\ overwritten' = (overwritten \cup {authFile.token.login}) \ {L}
           Torn == Saving(c) /\ Tears(c)
<1>1. /\ \A d \in Sessions \ {c} : ctx'[d] = ctx[d]
      /\ ctx'[c].dir = ctx[c].dir /\ dir' = dir
    BY DEF Effect, Framed
<1>2. SameFile \/ Begun \/ Ended \/ Torn
    BY DEF Effect, IsBuilt, GivesUp, IsRestored, LogsIn, Starts, Announces, Opens, Writes,
           IsUnsaved, Loops, Refreshes
<1>3. Begun \/ Ended \/ Torn => ctx[c].pc \in Live
    BY DEF Saving, Live
(* What was present stays so.                                              *)
<1>4. ASSUME NEW d \in Sessions, Present(d), ctx'[d].token.login = ctx[d].token.login,
             d = c => ctx[c].pc # "save"
      PROVE  Present(d)'
    <2>1. CASE SameFile
        BY <1>4, <2>1 DEF Present
    <2>2. CASE Begun
        <3>1. L = ctx[d].token.login => ctx[c].token.gen > 0
            BY <1>4, <2>2 DEF FreshInv
        <3> QED
            BY <1>4, <2>2, <3>1 DEF Present
    <2>3. CASE Ended
        BY <1>4, <2>3 DEF Present
    <2>4. CASE Torn
        BY <1>4, <2>4 DEF Present, Tears
    <2> QED
        BY <1>2, <2>1, <2>2, <2>3, <2>4
(* A writer that is not c.                                                 *)
<1>5. ASSUME NEW d \in Sessions \ {c}, Saving(d)'
      PROVE  \/ ctx[d].token.login \in overwritten'
             \/ authFile'.kind = "torn" /\ authFile'.token.login = ctx[d].token.login
    <2>1. /\ ctx[d].pc \in Live
          /\ \/ ctx[d].token.login \in overwritten
             \/ authFile.kind = "torn" /\ authFile.token.login = ctx[d].token.login
        BY <1>1, <1>5 DEF SavedInv, Saving, Live
    <2>2. Begun \/ Ended \/ Torn => L # ctx[d].token.login
        BY <1>3, <2>1 DEF LoginInv
    <2> QED
        BY <1>2, <2>1, <2>2 DEF Tears
<1>6. ASSUME ctx[c].dir = dir /\ Due(c)' => Present(c)',
             Saving(c)' => \/ ctx'[c].token.login \in overwritten'
                           \/ /\ authFile'.kind = "torn"
                              /\ authFile'.token.login = ctx'[c].token.login
      PROVE  SavedInv'
    BY <1>1, <1>4, <1>5, <1>6 DEF SavedInv
<1>7. ASSUME ctx'[c].token.login = ctx[c].token.login, Due(c)' => Due(c),
             ctx[c].pc # "save", ctx'[c].pc \notin {"saving", "refresh_saving"}
      PROVE  SavedInv'
    BY <1>4, <1>6, <1>7 DEF SavedInv, Saving
<1>8. ASSUME ctx'[c].pc \notin {"saving", "refresh_saving"}, ~Due(c)'
      PROVE  SavedInv'
    BY <1>6, <1>8 DEF Saving
<1>9. CASE IsBuilt(c)
    BY <1>7, <1>9 DEF IsBuilt, SameFlags, SameToken
<1>10. CASE GivesUp(c)
    BY <1>8, <1>10 DEF GivesUp, SameFlags, KindInv, FreshInv
<1>11. CASE IsRestored(c)
    <2>1. Present(c)'
        BY <1>11 DEF IsRestored, Present
    <2> QED
        BY <1>6, <1>11, <2>1 DEF IsRestored, Saving
<1>12. CASE LogsIn(c)
    BY <1>8, <1>12 DEF LogsIn, SameFlags, KindInv, FreshInv
<1>13. CASE Starts(c) \/ Announces(c)
    <2>1. ctx'[c].token = ctx[c].token /\ SameFile /\ Due(c)
        BY <1>13 DEF Starts, Announces, SameToken
    <2>2. Saving(c)' => Saving(c)
        BY <1>1, <1>13 DEF Starts, Announces, Saving
    <2>3. ctx[c].pc # "save"
        BY <1>13 DEF Starts, Announces, KindInv
    <2>4. ctx[c].dir = dir => Present(c)'
        BY <1>4, <2>1, <2>3 DEF SavedInv
    <2> QED
        BY <1>6, <2>1, <2>2, <2>4 DEF SavedInv
<1>14. CASE Opens(c)
    <2>1. ctx'[c].token = ctx[c].token
        BY <1>14 DEF Opens, SameToken
    <2>2. Due(c)' => ctx[c].pc = "refresh_save"
        BY <1>14 DEF Opens, SameFlags, KindInv, FreshInv
    <2>3. Due(c)' => Present(c)'
        BY <1>14, <2>1, <2>2 DEF Opens, Present, FreshInv
    <2> QED
        BY <1>6, <1>14, <2>1, <2>3 DEF Opens
<1>15. CASE Writes(c)
    <2>1. ctx'[c].token = ctx[c].token /\ ctx'[c].pc \notin {"saving", "refresh_saving"}
        BY <1>15 DEF Writes, SameToken
    <2>2. CASE Saving(c)
        <3>1. CASE authFile'.kind = "data" /\ authFile'.token = ctx[c].token
            BY <1>6, <2>1, <3>1 DEF Present, Saving
        <3>2. CASE Tears(c)
            BY <1>6, <2>1, <3>2 DEF Present, Saving, Tears
        <3>3. CASE authFile.token.login # ctx[c].token.login /\ SameFile
            <4>1. ctx[c].token.login \in overwritten'
                BY <2>2, <3>3 DEF SavedInv
            <4> QED
                BY <1>6, <2>1, <4>1 DEF Present, Saving
        <3> QED
            BY <1>15, <2>2, <3>1, <3>2, <3>3 DEF Writes
    <2>3. CASE ~Saving(c)
        <3>1. ctx[c].dir # dir
            <4>1. ctx[c].dir <= ctx[c].opened /\ ctx[c].opened <= dir /\ ctx[c].opened # dir
                BY <1>15, <2>3 DEF Writes, DirInv, Saving
            <4>2. dir \in Nat /\ ctx[c].dir \in Nat /\ ctx[c].opened \in Nat
                BY SyncSessionAssumption DEF TypeOK, FilesOK, Context
            <4> QED
                BY <4>1, <4>2
        <3> QED
            BY <1>6, <2>1, <3>1 DEF Saving
    <2> QED
        BY <2>2, <2>3
<1>16. CASE IsUnsaved(c)
    BY <1>7, <1>16 DEF IsUnsaved, SameFlags, SameToken
<1>17. CASE Loops(c)
    BY <1>7, <1>17 DEF Loops, SameFlags, SameToken
<1>18. CASE Refreshes(c)
    BY <1>7, <1>18 DEF Refreshes, SameFlags
<1> QED
    BY <1>9, <1>10, <1>11, <1>12, <1>13, <1>14, <1>15, <1>16, <1>17, <1>18 DEF Effect

(* A new context: initialize and Reset.                                    *)
LEMMA NewContext ==
    ASSUME TypeOK, SessionInv, NEW kind \in {"restore", "password", "sso"},
           NEW d \in 0 .. MaxSessions, BeginNew(kind, d), dir \in 0 .. d, dir' = d,
           \/ dir' = dir /\ authFile' = authFile /\ dirExists' = dirExists
           \/ dir' > dir /\ authFile' = MissingFile,
           overwritten' = overwritten, server' = server, diskErrors' = diskErrors, request' = "none",
           kind = "restore" => (process = "down" /\ process' = "initializing"),
           kind # "restore" => (process = "up" /\ process' = "up")
    PROVE  SessionInv'
<1> DEFINE n == created + 1
<1> USE DEF Live, LoopState
<1>1. n \in Sessions /\ created' = n /\ created \in Nat
    BY SyncSessionAssumption DEF BeginNew, TypeOK, Sessions
<1>2. ctx[n] = UnusedContext /\ n > created
    BY <1>1 DEF SessionInv, UnusedInv
<1>3. \A c \in Sessions \ {n} : ctx'[c] = ctx[c]
    BY <1>1 DEF BeginNew, TypeOK
<1>4. /\ ctx'[n].pc = "building" /\ ctx'[n].kind = kind /\ ctx'[n].dir = d
      /\ ctx'[n].reply = FALSE /\ ctx'[n].announced = FALSE /\ ctx'[n].token = ctx[n].token
    <2>1. ctx'[n] = [ctx[n] EXCEPT !.pc = "building", !.kind = kind, !.dir = d]
        BY <1>1 DEF BeginNew, TypeOK
    <2> QED
        BY <1>2, <2>1 DEF UnusedContext
<1>5. UnusedInv'
    <2>1. \A c \in Sessions : c > n => (c > created /\ c # n)
        BY <1>1 DEF Sessions
    <2> QED
        BY <1>1, <1>3, <2>1 DEF UnusedInv, SessionInv
<1>6. ProcessInv' /\ KindInv'
    <2>1. CASE kind = "restore"
        <3>1. \A c \in Sessions : ctx[c].pc \notin Active /\ ~ctx[c].reply
            BY <2>1 DEF SessionInv, ProcessInv
        <3>2. ProcessInv'
            BY <1>1, <1>3, <1>4, <2>1, <3>1 DEF ProcessInv
        <3>3. KindInv'
            BY <1>3, <1>4, <2>1, <3>1 DEF KindInv, Active
        <3> QED
            BY <3>2, <3>3
    <2>2. CASE kind # "restore"
        <3>1. ProcessInv'
            BY <2>2 DEF ProcessInv
        <3>2. KindInv'
            BY <1>3, <1>4, <2>2 DEF KindInv, SessionInv
        <3> QED
            BY <3>1, <3>2
    <2> QED
        BY <2>1, <2>2
<1>7. DirInv' /\ SavedInv' /\ FreshInv'
    <2>1. /\ dir \in Nat /\ d \in Nat
          /\ \A c \in Sessions : ctx[c].dir \in Nat /\ ctx[c].opened \in Nat
        BY SyncSessionAssumption DEF TypeOK, FilesOK, Context
    <2>2. \A c \in Sessions \ {n} :
            /\ ctx[c].dir <= dir'
            /\ ctx[c].pc \in {"saving", "refresh_saving"} =>
                  (ctx[c].dir <= ctx[c].opened /\ ctx[c].opened <= dir')
        BY <2>1 DEF SessionInv, DirInv
    <2>3. ASSUME NEW c \in Sessions \ {n}, Saving(c)'
          PROVE  Saving(c) /\ dir' = dir /\ authFile' = authFile /\ dirExists' = dirExists
        <3>1. ctx[c].pc \in {"saving", "refresh_saving"} /\ ctx[c].opened = dir'
            BY <1>3, <2>3 DEF Saving
        <3>2. ctx[c].opened <= dir
            BY <3>1 DEF SessionInv, DirInv
        <3> QED
            BY <2>1, <3>1, <3>2 DEF Saving
    <2>4. d <= dir'
        BY <2>1
    <2>5. \A c \in Sessions : Saving(c)' => c # n
        BY <1>4 DEF Saving
    <2>6. ASSUME ~dirExists'
          PROVE  authFile'.kind = "missing" /\ \A c \in Sessions : ~Saving(c)'
        <3>1. CASE dir' = dir /\ authFile' = authFile /\ dirExists' = dirExists
            BY <2>3, <2>5, <2>6, <3>1 DEF SessionInv, DirInv
        <3>2. CASE dir' > dir /\ authFile' = MissingFile
            BY <2>1, <2>3, <2>5, <3>2 DEF MissingFile
        <3> QED
            BY <3>1, <3>2
    <2>7. DirInv'
        BY <1>3, <1>4, <2>2, <2>4, <2>6 DEF DirInv
    <2>8. ASSUME NEW c \in Sessions \ {n}, ctx[c].dir = dir',
                 ctx[c].announced \/ ctx[c].reply \/ ctx[c].pc = "initial"
          PROVE  Present(c)'
        <3>1. ctx[c].dir <= dir
            BY DEF SessionInv, DirInv
        <3>2. dir' = dir /\ authFile' = authFile
            BY <2>1, <2>8, <3>1
        <3> QED
            BY <1>3, <2>8, <3>2 DEF SessionInv, SavedInv, Present
    <2>9. SavedInv'
        <3>1. \A c \in Sessions \ {n} : ctx'[c] = ctx[c]
            BY <1>3
        <3>2. ASSUME NEW c \in Sessions, Saving(c)'
              PROVE  \/ ctx'[c].token.login \in overwritten'
                     \/ authFile'.kind = "torn" /\ authFile'.token.login = ctx'[c].token.login
            BY <2>3, <2>5, <3>1, <3>2 DEF SessionInv, SavedInv
        <3>3. ASSUME NEW c \in Sessions, ctx'[c].dir = dir',
                     ctx'[c].announced \/ ctx'[c].reply \/ ctx'[c].pc = "initial"
              PROVE  Present(c)'
            BY <1>4, <2>8, <3>1, <3>3
        <3> QED
            BY <3>2, <3>3 DEF SavedInv
    <2>10. FreshInv'
        BY <1>2, <1>3, <1>4 DEF SessionInv, FreshInv, UnusedContext, NoToken
    <2> QED
        BY <2>7, <2>9, <2>10
<1>8. LoginInv' /\ GenInv'
    <2>1. authFile' = authFile \/ authFile'.kind = "missing"
        BY DEF MissingFile
    <2>2. server[n].state = "none"
        BY <1>1, <1>2 DEF SessionInv, LoginInv, UnusedContext
    <2>3. LoginInv'
        BY <1>3, <1>4, <2>1, <2>2 DEF SessionInv, LoginInv, Issued
    <2>4. GenInv'
        BY <1>3, <1>4, <2>1 DEF SessionInv, GenInv
    <2> QED
        BY <2>3, <2>4
<1> QED
    BY <1>5, <1>6, <1>7, <1>8 DEF SessionInv

(* Every step keeps the invariant.                                         *)
LEMMA InvStep == TypeOK /\ SessionInv /\ [Next]_vars => SessionInv'
<1> SUFFICES ASSUME TypeOK, SessionInv, [Next]_vars
             PROVE  SessionInv'
    OBVIOUS
<1>1. dir \in 0 .. MaxSessions /\ dir \in Nat /\ diskErrors \in Nat
    BY SyncSessionAssumption DEF TypeOK, FilesOK
<1>2. CASE initialize
    <2>1. dir \in 0 .. dir
        BY <1>1
    <2>2. request = "none"
        BY <1>2 DEF initialize, SessionInv, ProcessInv
    <2> QED
        BY <1>1, <1>2, <2>1, <2>2, NewContext DEF initialize, fileVars
<1>3. ASSUME NEW kind \in {"password", "sso"}, CheckLogin(kind)
      PROVE  SessionInv'
    <2>1. /\ process = "up" /\ process' = process /\ ctx' = ctx /\ created' = created
          /\ authFile' = authFile /\ dir' = dir /\ server' = server /\ diskErrors' = diskErrors
          /\ dirExists' = dirExists /\ overwritten' = overwritten
        BY <1>3 DEF CheckLogin, fileVars
    <2> QED
        BY <2>1 DEF SessionInv, UnusedInv, ProcessInv, KindInv, DirInv, LoginInv, Issued, GenInv,
                    FreshInv, SavedInv, Present, Saving
<1>4. CASE Reset
    <2>1. request \in {"password", "sso"} /\ process = "up"
        BY <1>4 DEF Reset, TypeOK, SessionInv, ProcessInv
    <2>2. dir + 1 \in 0 .. MaxSessions /\ dir \in 0 .. dir + 1 /\ dir + 1 > dir
        <3>1. dir < MaxSessions
            BY <1>4 DEF Reset
        <3> QED
            BY <1>1, <3>1, SyncSessionAssumption
    <2>3. BeginNew(request, dir + 1)
        BY <1>4 DEF Reset
    <2>4. /\ dir' = dir + 1 /\ authFile' = MissingFile /\ server' = server /\ process' = process
          /\ diskErrors' = diskErrors /\ request' = "none" /\ overwritten' = overwritten
        BY <1>4 DEF Reset
    <2> QED
        BY <2>1, <2>2, <2>3, <2>4, NewContext
<1>5. CASE ResetFails
    <2>1. /\ process' = process /\ ctx' = ctx /\ created' = created /\ server' = server
          /\ request' = "none" /\ diskErrors' = diskErrors + 1 /\ overwritten' = overwritten
          /\ \/ dir' = dir /\ authFile' = authFile /\ dirExists' = dirExists
             \/ dir' = dir + 1 /\ authFile'.kind = "missing"
        <3>1. /\ process' = process /\ ctx' = ctx /\ created' = created /\ server' = server
              /\ request' = "none" /\ diskErrors' = diskErrors + 1
              /\ overwritten' = overwritten
            BY <1>5 DEF ResetFails
        <3>2. \/ UNCHANGED <<authFile, dir, dirExists>>
              \/ dir' = dir + 1 /\ authFile' = MissingFile
            BY <1>5, Zenon DEF ResetFails
        <3> QED
            BY <3>1, <3>2 DEF MissingFile
    <2>2. UnusedInv' /\ ProcessInv' /\ KindInv' /\ FreshInv'
        BY <2>1 DEF SessionInv, UnusedInv, ProcessInv, KindInv, FreshInv
    <2>3. DirInv' /\ SavedInv'
        <3>1. \A c \in Sessions : ctx[c].dir \in Nat /\ ctx[c].opened \in Nat
            BY SyncSessionAssumption DEF TypeOK, Context
        <3>2. CASE dir' = dir /\ authFile' = authFile /\ dirExists' = dirExists
            BY <2>1, <3>2 DEF SessionInv, DirInv, SavedInv, Present, Saving
        <3>3. CASE dir' = dir + 1
            <4>1. \A c \in Sessions : ctx[c].dir <= dir' /\ ctx[c].dir # dir'
                BY <1>1, <3>1, <3>3 DEF SessionInv, DirInv
            <4>2. \A c \in Sessions : ctx[c].opened <= dir =>
                                          (ctx[c].opened <= dir' /\ ctx[c].opened # dir')
                BY <1>1, <3>1, <3>3
            <4>3. \A c \in Sessions : ~Saving(c)'
                BY <2>1, <4>2 DEF SessionInv, DirInv, Saving
            <4>4. authFile'.kind = "missing"
                BY <1>1, <2>1, <3>3
            <4>5. DirInv'
                BY <2>1, <4>1, <4>2, <4>3, <4>4 DEF SessionInv, DirInv
            <4>6. SavedInv'
                BY <2>1, <4>1, <4>3 DEF SavedInv
            <4> QED
                BY <4>5, <4>6
        <3> QED
            BY <2>1, <3>2, <3>3
    <2>4. LoginInv'
        BY <2>1 DEF SessionInv, LoginInv, Issued
    <2>5. GenInv'
        BY <1>1, <2>1 DEF GenInv
    <2> QED
        BY <2>2, <2>3, <2>4, <2>5 DEF SessionInv
<1>6. ASSUME NEW c \in Sessions,
             StartStep(c) \/ SaveStep(c) \/ LoopStep(c) \/ SyncOtherError(c)
      PROVE  SessionInv'
    <2>1. CASE OpenStore(c)
        <3>1. /\ process' = process /\ ctx' = ctx /\ created' = created /\ request' = request
              /\ authFile' = authFile /\ dir' = dir /\ dirExists' = TRUE
              /\ overwritten' = overwritten /\ server' = server /\ diskErrors' = diskErrors
            BY <2>1 DEF OpenStore
        <3> QED
            BY <3>1 DEF SessionInv, UnusedInv, ProcessInv, KindInv, DirInv, LoginInv, Issued,
                        GenInv, FreshInv, SavedInv, Present, Saving
    <2>2. CASE Effect(c)
        BY <2>2, ContextProcess, ContextDir, ContextLogin, ContextGen, ContextFresh,
           ContextSaved DEF SessionInv
    <2> QED
        BY <1>6, <2>1, <2>2, Effects
<1>7. ASSUME NEW l \in Sessions, ServerStep(l)
      PROVE  SessionInv'
    <2>1. /\ process' = process /\ ctx' = ctx /\ created' = created /\ request' = request
          /\ authFile' = authFile /\ dir' = dir /\ diskErrors' = diskErrors
          /\ dirExists' = dirExists /\ overwritten' = overwritten
        BY <1>7 DEF ServerStep, fileVars
    <2>2. \A k \in Sessions : server'[k].state = "none" <=> server[k].state = "none"
        BY <1>7 DEF ServerStep, TypeOK
    <2>3. LoginInv'
        BY <2>1, <2>2 DEF SessionInv, LoginInv, Issued
    <2> QED
        BY <2>1, <2>3 DEF SessionInv, UnusedInv, ProcessInv, KindInv, DirInv, GenInv,
                          FreshInv, SavedInv, Present, Saving
<1>8. CASE NetworkDown \/ NetworkUp \/ UNCHANGED vars
    <2>1. /\ process' = process /\ ctx' = ctx /\ created' = created /\ request' = request
          /\ authFile' = authFile /\ dir' = dir /\ server' = server /\ diskErrors' = diskErrors
          /\ dirExists' = dirExists /\ overwritten' = overwritten
        BY <1>8 DEF NetworkDown, NetworkUp, vars, fileVars
    <2> QED
        BY <2>1 DEF SessionInv, UnusedInv, ProcessInv, KindInv, DirInv, LoginInv, Issued, GenInv,
                    FreshInv, SavedInv, Present, Saving
<1>9. CASE Crash
    <2>1. /\ process' = "down" /\ request' = "none" /\ created' = created
          /\ dir' = dir /\ dirExists' = dirExists /\ server' = server
          /\ diskErrors' = diskErrors
        BY <1>9 DEF Crash
    <2>9. \/ UNCHANGED <<authFile, overwritten>>
          \/ \E c \in Sessions : /\ Saving(c)
                                 /\ authFile'.kind = "torn" /\ authFile'.token = authFile.token
                                 /\ overwritten' = overwritten \cup {authFile.token.login,
                                                                     ctx[c].token.login}
        BY <1>9 DEF Crash, Tear, TypeOK, FilesOK, AuthFile
    <2>2. \A c \in Sessions :
            \/ ctx[c].pc = "unused" /\ ctx'[c] = ctx[c]
            \/ /\ ctx[c].pc # "unused"
               /\ ctx'[c] = [ctx[c] EXCEPT !.pc = "dead", !.reply = FALSE]
        BY <1>9 DEF Crash
    <2>3. \A c \in Sessions :
            \/ ctx[c].pc = "unused" /\ ctx'[c] = ctx[c]
            \/ /\ ctx[c].pc # "unused" /\ ctx'[c].pc = "dead" /\ ctx'[c].reply = FALSE
               /\ ctx'[c].dir = ctx[c].dir /\ ctx'[c].announced = ctx[c].announced
               /\ ctx'[c].token = ctx[c].token
        BY <2>2 DEF TypeOK, Context
    <2>4. UnusedInv'
        <3>1. UnusedContext.pc = "unused"
            BY DEF UnusedContext
        <3>2. ASSUME NEW c \in Sessions, c > created
              PROVE  ctx'[c] = UnusedContext
            BY <2>3, <3>1, <3>2 DEF SessionInv, UnusedInv
        <3> QED
            BY <2>1, <3>2 DEF UnusedInv
    <2>5. \A c \in Sessions : ctx'[c].pc \in {"unused", "dead"} /\ ~ctx'[c].reply
        BY <2>3 DEF SessionInv, KindInv, LoopState
    <2>6. ProcessInv' /\ KindInv'
        BY <2>1, <2>5 DEF ProcessInv, KindInv, Active, Live, LoopState
    <2>7. DirInv'
        <3>1. \A c \in Sessions : ctx'[c].dir = ctx[c].dir /\ ~Saving(c)'
            BY <2>3, <2>5 DEF Saving
        <3>2. ~dirExists => UNCHANGED <<authFile, overwritten>>
            BY <2>9 DEF SessionInv, DirInv
        <3> QED
            BY <2>1, <2>5, <3>1, <3>2 DEF SessionInv, DirInv
    <2>8. LoginInv' /\ GenInv'
        BY <2>1, <2>3, <2>5, <2>9 DEF SessionInv, LoginInv, Issued, GenInv, Live, LoopState
    <2>10. FreshInv'
        BY <2>3, <2>5 DEF SessionInv, FreshInv, LoopState
    <2>11. SavedInv'
        <3>1. ASSUME NEW c \in Sessions, ctx'[c].announced, ctx'[c].dir = dir'
              PROVE  Present(c)'
            <4>1. Present(c) /\ ctx'[c].token = ctx[c].token
                BY <2>1, <2>3, <3>1 DEF SessionInv, SavedInv
            <4> QED
                BY <2>9, <4>1 DEF Present
        <3> QED
            BY <2>5, <3>1 DEF SavedInv, Saving
    <2> QED
        BY <2>4, <2>6, <2>7, <2>8, <2>10, <2>11 DEF SessionInv
<1> QED
    BY <1>2, <1>3, <1>4, <1>5, <1>6, <1>7, <1>8, <1>9 DEF Next

(***************************************************************************)
(* login saves the session before the application hears of it: once it has *)
(* been told LoggedIn, its session is readable in the auth file until a    *)
(* later login removes the directory, whatever other contexts, crashes and *)
(* failed writes did, but for a login of another context that was written  *)
(* over it and the save of a refreshed session that has not ended.         *)
(***************************************************************************)
THEOREM PersistedBeforeTold == Spec => []LoggedInIsPersisted
<1>1. SessionInv => LoggedInIsPersisted
    BY DEF SessionInv, SavedInv, Present, LoggedInIsPersisted
<1> QED
    BY <1>1, TypeInit, TypeStep, InvInit, InvStep, PTL DEF Spec

(***************************************************************************)
(* Unless a write failed, the token in the auth file of a device session   *)
(* with a running loop is the one the loop uses: no other context writes   *)
(* an older one over it, although loops of earlier logins run on.          *)
(***************************************************************************)
THEOREM StoredTokenCurrent == Spec => []SavedTokenIsCurrent
<1>1. SessionInv => SavedTokenIsCurrent
    BY DEF SessionInv, GenInv, SavedTokenIsCurrent, Live, LoopState
<1> QED
    BY <1>1, TypeInit, TypeStep, InvInit, InvStep, PTL DEF Spec
=============================================================================
