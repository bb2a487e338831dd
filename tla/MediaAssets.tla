---------------------------- MODULE MediaAssets -----------------------------
(***************************************************************************)
(* The files of one asset and the tasks that download, replace and upload  *)
(* it (AssetManager of src/src/media.rs).                                  *)
(*                                                                         *)
(* An asset is a room avatar, the avatar of a user, or the attachment of a *)
(* message.  On disk it is an info file, which says where the data came    *)
(* from and what its file is called, and the file with the data, whose     *)
(* name depends on the type of the data.  Every request builds its own     *)
(* AssetManager: nothing orders the tasks that use the same files.         *)
(***************************************************************************)
EXTENDS Naturals

CONSTANTS
    Tasks,        \* requests and event handlers that use the asset
    Urls,         \* upstream URLs; the data behind a URL never changes
    Files,        \* file names of the asset, one for each file extension
    None,         \* no avatar or no URL; no file
    Unknown,      \* the URL could not be determined
    Serial,       \* TRUE: a task only begins when no other one is running
    MaxChanges,   \* bound: changes of the upstream URL and uploads
    MaxFailures   \* bound: failed file operations and crashes

ASSUME MediaAssetsAssumption ==
    /\ None \notin Urls \cup Files \cup Tasks
    /\ Unknown \notin Urls \cup {None}
    /\ Serial \in BOOLEAN
    /\ MaxChanges \in Nat
    /\ MaxFailures \in Nat

VARIABLES
    kind,       \* what the asset is
    upstream,   \* its URL on the homeserver
    known,      \* the URL in the SDK's copy of the room's state
    info,       \* the info file
    asset,      \* [Files -> the file with the data under that name]
    task,       \* [Tasks -> a running download or upload]
    changes,    \* how often upstream has changed
    failures,   \* how many file operations have failed, crashes included
    unremoved   \* history: the removal of an info file has failed

vars == <<kind, upstream, known, info, asset, task, changes, failures, unremoved>>

Kind == {"room_avatar", "user_avatar", "attachment"}

(* A file is torn between the truncation and the end of a write; writers   *)
(* are the tasks that have opened this very file, not one deleted or       *)
(* replaced since, under its name.                                         *)
InfoFile ==
    [kind : {"missing", "torn", "data"}, file : Files \cup {None},
     url : Urls \cup {None}, writers : SUBSET Tasks]

AssetFile ==
    [kind : {"missing", "torn"}, url : {None}, writers : SUBSET Tasks]
      \cup [kind : {"data"}, url : Urls, writers : SUBSET Tasks]

MissingInfo == [kind |-> "missing", file |-> None, url |-> None, writers |-> {}]

MissingAsset == [kind |-> "missing", url |-> None, writers |-> {}]

(***************************************************************************)
(* A task.  uri is UserAvatarAsset::avatar_uri; url and file are, up to    *)
(* "compare", what the info file says, and from "replace" on the URL and   *)
(* the file name of the new data; old is the file to delete.               *)
(***************************************************************************)
TaskState ==
    [pc : {"idle", "check", "compare", "was_removed", "fetch", "replace",
           "delete_info", "delete_asset", "write_asset", "asset_writing", "move",
           "write_info", "info_writing"},
     op : {"download", "upload", "remove"},
     uri : Urls \cup {None, Unknown},
     url : Urls \cup {None},
     file : Files \cup {None},
     old : Files \cup {None}]

IdleTask ==
    [pc |-> "idle", op |-> "download", uri |-> Unknown, url |-> None, file |-> None,
     old |-> None]

TypeOK ==
    /\ kind \in Kind
    /\ upstream \in Urls \cup {None}
    /\ known \in Urls \cup {None}
    /\ info \in InfoFile
    /\ asset \in [Files -> AssetFile]
    /\ task \in [Tasks -> TaskState]
    /\ changes \in 0 .. MaxChanges
    /\ failures \in 0 .. MaxFailures
    /\ unremoved \in BOOLEAN

Init ==
    /\ kind \in Kind
    /\ upstream \in Urls \cup {None}
    /\ kind = "attachment" => upstream # None
    /\ known = upstream
    /\ info = MissingInfo
    /\ asset = [f \in Files |-> MissingAsset]
    /\ task = [t \in Tasks |-> IdleTask]
    /\ changes = 0
    /\ failures = 0
    /\ unremoved = FALSE

-----------------------------------------------------------------------------
(* The URL of the asset.                                                   *)

(***************************************************************************)
(* What a task learns when it asks for the URL.  The avatar of a room is   *)
(* part of the room's state in the SDK and read anew each time; the one of *)
(* a user is fetched, which may fail, and kept once it is known; the       *)
(* attachment's is part of the event.                                      *)
(***************************************************************************)
Lookup(t) ==
    CASE kind = "user_avatar" /\ task[t].uri # Unknown -> {task[t].uri}
      [] kind = "user_avatar" /\ task[t].uri = Unknown -> {upstream, Unknown}
      [] kind = "room_avatar" -> {known}
      [] kind = "attachment" -> {upstream}

Kept(uri) == IF kind = "user_avatar" THEN uri ELSE Unknown

(* The avatar is changed or removed on the homeserver.                     *)
UpstreamChange(u) ==
    /\ kind # "attachment"
    /\ changes < MaxChanges
    /\ u # upstream
    /\ changes' = changes + 1
    /\ upstream' = u
    /\ UNCHANGED <<kind, known, info, asset, task, failures, unremoved>>

(* A sync brings the state event of a room's avatar.                       *)
SyncState ==
    /\ known # upstream
    /\ known' = upstream
    /\ UNCHANGED <<kind, upstream, info, asset, task, changes, failures, unremoved>>

-----------------------------------------------------------------------------
(* download.                                                               *)

Free(t) ==
    /\ task[t].pc = "idle"
    /\ Serial => \A s \in Tasks : task[s].pc = "idle"

Return(t) == task' = [task EXCEPT ![t] = IdleTask]

(* The task is created; a user's avatar URL is fetched right away.         *)
BeginDownload(t) ==
    /\ Free(t)
    /\ \E uri \in Lookup(t) :
         task' = [task EXCEPT ![t] = [@ EXCEPT !.pc = "check", !.uri = Kept(uri)]]
    /\ UNCHANGED <<kind, upstream, known, info, asset, changes, failures, unremoved>>

(* has_been_downloaded_before, up to read_info.                            *)
CheckInfo(t) ==
    /\ task[t].pc = "check"
    /\ \/ /\ info.kind = "data"
          /\ task' = [task EXCEPT ![t] =
                         [@ EXCEPT !.pc = "compare", !.url = info.url, !.old = info.file]]
       \/ /\ info.kind # "data"
          /\ task' = [task EXCEPT ![t].pc = "fetch"]
    /\ UNCHANGED <<kind, upstream, known, info, asset, changes, failures, unremoved>>

(* Fault: whatever has been downloaded counts as up-to-date.               *)
Compare_exists(t) ==
    /\ task[t].pc = "compare"
    /\ Return(t)
    /\ UNCHANGED <<kind, upstream, known, info, asset, changes, failures, unremoved>>

(* is_up_to_date: an error counts as yes, and the path is returned.        *)
Compare(t) ==
    /\ task[t].pc = "compare"
    /\ \E uri \in Lookup(t) :
         \/ /\ uri = Unknown \/ (uri # None /\ uri = task[t].url)
            /\ Return(t)
         \/ /\ uri # Unknown /\ (uri = None \/ uri # task[t].url)
            /\ task' = [task EXCEPT ![t] = [@ EXCEPT !.pc = "was_removed", !.uri = Kept(uri)]]
    /\ UNCHANGED <<kind, upstream, known, info, asset, changes, failures, unremoved>>

(* was_removed: an asset that is gone upstream is deleted.                 *)
WasRemoved(t) ==
    /\ task[t].pc = "was_removed"
    /\ \E uri \in Lookup(t) :
         \/ /\ uri = None
            /\ task' = [task EXCEPT ![t] = [@ EXCEPT !.pc = "delete_info", !.op = "remove"]]
         \/ /\ uri # None
            /\ task' = [task EXCEPT ![t] = [@ EXCEPT !.pc = "fetch", !.uri = Kept(uri)]]
    /\ UNCHANGED <<kind, upstream, known, info, asset, changes, failures, unremoved>>

(* Fault: the missing URL is not noticed.                                  *)
Fetch_unchecked(t) ==
    /\ task[t].pc = "fetch"
    /\ \E uri \in Lookup(t) \ {Unknown}, f \in Files :
         task' = [task EXCEPT ![t] = [@ EXCEPT !.pc = "replace", !.url = uri, !.file = f]]
    /\ UNCHANGED <<kind, upstream, known, info, asset, changes, failures, unremoved>>

(* Fault: the URL of the info file is downloaded again.                    *)
Fetch_old(t) ==
    /\ task[t].pc = "fetch"
    /\ \/ \E uri \in (IF task[t].url = None THEN Lookup(t) ELSE {task[t].url}) \cap Urls, f \in Files :
            task' = [task EXCEPT ![t] = [@ EXCEPT !.pc = "replace", !.url = uri, !.file = f]]
       \/ Return(t)
    /\ UNCHANGED <<kind, upstream, known, info, asset, changes, failures, unremoved>>

(* Asset::download: without a URL, or when the transfer fails, the task    *)
(* ends with an error.                                                     *)
Fetch(t) ==
    /\ task[t].pc = "fetch"
    /\ \/ \E uri \in Lookup(t) \cap Urls, f \in Files :
            task' = [task EXCEPT ![t] = [@ EXCEPT !.pc = "replace", !.url = uri, !.file = f]]
       \/ Return(t)
    /\ UNCHANGED <<kind, upstream, known, info, asset, changes, failures, unremoved>>

-----------------------------------------------------------------------------
(* upload.                                                                 *)

NothingStored ==
    /\ changes = 0
    /\ info = MissingInfo
    /\ \A f \in Files : asset[f] = MissingAsset

(***************************************************************************)
(* Asset::upload of a new room avatar, which sends a state event, or of an *)
(* attachment, for which no URL is recorded; its files are named after the *)
(* event it is sent with, so there are none yet.  An upload that fails     *)
(* changes nothing here.                                                   *)
(***************************************************************************)
BeginUpload(t) ==
    /\ Free(t)
    /\ kind # "user_avatar"
    /\ changes < MaxChanges
    /\ changes' = changes + 1
    /\ \E u \in Urls, f \in Files :
         /\ IF kind = "attachment" THEN u = upstream /\ NothingStored
                                   ELSE u # upstream
         /\ upstream' = u
         /\ task' = [task EXCEPT ![t] =
                        [@ EXCEPT !.pc = "replace", !.op = "upload", !.url = u, !.file = f]]
    /\ UNCHANGED <<kind, known, info, asset, failures, unremoved>>

-----------------------------------------------------------------------------
(* The files.                                                              *)

(* What follows when the old files are gone.                               *)
Replacing(t) == IF task[t].op = "upload" THEN "move" ELSE "write_asset"

(* Fault: the old info file is left in place until it is overwritten.      *)
ReadOld_kept(t) ==
    /\ task[t].pc = "replace"
    /\ task' = [task EXCEPT ![t].pc = Replacing(t)]
    /\ UNCHANGED <<kind, upstream, known, info, asset, changes, failures, unremoved>>

(* The second read_info: files of an earlier version are deleted first.    *)
ReadOld(t) ==
    /\ task[t].pc = "replace"
    /\ \/ /\ info.kind = "data"
          /\ task' = [task EXCEPT ![t] = [@ EXCEPT !.pc = "delete_info", !.old = info.file]]
       \/ /\ info.kind # "data"
          /\ task' = [task EXCEPT ![t].pc = Replacing(t)]
    /\ UNCHANGED <<kind, upstream, known, info, asset, changes, failures, unremoved>>

(* delete_asset_and_info: an error is logged and the deletion goes on.     *)
DeleteInfo(t) ==
    /\ task[t].pc = "delete_info"
    /\ task' = [task EXCEPT ![t].pc = "delete_asset"]
    /\ \/ info' = MissingInfo /\ UNCHANGED <<failures, unremoved>>
       \/ /\ failures < MaxFailures
          /\ failures' = failures + 1
          /\ unremoved' = TRUE
          /\ UNCHANGED info
    /\ UNCHANGED <<kind, upstream, known, asset, changes>>

(* Fault: only the info file is deleted.                                   *)
DeleteAsset_kept(t) ==
    /\ task[t].pc = "delete_asset"
    /\ IF task[t].op = "remove" THEN Return(t)
                                ELSE task' = [task EXCEPT ![t].pc = Replacing(t)]
    /\ UNCHANGED <<kind, upstream, known, info, asset, changes, failures, unremoved>>

DeleteAsset(t) ==
    /\ task[t].pc = "delete_asset"
    /\ IF task[t].op = "remove" THEN Return(t)
                                ELSE task' = [task EXCEPT ![t].pc = Replacing(t)]
    /\ \/ asset' = [asset EXCEPT ![task[t].old] = MissingAsset] /\ UNCHANGED failures
       \/ /\ failures < MaxFailures
          /\ failures' = failures + 1
          /\ UNCHANGED asset
    /\ UNCHANGED <<kind, upstream, known, info, changes, unremoved>>

(* The writers of a file that t opens: those that are done do not count.   *)
Opened(file, t, writing) == {t} \cup {s \in file.writers : writing[s]}

(***************************************************************************)
(* The end of a write by t.  What t wrote to a file that was deleted or    *)
(* replaced since is lost; of the data of several writers one's is left,   *)
(* or a mixture.                                                           *)
(***************************************************************************)
Filled(file, t, new, torn) ==
    CASE t \notin file.writers -> {file}
      [] file.writers = {t} -> {new}
      [] OTHER -> {new, torn, file}

WriteAsset(t) ==
    LET f == task[t].file
        writing == [s \in Tasks |-> task[s].pc = "asset_writing" /\ task[s].file = f]
    IN
    /\ task[t].pc = "write_asset"
    /\ task' = [task EXCEPT ![t].pc = "asset_writing"]
    /\ asset' = [asset EXCEPT ![f] = [kind |-> "torn", url |-> None,
                                     writers |-> Opened(asset[f], t, writing)]]
    /\ UNCHANGED <<kind, upstream, known, info, changes, failures, unremoved>>

FillAsset(t) ==
    LET file == asset[task[t].file]
        new == [kind |-> "data", url |-> task[t].url, writers |-> file.writers]
        torn == [kind |-> "torn", url |-> None, writers |-> file.writers]
    IN
    /\ task[t].pc = "asset_writing"
    /\ task' = [task EXCEPT ![t].pc = "write_info"]
    /\ \E left \in Filled(file, t, new, torn) :
         asset' = [asset EXCEPT ![task[t].file] = left]
    /\ UNCHANGED <<kind, upstream, known, info, changes, failures, unremoved>>

(* upload moves the source file over the asset, which is one step.         *)
Move(t) ==
    /\ task[t].pc = "move"
    /\ task' = [task EXCEPT ![t].pc = "write_info"]
    /\ asset' = [asset EXCEPT ![task[t].file] =
                   [kind |-> "data", url |-> task[t].url, writers |-> {}]]
    /\ UNCHANGED <<kind, upstream, known, info, changes, failures, unremoved>>

WriteInfo(t) ==
    LET writing == [s \in Tasks |-> task[s].pc = "info_writing"] IN
    /\ task[t].pc = "write_info"
    /\ task' = [task EXCEPT ![t].pc = "info_writing"]
    /\ info' = [kind |-> "torn", file |-> None, url |-> None,
                writers |-> Opened(info, t, writing)]
    /\ UNCHANGED <<kind, upstream, known, asset, changes, failures, unremoved>>

(* The URL that is recorded.                                               *)
UpstreamUrl(t) ==
    IF kind = "attachment" /\ task[t].op = "upload" THEN None ELSE task[t].url

FillInfo(t) ==
    LET new == [kind |-> "data", file |-> task[t].file, url |-> UpstreamUrl(t),
                writers |-> info.writers]
        torn == [kind |-> "torn", file |-> None, url |-> None, writers |-> info.writers]
    IN
    /\ task[t].pc = "info_writing"
    /\ Return(t)
    /\ info' \in Filled(info, t, new, torn)
    /\ UNCHANGED <<kind, upstream, known, asset, changes, failures, unremoved>>

(* A write or the move fails, and with it the task.                        *)
WriteFails(t) ==
    /\ task[t].pc \in {"write_asset", "asset_writing", "move", "write_info",
                       "info_writing"}
    /\ failures < MaxFailures
    /\ failures' = failures + 1
    /\ Return(t)
    /\ UNCHANGED <<kind, upstream, known, info, asset, changes, unremoved>>

(* The process ends; the files stay.                                       *)
Crash ==
    /\ \E t \in Tasks : task[t].pc # "idle"
    /\ failures < MaxFailures
    /\ failures' = failures + 1
    /\ task' = [t \in Tasks |-> IdleTask]
    /\ UNCHANGED <<kind, upstream, known, info, asset, changes, unremoved>>

-----------------------------------------------------------------------------
FileStep(t) ==
    \/ ReadOld(t)
    \/ DeleteInfo(t)
    \/ DeleteAsset(t)
    \/ WriteAsset(t)
    \/ FillAsset(t)
    \/ Move(t)
    \/ WriteInfo(t)
    \/ FillInfo(t)

Next ==
    \/ \E u \in Urls \cup {None} : UpstreamChange(u)
    \/ SyncState
    \/ \E t \in Tasks :
         \/ BeginDownload(t)
         \/ CheckInfo(t)
         \/ Compare(t)
         \/ WasRemoved(t)
         \/ Fetch(t)
         \/ BeginUpload(t)
         \/ FileStep(t)
         \/ WriteFails(t)
    \/ Crash

Spec == Init /\ [][Next]_vars

(***************************************************************************)
(* Fairness: tokio runs every task that can run, the sync loop included,   *)
(* the asset is asked for again and again, and of the lookups and          *)
(* transfers that are tried for ever infinitely many succeed.              *)
(***************************************************************************)
FairSpec ==
    /\ Spec
    /\ WF_vars(SyncState)
    /\ \A t \in Tasks :
         /\ SF_vars(BeginDownload(t) /\ (kind = "user_avatar" => task'[t].uri # Unknown))
         /\ SF_vars(Fetch(t) /\ task'[t].pc = "replace")
         /\ WF_vars(Fetch(t))
         /\ WF_vars(CheckInfo(t))
         /\ WF_vars(Compare(t))
         /\ WF_vars(WasRemoved(t))
         /\ WF_vars(FileStep(t))

-----------------------------------------------------------------------------
(* Properties.                                                             *)

Quiet == \A t \in Tasks : task[t].pc = "idle"

(* The file the info file names holds the data of the recorded URL.        *)
Described ==
    (info.kind = "data" /\ info.url # None) =>
        /\ info.file \in Files
        /\ asset[info.file].kind = "data"
        /\ asset[info.file].url = info.url

(***************************************************************************)
(* download_asset and upload delete the info first and write it last: when *)
(* tasks do not overlap, a readable info file describes the data at every  *)
(* moment, also after a crash or a failed write in the middle.  (A failed  *)
(* removal of the info file is only logged and can break this.)            *)
(***************************************************************************)
InfoDescribesAsset == (Serial /\ ~unremoved) => Described

(***************************************************************************)
(* A replaced asset is deleted under its old name, which may have another  *)
(* extension (delete_asset_and_info): when tasks do not overlap and        *)
(* nothing has failed, the only data left is what the info file names.     *)
(***************************************************************************)
NoOrphans ==
    (Serial /\ Quiet /\ failures = 0) =>
        \A f \in Files : asset[f].kind # "missing" => (info.kind = "data" /\ info.file = f)

(* The URL the running task will store, if it has looked one up.           *)
Fetched ==
    IF Quiet THEN None
    ELSE LET t == CHOOSE x \in Tasks : task[x].pc # "idle"
         IN  IF task[t].pc \in {"check", "compare", "was_removed", "fetch"}
               THEN IF task[t].uri \in Urls THEN task[t].uri ELSE None
             ELSE IF task[t].op = "remove" THEN None
             ELSE task[t].url

(* The URL whose data a request finds; Unknown if the file is no such data. *)
Stored ==
    IF info.kind # "data" THEN None
    ELSE IF info.file \in Files /\ asset[info.file].kind = "data" THEN asset[info.file].url
    ELSE Unknown

Contract ==
    INSTANCE AssetStore WITH fetched <- Fetched, stored <- Stored, broken <- unremoved

(***************************************************************************)
(* download_asset, upload and delete_asset_and_info: when tasks do not     *)
(* overlap, the many steps that write the files are, seen through read_info *)
(* and the file it names, one step that stores a complete copy of what was *)
(* looked up, after one that removed the old copy, whatever fails or       *)
(* crashes in between (until the removal of an info file fails).           *)
(***************************************************************************)
ImplementsStore == Contract!StoreSpec

(***************************************************************************)
(* The comment of download (media.rs): an asset that is no longer          *)
(* up-to-date is downloaded again.  Once the homeserver stops changing it  *)
(* and it is asked for again and again, what is stored is what the         *)
(* homeserver has, whatever failed or was interrupted before.              *)
(***************************************************************************)
EventuallyCurrent ==
    <>[](\/ unremoved
         \/ upstream = None
         \/ (info.kind = "data" /\ info.url = upstream /\ Described))
=============================================================================
