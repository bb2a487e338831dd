-------------------------- MODULE MediaAssetsProofs --------------------------
(***************************************************************************)
(* Proofs about MediaAssets, for any number of tasks, URLs, file names,    *)
(* changes and failures.                                                   *)
(***************************************************************************)
EXTENDS MediaAssets, TLAPS

-----------------------------------------------------------------------------
(* Types, and what a task knows at each step.                              *)

Looking == {"check", "compare", "was_removed", "fetch"}

Deleting == {"delete_info", "delete_asset"}

Storing == {"replace", "write_asset", "asset_writing", "move", "write_info", "info_writing"}

(* A task that stores something has its URL and its file name; only the    *)
(* avatar of a user is remembered.                                         *)
Sound(x) ==
    /\ x.pc = "idle" => x = IdleTask
    /\ x.pc \in Looking => x.op = "download"
    /\ kind # "user_avatar" => x.uri = Unknown
    /\ x.pc \in Storing => x.op # "remove"
    /\ (x.pc \in Storing \cup Deleting /\ x.op # "remove") => (x.file \in Files /\ x.url \in Urls)

TaskInv == \A t \in Tasks : Sound(task[t])

TypeInv == TypeOK /\ TaskInv

(* An idle task knows nothing.                                             *)
LEMMA IdleIsSound == IdleTask \in TaskState /\ Sound(IdleTask)
BY DEF IdleTask, TaskState, Sound, Looking, Storing, Deleting

(* The initial state is well typed.                                        *)
LEMMA TypeInit == Init => TypeInv
<1>1. MissingInfo \in InfoFile /\ MissingAsset \in AssetFile /\ IdleTask \in TaskState
    BY DEF InfoFile, AssetFile, MissingInfo, MissingAsset, TaskState, IdleTask
<1>2. Init => /\ info \in InfoFile
              /\ asset \in [Files -> AssetFile]
              /\ task \in [Tasks -> TaskState]
    BY <1>1 DEF Init
<1>3. Init => changes \in 0 .. MaxChanges /\ failures \in 0 .. MaxFailures
    BY MediaAssetsAssumption DEF Init
<1>4. Init => unremoved \in BOOLEAN
    BY DEF Init
<1>5. Init => TaskInv
    BY IdleIsSound DEF Init, TaskInv
<1> QED
    BY <1>2, <1>3, <1>4, <1>5 DEF Init, TypeOK, TypeInv

(* A step that changes the state of one task to a sound one.               *)
LEMMA OneTask ==
    ASSUME TypeInv, NEW t \in Tasks, NEW new \in TaskState, Sound(new), kind' = kind,
           task' = [task EXCEPT ![t] = new]
    PROVE  task' \in [Tasks -> TaskState] /\ TaskInv'
<1>1. task \in [Tasks -> TaskState]
    BY DEF TypeInv, TypeOK
<1>2. \A s \in Tasks : task'[s] = IF s = t THEN new ELSE task[s]
    BY <1>1
<1>3. \A s \in Tasks : Sound(task'[s])
    BY <1>2 DEF TypeInv, TaskInv
<1> QED
    BY <1>1, <1>3 DEF TaskInv, Sound

(* The URL a task learns is one, is missing, or is not known.              *)
LEMMA LookupTypes ==
    ASSUME TypeInv, NEW t \in Tasks, NEW uri \in Lookup(t)
    PROVE  /\ uri \in Urls \cup {None, Unknown}
           /\ Kept(uri) \in Urls \cup {None, Unknown}
           /\ kind # "user_avatar" => Kept(uri) = Unknown
<1>1. task[t].uri \in Urls \cup {None, Unknown}
    BY DEF TypeInv, TypeOK, TaskState
<1>2. kind \in {"room_avatar", "user_avatar", "attachment"}
    BY DEF TypeInv, TypeOK, Kind
<1> QED
    BY <1>1, <1>2 DEF TypeInv, TypeOK, Lookup, Kept

(* Looking up the asset and its URL, and uploading it, keeps the types.    *)
LEMMA LookTypes ==
    ASSUME TypeInv, NEW t \in Tasks,
           \/ BeginDownload(t) \/ CheckInfo(t) \/ Compare(t) \/ WasRemoved(t) \/ Fetch(t)
           \/ BeginUpload(t)
    PROVE  TypeInv'
<1>1. task \in [Tasks -> TaskState] /\ task[t] \in TaskState /\ Sound(task[t])
    BY DEF TypeInv, TypeOK, TaskInv
<1>2. kind' = kind
    BY DEF BeginDownload, CheckInfo, Compare, WasRemoved, Fetch, BeginUpload
<1>3. SUFFICES task' \in [Tasks -> TaskState] /\ TaskInv'
    <2>1. CASE BeginUpload(t)
        <3>1. changes' \in 0 .. MaxChanges
            <4>1. changes < MaxChanges /\ changes' = changes + 1
                BY <2>1 DEF BeginUpload
            <4> QED
                BY <4>1, MediaAssetsAssumption DEF TypeInv, TypeOK
        <3>2. upstream' \in Urls \cup {None}
            BY <2>1 DEF BeginUpload
        <3> QED
            BY <1>3, <2>1, <3>1, <3>2 DEF BeginUpload, TypeInv, TypeOK
    <2> QED
        BY <1>3, <2>1 DEF TypeInv, TypeOK, BeginDownload, CheckInfo, Compare, WasRemoved, Fetch
<1>4. CASE Return(t)
    BY <1>2, <1>4, IdleIsSound, OneTask DEF Return
<1>5. CASE BeginDownload(t)
    <2>1. PICK uri \in Lookup(t) :
            task' = [task EXCEPT ![t] = [@ EXCEPT !.pc = "check", !.uri = Kept(uri)]]
        BY <1>5 DEF BeginDownload
    <2> DEFINE new == [task[t] EXCEPT !.pc = "check", !.uri = Kept(uri)]
    <2>2. /\ Kept(uri) \in Urls \cup {None, Unknown}
          /\ kind # "user_avatar" => Kept(uri) = Unknown
        BY LookupTypes
    <2>3. task[t] = IdleTask
        BY <1>1, <1>5 DEF BeginDownload, Free, Sound
    <2>4. new \in TaskState
        BY <1>1, <2>2 DEF TaskState
    <2>5. Sound(new)
        BY <1>1, <2>2, <2>3 DEF TaskState, Sound, IdleTask, Looking, Storing, Deleting
    <2> QED
        BY <1>2, <2>1, <2>4, <2>5, OneTask
<1>6. CASE CheckInfo(t)
    <2>1. CASE info.kind = "data"
        <3> DEFINE new == [task[t] EXCEPT !.pc = "compare", !.url = info.url, !.old = info.file]
        <3>1. info.url \in Urls \cup {None} /\ info.file \in Files \cup {None}
            BY DEF TypeInv, TypeOK, InfoFile
        <3>2. new \in TaskState
            BY <1>1, <3>1 DEF TaskState
        <3>3. Sound(new)
            BY <1>1, <1>6 DEF TaskState, Sound, Looking, Storing, Deleting, CheckInfo
        <3>4. task' = [task EXCEPT ![t] = new]
            BY <1>6, <2>1 DEF CheckInfo
        <3> QED
            BY <1>2, <3>2, <3>3, <3>4, OneTask
    <2>2. CASE info.kind # "data"
        <3> DEFINE new == [task[t] EXCEPT !.pc = "fetch"]
        <3>1. new \in TaskState
            BY <1>1 DEF TaskState
        <3>2. Sound(new)
            BY <1>1, <1>6 DEF TaskState, Sound, Looking, Storing, Deleting, CheckInfo
        <3>3. task' = [task EXCEPT ![t] = new]
            BY <1>6, <2>2 DEF CheckInfo
        <3> QED
            BY <1>2, <3>1, <3>2, <3>3, OneTask
    <2> QED
        BY <2>1, <2>2
<1>7. CASE Compare(t) \/ WasRemoved(t)
    <2>1. ASSUME NEW uri \in Lookup(t), NEW pc \in {"was_removed", "fetch"},
                 task' = [task EXCEPT ![t] = [@ EXCEPT !.pc = pc, !.uri = Kept(uri)]]
          PROVE  task' \in [Tasks -> TaskState] /\ TaskInv'
        <3> DEFINE new == [task[t] EXCEPT !.pc = pc, !.uri = Kept(uri)]
        <3>1. /\ Kept(uri) \in Urls \cup {None, Unknown}
              /\ kind # "user_avatar" => Kept(uri) = Unknown
            BY LookupTypes
        <3>2. new \in TaskState
            BY <1>1, <3>1 DEF TaskState
        <3>3. Sound(new)
            BY <1>1, <1>7, <3>1
            DEF TaskState, Sound, Looking, Storing, Deleting, Compare, WasRemoved
        <3> QED
            BY <1>2, <2>1, <3>2, <3>3, OneTask
    <2>2. ASSUME task' = [task EXCEPT ![t] = [@ EXCEPT !.pc = "delete_info", !.op = "remove"]]
          PROVE  task' \in [Tasks -> TaskState] /\ TaskInv'
        <3> DEFINE new == [task[t] EXCEPT !.pc = "delete_info", !.op = "remove"]
        <3>1. new \in TaskState
            BY <1>1 DEF TaskState
        <3>2. Sound(new)
            BY <1>1 DEF TaskState, Sound, Looking, Storing, Deleting
        <3> QED
            BY <1>2, <2>2, <3>1, <3>2, OneTask
    <2> QED
        BY <1>4, <1>7, <2>1, <2>2 DEF Compare, WasRemoved
<1>8. ASSUME NEW u \in Urls, NEW f \in Files, NEW op \in {"download", "upload"},
             task' = [task EXCEPT ![t] = [@ EXCEPT !.pc = "replace", !.op = op,
                                                   !.url = u, !.file = f]]
      PROVE  task' \in [Tasks -> TaskState] /\ TaskInv'
    <2> DEFINE new == [task[t] EXCEPT !.pc = "replace", !.op = op, !.url = u, !.file = f]
    <2>1. new \in TaskState
        BY <1>1 DEF TaskState
    <2>2. Sound(new)
        BY <1>1 DEF TaskState, Sound, Looking, Storing, Deleting
    <2> QED
        BY <1>2, <1>8, <2>1, <2>2, OneTask
<1>9. CASE Fetch(t)
    <2>1. task[t].op = "download"
        BY <1>1, <1>9 DEF Fetch, Sound, Looking
    <2>2. ASSUME NEW u \in Urls, NEW f \in Files,
                 task' = [task EXCEPT ![t] = [@ EXCEPT !.pc = "replace", !.url = u, !.file = f]]
          PROVE  task' = [task EXCEPT ![t] = [@ EXCEPT !.pc = "replace", !.op = "download",
                                                       !.url = u, !.file = f]]
        BY <1>1, <2>1, <2>2 DEF TaskState
    <2> QED
        BY <1>4, <1>8, <1>9, <2>2 DEF Fetch
<1>10. CASE BeginUpload(t)
    BY <1>8, <1>10 DEF BeginUpload
<1> QED
    BY <1>5, <1>6, <1>7, <1>9, <1>10

(* The steps on the files keep the types.                                  *)
LEMMA FileTypes ==
    ASSUME TypeInv, NEW t \in Tasks, FileStep(t) \/ WriteFails(t)
    PROVE  TypeInv'
<1>1. /\ task \in [Tasks -> TaskState] /\ task[t] \in TaskState /\ Sound(task[t])
      /\ info \in InfoFile /\ asset \in [Files -> AssetFile]
    BY DEF TypeInv, TypeOK, TaskInv
<1>2. kind' = kind
    BY DEF FileStep, ReadOld, DeleteInfo, DeleteAsset, WriteAsset, FillAsset, Move, WriteInfo,
           FillInfo, WriteFails
<1>3. /\ upstream' = upstream /\ known' = known /\ changes' = changes
      /\ failures' = failures \/ (failures < MaxFailures /\ failures' = failures + 1)
      /\ unremoved' = unremoved \/ unremoved' = TRUE
    BY DEF FileStep, ReadOld, DeleteInfo, DeleteAsset, WriteAsset, FillAsset, Move, WriteInfo,
           FillInfo, WriteFails
<1>4. failures' \in 0 .. MaxFailures
    BY <1>3, MediaAssetsAssumption DEF TypeInv, TypeOK
<1>5. SUFFICES /\ task' \in [Tasks -> TaskState] /\ TaskInv'
               /\ info' \in InfoFile /\ asset' \in [Files -> AssetFile]
    BY <1>2, <1>3, <1>4, <1>5 DEF TypeInv, TypeOK
<1>6. task' \in [Tasks -> TaskState] /\ TaskInv'
    <2>1. CASE Return(t)
        BY <1>2, <2>1, IdleIsSound, OneTask DEF Return
    <2>2. ASSUME NEW pc \in Storing \cup Deleting, pc \in Storing => task[t].op # "remove",
                 task[t].pc \in Storing \cup Deleting, NEW old \in Files \cup {None},
                 task' = [task EXCEPT ![t] = [@ EXCEPT !.pc = pc, !.old = old]]
          PROVE  task' \in [Tasks -> TaskState] /\ TaskInv'
        <3> DEFINE new == [task[t] EXCEPT !.pc = pc, !.old = old]
        <3>1. new \in TaskState
            BY <1>1 DEF TaskState, Storing, Deleting
        <3>2. Sound(new)
            BY <1>1, <2>2 DEF TaskState, Sound, Looking, Storing, Deleting
        <3> QED
            BY <1>2, <2>2, <3>1, <3>2, OneTask
    <2>3. ASSUME NEW pc \in Storing \cup Deleting, pc \in Storing => task[t].op # "remove",
                 task[t].pc \in Storing \cup Deleting, task' = [task EXCEPT ![t].pc = pc]
          PROVE  task' \in [Tasks -> TaskState] /\ TaskInv'
        <3>1. task[t].old \in Files \cup {None}
            BY <1>1 DEF TaskState
        <3>2. task' = [task EXCEPT ![t] = [@ EXCEPT !.pc = pc, !.old = task[t].old]]
            BY <1>1, <2>3 DEF TaskState
        <3> QED
            BY <2>2, <2>3, <3>1, <3>2
    <2>4. task[t].pc \in Storing => task[t].op # "remove"
        BY <1>1 DEF Sound
    <2>5. Replacing(t) \in Storing
        BY DEF Replacing, Storing
    <2>6. CASE ReadOld(t)
        <3>1. info.file \in Files \cup {None}
            BY <1>1 DEF InfoFile
        <3> QED
            BY <2>2, <2>3, <2>4, <2>5, <2>6, <3>1 DEF ReadOld, Storing, Deleting
    <2>7. CASE DeleteInfo(t)
        BY <2>3, <2>7 DEF DeleteInfo, Storing, Deleting
    <2>8. CASE DeleteAsset(t)
        BY <2>1, <2>3, <2>5, <2>8 DEF DeleteAsset, Storing, Deleting
    <2>9. CASE WriteAsset(t) \/ FillAsset(t) \/ Move(t) \/ WriteInfo(t)
        BY <2>3, <2>4, <2>9 DEF WriteAsset, FillAsset, Move, WriteInfo, Storing, Deleting
    <2> QED
        BY <2>1, <2>6, <2>7, <2>8, <2>9 DEF FileStep, FillInfo, WriteFails
<1>7. info' \in InfoFile
    <2>1. CASE DeleteInfo(t)
        BY <1>1, <2>1 DEF DeleteInfo, InfoFile, MissingInfo
    <2>2. CASE WriteInfo(t)
        BY <1>1, <2>2 DEF WriteInfo, InfoFile, Opened
    <2>3. CASE FillInfo(t)
        <3> DEFINE new == [kind |-> "data", file |-> task[t].file, url |-> UpstreamUrl(t),
                           writers |-> info.writers]
                   torn == [kind |-> "torn", file |-> None, url |-> None,
                            writers |-> info.writers]
        <3>1. new \in InfoFile /\ torn \in InfoFile
            BY <1>1 DEF UpstreamUrl, InfoFile, TaskState
        <3>2. info' \in Filled(info, t, new, torn)
            BY <2>3 DEF FillInfo
        <3> QED
            BY <1>1, <3>1, <3>2 DEF Filled
    <2> QED
        BY <1>1, <2>1, <2>2, <2>3 DEF FileStep, ReadOld, DeleteAsset, WriteAsset, FillAsset,
           Move, WriteFails
<1>8. asset' \in [Files -> AssetFile]
    <2>1. CASE DeleteAsset(t)
        BY <1>1, <2>1 DEF DeleteAsset, AssetFile, MissingAsset
    <2>2. CASE WriteAsset(t)
        <3>1. \A w : \A f \in Files : Opened(asset[f], t, w) \in SUBSET Tasks
            BY <1>1 DEF Opened, AssetFile
        <3> QED
            BY <1>1, <2>2, <3>1 DEF WriteAsset, AssetFile
    <2>3. CASE FillAsset(t)
        <3> DEFINE file == asset[task[t].file]
                   new == [kind |-> "data", url |-> task[t].url, writers |-> file.writers]
                   torn == [kind |-> "torn", url |-> None, writers |-> file.writers]
        <3>1. task[t].url \in Urls /\ task[t].file \in Files
            BY <1>1, <2>3 DEF FillAsset, Sound, Storing
        <3>2. file \in AssetFile
            BY <1>1, <3>1
        <3>3. new \in AssetFile /\ torn \in AssetFile
            BY <3>1, <3>2 DEF AssetFile
        <3>4. PICK left \in Filled(file, t, new, torn) :
                asset' = [asset EXCEPT ![task[t].file] = left]
            BY <2>3 DEF FillAsset
        <3>5. left \in AssetFile
            BY <3>2, <3>3 DEF Filled
        <3> QED
            BY <1>1, <3>1, <3>4, <3>5
    <2>4. CASE Move(t)
        <3>1. task[t].url \in Urls /\ task[t].file \in Files
            BY <1>1, <2>4 DEF Move, Sound, Storing
        <3>2. [kind |-> "data", url |-> task[t].url, writers |-> {}] \in AssetFile
            BY <3>1 DEF AssetFile
        <3> QED
            BY <1>1, <2>4, <3>2 DEF Move
    <2> QED
        BY <1>1, <2>1, <2>2, <2>3, <2>4 DEF FileStep, ReadOld, DeleteInfo, WriteInfo, FillInfo,
           WriteFails
<1> QED
    BY <1>6, <1>7, <1>8

(* Every step keeps the types.                                             *)
LEMMA TypeStep == TypeInv /\ [Next]_vars => TypeInv'
<1> SUFFICES ASSUME TypeInv, [Next]_vars
             PROVE  TypeInv'
    OBVIOUS
<1>1. ASSUME NEW u \in Urls \cup {None}, UpstreamChange(u)
      PROVE  TypeInv'
    <2>1. changes < MaxChanges /\ changes' = changes + 1
        BY <1>1 DEF UpstreamChange
    <2>2. changes' \in 0 .. MaxChanges
        BY <2>1, MediaAssetsAssumption DEF TypeInv, TypeOK
    <2> QED
        BY <1>1, <2>2 DEF UpstreamChange, TypeInv, TypeOK, TaskInv, Sound
<1>2. CASE SyncState
    BY <1>2 DEF SyncState, TypeInv, TypeOK, TaskInv, Sound
<1>3. CASE Crash
    <2>1. failures' \in 0 .. MaxFailures
        BY <1>3, MediaAssetsAssumption DEF Crash, TypeInv, TypeOK
    <2>2. task' \in [Tasks -> TaskState] /\ TaskInv'
        BY <1>3, IdleIsSound DEF Crash, TaskInv, Sound
    <2> QED
        BY <1>3, <2>1, <2>2 DEF Crash, TypeInv, TypeOK
<1>4. CASE UNCHANGED vars
    BY <1>4 DEF vars, TypeInv, TypeOK, TaskInv, Sound
<1> QED
    BY <1>1, <1>2, <1>3, <1>4, LookTypes, FileTypes DEF Next

(***************************************************************************)
(* MediaAssets is well typed.  The types of the files rest on what a task  *)
(* knows: it only writes a file after it has a URL and a file name.        *)
(***************************************************************************)
THEOREM TypeCorrect == Spec => []TypeOK
<1>1. TypeInv => TypeOK
    BY DEF TypeInv
<1> QED
    BY <1>1, TypeInit, TypeStep, PTL DEF Spec
-----------------------------------------------------------------------------
(***************************************************************************)
(* When tasks do not overlap.  The invariant says what the running task    *)
(* may rely on at each of its steps: the info file it has read is still    *)
(* the one on disk, the info file is gone from before the old asset is     *)
(* deleted until the new one is complete, and nobody else has its files    *)
(* open.                                                                   *)
(***************************************************************************)

Single ==
    \A s, t \in Tasks : (task[s].pc # "idle" /\ task[t].pc # "idle") => s = t

(* The info file while a task runs.                                        *)
InfoRead(t) ==
    task[t].pc \in {"compare", "was_removed", "delete_info"} =>
        info.kind = "data" /\ task[t].old = info.file

InfoGone(t) ==
    task[t].pc \in {"delete_asset", "write_asset", "asset_writing", "move", "write_info"} =>
        unremoved \/ info.kind # "data"

InfoWriting(t) ==
    task[t].pc = "info_writing" => (info.kind = "torn" /\ info.writers = {t})

(* The new asset while a task writes it, and once it is complete.          *)
AssetWriting(t) ==
    task[t].pc = "asset_writing" => asset[task[t].file].writers = {t}

AssetWritten(t) ==
    task[t].pc \in {"write_info", "info_writing"} =>
        asset[task[t].file].kind = "data" /\ asset[task[t].file].url = task[t].url

StepInvOf(t) ==
    InfoRead(t) /\ InfoGone(t) /\ InfoWriting(t) /\ AssetWriting(t) /\ AssetWritten(t)

StepInv == \A t \in Tasks : StepInvOf(t)

(* What the info file says, between the steps.                             *)
InfoInv ==
    info.kind = "data" =>
        /\ info.file \in Files
        /\ ~unremoved => /\ asset[info.file].kind = "data"
                         /\ info.url # None => asset[info.file].url = info.url

FilesInv == Single /\ StepInv /\ InfoInv

(* Data is that of the info file, or of the running task.                  *)
Owned(f) ==
    \/ info.kind = "data" /\ info.file = f
    \/ \E t \in Tasks : \/ task[t].pc = "delete_asset" /\ task[t].old = f
                       \/ /\ task[t].pc \in {"asset_writing", "write_info", "info_writing"}
                          /\ task[t].file = f

OwnerInv ==
    /\ unremoved => failures > 0
    /\ failures = 0 => \A f \in Files : asset[f].kind # "missing" => Owned(f)

SerialInv == Serial => (FilesInv /\ OwnerInv)

(* A task that takes a step is the only one that runs.                     *)
LEMMA Alone ==
    ASSUME Serial, Single, NEW t \in Tasks, task[t].pc # "idle" \/ Free(t)
    PROVE  \A s \in Tasks \ {t} : task[s].pc = "idle"
BY DEF Single, Free

(* After a step of the only task that runs, only this task is concerned.   *)
LEMMA AloneAfter ==
    ASSUME TypeInv, NEW t \in Tasks, \A s \in Tasks \ {t} : task[s].pc = "idle",
           \A s \in Tasks \ {t} : task'[s] = task[s],
           StepInvOf(t)'
    PROVE  Single' /\ StepInv'
<1>1. Single'
    BY DEF Single
<1>2. \A s \in Tasks \ {t} : task'[s].pc = "idle"
    OBVIOUS
<1>3. StepInv'
    BY <1>2 DEF StepInv, StepInvOf, InfoRead, InfoGone, InfoWriting, AssetWriting, AssetWritten
<1> QED
    BY <1>1, <1>3

(* Looking up the asset leaves its files alone.                            *)
LEMMA LookFiles ==
    ASSUME TypeInv, Serial, FilesInv, NEW t \in Tasks,
           \/ BeginDownload(t) \/ CheckInfo(t) \/ Compare(t) \/ WasRemoved(t) \/ Fetch(t)
           \/ BeginUpload(t)
    PROVE  FilesInv'
<1>1. task \in [Tasks -> TaskState] /\ task[t] \in TaskState
    BY DEF TypeInv, TypeOK
<1>2. info' = info /\ asset' = asset /\ unremoved' = unremoved
    BY DEF BeginDownload, CheckInfo, Compare, WasRemoved, Fetch, BeginUpload
<1>3. \A s \in Tasks \ {t} : task'[s] = task[s]
    BY <1>1 DEF BeginDownload, CheckInfo, Compare, WasRemoved, Fetch, BeginUpload, Return
<1>4. \A s \in Tasks \ {t} : task[s].pc = "idle"
    BY Alone DEF FilesInv, BeginDownload, CheckInfo, Compare, WasRemoved, Fetch, BeginUpload
<1>5. InfoInv'
    BY <1>2 DEF FilesInv, InfoInv
<1>6. StepInvOf(t)'
    <2>1. \/ task'[t].pc \in {"idle", "check", "fetch", "replace"}
          \/ task'[t].pc = "compare" /\ info.kind = "data" /\ task'[t].old = info.file
          \/ /\ task[t].pc \in {"compare", "was_removed"}
             /\ task'[t].pc \in {"was_removed", "delete_info"}
             /\ task'[t].old = task[t].old
        <3>0. Return(t) => task'[t].pc = "idle"
            BY <1>1 DEF Return, IdleTask
        <3>1. CASE BeginDownload(t)
            BY <1>1, <3>1 DEF BeginDownload, TaskState
        <3>2. CASE CheckInfo(t)
            BY <1>1, <3>2 DEF CheckInfo, TaskState
        <3>3. CASE Compare(t) \/ WasRemoved(t)
            <4>1. ASSUME NEW x, NEW pc \in {"was_removed", "fetch"},
                         task' = [task EXCEPT ![t] = [@ EXCEPT !.pc = pc, !.uri = x]]
                  PROVE  task'[t].pc = pc /\ task'[t].old = task[t].old
                BY <1>1, <4>1 DEF TaskState
            <4>2. ASSUME task' = [task EXCEPT ![t] = [@ EXCEPT !.pc = "delete_info",
                                                              !.op = "remove"]]
                  PROVE  task'[t].pc = "delete_info" /\ task'[t].old = task[t].old
                BY <1>1, <4>2 DEF TaskState
            <4>3. CASE Compare(t)
                BY <3>0, <4>1, <4>3 DEF Compare
            <4>4. CASE WasRemoved(t)
                BY <3>0, <4>1, <4>2, <4>4 DEF WasRemoved
            <4> QED
                BY <3>3, <4>3, <4>4
        <3>4. CASE Fetch(t)
            <4>1. ASSUME NEW u, NEW f,
                         task' = [task EXCEPT ![t] = [@ EXCEPT !.pc = "replace", !.url = u,
                                                               !.file = f]]
                  PROVE  task'[t].pc = "replace"
                BY <1>1, <4>1 DEF TaskState
            <4> QED
                BY <3>0, <3>4, <4>1 DEF Fetch
        <3>5. CASE BeginUpload(t)
            BY <1>1, <3>5 DEF BeginUpload, TaskState
        <3> QED
            BY <3>1, <3>2, <3>3, <3>4, <3>5
    <2>2. InfoRead(t)
        BY DEF FilesInv, StepInv, StepInvOf
    <2> QED
        BY <1>2, <2>1, <2>2
        DEF StepInvOf, InfoRead, InfoGone, InfoWriting, AssetWriting, AssetWritten
<1> QED
    BY <1>3, <1>4, <1>5, <1>6, AloneAfter DEF FilesInv

(* A write by the only task that runs has no other writer.                 *)
LEMMA OnlyWriter ==
    ASSUME NEW t \in Tasks, NEW file, file.writers \in SUBSET Tasks, NEW writing,
           \A s \in Tasks \ {t} : ~writing[s]
    PROVE  Opened(file, t, writing) = {t}
BY DEF Opened

(* The end of such a write leaves its data.                                *)
LEMMA OnlyFiller ==
    ASSUME NEW t, NEW file, file.writers = {t}, NEW new, NEW torn
    PROVE  Filled(file, t, new, torn) = {new}
BY DEF Filled

(* The steps on the files, one by one.                                     *)
LEMMA FileFiles ==
    ASSUME TypeInv, Serial, FilesInv, NEW t \in Tasks, FileStep(t) \/ WriteFails(t)
    PROVE  FilesInv'
<1>1. /\ task \in [Tasks -> TaskState] /\ task[t] \in TaskState /\ Sound(task[t])
      /\ info \in InfoFile /\ asset \in [Files -> AssetFile]
    BY DEF TypeInv, TypeOK, TaskInv
<1>2. \A s \in Tasks \ {t} : task'[s] = task[s]
    BY <1>1 DEF FileStep, ReadOld, DeleteInfo, DeleteAsset, WriteAsset, FillAsset, Move,
                WriteInfo, FillInfo, WriteFails, Return
<1>3. \A s \in Tasks \ {t} : task[s].pc = "idle"
    BY Alone DEF FilesInv, FileStep, ReadOld, DeleteInfo, DeleteAsset, WriteAsset, FillAsset,
                 Move, WriteInfo, FillInfo, WriteFails
<1>4. SUFFICES StepInvOf(t)' /\ InfoInv'
    BY <1>2, <1>3, <1>4, AloneAfter DEF FilesInv
<1>5. StepInvOf(t) /\ InfoInv
    BY DEF FilesInv, StepInv
<1>6. Return(t) => task'[t].pc = "idle"
    BY <1>1 DEF Return, IdleTask
<1>7. ASSUME NEW pc, task' = [task EXCEPT ![t].pc = pc]
      PROVE  /\ task'[t].pc = pc /\ task'[t].file = task[t].file
             /\ task'[t].url = task[t].url
    BY <1>1, <1>7 DEF TaskState
<1>8. Replacing(t) \in {"move", "write_asset"}
    BY DEF Replacing
<1> USE DEF StepInvOf, InfoRead, InfoGone, InfoWriting, AssetWriting, AssetWritten
<1>9. CASE ReadOld(t)
    <2>1. InfoInv'
        BY <1>5, <1>9 DEF ReadOld, InfoInv
    <2>2. CASE info.kind = "data"
        <3>1. task'[t].pc = "delete_info" /\ task'[t].old = info.file
            BY <1>1, <1>9, <2>2 DEF ReadOld, TaskState
        <3> QED
            BY <1>9, <2>1, <2>2, <3>1 DEF ReadOld
    <2>3. CASE info.kind # "data"
        BY <1>7, <1>8, <1>9, <2>1, <2>3 DEF ReadOld
    <2> QED
        BY <2>2, <2>3
<1>10. CASE DeleteInfo(t)
    <2>1. task'[t].pc = "delete_asset"
        BY <1>7, <1>10 DEF DeleteInfo
    <2>2. info'.kind # "data" \/ (info' = info /\ unremoved')
        BY <1>10 DEF DeleteInfo, MissingInfo
    <2>3. InfoInv'
        BY <1>5, <2>2 DEF InfoInv
    <2> QED
        BY <2>1, <2>2, <2>3
<1>11. CASE DeleteAsset(t)
    <2>1. task'[t].pc \in {"idle", "move", "write_asset"}
        BY <1>6, <1>7, <1>8, <1>11 DEF DeleteAsset
    <2>2. unremoved \/ info.kind # "data"
        BY <1>5, <1>11 DEF DeleteAsset
    <2>3. info' = info /\ unremoved' = unremoved
        BY <1>11 DEF DeleteAsset
    <2>4. InfoInv'
        BY <1>5, <2>2, <2>3 DEF InfoInv
    <2> QED
        BY <2>1, <2>2, <2>3, <2>4
<1>12. CASE WriteAsset(t)
    <2>1. task'[t].pc = "asset_writing" /\ task'[t].file = task[t].file
        BY <1>7, <1>12 DEF WriteAsset
    <2>2. unremoved \/ info.kind # "data"
        BY <1>5, <1>12 DEF WriteAsset
    <2>3. info' = info /\ unremoved' = unremoved
        BY <1>12 DEF WriteAsset
    <2>4. InfoInv'
        BY <1>5, <2>2, <2>3 DEF InfoInv
    <2>5. asset'[task[t].file].writers = {t}
        <3> DEFINE f == task[t].file
                   writing == [s \in Tasks |-> task[s].pc = "asset_writing" /\ task[s].file = f]
        <3>1. f \in Files
            BY <1>1, <1>12 DEF WriteAsset, Sound, Storing
        <3>2. asset[f].writers \in SUBSET Tasks
            BY <1>1, <3>1 DEF AssetFile
        <3>3. \A s \in Tasks \ {t} : ~writing[s]
            BY <1>3
        <3>4. Opened(asset[f], t, writing) = {t}
            BY <3>2, <3>3, OnlyWriter
        <3> QED
            BY <1>1, <1>12, <3>1, <3>4 DEF WriteAsset
    <2> QED
        BY <2>1, <2>2, <2>3, <2>4, <2>5
<1>13. CASE FillAsset(t) \/ Move(t)
    <2>1. /\ task'[t].pc = "write_info" /\ task'[t].file = task[t].file
          /\ task'[t].url = task[t].url
        BY <1>7, <1>13 DEF FillAsset, Move
    <2>2. unremoved \/ info.kind # "data"
        BY <1>5, <1>13 DEF FillAsset, Move
    <2>3. info' = info /\ unremoved' = unremoved
        BY <1>13 DEF FillAsset, Move
    <2>4. InfoInv'
        BY <1>5, <2>2, <2>3 DEF InfoInv
    <2>5. task[t].file \in Files
        BY <1>1, <1>13 DEF FillAsset, Move, Sound, Storing
    <2>6. asset'[task[t].file].kind = "data" /\ asset'[task[t].file].url = task[t].url
        <3>1. CASE Move(t)
            BY <1>1, <2>5, <3>1 DEF Move
        <3>2. CASE FillAsset(t)
            <4> DEFINE file == asset[task[t].file]
                       new == [kind |-> "data", url |-> task[t].url, writers |-> file.writers]
                       torn == [kind |-> "torn", url |-> None, writers |-> file.writers]
            <4>1. Filled(file, t, new, torn) = {new}
                BY <1>5, <3>2, OnlyFiller DEF FillAsset
            <4>2. asset' = [asset EXCEPT ![task[t].file] = new]
                BY <3>2, <4>1 DEF FillAsset
            <4> QED
                BY <1>1, <2>5, <4>2
        <3> QED
            BY <1>13, <3>1, <3>2
    <2> QED
        BY <2>1, <2>2, <2>3, <2>4, <2>6
<1>14. CASE WriteInfo(t)
    <2>1. /\ task'[t].pc = "info_writing" /\ task'[t].file = task[t].file
          /\ task'[t].url = task[t].url
        BY <1>7, <1>14 DEF WriteInfo
    <2>2. info'.kind = "torn" /\ info'.writers = {t}
        <3> DEFINE writing == [s \in Tasks |-> task[s].pc = "info_writing"]
        <3>1. info.writers \in SUBSET Tasks
            BY <1>1 DEF InfoFile
        <3>2. \A s \in Tasks \ {t} : ~writing[s]
            BY <1>3
        <3>3. Opened(info, t, writing) = {t}
            BY <3>1, <3>2, OnlyWriter
        <3> QED
            BY <1>14, <3>3 DEF WriteInfo
    <2>3. asset' = asset
        BY <1>14 DEF WriteInfo
    <2> QED
        BY <1>5, <1>14, <2>1, <2>2, <2>3 DEF WriteInfo, InfoInv
<1>15. CASE FillInfo(t)
    <2> DEFINE new == [kind |-> "data", file |-> task[t].file, url |-> UpstreamUrl(t),
                       writers |-> info.writers]
               torn == [kind |-> "torn", file |-> None, url |-> None, writers |-> info.writers]
    <2>1. task'[t].pc = "idle"
        BY <1>6, <1>15 DEF FillInfo
    <2>2. Filled(info, t, new, torn) = {new}
        BY <1>5, <1>15, OnlyFiller DEF FillInfo
    <2>3. info' = new /\ asset' = asset
        BY <1>15, <2>2 DEF FillInfo
    <2>4. task[t].file \in Files
        BY <1>1, <1>15 DEF FillInfo, Sound, Storing
    <2>5. asset[task[t].file].kind = "data" /\ asset[task[t].file].url = task[t].url
        BY <1>5, <1>15 DEF FillInfo
    <2>6. InfoInv'
        BY <2>3, <2>4, <2>5 DEF InfoInv, UpstreamUrl
    <2> QED
        BY <2>1, <2>6
<1>16. CASE WriteFails(t)
    BY <1>5, <1>6, <1>16 DEF WriteFails, InfoInv
<1> QED
    BY <1>9, <1>10, <1>11, <1>12, <1>13, <1>14, <1>15, <1>16 DEF FileStep

(* The data of a file is that of the info file or of the running task.     *)
LEMMA OwnerFiles ==
    ASSUME TypeInv, Serial, FilesInv, OwnerInv, NEW t \in Tasks, FileStep(t) \/ WriteFails(t)
    PROVE  OwnerInv'
<1>1. /\ task \in [Tasks -> TaskState] /\ task[t] \in TaskState /\ Sound(task[t])
      /\ info \in InfoFile /\ asset \in [Files -> AssetFile] /\ failures \in Nat
    BY MediaAssetsAssumption DEF TypeInv, TypeOK, TaskInv
<1>2. \A s \in Tasks \ {t} : task[s].pc = "idle"
    BY Alone DEF FilesInv, FileStep, ReadOld, DeleteInfo, DeleteAsset, WriteAsset, FillAsset,
                 Move, WriteInfo, FillInfo, WriteFails
<1>3. StepInvOf(t)
    BY DEF FilesInv, StepInv
<1>4. (failures' = failures /\ unremoved' = unremoved) \/ failures' = failures + 1
    BY DEF FileStep, ReadOld, DeleteInfo, DeleteAsset, WriteAsset, FillAsset, Move,
           WriteInfo, FillInfo, WriteFails
<1>5. unremoved' => failures' > 0
    <2>1. CASE failures' = failures + 1
        BY <1>1, <2>1
    <2>2. CASE failures' = failures /\ unremoved' = unremoved
        BY <2>2 DEF OwnerInv
    <2> QED
        BY <1>4, <2>1, <2>2
<1>6. SUFFICES ASSUME failures' = 0, NEW f \in Files, asset'[f].kind # "missing"
               PROVE  Owned(f)'
    BY <1>5 DEF OwnerInv
<1>7. failures = 0 /\ failures' = failures /\ ~unremoved
    BY <1>1, <1>4, <1>6 DEF OwnerInv
<1>8. asset[f].kind # "missing" =>
         \/ info.kind = "data" /\ info.file = f
         \/ task[t].pc = "delete_asset" /\ task[t].old = f
         \/ /\ task[t].pc \in {"asset_writing", "write_info", "info_writing"}
            /\ task[t].file = f
    BY <1>2, <1>7 DEF OwnerInv, Owned
<1>9. ASSUME NEW pc, task' = [task EXCEPT ![t].pc = pc]
      PROVE  /\ task'[t].pc = pc /\ task'[t].file = task[t].file
             /\ task'[t].old = task[t].old
    BY <1>1, <1>9 DEF TaskState
<1>10. CASE ReadOld(t)
    <2>1. task[t].pc = "replace" /\ info' = info /\ asset' = asset
        BY <1>10 DEF ReadOld
    <2> QED
        BY <1>6, <1>8, <2>1 DEF Owned
<1>11. CASE DeleteInfo(t)
    <2>1. task[t].pc = "delete_info" /\ asset' = asset
        BY <1>11 DEF DeleteInfo
    <2>2. task[t].old = f
        BY <1>3, <1>6, <1>8, <2>1 DEF StepInvOf, InfoRead
    <2>3. task'[t].pc = "delete_asset" /\ task'[t].old = f
        BY <1>9, <1>11, <2>2 DEF DeleteInfo
    <2> QED
        BY <2>3 DEF Owned
<1>12. CASE DeleteAsset(t)
    <2>1. task[t].pc = "delete_asset" /\ info.kind # "data"
        BY <1>3, <1>7, <1>12 DEF DeleteAsset, StepInvOf, InfoGone
    <2>2. asset' = [asset EXCEPT ![task[t].old] = MissingAsset]
        BY <1>1, <1>7, <1>12 DEF DeleteAsset
    <2>3. asset[f].kind # "missing" /\ task[t].old # f
        BY <1>1, <1>6, <2>2 DEF MissingAsset
    <2> QED
        BY <1>8, <2>1, <2>3
<1>13. CASE WriteAsset(t)
    <2>1. /\ task[t].pc = "write_asset" /\ info.kind # "data"
          /\ \A g \in Files \ {task[t].file} : asset'[g] = asset[g]
        BY <1>1, <1>3, <1>7, <1>13 DEF WriteAsset, StepInvOf, InfoGone
    <2>2. f = task[t].file
        BY <1>6, <1>8, <2>1
    <2>3. task'[t].pc = "asset_writing" /\ task'[t].file = f
        BY <1>9, <1>13, <2>2 DEF WriteAsset
    <2> QED
        BY <2>3 DEF Owned
<1>14. CASE FillAsset(t) \/ Move(t)
    <2>1. /\ task[t].pc \in {"asset_writing", "move"} /\ info.kind # "data"
          /\ \A g \in Files \ {task[t].file} : asset'[g] = asset[g]
        BY <1>1, <1>3, <1>7, <1>14 DEF FillAsset, Move, StepInvOf, InfoGone
    <2>2. f = task[t].file
        BY <1>6, <1>8, <2>1
    <2>3. task'[t].pc = "write_info" /\ task'[t].file = f
        BY <1>9, <1>14, <2>2 DEF FillAsset, Move
    <2> QED
        BY <2>3 DEF Owned
<1>15. CASE WriteInfo(t)
    <2>1. task[t].pc = "write_info" /\ info.kind # "data" /\ asset' = asset
        BY <1>3, <1>7, <1>15 DEF WriteInfo, StepInvOf, InfoGone
    <2>2. f = task[t].file
        BY <1>6, <1>8, <2>1
    <2>3. task'[t].pc = "info_writing" /\ task'[t].file = f
        BY <1>9, <1>15, <2>2 DEF WriteInfo
    <2> QED
        BY <2>3 DEF Owned
<1>16. CASE FillInfo(t)
    <2>1. /\ task[t].pc = "info_writing" /\ info.kind = "torn" /\ info.writers = {t}
          /\ asset' = asset
        BY <1>3, <1>16 DEF FillInfo, StepInvOf, InfoWriting
    <2>2. f = task[t].file
        BY <1>6, <1>8, <2>1
    <2>3. info'.kind = "data" /\ info'.file = f
        BY <1>16, <2>1, <2>2, OnlyFiller DEF FillInfo
    <2> QED
        BY <2>3 DEF Owned
<1>17. CASE WriteFails(t)
    BY <1>1, <1>7, <1>17 DEF WriteFails
<1> QED
    BY <1>10, <1>11, <1>12, <1>13, <1>14, <1>15, <1>16, <1>17 DEF FileStep

(* The invariant holds initially.                                          *)
LEMMA SerialInit == Init => SerialInv
<1>1. Init => Single /\ StepInv
    BY DEF Init, Single, StepInv, StepInvOf, InfoRead, InfoGone, InfoWriting, AssetWriting,
           AssetWritten, IdleTask
<1>2. Init => InfoInv /\ OwnerInv
    BY DEF Init, InfoInv, OwnerInv, MissingInfo, MissingAsset
<1> QED
    BY <1>1, <1>2 DEF SerialInv, FilesInv

(* Every step keeps the invariant.                                         *)
LEMMA SerialStep == TypeInv /\ SerialInv /\ [Next]_vars => SerialInv'
<1> SUFFICES ASSUME TypeInv, Serial, FilesInv, OwnerInv, [Next]_vars
             PROVE  FilesInv' /\ OwnerInv'
    BY DEF SerialInv
<1>1. CASE /\ info' = info /\ asset' = asset /\ task' = task
           /\ failures' = failures /\ unremoved' = unremoved
    BY <1>1 DEF FilesInv, OwnerInv, Single, StepInv, StepInvOf, InfoRead, InfoGone,
                InfoWriting, AssetWriting, AssetWritten, InfoInv, Owned
<1>2. ASSUME NEW t \in Tasks,
             \/ BeginDownload(t) \/ CheckInfo(t) \/ Compare(t) \/ WasRemoved(t) \/ Fetch(t)
             \/ BeginUpload(t)
      PROVE  FilesInv' /\ OwnerInv'
    <2>1. FilesInv'
        BY <1>2, LookFiles
    <2>2. /\ info' = info /\ asset' = asset /\ failures' = failures /\ unremoved' = unremoved
          /\ task[t].pc \in {"idle"} \cup Looking
        BY <1>2 DEF BeginDownload, CheckInfo, Compare, WasRemoved, Fetch, BeginUpload, Free,
                    Looking
    <2>3. \A s \in Tasks \ {t} : task[s].pc = "idle"
        BY <1>2, Alone
        DEF FilesInv, BeginDownload, CheckInfo, Compare, WasRemoved, Fetch, BeginUpload
    <2>4. \A s \in Tasks : task[s].pc \in {"idle"} \cup Looking
        BY <2>2, <2>3
    <2>5. \A f : Owned(f) => Owned(f)'
        BY <2>2, <2>4 DEF Owned, Looking
    <2> QED
        BY <2>1, <2>2, <2>5 DEF OwnerInv
<1>3. ASSUME NEW t \in Tasks, FileStep(t) \/ WriteFails(t)
      PROVE  FilesInv' /\ OwnerInv'
    BY <1>3, FileFiles, OwnerFiles
<1>4. CASE Crash
    <2>1. \A t \in Tasks : task'[t].pc = "idle"
        BY <1>4 DEF Crash, IdleTask
    <2>2. Single' /\ StepInv'
        BY <2>1 DEF Single, StepInv, StepInvOf, InfoRead, InfoGone, InfoWriting, AssetWriting,
                    AssetWritten
    <2>3. InfoInv'
        BY <1>4 DEF Crash, FilesInv, InfoInv
    <2>4. failures' > 0
        BY <1>4 DEF Crash, TypeInv, TypeOK
    <2> QED
        BY <2>2, <2>3, <2>4 DEF FilesInv, OwnerInv
<1> QED
    BY <1>1, <1>2, <1>3, <1>4 DEF Next, UpstreamChange, SyncState, vars

(***************************************************************************)
(* A readable info file describes the data at every moment, also after a   *)
(* crash or a failed write, for any number of requests one after the other *)
(* (download_asset, upload and delete_asset_and_info).                     *)
(***************************************************************************)
THEOREM InfoCorrect == Spec => []InfoDescribesAsset
<1>1. SerialInv => InfoDescribesAsset
    BY DEF SerialInv, FilesInv, InfoInv, InfoDescribesAsset, Described
<1> QED
    BY <1>1, TypeInit, TypeStep, SerialInit, SerialStep, PTL DEF Spec

(***************************************************************************)
(* As long as nothing has failed, replaced and removed assets leave no     *)
(* data behind, whatever their file names were.                            *)
(***************************************************************************)
THEOREM NothingOrphaned == Spec => []NoOrphans
<1>1. SerialInv => NoOrphans
    BY DEF SerialInv, OwnerInv, Owned, NoOrphans, Quiet
<1> QED
    BY <1>1, TypeInit, TypeStep, SerialInit, SerialStep, PTL DEF Spec

-----------------------------------------------------------------------------
(***************************************************************************)
(* The refinement of AssetStore.  When tasks do not overlap, at most one   *)
(* task runs, and what the contract calls fetched is the URL of this task. *)
(***************************************************************************)

UrlOf(x) ==
    IF x.pc \in Looking THEN IF x.uri \in Urls THEN x.uri ELSE None
    ELSE IF x.op = "remove" THEN None
    ELSE x.url

(* Fetched as a function of the tasks.                                     *)
FetchedIn(tasks) ==
    IF \A t \in Tasks : tasks[t].pc = "idle" THEN None
    ELSE UrlOf(tasks[CHOOSE x \in Tasks : tasks[x].pc # "idle"])

(* The two agree, before and after a step.                                 *)
LEMMA FetchedIsIn == Fetched = FetchedIn(task) /\ Fetched' = FetchedIn(task')
BY DEF Fetched, FetchedIn, UrlOf, Quiet, Looking

(* With one running task, it is the URL of this one.                       *)
LEMMA FetchedByOne ==
    ASSUME NEW tasks, NEW t \in Tasks, \A s \in Tasks \ {t} : tasks[s].pc = "idle",
           tasks[t].pc = "idle" => tasks[t] = IdleTask
    PROVE  FetchedIn(tasks) = UrlOf(tasks[t])
<1>1. CASE tasks[t].pc = "idle"
    BY <1>1 DEF FetchedIn, UrlOf, IdleTask, Looking
<1>2. CASE tasks[t].pc # "idle"
    <2>1. t = CHOOSE x \in Tasks : tasks[x].pc # "idle"
        BY <1>2
    <2> QED
        BY <1>2, <2>1 DEF FetchedIn
<1> QED
    BY <1>1, <1>2

(* A step that does not store anything, seen as one of the contract.       *)
LEMMA LookStep ==
    ASSUME upstream' = upstream, known' = known, Stored' = Stored, unremoved' = unremoved,
           \/ Fetched' \in {Fetched, None}
           \/ Fetched = None /\ Fetched' \in {upstream, known} \cap Urls
    PROVE  [Contract!StoreNext]_(Contract!storeVars)
BY DEF Contract!StoreNext, Contract!storeVars, Contract!LookUp, Contract!Abandon

(* What a task looks up is what it has, or what there is.                  *)
LEMMA LookupFetched ==
    ASSUME TypeInv, NEW t \in Tasks, task[t].pc \in Looking, NEW uri \in Lookup(t)
    PROVE  LET had == UrlOf(task[t])
               got == IF uri \in Urls THEN uri ELSE None
               kept == IF Kept(uri) \in Urls THEN Kept(uri) ELSE None
           IN  /\ got = had \/ (had = None /\ got \in {None} \cup ({upstream, known} \cap Urls))
               /\ kept \in {had, got}
<1>1. /\ task[t].uri \in Urls \cup {None, Unknown} /\ Sound(task[t])
      /\ kind \in {"room_avatar", "user_avatar", "attachment"}
      /\ upstream \in Urls \cup {None} /\ known \in Urls \cup {None}
    BY DEF TypeInv, TypeOK, TaskInv, TaskState, Kind
<1>2. Unknown \notin Urls /\ None \notin Urls /\ Unknown # None
    BY MediaAssetsAssumption
<1>3. UrlOf(task[t]) = IF task[t].uri \in Urls THEN task[t].uri ELSE None
    BY DEF UrlOf
<1>4. CASE kind = "user_avatar" /\ task[t].uri # Unknown
    BY <1>1, <1>2, <1>3, <1>4 DEF Lookup, Kept
<1>5. CASE kind = "user_avatar" /\ task[t].uri = Unknown
    BY <1>1, <1>2, <1>3, <1>5 DEF Lookup, Kept
<1>6. CASE kind # "user_avatar"
    <2>1. task[t].uri = Unknown /\ Kept(uri) = Unknown
        BY <1>1, <1>6 DEF Sound, Kept
    <2>2. uri \in {upstream, known}
        BY <1>1, <1>6 DEF Lookup
    <2> QED
        BY <1>1, <1>2, <1>3, <2>1, <2>2
<1> QED
    BY <1>4, <1>5, <1>6

(* Looking up, downloading and uploading are lookups, publications and     *)
(* abandoned tasks of the contract.                                        *)
LEMMA LookRefines ==
    ASSUME TypeInv, TypeInv', Serial, FilesInv, NEW t \in Tasks,
           \/ BeginDownload(t) \/ CheckInfo(t) \/ Compare(t) \/ WasRemoved(t) \/ Fetch(t)
           \/ BeginUpload(t)
    PROVE  [Contract!StoreNext]_(Contract!storeVars)
<1>1. task \in [Tasks -> TaskState] /\ task[t] \in TaskState /\ Sound(task[t])
    BY DEF TypeInv, TypeOK, TaskInv
<1>2. \A s \in Tasks \ {t} : task[s].pc = "idle" /\ task'[s].pc = "idle"
    <2>1. \A s \in Tasks \ {t} : task'[s] = task[s]
        BY <1>1 DEF BeginDownload, CheckInfo, Compare, WasRemoved, Fetch, BeginUpload, Return
    <2> QED
        BY <2>1, Alone
        DEF FilesInv, BeginDownload, CheckInfo, Compare, WasRemoved, Fetch, BeginUpload
<1>3. Fetched = UrlOf(task[t]) /\ Fetched' = UrlOf(task'[t])
    <2>1. /\ task[t].pc = "idle" => task[t] = IdleTask
          /\ task'[t].pc = "idle" => task'[t] = IdleTask
        BY DEF TypeInv, TaskInv, Sound
    <2> QED
        BY <1>2, <2>1, FetchedIsIn, FetchedByOne
<1>4. Stored' = Stored /\ unremoved' = unremoved /\ known' = known
    BY DEF BeginDownload, CheckInfo, Compare, WasRemoved, Fetch, BeginUpload, Stored
<1>5. Return(t) => UrlOf(task'[t]) = None
    BY <1>1 DEF Return, IdleTask, UrlOf, Looking
<1>6. ASSUME NEW pc \in Looking, NEW uri,
             task' = [task EXCEPT ![t] = [@ EXCEPT !.pc = pc, !.uri = uri]]
      PROVE  UrlOf(task'[t]) = IF uri \in Urls THEN uri ELSE None
    <2>1. task'[t].pc = pc /\ task'[t].uri = uri
        BY <1>1, <1>6 DEF TaskState
    <2> QED
        BY <2>1 DEF UrlOf
<1>7. CASE BeginDownload(t)
    <2>1. task[t] = IdleTask /\ upstream' = upstream
        BY <1>1, <1>7 DEF BeginDownload, Free, Sound
    <2>2. UrlOf(task[t]) = None /\ task[t].uri = Unknown
        BY <2>1 DEF IdleTask, UrlOf, Looking
    <2>3. PICK uri \in Lookup(t) :
            task' = [task EXCEPT ![t] = [@ EXCEPT !.pc = "check", !.uri = Kept(uri)]]
        BY <1>7 DEF BeginDownload
    <2>4. Kept(uri) \in {upstream, Unknown}
        BY <2>2 DEF Lookup, Kept
    <2>5. UrlOf(task'[t]) = IF Kept(uri) \in Urls THEN Kept(uri) ELSE None
        BY <1>6, <2>3 DEF Looking
    <2>6. UrlOf(task'[t]) \in {None} \cup ({upstream} \cap Urls)
        BY <2>4, <2>5, MediaAssetsAssumption
    <2> QED
        BY <1>3, <1>4, <2>1, <2>2, <2>6, LookStep
<1>8. CASE CheckInfo(t)
    <2>1. task'[t].pc \in Looking /\ task'[t].uri = task[t].uri
        <3>1. CASE info.kind = "data"
            <4>1. task' = [task EXCEPT ![t] =
                            [@ EXCEPT !.pc = "compare", !.url = info.url, !.old = info.file]]
                BY <1>8, <3>1 DEF CheckInfo
            <4>2. task'[t].pc = "compare" /\ task'[t].uri = task[t].uri
                BY <1>1, <4>1 DEF TaskState
            <4> QED
                BY <4>2 DEF Looking
        <3>2. CASE info.kind # "data"
            BY <1>1, <1>8, <3>2 DEF CheckInfo, TaskState, Looking
        <3> QED
            BY <3>1, <3>2
    <2>2. UrlOf(task'[t]) = UrlOf(task[t])
        BY <1>8, <2>1 DEF UrlOf, CheckInfo, Looking
    <2> QED
        BY <1>3, <1>4, <1>8, <2>2, LookStep DEF CheckInfo
<1>9. CASE Compare(t) \/ WasRemoved(t)
    <2>1. upstream' = upstream /\ task[t].pc \in Looking
        BY <1>9 DEF Compare, WasRemoved, Looking
    <2>2. ASSUME NEW uri \in Lookup(t), NEW pc \in {"was_removed", "fetch"},
                 task' = [task EXCEPT ![t] = [@ EXCEPT !.pc = pc, !.uri = Kept(uri)]]
          PROVE  [Contract!StoreNext]_(Contract!storeVars)
        <3>1. UrlOf(task'[t]) = IF Kept(uri) \in Urls THEN Kept(uri) ELSE None
            BY <1>6, <2>2 DEF Looking
        <3> QED
            BY <1>3, <1>4, <2>1, <3>1, LookupFetched, LookStep
    <2>3. CASE task' = [task EXCEPT ![t] = [@ EXCEPT !.pc = "delete_info", !.op = "remove"]]
        <3>1. task'[t].pc = "delete_info" /\ task'[t].op = "remove"
            BY <1>1, <2>3 DEF TaskState
        <3>2. UrlOf(task'[t]) = None
            BY <3>1 DEF UrlOf, Looking
        <3> QED
            BY <1>3, <1>4, <2>1, <3>2, LookStep
    <2>4. CASE Return(t)
        BY <1>3, <1>4, <1>5, <2>1, <2>4, LookStep
    <2> QED
        BY <1>9, <2>2, <2>3, <2>4 DEF Compare, WasRemoved
<1>10. CASE Fetch(t)
    <2>1. upstream' = upstream /\ task[t].pc \in Looking /\ task[t].op = "download"
        BY <1>1, <1>10 DEF Fetch, Sound, Looking
    <2>2. ASSUME NEW uri \in Lookup(t) \cap Urls, NEW f \in Files,
                 task' = [task EXCEPT ![t] = [@ EXCEPT !.pc = "replace", !.url = uri,
                                                       !.file = f]]
          PROVE  [Contract!StoreNext]_(Contract!storeVars)
        <3>1. /\ task'[t].pc = "replace" /\ task'[t].url = uri
              /\ task'[t].op = task[t].op
            BY <1>1, <2>2 DEF TaskState
        <3>2. UrlOf(task'[t]) = uri
            BY <2>1, <3>1 DEF UrlOf, Looking
        <3> QED
            BY <1>3, <1>4, <2>1, <3>2, LookupFetched, LookStep, MediaAssetsAssumption
    <2>3. CASE Return(t)
        BY <1>3, <1>4, <1>5, <2>1, <2>3, LookStep
    <2> QED
        BY <1>10, <2>2, <2>3 DEF Fetch
<1>11. CASE BeginUpload(t)
    <2>1. task[t] = IdleTask
        BY <1>1, <1>11 DEF BeginUpload, Free, Sound
    <2>2. Fetched = None
        BY <1>3, <2>1 DEF IdleTask, UrlOf, Looking
    <2>3. PICK u \in Urls, f \in Files :
            /\ upstream' = u
            /\ task' = [task EXCEPT ![t] =
                          [@ EXCEPT !.pc = "replace", !.op = "upload", !.url = u, !.file = f]]
        BY <1>11 DEF BeginUpload
    <2>4. task'[t].pc = "replace" /\ task'[t].url = u /\ task'[t].op = "upload"
        BY <1>1, <2>3 DEF TaskState
    <2>5. Fetched' = u
        BY <1>3, <2>4 DEF UrlOf, Looking
    <2>6. CASE u = upstream
        BY <1>4, <2>2, <2>3, <2>5, <2>6, LookStep
    <2>7. CASE u # upstream
        BY <1>4, <2>2, <2>3, <2>5, <2>7 DEF Contract!StoreNext, Contract!Publish
    <2> QED
        BY <2>6, <2>7
<1> QED
    BY <1>7, <1>8, <1>9, <1>10, <1>11

(* Of the steps on the files, removing the old info file is the removal of *)
(* the contract, and completing the new one is its Store; the others do    *)
(* nothing, or the task is abandoned.                                      *)
LEMMA FileRefines ==
    ASSUME TypeInv, TypeInv', Serial, FilesInv, ~unremoved, ~unremoved', NEW t \in Tasks,
           FileStep(t) \/ WriteFails(t)
    PROVE  [Contract!StoreNext]_(Contract!storeVars)
<1>1. /\ task \in [Tasks -> TaskState] /\ task[t] \in TaskState /\ Sound(task[t])
    BY DEF TypeInv, TypeOK, TaskInv
<1>2. \A s \in Tasks \ {t} : task[s].pc = "idle" /\ task'[s].pc = "idle"
    <2>1. \A s \in Tasks \ {t} : task'[s] = task[s]
        BY <1>1 DEF FileStep, ReadOld, DeleteInfo, DeleteAsset, WriteAsset, FillAsset, Move,
                    WriteInfo, FillInfo, WriteFails, Return
    <2> QED
        BY <2>1, Alone DEF FilesInv, FileStep, ReadOld, DeleteInfo, DeleteAsset, WriteAsset,
                           FillAsset, Move, WriteInfo, FillInfo, WriteFails
<1>3. Fetched = UrlOf(task[t]) /\ Fetched' = UrlOf(task'[t])
    <2>1. /\ task[t].pc = "idle" => task[t] = IdleTask
          /\ task'[t].pc = "idle" => task'[t] = IdleTask
        BY DEF TypeInv, TaskInv, Sound
    <2> QED
        BY <1>2, <2>1, FetchedIsIn, FetchedByOne
<1>4. upstream' = upstream /\ known' = known /\ unremoved' = unremoved
    BY DEF FileStep, ReadOld, DeleteInfo, DeleteAsset, WriteAsset, FillAsset, Move,
           WriteInfo, FillInfo, WriteFails
<1>5. Return(t) => Fetched' = None
    BY <1>1, <1>3 DEF Return, IdleTask, UrlOf, Looking
<1>6. ASSUME NEW pc \in Storing \cup Deleting, task[t].pc \in Storing \cup Deleting,
             \/ task' = [task EXCEPT ![t].pc = pc]
             \/ \E old : task' = [task EXCEPT ![t] = [@ EXCEPT !.pc = pc, !.old = old]]
      PROVE  Fetched' = Fetched
    <2>1. task'[t].pc = pc /\ task'[t].op = task[t].op /\ task'[t].url = task[t].url
        BY <1>1, <1>6 DEF TaskState
    <2> QED
        BY <1>3, <1>6, <2>1 DEF UrlOf, Looking, Storing, Deleting
<1>7. Replacing(t) \in Storing
    BY DEF Replacing, Storing
<1>8. StepInvOf(t)
    BY DEF FilesInv, StepInv
<1>9. CASE ReadOld(t)
    <2>1. Fetched' = Fetched
        BY <1>6, <1>7, <1>9 DEF ReadOld, Storing, Deleting
    <2> QED
        BY <1>4, <1>9, <2>1, LookStep DEF ReadOld, Stored
<1>10. CASE DeleteInfo(t)
    <2>1. Fetched' = Fetched
        BY <1>6, <1>10 DEF DeleteInfo, Storing, Deleting
    <2>2. Stored' = None
        BY <1>10 DEF DeleteInfo, MissingInfo, Stored
    <2> QED
        BY <1>4, <2>1, <2>2 DEF Contract!StoreNext, Contract!Remove
<1>11. CASE DeleteAsset(t) \/ WriteAsset(t) \/ FillAsset(t) \/ Move(t) \/ WriteInfo(t)
    <2>1. info.kind # "data" /\ info'.kind # "data"
        BY <1>8, <1>11 DEF DeleteAsset, WriteAsset, FillAsset, Move, WriteInfo, StepInvOf,
                           InfoGone
    <2>2. Stored' = Stored
        BY <2>1 DEF Stored
    <2>3. Fetched' \in {Fetched, None}
        BY <1>5, <1>6, <1>7, <1>11
        DEF DeleteAsset, WriteAsset, FillAsset, Move, WriteInfo, Storing, Deleting
    <2> QED
        BY <1>4, <2>2, <2>3, LookStep
<1>12. CASE FillInfo(t)
    <2> DEFINE new == [kind |-> "data", file |-> task[t].file, url |-> UpstreamUrl(t),
                       writers |-> info.writers]
    <2>1. /\ task[t].pc = "info_writing" /\ info.kind = "torn" /\ info.writers = {t}
          /\ asset[task[t].file].kind = "data" /\ asset[task[t].file].url = task[t].url
        BY <1>8, <1>12 DEF FillInfo, StepInvOf, InfoWriting, AssetWritten
    <2>2. task[t].op # "remove" /\ task[t].file \in Files /\ task[t].url \in Urls
        BY <1>1, <2>1 DEF Sound, Storing
    <2>3. Fetched = task[t].url /\ Fetched # None
        BY <1>3, <2>1, <2>2, MediaAssetsAssumption DEF UrlOf, Looking
    <2>4. info' = new /\ asset' = asset
        BY <1>12, <2>1, OnlyFiller DEF FillInfo
    <2>5. Stored = None /\ Stored' = task[t].url
        BY <2>1, <2>2, <2>4 DEF Stored
    <2>6. Fetched' = None
        BY <1>5, <1>12 DEF FillInfo
    <2> QED
        BY <1>4, <2>3, <2>5, <2>6 DEF Contract!StoreNext, Contract!Store
<1>13. CASE WriteFails(t)
    BY <1>4, <1>5, <1>13, LookStep DEF WriteFails, Stored
<1> QED
    BY <1>9, <1>10, <1>11, <1>12, <1>13 DEF FileStep

(* Every step of MediaAssets is one of the contract, or none.              *)
LEMMA StepRefines ==
    ASSUME TypeInv, TypeInv', Serial, FilesInv, [Next]_vars
    PROVE  [Contract!StoreNext]_(Contract!storeVars)
<1>1. CASE unremoved'
    BY <1>1 DEF Contract!StoreNext
<1>2. CASE ~unremoved'
    <2>1. ~unremoved
        BY <1>2 DEF Next, UpstreamChange, SyncState, BeginDownload, CheckInfo, Compare,
                    WasRemoved, Fetch, BeginUpload, FileStep, ReadOld, DeleteInfo, DeleteAsset,
                    WriteAsset, FillAsset, Move, WriteInfo, FillInfo, WriteFails, Crash, vars
    <2>2. ASSUME NEW u \in Urls \cup {None}, UpstreamChange(u)
          PROVE  [Contract!StoreNext]_(Contract!storeVars)
        BY <2>2, FetchedIsIn DEF UpstreamChange, Stored, Contract!StoreNext, Contract!Change
    <2>3. CASE SyncState
        BY <2>3, FetchedIsIn DEF SyncState, Stored, Contract!StoreNext, Contract!Learn
    <2>4. CASE Crash
        <3>1. Fetched' = None
            BY <2>4, FetchedIsIn DEF Crash, FetchedIn, IdleTask
        <3> QED
            BY <2>4, <3>1, LookStep DEF Crash, Stored
    <2>5. CASE UNCHANGED vars
        BY <2>5, FetchedIsIn DEF vars, Stored, Contract!storeVars
    <2> QED
        BY <1>2, <2>1, <2>2, <2>3, <2>4, <2>5, LookRefines, FileRefines DEF Next
<1> QED
    BY <1>1, <1>2

(***************************************************************************)
(* With tasks that do not overlap, the many steps of download_asset,       *)
(* upload and delete_asset_and_info implement the contract of AssetStore:  *)
(* the stored copy is missing or complete, and is replaced by what was     *)
(* looked up, after the old one was removed.                               *)
(***************************************************************************)
THEOREM StoreImplemented == ASSUME Serial PROVE Spec => ImplementsStore
<1>1. Init => Contract!StoreInit
    <2>1. Init => Fetched = None
        BY DEF Init, Fetched, Quiet, IdleTask
    <2>2. Init => Stored = None
        BY DEF Init, Stored, MissingInfo
    <2> QED
        BY <2>1, <2>2 DEF Init, Contract!StoreInit
<1>2. TypeInv /\ TypeInv' /\ SerialInv /\ [Next]_vars =>
        [Contract!StoreNext]_(Contract!storeVars)
    BY StepRefines DEF SerialInv
<1> QED
    BY <1>1, <1>2, TypeInit, TypeStep, SerialInit, SerialStep, PTL
    DEF Spec, ImplementsStore, Contract!StoreSpec
=============================================================================
