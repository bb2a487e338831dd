----------------------------- MODULE AssetStore -----------------------------
(***************************************************************************)
(* What AssetManager (src/src/media.rs) promises about the stored copy of  *)
(* an asset, without its files and the steps of its tasks: the copy is     *)
(* complete or it is not there, it is the data of a URL that somebody      *)
(* looked up before, and it is replaced by removing it first.              *)
(***************************************************************************)
CONSTANTS
    Urls,  \* upstream URLs
    None   \* no URL, no copy

VARIABLES
    upstream,  \* the URL of the asset on the homeserver
    known,     \* the URL in the SDK's copy of the room's state
    fetched,   \* the URL the running task has looked up
    stored,    \* the URL whose data is stored
    broken     \* the copy could not be removed: nothing is promised any more

storeVars == <<upstream, known, fetched, stored, broken>>

StoreInit ==
    /\ upstream \in Urls \cup {None}
    /\ known = upstream
    /\ fetched = None
    /\ stored = None
    /\ broken = FALSE

(* The asset is changed or removed on the homeserver.                      *)
Change ==
    /\ upstream' \in (Urls \cup {None}) \ {upstream}
    /\ UNCHANGED <<known, fetched, stored, broken>>

(* The SDK learns of the change of a room.                                 *)
Learn ==
    /\ known' = upstream
    /\ UNCHANGED <<upstream, fetched, stored, broken>>

(* A task looks up the URL.                                                *)
LookUp ==
    /\ fetched = None
    /\ fetched' \in {upstream, known} \cap Urls
    /\ UNCHANGED <<upstream, known, stored, broken>>

(* A task uploads a new asset.                                             *)
Publish ==
    /\ fetched = None
    /\ upstream' \in Urls \ {upstream}
    /\ fetched' = upstream'
    /\ UNCHANGED <<known, stored, broken>>

(* The task ends without storing anything.                                 *)
Abandon ==
    /\ fetched' = None
    /\ UNCHANGED <<upstream, known, stored, broken>>

(* The stored copy is removed.                                             *)
Remove ==
    /\ stored' = None
    /\ UNCHANGED <<upstream, known, fetched, broken>>

(* The task ends and the new copy is complete.                             *)
Store ==
    /\ stored = None
    /\ fetched # None
    /\ stored' = fetched
    /\ fetched' = None
    /\ UNCHANGED <<upstream, known, broken>>

StoreNext ==
    Change \/ Learn \/ LookUp \/ Publish \/ Abandon \/ Remove \/ Store \/ broken'

StoreSpec == StoreInit /\ [][StoreNext]_storeVars
=============================================================================
