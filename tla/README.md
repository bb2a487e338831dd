# A TLA+ model of GOuda Matrix

GOuda Matrix lets a chat application talk to a Matrix homeserver.  The
application sends requests over a local socket (`gouda_core`, not part of the
repository); `src/src/client.rs` answers them, `src/src/session.rs` keeps a sync
loop running, `src/src/events.rs` turns what the sync loop receives into events
for the application, and several caches keep what has been seen.  Everything runs
as tokio tasks of one process: requests, the sync loop, the event executor, one
save task per session and one task per verification flow interleave at every
`await`.

This directory models the parts of that program whose correctness depends on
order, failure and concurrency, checks them with TLC and proves the most
important invariants with TLAPS.

## The parts of the system

| Part | State it keeps | Operations | Hard behaviour | What makes it correct |
|---|---|---|---|---|
| `client` life cycle | the current `SessionContext`, `MatrixClient::inner` | `initialize`, `restore_session`, logins, `reset_session`, `on_response` | a reset replaces the context while tasks of the old one run | a session the application was told about is on disk; removed data stays removed |
| `session` | auth file, `network_was_unavailable`, the loop | `sync`, `sync_once`, `process_sync_result`, refresh | outages, token refresh, crash between refresh and save | the loop recovers or stops; the stored token is usable |
| `proto_cache` | sync token, user status, users; two encrypted files | read, set, cache, `save` every interval | two files, torn writes, crashes, two writers of one directory | a restart never loses a change |
| `user` | none; uses the proto cache | `get_and_sync_user` | cached answer, background fetch and sync event overtake each other | the application ends with the newest data |
| `events` | bounded channel, last change per user, queued changes per room | one handler and one executor method per event type | back-pressure, duplicates, rooms not known yet, snapshots older than the changes after them | once nothing is on its way the application knows the newest state of every room; nobody waits for ever |
| `verification`, `sas` | list of managers, one task and queue per flow | start, select, confirm, abort; two nested loops | SDK state, user actions and cleanup race | one end event, the right one; every aborted flow ends |
| `memory_cache` | per room: messages with reactions, edits, polls; undecrypted events; read markers | process an event, redact, retry decryption | events arrive before what they refer to | the assembled message does not depend on the order |
| `media` | an info file and an asset file per asset | download, upload | concurrent downloads, partial failure | the info file describes the asset file |
| `rooms` | none; reads the SDK's room | assemble a room, change its join rule, its conference | a snapshot is sent after changes that are newer | an older snapshot is the only thing that undoes them |
| `notifications` | the settings in the memory cache | load, compare, announce | many calls while the rules change; a lagging receiver | the announced settings are the rules |
| `polls` | none | assemble, edit, add answers | three ways to the application, each delivering later than it loads; events applied twice | the newest response of every user counts |
| `messages`, `bridge`, `utils`, `error`, `crypto` | none or little | conversions and calls of the SDK | - | conversions are right |

The components interact in three ways.  The client creates a `SessionContext`
that owns one object of each kind.  The sync loop calls event handlers, which
queue actions for the executor.  Whatever is sent to the application also passes
`on_response`, which feeds the event executor and the proto cache: the caches are
updated by the program's own answers.

## Modules

**`ProtoCache`** models `proto_cache.rs` and the directory it saves in.  `cache`
is one record per `ProtoCache` object (its `Info` and its users), `saver` the save
task of that object, `infoFile` and `usersFile` the two files.  An object is
created by `Start` (initialize) or `Reset` (`reset_session`, which removes the
files first), reads the files in two steps, and from then on saves for ever.  A
write is two steps, because `tokio::fs::write` truncates and then fills; each can
fail, and `Crash` can come at any point.  A file that was truncated and not written since
is `empty`; one whose write failed in the middle, or into which two objects wrote at the
same time, may be `torn`.  Neither decrypts, and both are treated like a missing one.
`owner`, `save`, `writer` and the two `dir` fields are history, to say who wrote what and
when.
The module is a component: the rest of the program calls it in any order.

**`UserSync`** extends `ProtoCache` with everything a user's data passes on its way:
the homeserver as a log of changes, the sync loop (`sync_once` and its token), the
bounded channel of the event executor, the responses on their way to the
application, `on_response`, and the fetches of `user.rs`.  A sync token is a
position of the log and a version is the position of the change it stems from, so
that "older" and "newer" can be compared.  The duplicate suppression of the
executor has no effect here, because every change makes a new version.

**`SyncSession`** models the life of a session: `initialize`, `restore_session`, the
two logins, `reset_session`, `SyncProcess` with its loop, the refresh of the access
token, and the auth file.  Each `SessionContext` is a record with the place its task
has reached; the homeserver keeps one device session per login, whose access token
may expire (soft logout) or be revoked.  A refresh token is accepted once.  `dir` counts
the removals of the session directory and `dirExists` says whether it is there: a removal
may fail half-way, and only a new context creates it again, so a save in between fails.
Writers of the auth file that overlap (`mixed`) may leave the bytes of either or of both;
`overwritten` is history: the logins whose stored session another login's write replaced.

**`Verification`** models the handlers of `client.rs`, the task of a flow in
`verification.rs` and the SAS loop in `sas.rs`.  The SDK's observables are modelled as
`state` and `fresh`: a reader learns the newest state if it changed since the
subscription or the last read.  `late` in `Cleaned` is the race between
`cleanup_verifications`, which unlocks the list, and the handler, which locks it again.

**`MediaAssets`** models one asset of `media.rs`: where its URL comes from (the SDK's
copy of the room state for a room avatar, a request for a user's, the message for an
attachment), the info file, the asset file under one of several names, and the tasks
that download, replace, upload or remove it.  A task is a record with the place it has
reached in `AssetManager`; each `await` on a file is a step, and each write is two.  The
`writers` of a file are the tasks that have it open, so that a file that is renamed or
deleted under a writer is not written by it any more.  `Serial` says whether tasks
overlap.

**`RoomCache`** models the messages of one room.  `log` is the timeline on the
homeserver, `cache` the `CachedRoom` (the relations stashed for each message, the map
of reactions and the encrypted events), `fetch` the tasks that load a page or one
message together with the channel to their request, `retry` the tasks that decrypt
again, and `app` what the application shows after everything it was sent.  Handlers of
the sync loop, the removal of a reaction and the arrival of keys interleave with all of
that.  A message is abstracted to the events it is put together from: which edit its
content is from, which reactions and which votes it has.  `asked` is history.

**`AssetStore`** is what `MediaAssets` promises when tasks do not overlap: a store whose
copy is complete or not there, is the data of a URL somebody has looked up, and is removed
before it is replaced.  `ImplementsStore` maps the two files and the task to it: `Stored` is
what `read_info` and the file it names give, `Fetched` the URL the running task will store.
After a failed removal of an info file nothing is promised (`broken`).

**`RoomEvents`** models what the application is told about one room.  The homeserver
(`server`, `pending`) records changes of the room's fields, messages, typing notices and
receipts, reads on another device and moves of our own membership.  `Sync` applies the next
one to the SDK's `room`, and runs the `handlers` and the two `stream`s, which queue actions in
the bounded `channel` of the executor.  Each executor method is an action; `queued` is
`room_changes` of the room and `cache` its `CachedRoom` as far as read markers and the
mark-as-read time go.  Requests run beside that in the steps between which they wait, and
`out` is the way to the application: `Deliver` is also `on_response`, which queues
`RoomDiscovered` and waits when the channel is full.  The value of a field is the number of
its changes, and zero is that of a room without an avatar.  `app.fields.val` is what the
application shows: the last message about a field overwrites it, and a change of a room it
does not show is ignored.  `app.fields.best` and `app.fields.stale` are history: the newest
value any message had, and the fields of which a snapshot or a reply brought an older one
after it.  `hist` records the other exceptions named in the properties.

**`Notifications`** models `notifications.rs`: the push rules of the SDK, the announcements
of changes on a broadcast channel, and the manager that loads the rules one call after the
other, compares them with the cached settings and announces the differences.  `told` is the
initial settings with everything announced since applied.

**`Polls`** models the content of one poll: `polls.rs` as operators, and its ways to the
application.  The executor assembles the poll from what the SDK knows (`AssemblePoll`), then
applies the event, possibly for the second time or on top of later ones, and sends the change
(`SendPollChange`).  A fetch, of a page or of the single message, goes back from any event and
caches one relation after the other (`CacheRelation`; the executor caches none), builds the
poll from what this and all earlier fetches have cached when it comes to the start
(`BuildPoll`: the last edit, all responses, the end) and delivers it later.  `answer_poll`
replies with the poll assembled after its response was sent.  A built poll is represented by the
events it was built from (`known`), which determine its content.

**`UserSyncProofs`** (about `ProtoCache` and `UserSync`), **`SyncSessionProofs`**,
**`VerificationProofs`**, **`MediaAssetsProofs`**, **`RoomCacheProofs`**,
**`RoomEventsProofs`**, **`RoomListProofs`** (both about `RoomEvents`) and
**`NotificationsAndPollsProofs`** hold the theorems.  The `MC...`
modules instantiate the specifications for TLC; `MCRoomCache` adds the events that may be
sent, and `MCRoomEvents` puts two specifications that share no state into one run.

Operators whose comment begins with "Fault:" are variants of the definition after
them as a plausible programming error would make it.  No specification uses them.
They show that each property can fail: replacing the definition by the fault
makes TLC find a violation.

## Runs

| Run | Instance | Result |
|---|---|---|
| `proto_cache_order` | one user, two objects, three saves | `TypeOK` and `InfoNotAheadOfUsers` hold |
| `proto_cache_removed` | the same | `RemovedDataStaysRemoved` is violated |
| `user_sync` | one user, two changes, a restart, one save, channel of 1, fairness | `SyncTypeOK`, `TokenOnlyAfterHandlers` and `EventuallyFresh` hold |
| `user_sync_note` | one process, one save | `DataNotBehindToken` is violated |
| `verification` | one flow, four actions, streams may close, fairness | `TypeOK`, `EndIsLast`, `EndMatchesOutcome`, `RunningFlowIsControlled`, `EndIsAnnounced` and `AbortedFlowEnds` hold |
| `sync_session` | three contexts and a refresh, or two with two refreshes, two outages and a disk error; fairness | `TypeOK`, `LoggedInIsPersisted`, `SavedTokenIsCurrent`, `OutageEnds` and `RevokedLoopStops` hold |
| `sync_session_retry` | two contexts, one outage | `NetworkErrorIsRetried` is violated |
| `media` | one task after the other, two URLs and file names, two failures, fairness | `TypeOK`, `InfoDescribesAsset`, `NoOrphans`, `EventuallyCurrent` and `ImplementsStore` hold |
| `media_overlap` | two tasks at the same time, one change, no failure, fairness | `EventuallyCurrent` is violated |
| `room_cache` | a message with two edits and a reaction, or one and the redaction of the reaction, or an encrypted poll, a vote and an encrypted poll of an unknown kind; two fetches, fairness | `TypeOK`, `MappingMatches`, `Assembled`, `MessageResolved` and `FetchEnds` hold |
| `room_events` | one room and another member, channel and streams of 2, a queue of 1, up to three changes and two requests; the notification settings of one room with two changes; fairness | `TypeOK`, `FieldsShown`, `UnreadShown`, `JoinedIsListed`, `MarkersTold`, `Drains` and `SettingsTold` hold |
| `polls` | a poll with three events of two voters, the executor and one request at a time | `VotesCounted` holds |

Deadlock is not checked where the bounds on objects, saves, changes, sessions, events
and fetches make the model stop although the program would go on; the verification and
media runs check it (a handler that only cleans up, or a download, is always possible
there, so the check says little).

### What the violations show

* The note in `ProtoCacheInner::save` promises that stored data is never behind the
  stored token.  The order of the two writes gives that for failures of `save` itself
  (`InfoNotAheadOfUsers`), but the token is set in memory before the executor and
  `on_response` have applied the changes, so a save at that moment stores data that is
  behind the token (`user_sync_note`).  A later request for the user repairs it
  (`EventuallyFresh`), because `get_and_sync_user` always fetches in the background.
* The save task of a cache is never stopped.  After `reset_session` it writes the
  removed session's users and token into the new session's directory
  (`proto_cache_removed`).
* A network error during `refresh_access_token` ends the sync loop, unlike a network
  error during a sync (`sync_session_retry`).
* Nothing orders two tasks of one asset.  A download of the old avatar that writes its
  data between the asset file and the info file of the new one leaves an info file with
  the current URL beside old data, which then counts as up-to-date (`media_overlap`).
  One task at a time has no such problem (`media`).

### What the models show besides

Behaviours no property forbids, met while the properties were stated:

* A pending single sign-on of a replaced context saves its session into the auth file
  when the user completes it, and so does the loop of a replaced context after a token
  refresh.  The session the application was told of is gone from the disk then
  (`overwritten` in `LoggedInIsPersisted`).
* The save after a token refresh truncates the auth file: a crash or a failure before the
  write has ended leaves a file that does not decrypt, although the session the application
  was told of was there before (the last clause of `LoggedInIsPersisted`).
* After a `remove_session_data` that removed the session directory and failed later, the old
  context goes on, and a refreshed session cannot be saved, because nothing creates the
  directory again.
* A confirmation whose requests cannot be sent ends the flow with an error although the SDK
  has already published the SAS as confirmed or done: the device may be verified and the
  application told of an error (`unsent` in `EndMatchesOutcome`).  The same holds for an end
  the application's abort has caused.
* An event that cannot be decrypted is cached before its placeholder is sent.  A retry in
  between overtakes the placeholder, which then stays.
* A fetch that decrypts a reaction or an edit first takes it away from the retry, so its
  placeholder is never removed.  For messages this is harmless, as the fetch sends the
  message (`MessageResolved`).
* Relations of a single message that cannot be decrypted become encrypted events the
  application was never told of.
* The change that announces a decrypted message has no reactions, although those of its
  chunk were dropped because a message includes them.
* A poll of an unknown kind ends the page it is in with an error.
* A poll that the executor assembles after an edit has lost the votes before the edit; a
  fetch of the same poll counts them all (`VotesCounted` says which is which).  A fetch or an
  answer that was loaded before a response and delivered after the executor's change takes
  that response back, until the next event or fetch; a fetch of an older page likewise, if no
  page has cached the response yet, because the executor does not cache it (`UpToDate` in
  `VotesCounted`; without it the property is violated).  An edit of an
  unknown kind keeps the executor from assembling the poll ever again.  Responses after the
  end of a poll count.  An old response that is applied on top of a newer one of the same
  user wins until the executor comes to the newer one.
* A message of a page has every relation from where the page begins (`Assembled`), but
  not one that only the sync loop has seen: an edit from there is not cached, unlike a
  reaction, so the older content replaces the edited one.
* An unread count that changes within three seconds of `mark_as_read` is not sent later, and
  a count equal to the last one before `mark_as_read` is taken for a duplicate, so the
  application may stay at zero (`zeroed` in `UnreadShown`).
* A queue of room changes that is replayed, or overruns, between the assembly and the
  delivery of a snapshot cannot repair the count in that snapshot (`overlap`).  Nor can one
  that overruns after the delivery and before the replay the delivery asks for: the typing
  notices and receipts that wait in the channel between the two may push the count out of the
  queue (with real capacities of 100 and 15; a channel of 2 is enough in the model).  This
  case was met in the proof of `UnreadShown`.
* Joining a room that has a `CachedRoom`, and an invitation accepted on another device, are
  not announced; a snapshot from before a leave may arrive after it (`untold`, `late` in
  `JoinedIsListed`).
* Events skipped as historical after an outage are never told (`skipped` in `FieldsShown`).
* An avatar that cannot be loaded is told as no avatar at all (also `skipped`).
* A snapshot of a room, or the reply to a request that changed it, can be made before a
  change and delivered after the executor has told that change.  The older field then replaces
  the newer one, and nothing repairs it until the field's next change: `RoomDiscovered` replays
  unread counts, typing notices and receipts only (`stale` in `FieldsShown`).
* Read markers cached by `get_message`, by a retried decryption or by a page that fails are
  never sent, because the cache then counts them as known (`silent` in `MarkersTold`).
* A stream that lags ends its task for good: no more receipts, typing notices and counts, or
  no more notification settings.
* A change of the push rules between the initial load and the subscription is noticed with
  the next change (`missed` in `SettingsTold`).
* `get_room_settings` gives the effective notification mode of a room, the events the
  user-defined one.

### Bounds

Two cache objects are enough for one to replace the other, with a restart or a reset in
between; three saves let one object save twice around a save of the other. A channel of
capacity 1 is full after the first change, so two changes reach every waiting state.
`initialize` takes the first context, so three are two logins with the loop or the
sign-on of the first still running (two writers of one auth file), or a login with a
restart that restores it; the outages, the disk errors and the loop of one login need
two. A refresh makes the stored token differ from the current one, and two outages let
one begin after the first has ended. Four actions on a flow allow every pair of wrong
and right actions followed by an abort; each action leaves the queue, so further ones
only repeat the same states. One flow already meets the cleanup of its own handlers; the
invariants that could break between flows are proved for any number of them. Two URLs
and two file names make a replacement with and without a change of the file's name, and
tasks that do not overlap can be one task again and again. A chunk of two events splits
every timeline of the runs over several requests, a channel of one message is full at
once, and a limit of one message ends a fetch in the middle of a chunk. A second fetch
uses what the first has cached; relations meet each other only through their message, so
one message with two edits, or one with its reaction and the redaction, have the
interesting orders; two messages meet only in the limit, for which the encrypted poll
and the one of an unknown kind stand.

In `room_events` a behaviour has one of the sizes of `MCRoomEvents`: fields of the room
that are looked at together, changes of the homeserver and requests. The fields fall
into classes (skipped when historical or not; sent from the event or loaded; loaded with
or without failure), and each class is in one of the sizes; different fields only meet
in `change_room` and in snapshots, for which two fields are enough. Three changes of a
joined room without requests, two around one request, and two requests around one change
reach the duplicates, the full queue (`MaxQueued` is 1, so every second change drops
one), a full channel, a change between the delivery of a snapshot and its replay (a
channel of 2) and a lagging stream (more than `StreamCapacity` updates). Two changes
beside a request are either of one field of a joined room, so that an older reply
overwrites a newer value and the next change repairs it, or of everything but fields.
`MaxPending` bounds how far the homeserver is ahead of the sync loop; what it sends
later it could as well record later. A poll with three events has a response before and
one after an edit, or two of one user around another event; one request at a time, as
often as the application likes, finds relations that earlier ones have cached and
delivers what the executor has overtaken. The proof covers any number of requests.

### Fairness

Tokio runs every task that can run, so the steps of tasks are weakly fair.  In
`SyncSession`, `NetworkUp` is fair (outages end), a request in flight is answered, but
nobody need log in, no sync need fail and no crash need happen.  In `Verification` only
the tasks are fair: neither the user nor the other device has to do anything.  In
`UserSync` the application keeps asking for each user, and does so when nothing is on
its way (`PatientNext`); the process may be restarted while `MaxCaches` allows another
one; of the fetches tried for ever infinitely many succeed (strong
fairness).  Without patience the answer from the cache can overwrite a newer change
again and again.  In `MediaAssets` the asset is asked for again and again, and of the
lookups and transfers tried for ever infinitely many succeed; nobody need upload.  In
`RoomCache` fetches and requests run, and the retry loop, which wakes up every 15
seconds, tries all encrypted events; no key has to come and nobody has to fetch.  In
`RoomEvents` the sync loop, the handlers, the tasks of the streams, the executor, the
delivery to the application and the requests that were begun go on; the homeserver, the
application and the clock need not do anything.

## Proofs

Checked by TLAPS for every value of the constants:

* `UserSyncProofs`, about `ProtoCache`: `TypeCorrect` (`[]TypeOK`) and `SaveOrderCorrect`
  (`[]InfoNotAheadOfUsers`), from `ProtoCacheAssumption`.  `InfoNotAheadOfUsers` is not
  inductive: it says nothing of a save that is under way.  `OrderInv` adds, for
  each object: while it writes the users no readable users file is its own; past that its
  users file is from the current save; its info file is not from a later save; and an
  object whose users file is on disk has users in memory (or is gone), so that it never
  again skips the first write.  `CountInv` bounds the counters so that the history fields
  stay in their types.
* `VerificationProofs`: `TypeCorrect`, `EndCorrect` (`[]EndIsLast`), `ControlCorrect`
  (`[]RunningFlowIsControlled`), `OutcomeCorrect` (`[]EndMatchesOutcome`) and
  `AnnouncedCorrect` (the action property `EndIsAnnounced`), from `VerificationAssumption`.
  `EndIsLast` is inductive together with the types, by the observation that an event is only
  emitted by a task that is not done, and that the end event is emitted by the step that
  makes it done.  The control invariant rests on two lemmas about queues: appending keeps a
  queued `Cancel`, and taking the head keeps it or consumes it, which ends the task.
  `OutcomeInv` adds what the place of a task says of the SDK's request and SAS (a SAS gets
  further than `Started` only once its loop has been entered), that only an abort by the
  application queues a `Cancel`, and that only a confirmation moves a SAS to `Confirmed` and
  on to `Done`: after a failure or an error that neither an abort nor an unsent
  confirmation has caused, the SAS is not confirmed and its
  task, the only one that could confirm it, has ended.
* `UserSyncProofs`, about `UserSync`: `SyncTypeCorrect`, `TokensFollowHandlers`
  (`[]TokenOnlyAfterHandlers`) and `PatientCorrect`, the same for the specification whose
  liveness is checked.  `PipeInv` types the pipeline together with the cache below it (the
  lemmas about `ProtoCache` are used for every step of that module), `StoredInv` says of
  every token in an object, in a save under way or in the info file that some process was
  handed all changes before it, and `LoopInv` says it of what a response in progress has gone
  through.
* `SyncSessionProofs`: `TypeCorrect`, `PersistedBeforeTold` (`[]LoggedInIsPersisted`) and
  `StoredTokenCurrent` (`[]SavedTokenIsCurrent`).  `SessionInv`
  adds that contexts not created are untouched (`UnusedInv`), that `initialize` runs alone
  (`ProcessInv`, `KindInv`), that no context writes to an older directory than its own and that
  a directory that is not there has no file and no writer (`DirInv`), that tokens are those of
  logins that have happened and no two contexts use one device session (`LoginInv`), that
  nobody else has the token of a login before it is saved (`FreshInv`), that the session of a
  context is where `LoggedInIsPersisted` says from the end of its first save on, and that a
  file somebody has open is his or counts as overwritten (`SavedInv`), and how the generations
  of a refresh token in memory and on disk relate while it is refreshed and saved (`GenInv`).
* `MediaAssetsProofs`: `TypeCorrect`, `InfoCorrect` (`[]InfoDescribesAsset`),
  `NothingOrphaned` (`[]NoOrphans`) and `StoreImplemented` (`Spec => ImplementsStore` if
  `Serial`).  `TypeInv` adds for each place of a task which of its fields are set.
  `SerialInv` says that at most one task is not idle (`Single`), what the files contain at
  each place of that task (`StepInv`), that a readable info file names a complete asset
  (`InfoInv`) and that each file is named by the info file or by the task (`OwnerInv`).  The
  refinement maps as described for `AssetStore`: `DeleteInfo` is its `Remove`, `FillInfo` its
  `Store`, the lookups are `LookUp` and the upload is `Publish`; an end without success
  and a crash are `Abandon`, and the steps on the asset file change nothing, because no info
  file is readable while they are made.
* `RoomCacheProofs`: `TypeCorrect` (with the bounds on pages and channels), `MappingCorrect`
  (`[]MappingMatches`) and `AssembledCorrect` (`[]Assembled`).  `WalkInv` says that a
  page has cached all relations between where it is and where it began, and a single fetch those
  of its message that it has not still to process; `PipeInv` says that what is in the channel
  was complete when it was put there.  The relations of a message are a
  recursive function over the timeline; that it exists and what it collects is proved by
  induction, taking the least position at which it fails (`LeastNatural`, from the
  well-foundedness of the naturals).
* `NotificationsAndPollsProofs`: `SettingsToldCorrect` (`[]SettingsTold`) and
  `VotesCountedCorrect` (`[]VotesCounted`).  `LoadInv` says that a
  load that no change has disturbed has found the rules as they are, as far as it has come;
  `ToldInv` that the events amount to what is cached, and that this is the rules when the
  manager waits and no announcement is left.  For polls, `PollInv` says what a fetch has cached
  so far (`CallInv`: all events it has come past), so that a poll knows every event from where
  its fetch began, and that once the executor has taken all events, content that knows them all
  is the one assembled from them or, if fetched, the one built from them (`ShownInv`).
  Assembling is a recursive function; `Summary` is its closed form (the
  last edit, the newest response of each user that is not from before it, whether there is
  an end), and `ApplyAllSummary` proves by least counterexample that the recursion computes it.
  That the executor may apply an event the assembled poll already has is harmless because
  applying it again changes nothing (`AppliedTwice`).
* `RoomEventsProofs`: `TypeCorrect`, `FieldsShownCorrect` (`[]FieldsShown`) and
  `MarkersToldCorrect` (`[]MarkersTold`), for any fields, members, capacities and numbers of
  changes and requests.
  `NewestInv` is `ServerInv` (the events of a field that are still to come lead from the SDK's
  value to the server's), `BelowInv` (no message or reply is newer than the server's value, no
  action of the executor newer than the SDK's) and `FieldInv` (the newest value has been told,
  is excepted, or is somewhere on its way).  `ShownInv` is about what is shown: `Ordered`
  says that the last word of the executor about a field, in the channel or on its way to the
  application, is the SDK's value, and `Shown` that a room that is listed shows the newest value
  told, unless that is excepted or another word about the field is still to come.
  `MarkersInv` is the like for read markers.  Its heart is
  that a newer receipt is never suppressed as a change already queued, because the markers in
  `queued` are at most the cached ones.
* `RoomListProofs`: `JoinedIsListedCorrect` (`[]JoinedIsListed`) and `UnreadShownCorrect`
  (`[]UnreadShown`), as generally.  `ListedInv` is about our own membership.  A request
  moves the SDK's copy of the room at once, ahead of older events that then move it back, so
  the proof needs the order of the moves that are still to be received (`ChainInv`: when the
  copy is joined and will not stay so, the event of a join or of leaving is still to come).
  `AgreeInv` says that nothing on its way is about a later move than the last, and that what
  is about the last agrees with the room; `SaidInv` that the last move has been told, stays
  untold, or is on its way.  The assumption that `None` is no snapshot is for this proof.
  `CountInv` is about the unread count, which has two masters: what the executor sends and
  what snapshots bring.  `QueuedInv` says that the newest count in `queued`, whatever it is,
  is the one that will be shown: the last message on its way that bears a count has it, or is
  a snapshot that a replay of the queue will follow.  So suppressing a count equal to it loses
  nothing.  `CurrentInv` says that the count that will be shown, the newest one in `queued` and
  those of the replies still to be sent are the SDK's count, unless the executor has still to
  look at it (`Due`: an update on its way, or a join that brings one, because a room is
  counted only when joined).  `DropsInv` says that no snapshot was taken after more replays
  than there have been, and `StreamInv` that only a stream that lagged is closed.

Each rests on the named assumption on the constants of its module and on nothing else.

Every invariant and action property of the passing runs is proved.  Only model-checked is
what needs fairness, which is outside this proof system: `EventuallyFresh`,
`AbortedFlowEnds`, `OutageEnds`, `RevokedLoopStops`, `EventuallyCurrent`, `MessageResolved`,
`FetchEnds` and `Drains`.

## Assumptions and what is left out

* The application sends one `initialize` or login at a time and waits for the answer;
  a single sign-on is answered with its URL and completes at any later time.
* Whether the homeserver issues a refresh token at all is its own decision; without
  one a refresh fails, which `RefreshFails` covers.
* The removal of a directory is one step; one that fails half-way is modelled
  for the auth file and its directory (`ResetFails`), not for the two cache files.
* The encryption of files is modelled by its effect: what was completely written can be
  read, anything else cannot.
* Formatting, logging, emoji lists, method lists and the content of users are data
  without structure.
* `MediaAssets` follows one asset; different assets share no file.
* The timestamps of edits are taken to follow the timeline.  Threads, read markers and
  messages whose content cannot be generated are left out of `RoomCache`.
* `gouda_core` delivers what it is given in order and without a limit, and calls
  `on_response` for every reply and event.  A reply that brings a room counts as a
  `RoomCreatedEvent`.  The application ignores changes of rooms it does not show.
* A snapshot of a room is taken at its first read; what `assemble_chat_room` reads later may
  be newer, which only makes the snapshot better.  Its read markers come from the SDK.
* Times in `RoomEvents` are positions in the homeserver's log; that an event is historical,
  that the three seconds are over and that a message is newer than the mark-as-read time
  are free choices.
* A snapshot has all fields; that `assemble_chat_room` cannot load an avatar or a name is not
  modelled.
* A user has one reaction with the same emoji on a message, as homeservers enforce;
  `remove_reaction_by_emoji` would remove several.
* The removal of a conference is a redaction, which no handler of the room's state sees.
* In `Polls` the events have distinct times in the order of the sync, and the SDK knows at
  least what the executor has taken before when the executor or an answer assembles the poll.
* The user's own status, the capabilities and the verification status that are sent
  around the initial sync are left out of `UserSync`.
* Not modelled: knocking, the search for users and public rooms, sending typing notices and
  the setting of notification rules, which are single calls of the SDK.  Sending, editing and
  removing messages appear as the homeserver's timeline.  `bridge`, `error` and `messages`
  are stateless conversions; `main` is start-up code.

## Plan

1. Done: `ProtoCache`, `UserSync`, `SyncSession`, `Verification`, `MediaAssets` with
   `AssetStore`, `RoomCache`, `RoomEvents`, `Notifications`, `Polls`, and the proofs above.
2. An abstract specification of a session store (an atomic file per session) and the proof
   that `SyncSession` implements it where it does.
