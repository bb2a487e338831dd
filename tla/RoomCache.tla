----------------------------- MODULE RoomCache ------------------------------
(***************************************************************************)
(* The messages of one room: how they are fetched page by page, put        *)
(* together from the events that relate to them, decrypted again later and *)
(* kept up to date (CachedRoom and the fetchers of                         *)
(* src/src/memory_cache.rs, the handlers of message events in              *)
(* src/src/events.rs, the retry loop of src/src/session.rs and the         *)
(* requests of src/src/client.rs).                                         *)
(*                                                                         *)
(* The homeserver keeps a timeline.  A fetch walks it backwards, so that   *)
(* what relates to a message is met before the message; new events also    *)
(* come from the sync loop.  Events whose key is missing are shown as      *)
(* encrypted and tried again.                                              *)
(***************************************************************************)
EXTENDS Naturals, Sequences

CONSTANTS
    Events,       \* the events that may be sent
    Type,         \* [Events -> what the event is]
    Target,       \* [Events -> the event it relates to, or None]
    Encrypted,    \* the events with encrypted content
    None,         \* no event
    Fetchers,     \* the tasks of requests for messages
    Retriers,     \* the tasks that decrypt again
    Limit,        \* how many messages a fetch is asked for
    ChunkSize,    \* how many events one request to the homeserver returns
    Capacity,     \* capacity of the channel between a fetcher and its request
    MaxFetches    \* bound: fetches

Types ==
    {"message", "poll", "odd_poll", "edit", "poll_edit", "reaction", "response", "end",
     "redaction"}

Relations == {"edit", "poll_edit", "reaction", "response", "end", "redaction"}

ASSUME RoomCacheAssumption ==
    /\ None \notin Events
    /\ Type \in [Events -> Types]
    /\ Target \in [Events -> Events \cup {None}]
    /\ \A e \in Events : Target[e] \in Events <=> Type[e] \in Relations
    /\ Encrypted \subseteq {e \in Events : Type[e] # "redaction"}
    /\ Limit \in Nat \ {0}
    /\ ChunkSize \in Nat \ {0}
    /\ Capacity \in Nat \ {0}
    /\ MaxFetches \in Nat

VARIABLES
    log,        \* the timeline on the homeserver
    redacted,   \* the events that were redacted there
    keys,       \* the encrypted events whose key has been received
    synced,     \* how many events of the timeline the executor has handled
    cache,      \* the CachedRoom
    fetch,      \* [Fetchers -> MessagesFetcher or MessageFetcher]
    retry,      \* [Retriers -> events still to be tried]
    removing,   \* reactions removed from the cache and being redacted
    fetches,    \* how many fetches have begun
    asked,      \* history: reactions the application has asked to remove
    app         \* [Events -> what the application shows for the event]

server == <<log, redacted, keys>>
vars == <<log, redacted, keys, synced, cache, fetch, retry, removing, fetches,
          asked, app>>

(***************************************************************************)
(* related[m] are the events of CachedMessage's maps; the type of an event *)
(* says in which map it is.  mapped are the keys of                        *)
(* reaction_id_to_message.                                                 *)
(***************************************************************************)
CachedRoom ==
    [related : [Events -> SUBSET Events], mapped : SUBSET Events,
     encrypted : SUBSET Events]

(* A message as the application knows it; edit is the event its content is *)
(* from, None when it is the message's own.                                *)
Message ==
    [kind : {"absent", "encrypted", "message", "removed"},
     edit : Events \cup {None}, reactions : SUBSET Events, votes : SUBSET Events]

Absent == [kind |-> "absent", edit |-> None, reactions |-> {}, votes |-> {}]

(* A timeline event as it was loaded.                                      *)
Loaded == [id : Events, view : {"clear", "utd", "redacted"}]

Fetch ==
    [pc : {"idle", "load", "process", "done", "failed"},
     op : {"page", "single"},
     start : Nat,                \* where in the timeline the fetch began
     pos : Nat,                  \* the next event to load
     chunk : Seq(Loaded),
     end : BOOLEAN,              \* the homeserver has no more events
     got : Nat,                  \* retrieved_messages
     pipe : Seq([id : Events, message : Message])]

IdleFetch ==
    [pc |-> "idle", op |-> "page", start |-> 0, pos |-> 0, chunk |-> <<>>,
     end |-> FALSE, got |-> 0, pipe |-> <<>>]

TypeOK ==
    /\ log \in Seq(Events)
    /\ redacted \subseteq Events
    /\ keys \subseteq Encrypted
    /\ synced \in 0 .. Len(log)
    /\ cache \in CachedRoom
    /\ \A f \in Fetchers :
         /\ fetch[f] \in Fetch
         /\ fetch[f].got <= Limit
         /\ Len(fetch[f].pipe) <= Capacity + 1
    /\ retry \in [Retriers -> SUBSET Events]
    /\ removing \subseteq Events
    /\ fetches \in 0 .. MaxFetches
    /\ asked \subseteq Events
    /\ app \in [Events -> Message]

InitCache ==
    [related |-> [e \in Events |-> {}], mapped |-> {}, encrypted |-> {}]

Init ==
    /\ log = <<>>
    /\ redacted = {}
    /\ keys = {}
    /\ synced = 0
    /\ cache = InitCache
    /\ fetch = [f \in Fetchers |-> IdleFetch]
    /\ retry = [t \in Retriers |-> {}]
    /\ removing = {}
    /\ fetches = 0
    /\ asked = {}
    /\ app = [e \in Events |-> Absent]

-----------------------------------------------------------------------------
(* The homeserver.                                                         *)

Sent == {log[i] : i \in DOMAIN log}

Pos(e) == CHOOSE i \in DOMAIN log : log[i] = e

SendEvent(e) ==
    /\ e \notin Sent
    /\ Target[e] # None => Target[e] \in Sent \ redacted
    /\ log' = Append(log, e)
    /\ redacted' = IF Type[e] = "redaction" THEN redacted \cup {Target[e]} ELSE redacted
    /\ UNCHANGED <<keys, synced, cache, fetch, retry, removing, fetches, asked, app>>

(* The key of an event's session arrives, from its sender or a backup.     *)
KeyArrives(e) ==
    /\ e \in (Encrypted \cap Sent) \ keys
    /\ keys' = keys \cup {e}
    /\ UNCHANGED <<log, redacted, synced, cache, fetch, retry, removing, fetches,
                   asked, app>>

(* An event as the SDK loads it at the moment.                             *)
View(e) ==
    CASE e \in redacted -> "redacted"
      [] e \notin redacted /\ e \in Encrypted \ keys -> "utd"
      [] OTHER -> "clear"

-----------------------------------------------------------------------------
(* CachedRoom.                                                             *)

Insert(c, e) ==
    [c EXCEPT !.related[Target[e]] = @ \cup {e},
              !.mapped = IF Type[e] = "reaction" THEN @ \cup {e} ELSE @]

(* Fault: the mapping of the reaction is not cleaned up.                   *)
Remove_unmapped(c, e) == [c EXCEPT !.related[Target[e]] = @ \ {e}]

(* remove_reaction_by_id and remove_reaction_by_emoji.                     *)
Remove(c, e) ==
    [c EXCEPT !.related[Target[e]] = @ \ {e}, !.mapped = @ \ {e}]

Removable(c, e) ==
    /\ Type[e] = "reaction"
    /\ e \in c.mapped
    /\ e \in c.related[Target[e]]

(* process_timeline_event: what it leaves in the cache.                    *)
Process(c, e, view) ==
    CASE view = "utd" -> [c EXCEPT !.encrypted = @ \cup {e}]
      [] view = "redacted" -> c
      [] view = "clear" ->
           LET d == [c EXCEPT !.encrypted = @ \ {e}]
           IN  IF Type[e] \in Relations THEN Insert(d, e) ELSE d

OfType(S, types) == {e \in S : Type[e] \in types}

(* The newest of some edits, which is the one that counts.  Their          *)
(* timestamps are taken to follow the timeline.                            *)
Latest(S) ==
    IF S = {} THEN None ELSE CHOOSE e \in S : \A d \in S : Pos(d) <= Pos(e)

(* build_from_original.                                                    *)
Build(c, m) ==
    [kind |-> "message",
     edit |-> Latest(OfType(c.related[m],
                            IF Type[m] = "poll" THEN {"poll_edit"} ELSE {"edit"})),
     reactions |-> OfType(c.related[m], {"reaction"}),
     votes |-> IF Type[m] = "poll" THEN OfType(c.related[m], {"response", "end"}) ELSE {}]

(* process_timeline_event: the message it returns, Absent when it is none. *)
Result(c, e, view) ==
    CASE view = "utd" -> [Absent EXCEPT !.kind = "encrypted"]
      [] view = "redacted" /\ (Type[e] \in {"message", "edit"} \/ e \in Encrypted) ->
           [Absent EXCEPT !.kind = "removed"]
      [] view = "clear" /\ Type[e] \in {"message", "poll"} -> Build(c, e)
      [] OTHER -> Absent

(* A poll of a kind that is not known makes process_timeline_event fail.   *)
Fails(e, view) == view = "clear" /\ Type[e] = "odd_poll"

-----------------------------------------------------------------------------
(* What the application does with what it is sent.  It knows nothing of a  *)
(* message it has not received.                                            *)

Received(e, message) == [app EXCEPT ![e] = message]

Changed(e, edit, votes) ==
    IF app[e].kind = "absent" THEN app
    ELSE [app EXCEPT ![e] = [@ EXCEPT !.kind = "message", !.edit = edit, !.votes = votes]]

Removed(e) ==
    IF app[e].kind = "absent" THEN app ELSE [app EXCEPT ![e].kind = "removed"]

ReactionCreated(a, r) ==
    IF a[Target[r]].kind = "absent" THEN a
    ELSE [a EXCEPT ![Target[r]].reactions = @ \cup {r}]

ReactionRemoved(r) == [app EXCEPT ![Target[r]].reactions = @ \ {r}]

-----------------------------------------------------------------------------
(* Fetching a page: MessagesFetcher.                                       *)

(* From the end of the timeline, or from a message the application has.    *)
BeginFetch(f) ==
    /\ fetch[f].pc = "idle"
    /\ fetches < MaxFetches
    /\ fetches' = fetches + 1
    /\ \E start \in {Len(log)} \cup {Pos(m) - 1 : m \in {e \in Sent : app[e].kind # "absent"}} :
         fetch' = [fetch EXCEPT ![f] =
                     [IdleFetch EXCEPT !.pc = "load", !.start = start,
                                       !.pos = start]]
    /\ UNCHANGED <<server, synced, cache, retry, removing, asked, app>>

(* Fault: the events are asked for from the beginning of the timeline.     *)
Chunk_forward(pos, n) ==
    [i \in 1 .. n |-> [id |-> log[pos - n + i], view |-> View(log[pos - n + i])]]

(* Direction::Backward: the newest event is first.                         *)
Chunk(pos, n) == [i \in 1 .. n |-> [id |-> log[pos + 1 - i], view |-> View(log[pos + 1 - i])]]

(* The homeserver may say only with an empty page that it was the last.    *)
LoadChunk(f) ==
    LET pos == fetch[f].pos
        n == IF pos < ChunkSize THEN pos ELSE ChunkSize
    IN
    /\ fetch[f].pc = "load"
    /\ \E end \in BOOLEAN :
         /\ end => n = pos
         /\ n = 0 => end
         /\ fetch' = [fetch EXCEPT ![f] = [@ EXCEPT !.pc = "process", !.chunk = Chunk(pos, n),
                                                   !.pos = pos - n, !.end = end]]
    /\ UNCHANGED <<server, synced, cache, retry, removing, fetches, asked, app>>

LoadFails(f) ==
    /\ fetch[f].pc = "load"
    /\ fetch' = [fetch EXCEPT ![f].pc = "failed"]
    /\ UNCHANGED <<server, synced, cache, retry, removing, fetches, asked, app>>

(* Fault: the limit is looked at between chunks only.                      *)
ProcessPage_beyond(f) ==
    LET e == Head(fetch[f].chunk).id
        view == Head(fetch[f].chunk).view
        new == Process(cache, e, view)
        message == Result(new, e, view)
    IN
    /\ fetch[f].pc = "process" /\ fetch[f].op = "page"
    /\ fetch[f].chunk # <<>>
    /\ Len(fetch[f].pipe) <= Capacity
    /\ ~Fails(e, view)
    /\ cache' = new
    /\ IF message.kind = "absent"
       THEN fetch' = [fetch EXCEPT ![f].chunk = Tail(@)]
       ELSE fetch' = [fetch EXCEPT ![f] =
                        [@ EXCEPT !.chunk = Tail(fetch[f].chunk), !.got = fetch[f].got + 1,
                                  !.pipe = Append(fetch[f].pipe, [id |-> e, message |-> message])]]
    /\ UNCHANGED <<server, synced, retry, removing, fetches, asked, app>>

(***************************************************************************)
(* One event of the chunk.  Its message goes into the channel; the last    *)
(* element of pipe is the one the fetcher holds when the channel is full.  *)
(***************************************************************************)
ProcessPage(f) ==
    LET e == Head(fetch[f].chunk).id
        view == Head(fetch[f].chunk).view
        new == Process(cache, e, view)
        message == Result(new, e, view)
        send == message.kind # "absent"
        got == fetch[f].got + 1
    IN
    /\ fetch[f].pc = "process" /\ fetch[f].op = "page"
    /\ fetch[f].chunk # <<>>
    /\ Len(fetch[f].pipe) <= Capacity
    /\ cache' = new
    /\ \/ /\ Fails(e, view)
          /\ fetch' = [fetch EXCEPT ![f] = [@ EXCEPT !.pc = "failed", !.chunk = <<>>]]
       \/ /\ ~Fails(e, view)
          /\ ~send
          /\ fetch' = [fetch EXCEPT ![f].chunk = Tail(@)]
       \/ /\ ~Fails(e, view)
          /\ send
          /\ fetch' = [fetch EXCEPT ![f] =
                         [@ EXCEPT !.chunk = IF got = Limit THEN <<>> ELSE Tail(fetch[f].chunk),
                                   !.got = got,
                                   !.pipe = Append(fetch[f].pipe, [id |-> e, message |-> message])]]
    /\ UNCHANGED <<server, synced, retry, removing, fetches, asked, app>>

(* Fault: that the timeline has ended is not noticed.                      *)
ChunkDone_endless(f) ==
    /\ fetch[f].pc = "process" /\ fetch[f].op = "page"
    /\ fetch[f].chunk = <<>>
    /\ fetch' = [fetch EXCEPT ![f].pc = IF fetch[f].got = Limit THEN "done" ELSE "load"]
    /\ UNCHANGED <<server, synced, cache, retry, removing, fetches, asked, app>>

(* The loop of fetch_until_completion.                                     *)
ChunkDone(f) ==
    /\ fetch[f].pc = "process" /\ fetch[f].op = "page"
    /\ fetch[f].chunk = <<>>
    /\ fetch' = [fetch EXCEPT ![f].pc =
                   IF fetch[f].got = Limit \/ fetch[f].end THEN "done" ELSE "load"]
    /\ UNCHANGED <<server, synced, cache, retry, removing, fetches, asked, app>>

(* get_room_messages takes a message from the channel and sends it on.     *)
Deliver(f) ==
    LET item == Head(fetch[f].pipe) IN
    /\ fetch[f].pipe # <<>>
    /\ app' = Received(item.id, item.message)
    /\ fetch' = [fetch EXCEPT ![f].pipe = Tail(@)]
    /\ UNCHANGED <<server, synced, cache, retry, removing, fetches, asked>>

Finish(f) ==
    /\ fetch[f].pc \in {"done", "failed"}
    /\ fetch[f].pipe = <<>>
    /\ fetch' = [fetch EXCEPT ![f] = IdleFetch]
    /\ UNCHANGED <<server, synced, cache, retry, removing, fetches, asked, app>>

-----------------------------------------------------------------------------
(* Fetching one message: MessageFetcher.                                   *)

(* What load_or_fetch_event_with_relations returns with an event.          *)
RelatedTo(m) ==
    LET upTo[n \in 0 .. Len(log)] ==
          IF n = 0 THEN <<>>
          ELSE IF Target[log[n]] = m THEN Append(upTo[n - 1], log[n]) ELSE upTo[n - 1]
    IN  upTo[Len(log)]

BeginSingle(f, m) ==
    /\ fetch[f].pc = "idle"
    /\ fetches < MaxFetches
    /\ fetches' = fetches + 1
    /\ m \in Sent
    /\ LET ids == Append(RelatedTo(m), m)
           chunk == [i \in DOMAIN ids |-> [id |-> ids[i], view |-> View(ids[i])]]
       IN  fetch' = [fetch EXCEPT ![f] =
                       [IdleFetch EXCEPT !.pc = "process", !.op = "single",
                                         !.start = Len(log),
                                         !.chunk = chunk]]
    /\ UNCHANGED <<server, synced, cache, retry, removing, asked, app>>

(* The relations first, whose messages are dropped, then the event.        *)
ProcessSingle(f) ==
    LET e == Head(fetch[f].chunk).id
        view == Head(fetch[f].chunk).view
        new == Process(cache, e, view)
        message == Result(new, e, view)
    IN
    /\ fetch[f].pc = "process" /\ fetch[f].op = "single"
    /\ cache' = new
    /\ \/ /\ Fails(e, view)
          /\ fetch' = [fetch EXCEPT ![f] = [@ EXCEPT !.pc = "failed", !.chunk = <<>>]]
       \/ /\ ~Fails(e, view)
          /\ Len(fetch[f].chunk) > 1
          /\ fetch' = [fetch EXCEPT ![f].chunk = Tail(@)]
       \/ /\ ~Fails(e, view)
          /\ Len(fetch[f].chunk) = 1
          /\ IF message.kind # "absent"
             THEN fetch' = [fetch EXCEPT ![f] =
                              [@ EXCEPT !.pc = "done", !.chunk = <<>>,
                                        !.pipe = <<[id |-> e, message |-> message]>>]]
             ELSE fetch' = [fetch EXCEPT ![f] = [@ EXCEPT !.pc = "failed", !.chunk = <<>>]]
    /\ UNCHANGED <<server, synced, retry, removing, fetches, asked, app>>

-----------------------------------------------------------------------------
(* Decrypting again.                                                       *)

(***************************************************************************)
(* The interval takes all cached events; a report of the SDK is about some *)
(* events, and those of them that are cached are taken.                    *)
(***************************************************************************)
BeginRetry(t) ==
    /\ retry[t] = {}
    /\ \E S \in SUBSET cache.encrypted : retry' = [retry EXCEPT ![t] = S]
    /\ UNCHANGED <<server, synced, cache, fetch, removing, fetches, asked, app>>

(* Fault: a message that could be read at last is not announced.           *)
Resolve_silent(e) ==
    LET message == Result(Process(cache, e, "clear"), e, "clear")
        without == [app EXCEPT ![e] = Absent]
    IN  CASE message.kind # "absent" -> app
          [] Type[e] = "reaction" -> ReactionCreated(without, e)
          [] OTHER -> without

(***************************************************************************)
(* process_successful_redecryption and redact_encrypted_message.  The      *)
(* change that is sent for a message has its content only.                 *)
(***************************************************************************)
Resolve(e) ==
    LET new == Process(cache, e, "clear")
        message == Result(new, e, "clear")
        without == [app EXCEPT ![e] = Absent]
    IN  CASE message.kind # "absent" -> Changed(e, message.edit, message.votes)
          [] Type[e] = "reaction" -> ReactionCreated(without, e)
          [] OTHER -> without

(* retry_cached_encrypted_event; an error ends the task.                   *)
RetryEvent(t, e) ==
    /\ e \in retry[t]
    /\ \/ /\ e \notin keys
          /\ retry' = [retry EXCEPT ![t] = @ \ {e}]
          /\ UNCHANGED <<cache, app>>
       \/ /\ e \in keys
          /\ cache' = Process(cache, e, "clear")
          /\ IF Fails(e, "clear")
             THEN /\ retry' = [retry EXCEPT ![t] = {}]
                  /\ UNCHANGED app
             ELSE /\ retry' = [retry EXCEPT ![t] = @ \ {e}]
                  /\ app' = Resolve(e)
    /\ UNCHANGED <<server, synced, fetch, removing, fetches, asked>>

-----------------------------------------------------------------------------
(* The executor of the sync loop's events.                                 *)

(* What assemble_poll loads: the poll with all its relations.              *)
PollRelations(m, types) ==
    {e \in Sent : Target[e] = m /\ View(e) = "clear" /\ Type[e] \in types}

(* A redaction: room.event loads the redacted event.                       *)
ExecRedaction(t) ==
    CASE Type[t] = "reaction" /\ t \notin Encrypted /\ Removable(cache, t) ->
           cache' = Remove(cache, t) /\ app' = ReactionRemoved(t)
      [] Type[t] \in {"message", "edit"} \/ t \in Encrypted ->
           app' = Removed(t) /\ UNCHANGED cache
      [] OTHER -> UNCHANGED <<cache, app>>

(***************************************************************************)
(* A poll that can be loaded is sent as assemble_poll puts it together     *)
(* with the event applied last.  replace_content brings new options, which *)
(* nobody has chosen yet.                                                  *)
(***************************************************************************)
ExecPoll(e) ==
    LET original == Target[e]
        edits == PollRelations(original, {"poll_edit"})
        ends == PollRelations(original, {"end"})
        responses == {v \in PollRelations(original, {"response"}) :
                        \A d \in edits : Pos(d) < Pos(v)}
    IN
    /\ Type[e] \in {"poll_edit", "response", "end"}
    /\ View(original) = "clear" /\ Type[original] = "poll"
    /\ app' = IF Type[e] = "poll_edit" THEN Changed(original, e, ends)
              ELSE Changed(original, Latest(edits), responses \cup ends \cup {e})

ExecEvent ==
    LET e == log[synced + 1] IN
    /\ synced < Len(log)
    /\ e \notin Encrypted \ keys
    /\ synced' = synced + 1
    /\ \/ /\ Type[e] \in {"message", "poll"}
          /\ app' = Received(e, [Absent EXCEPT !.kind = "message"])
          /\ UNCHANGED cache
       \/ /\ Type[e] = "edit"
          /\ app' = Changed(Target[e], e, {})
          /\ UNCHANGED cache
       \/ /\ Type[e] = "reaction"
          /\ cache' = Insert(cache, e)
          /\ app' = ReactionCreated(app, e)
       \/ /\ ExecPoll(e)
          /\ UNCHANGED cache
       \/ /\ Type[e] = "redaction"
          /\ ExecRedaction(Target[e])
    /\ UNCHANGED <<server, fetch, retry, removing, fetches, asked>>

(***************************************************************************)
(* Nothing follows: the event had been redacted or could not be decrypted  *)
(* when it was synced, or what the handler loads cannot be loaded.         *)
(***************************************************************************)
ExecNothing ==
    LET e == log[synced + 1] IN
    /\ synced < Len(log)
    /\ \/ e \in redacted
       \/ e \in Encrypted
       \/ Type[e] \in {"odd_poll", "poll_edit", "response", "end", "redaction"}
    /\ synced' = synced + 1
    /\ UNCHANGED <<server, cache, fetch, retry, removing, fetches, asked, app>>

-----------------------------------------------------------------------------
(* The application removes a reaction.                                     *)

(***************************************************************************)
(* remove_reaction_by_emoji takes every reaction of the user with that     *)
(* emoji out of the message.  In the model there is one: a homeserver      *)
(* refuses a second reaction of the same user with the same emoji.         *)
(***************************************************************************)
BeginRemove(r) ==
    /\ Removable(cache, r)
    /\ r \notin removing
    /\ cache' = Remove(cache, r)
    /\ removing' = removing \cup {r}
    /\ asked' = asked \cup {r}
    /\ UNCHANGED <<server, synced, fetch, retry, fetches, app>>

RedactOk(r) ==
    /\ r \in removing \ redacted
    /\ \E x \in Events \ Sent :
         /\ Type[x] = "redaction" /\ Target[x] = r
         /\ log' = Append(log, x)
    /\ redacted' = redacted \cup {r}
    /\ removing' = removing \ {r}
    /\ app' = ReactionRemoved(r)
    /\ UNCHANGED <<keys, synced, cache, fetch, retry, fetches, asked>>

RedactFails(r) ==
    /\ r \in removing
    /\ removing' = removing \ {r}
    /\ UNCHANGED <<server, synced, cache, fetch, retry, fetches, asked, app>>

-----------------------------------------------------------------------------
ServerStep ==
    \E e \in Events :
        \/ SendEvent(e)
        \/ KeyArrives(e)

FetchStep(f) ==
    \/ LoadChunk(f)
    \/ ProcessPage(f)
    \/ ChunkDone(f)
    \/ ProcessSingle(f)
    \/ Finish(f)

Next ==
    \/ ServerStep
    \/ \E f \in Fetchers :
         \/ BeginFetch(f)
         \/ \E m \in Events : BeginSingle(f, m)
         \/ FetchStep(f)
         \/ LoadFails(f)
         \/ Deliver(f)
    \/ \E t \in Retriers :
         \/ BeginRetry(t)
         \/ \E e \in Events : RetryEvent(t, e)
    \/ ExecEvent
    \/ ExecNothing
    \/ \E r \in Events :
         \/ BeginRemove(r)
         \/ RedactOk(r)
         \/ RedactFails(r)

Spec == Init /\ [][Next]_vars

(***************************************************************************)
(* Fairness: tokio runs every task that can run; the retry loop wakes up   *)
(* every 15 seconds and spawns a task for all events, whatever the tasks   *)
(* of reports do.  Nothing else has to happen.                             *)
(***************************************************************************)
Fairness ==
    /\ \A f \in Fetchers : WF_vars(FetchStep(f)) /\ WF_vars(Deliver(f))
    /\ \A t \in Retriers :
         /\ SF_vars(BeginRetry(t) /\ retry'[t] = cache.encrypted)
         /\ \A e \in Events : WF_vars(RetryEvent(t, e))

FairSpec == Spec /\ Fairness

-----------------------------------------------------------------------------
(* Properties.                                                             *)

(***************************************************************************)
(* reaction_id_to_message and the reactions of the messages are two maps   *)
(* behind two locks: they name the same reactions whatever interleaves, so *)
(* that a cached reaction can always be removed by its ID.                 *)
(***************************************************************************)
MappingMatches ==
    cache.mapped = {e \in Events : Type[e] = "reaction" /\ e \in cache.related[Target[e]]}

(* What may relate to a message and to a poll.                             *)
RelationsOf(m) ==
    IF Type[m] = "poll" THEN {"poll_edit", "reaction", "response", "end"}
                        ELSE {"edit", "reaction"}

(* The relations a message must have: the readable ones up to a place in   *)
(* the timeline that nobody has removed.                                   *)
Expected(m, last) ==
    {e \in Events : /\ Target[e] = m /\ Type[e] \in RelationsOf(m)
                    /\ e \in Sent
                    /\ Pos(e) <= last
                    /\ e \notin Encrypted \cup redacted \cup asked}

Reflects(message, m, last) ==
    \A e \in Expected(m, last) :
        /\ Type[e] \in {"edit", "poll_edit"} =>
             (message.edit # None /\ Pos(e) <= Pos(message.edit))
        /\ Type[e] = "reaction" => e \in message.reactions
        /\ Type[e] \in {"response", "end"} => e \in message.votes

(***************************************************************************)
(* Replacement events are stashed until the original is reached            *)
(* (process_original_room_message): a message that a fetch hands to its    *)
(* request has every edit, reaction and vote up to where in the timeline   *)
(* the fetch began, whatever the pages, the sync loop and other fetches do *)
(* meanwhile.                                                              *)
(***************************************************************************)
Assembled ==
    \A f \in Fetchers :
        \A i \in DOMAIN fetch[f].pipe :
            LET item == fetch[f].pipe[i]
            IN  item.message.kind = "message" =>
                    Reflects(item.message, item.id, fetch[f].start)

(* What the cache still tries to decrypt and could decrypt now, while the  *)
(* application shows that it is encrypted.                                 *)
Overdue(e) ==
    /\ e \in cache.encrypted \cap keys
    /\ app[e].kind = "encrypted"
    /\ Type[e] # "odd_poll"

(***************************************************************************)
(* A message shown as encrypted does not stay so once its key has come,    *)
(* whether it is the retry loop, a report of the SDK or another fetch that *)
(* decrypts it first (retry_cached_encrypted_event).                       *)
(***************************************************************************)
MessageResolved ==
    \A e \in Events :
        Type[e] \notin Relations => (Overdue(e) ~> app[e].kind # "encrypted")

(***************************************************************************)
(* Every fetch ends, also when its channel is full or the homeserver       *)
(* announces more events than there are (fetch_until_completion).          *)
(***************************************************************************)
FetchEnds == \A f \in Fetchers : fetch[f].pc # "idle" ~> fetch[f].pc = "idle"
=============================================================================
