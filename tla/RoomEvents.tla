----------------------------- MODULE RoomEvents -----------------------------
(***************************************************************************)
(* What the application is told about one room: the handlers, the streams  *)
(* and the executor of src/src/events.rs, the snapshots of a room that     *)
(* src/src/rooms.rs assembles, the requests of src/src/client.rs about a   *)
(* room, and the read markers and the mark-as-read time of                 *)
(* src/src/memory_cache.rs.                                                *)
(*                                                                         *)
(* The value of a field of the room is the number of times it was changed, *)
(* and a point in time is the number of changes made before it.            *)
(***************************************************************************)
EXTENDS Integers, Sequences, SequencesExt

CONSTANTS
    FieldSets,        \* sets of fields of the room to look at together
    Users,            \* other members of the room
    MaxPending,       \* bound: events the sync loop has not received when others act
    MaxChanges,       \* bound: changes recorded by the homeserver
    Requests,         \* requests that may be processed at the same time
    MaxRequests,      \* bound: requests of the application
    ChannelCapacity,  \* EVENT_CHANNEL_CAPACITY
    MaxQueued,        \* MAX_QUEUED_ROOM_CHANGES
    StreamCapacity,   \* what the SDK's streams keep for a slow reader
    None              \* no value

(* The fields whose handler skips an event older than five seconds, those  *)
(* whose event has the value to send (the others are loaded), and those    *)
(* change_room can change, in its order.                                   *)
Historical == {"name", "members", "join_rule", "avatar"}
Carried == {"name", "join_rule", "pinned", "favourite", "conference"}
ChangeOrder == <<"name", "join_rule", "avatar", "favourite", "conference">>

ASSUME RoomEventsAssumption ==
    /\ UNION FieldSets \subseteq Historical \cup Carried \cup {"permissions"}
    /\ {MaxPending, MaxChanges, MaxRequests} \subseteq Nat
    /\ {ChannelCapacity, MaxQueued, StreamCapacity} \subseteq Nat \ {0}
    /\ None \notin Users
    /\ \A F \in FieldSets :
         None \notin [val : [F -> Nat], unread : Nat, joined : BOOLEAN, drops : Nat, moves : Nat]

VARIABLES
    server,    \* the homeserver: the fields and our membership
    pending,   \* its events the sync loop has not received yet
    room,      \* the room as the SDK knows it
    handlers,  \* actions the handlers of the current response have to queue
    stream,    \* the two streams of the SDK, each read by a task of its own
    channel,   \* the actions queued for the executor
    queued,    \* room_changes of the room
    cache,     \* the CachedRoom: known, marked_as_read_ts and read_markers
    request,   \* the requests that are being processed
    out,       \* events and replies on their way to the application
    app,       \* what the application has been told
    changes,   \* number of changes recorded by the homeserver
    requests,  \* number of requests made
    hist       \* history, see HistInit

roomVars == <<server, pending, room, handlers, stream, channel, queued,
              cache, request, out, app, changes, requests, hist>>

(* The fields a behaviour looks at.                                        *)
Fields == DOMAIN server.val

Times == 0 .. MaxChanges
Markers == [Users -> Times]
NoMarkers == [u \in Users |-> 0]
Newer(a, b) == [u \in Users |-> IF a[u] > b[u] THEN a[u] ELSE b[u]]

(* Values of some of the fields: v of f alone, and val with v of f.        *)
Only(f, v) == [g \in {f} |-> v]
With(val, f, v) == [g \in DOMAIN val \cup {f} |-> IF g = f THEN v ELSE val[g]]

Idle == [kind |-> "none"]

(* skipped: fields whose last event was not sent on; silent: users whose   *)
(* read marker was cached without an event; zeroed: a count was withheld,  *)
(* or replaced by the reply of mark_as_read, and none was sent since;      *)
(* drops: how often the queue was replayed or lost its newest count;       *)
(* overlap: it did so between the assembly and the delivery of the last    *)
(* snapshot, or lost its count before the replay for a delivered one, and  *)
(* no count was sent since; moves: changes of our membership; untold:      *)
(* those the application is not told of; late: it was told of one after    *)
(* the next.                                                               *)
HistInit ==
    [skipped |-> {}, silent |-> {}, zeroed |-> FALSE, drops |-> 0, overlap |-> FALSE,
     moves |-> 0, untold |-> {0}, late |-> FALSE]

RoomInit ==
    /\ changes = 0
    /\ \E F \in FieldSets, m \in {"none", "joined"} :
         /\ server = [val |-> [f \in F |-> 0], member |-> m]
         /\ room = [val |-> server.val, member |-> m, unread |-> 0]
    /\ pending = <<>>
    /\ handlers = <<>>
    /\ stream = [s \in {"updates", "generic"} |-> [open |-> TRUE, lagged |-> FALSE, q |-> <<>>]]
    /\ channel = <<>>
    /\ queued = <<>>
    /\ cache = [known |-> FALSE, marked |-> "none", markers |-> NoMarkers]
    /\ request = [r \in Requests |-> Idle]
    /\ out = <<>>
    /\ app = [room |-> "none", unread |-> 0, markers |-> NoMarkers,
              fields |-> [val |-> server.val, best |-> server.val, stale |-> {}]]
    /\ requests = 0
    /\ hist = HistInit

-----------------------------------------------------------------------------
(* The homeserver *)

(* Our membership: how the SDK names a change (MembershipChange), and what *)
(* it leads from and to.  Kicked and Banned are as Left.                   *)
Moves ==
    [Invited            |-> [from |-> {"none", "left"}, to |-> "invited"],
     Joined             |-> [from |-> {"none", "left"}, to |-> "joined"],
     InvitationAccepted |-> [from |-> {"invited"}, to |-> "joined"],
     InvitationRejected |-> [from |-> {"invited"}, to |-> "left"],
     Left               |-> [from |-> {"joined"}, to |-> "left"]]

(* The homeserver records event e of somebody else or of another device.   *)
Record(e) ==
    /\ changes < MaxChanges
    /\ changes' = changes + 1
    /\ pending' = Append(pending, e)

(* The homeserver accepts a change of field f.                             *)
Change(f) ==
    /\ server' = [server EXCEPT !.val[f] = @ + 1]
    /\ Record([t |-> "field", f |-> f, v |-> server.val[f] + 1])

OtherChanges ==
    /\ Len(pending) < MaxPending
    /\ \/ server.member = "joined" /\ \E f \in Fields : Change(f)
       \/ /\ server.member = "joined"
          /\ \/ \E u \in Users : Record([t |-> "message", u |-> u, ts |-> changes + 1])
             \/ \E typing \in {TRUE, None}, u \in Users \cup {None} :
                  /\ typing # None \/ u # None
                  /\ Record([t |-> "ephemeral", typing |-> typing, u |-> u, ts |-> changes + 1])
             \/ Record([t |-> "read"])
          /\ UNCHANGED server
       \/ \E m \in DOMAIN Moves :
            /\ server.member \in Moves[m].from
            /\ server' = [server EXCEPT !.member = Moves[m].to]
            /\ Record([t |-> "own", m |-> m])

Homeserver ==
    /\ OtherChanges
    /\ UNCHANGED <<room, handlers, stream, channel, queued, cache,
                   request, out, app, requests, hist>>

-----------------------------------------------------------------------------
(* The sync loop, the handlers and the streams *)

Push(s, x) ==
    IF ~s.open THEN s
    ELSE IF Len(s.q) = StreamCapacity
      THEN [s EXCEPT !.lagged = TRUE, !.q = Append(Tail(@), x)]
      ELSE [s EXCEPT !.q = Append(@, x)]

JoinedIn(x) == x.member = "joined"

(* The room after a change of our membership, by a sync or by a request.   *)
Moved(m) == [room EXCEPT !.member = m, !.unread = IF m = "joined" THEN @ ELSE 0]

(* The room after event e.                                                 *)
Applied(e) ==
    CASE e.t = "field"     -> [room EXCEPT !.val[e.f] = e.v]
      [] e.t = "message"   -> [room EXCEPT !.unread = @ + 1]
      [] e.t = "ephemeral" -> room
      [] e.t = "read"      -> [room EXCEPT !.unread = 0]
      [] e.t = "own"       -> Moved(Moves[e.m].to)

(* What the handlers queue for event e; k is the number of the move.        *)
HandlersOf(e, k) ==
    CASE e.t = "field"     -> <<e>>
      [] e.t = "own"       -> <<[t |-> "own", m |-> e.m, k |-> k]>>
      [] e.t = "message"   -> <<[t |-> "any", u |-> e.u, ts |-> e.ts], [t |-> "message"]>>
      [] e.t = "ephemeral" -> <<>>
      [] e.t = "read"      -> <<[t |-> "fully_read"]>>

(* The update of a joined room: the typing notice and the receipts in it.  *)
UpdateOf(e) ==
    IF e.t = "ephemeral"
      THEN [t |-> "update", typing |-> e.typing, u |-> e.u, ts |-> e.ts]
      ELSE [t |-> "update", typing |-> None, u |-> None, ts |-> 0]

(* The sync loop receives the next event.  It waits for the handlers of    *)
(* the response before it.                                                 *)
Sync ==
    /\ handlers = <<>>
    /\ pending # <<>>
    /\ LET e == Head(pending)
       IN  /\ room' = Applied(e)
           /\ hist' = [hist EXCEPT !.moves = IF JoinedIn(room') # JoinedIn(room) THEN @ + 1 ELSE @]
           /\ handlers' = HandlersOf(e, hist'.moves)
           /\ stream' = [s \in DOMAIN stream |->
                IF room'.member # "joined" THEN stream[s]
                ELSE IF s = "updates" THEN Push(stream[s], UpdateOf(e))
                ELSE IF e.t = "message" THEN Push(stream[s], [t |-> "generic"])
                ELSE stream[s]]
    /\ pending' = Tail(pending)
    /\ UNCHANGED <<changes, server, channel, queued, cache, request,
                   out, app, requests>>

(* skip_historical_event                                                   *)
MayBeSkipped(a) == (a.t = "own" /\ a.m # "Invited") \/ (a.t = "field" /\ a.f \in Historical)

(* A handler queues its action (send_action waits for space), or skips an  *)
(* event that is older than HISTORICAL_EVENT_TIMEOUT.                      *)
Handle ==
    /\ handlers # <<>>
    /\ LET a == Head(handlers)
       IN  \/ /\ Len(channel) < ChannelCapacity
              /\ channel' = Append(channel, a)
              /\ hist' = [hist EXCEPT !.skipped = IF a.t = "field" THEN @ \ {a.f} ELSE @]
           \/ /\ MayBeSkipped(a)
              /\ hist' = [hist EXCEPT !.skipped = IF a.t = "field" THEN @ \cup {a.f} ELSE @,
                                      !.untold = IF a.t = "own" /\ a.m # "InvitationRejected"
                                                   THEN @ \cup {a.k} ELSE @]
              /\ UNCHANGED channel
    /\ handlers' = Tail(handlers)
    /\ UNCHANGED <<changes, server, pending, room, stream, queued,
                   cache, request, out, app, requests>>

(* The task of a stream queues an action, or ends when it lagged behind.   *)
Forward(s) ==
    /\ stream[s].open
    /\ stream[s].q # <<>>
    /\ IF stream[s].lagged
         THEN /\ stream' = [stream EXCEPT ![s].open = FALSE, ![s].q = <<>>]
              /\ UNCHANGED channel
         ELSE /\ Len(channel) < ChannelCapacity
              /\ channel' = Append(channel, Head(stream[s].q))
              /\ stream' = [stream EXCEPT ![s].q = Tail(@)]
    /\ UNCHANGED <<changes, server, pending, room, handlers, queued,
                   cache, request, out, app, requests, hist>>

-----------------------------------------------------------------------------
(* The executor *)

(* Fault: the queue is not bounded.                                        *)
track_room_change_unbounded(q, c) == Append(q, c)

(* track_room_change                                                       *)
track_room_change(q, c) ==
    Append(IF Len(q) >= MaxQueued THEN Tail(q) ELSE q, c)

is_new_room_change(q, c) == q = <<>> \/ Last(q) # c

(* To track c drops the newest count of q.                                 *)
Evicts(q, c) ==
    /\ Len(q) >= MaxQueued
    /\ Head(q).t = "unread"
    /\ \A x \in ToSet(Append(Tail(q), c)) : x.t # "unread"

(* The queue will be replayed for a snapshot that was delivered.           *)
Replays(c) == \E i \in 1 .. Len(c) : c[i].t = "discovered"

(* update_room_unread_count: the queue and the events to send.             *)
UnreadChange == [t |-> "unread", n |-> room.unread]

Withheld == cache.marked = "recent"

update_room_unread_count(q) ==
    IF ~Withheld /\ is_new_room_change(q, UnreadChange)
      THEN [q |-> track_room_change(q, UnreadChange), send |-> <<UnreadChange>>]
      ELSE [q |-> q, send |-> <<>>]

(* A count was withheld and no other was sent since.                       *)
StillZeroed(send) == Withheld \/ (hist.zeroed /\ send = <<>>)

(* Fault: the executor waits while messages are on their way.              *)
Takes_waits(t) ==
    /\ out = <<>>
    /\ channel # <<>>
    /\ Head(channel).t = t
    /\ channel' = Tail(channel)
    /\ UNCHANGED <<changes, server, pending, room, handlers, stream, request, app, requests>>

(* The executor takes an action of type t.                                 *)
Takes(t) ==
    /\ channel # <<>>
    /\ Head(channel).t = t
    /\ channel' = Tail(channel)
    /\ UNCHANGED <<changes, server, pending, room, handlers, stream, request, app, requests>>

(* It sends messages to the application.                                   *)
Sends(msgs) == out' = out \o msgs

(* The value a handler sends for the event of a field.                     *)
Value(a) == IF a.f \in Carried THEN a.v ELSE room.val[a.f]

(* Fault: a change is held back while changes are queued for the room.     *)
ExecField_waits ==
    /\ Takes("field")
    /\ LET a == Head(channel)
       IN  Sends(IF queued # <<>> THEN <<>>
                   ELSE <<[t |-> "fields", from |-> "executor", val |-> Only(a.f, a.v)]>>)
    /\ UNCHANGED <<queued, cache, hist>>

(* exec_room_name_event and its like send the value of the event; those of *)
(* the avatar, the members and the permissions load the current one.  When *)
(* that fails, nothing is sent of the members, and the avatar is sent as   *)
(* the room had none, which is its first value.                            *)
ExecField ==
    /\ Takes("field")
    /\ LET a == Head(channel)
           Tells(v) == Sends(<<[t |-> "fields", from |-> "executor", val |-> Only(a.f, v)]>>)
       IN  \/ Tells(Value(a)) /\ UNCHANGED hist
           \/ /\ \/ a.f = "members" /\ Sends(<<>>)
                 \/ a.f = "avatar" /\ Tells(0)
              /\ hist' = [hist EXCEPT !.skipped = @ \cup {a.f}]
    /\ UNCHANGED <<queued, cache>>

(* assemble_chat_room, as of its first read (what it awaits afterwards may *)
(* be newer).  It does not go through the cached read markers.             *)
Snapshot == [val |-> room.val, unread |-> room.unread, joined |-> room.member = "joined",
             drops |-> hist.drops, moves |-> hist.moves]

(* Fault: no RoomLeftEvent for a room that has not been cached.            *)
ExecOwn_forgets ==
    /\ Takes("own")
    /\ LET a == Head(channel)
       IN  /\ Sends(IF a.m = "Left" /\ cache.known
                        THEN <<[t |-> "left", moves |-> a.k]>> ELSE <<>>)
           /\ hist' = [hist EXCEPT !.untold = IF a.m = "Left" THEN @ ELSE @ \cup {a.k}]
    /\ UNCHANGED <<queued, cache>>

(* exec_room_member_event for our own user, process_own_membership_change  *)
(* and exec_stripped_room_member_event.  A joined room that has a          *)
(* CachedRoom counts as known, and nothing is sent; an accepted or         *)
(* rejected invitation is a change of the members like any other.          *)
ExecOwn ==
    /\ Takes("own")
    /\ LET a == Head(channel)
           untold == [hist EXCEPT !.untold = @ \cup {a.k}]
       IN  \/ /\ a.m = "Invited"
              /\ Sends(<<[t |-> "invited"]>>)
              /\ UNCHANGED hist
           \/ /\ a.m = "Left"
              /\ Sends(<<[t |-> "left", moves |-> a.k]>>)
              /\ UNCHANGED hist
           \/ /\ a.m = "Joined" /\ ~cache.known
              /\ Sends(<<[t |-> "room", snap |-> Snapshot]>>)
              /\ UNCHANGED hist
           \/ /\ a.m = "Joined"  \* known, or it cannot be assembled
              /\ Sends(<<>>)
              /\ hist' = untold
           \/ /\ a.m \in {"InvitationAccepted", "InvitationRejected"}
              /\ \/ Sends(<<>>)
                 \/ Sends(<<[t |-> "fields", from |-> "executor",
                             val |-> Restrict(room.val, Fields \cap {"members"})]>>)
              /\ hist' = IF a.m = "InvitationAccepted" THEN untold ELSE hist
    /\ UNCHANGED <<queued, cache>>

(* exec_any_message_like_event: who writes has read.                       *)
ExecAny ==
    /\ Takes("any")
    /\ LET a == Head(channel)
           newer == a.ts > cache.markers[a.u]
       IN  /\ cache' = [cache EXCEPT !.known = TRUE, !.markers[a.u] = IF newer THEN a.ts ELSE @]
           /\ Sends(IF newer THEN <<[t |-> "markers", markers |-> [NoMarkers EXCEPT ![a.u] = a.ts]]>>
                      ELSE <<>>)
           /\ hist' = [hist EXCEPT !.silent = IF newer THEN @ \ {a.u} ELSE @]
    /\ UNCHANGED queued

(* process_new_message and maybe_mark_room_as_unread: a message that is    *)
(* newer than the time of mark_as_read ends the time in which counts are   *)
(* held back.  The time of the message is the homeserver's.                *)
ExecMessage ==
    /\ Takes("message")
    /\ \E newer \in BOOLEAN :
         cache' = [cache EXCEPT !.marked = IF newer /\ room.member = "joined" THEN "none" ELSE @]
    /\ UNCHANGED <<out, queued, hist>>

(* exec_fully_read_event and exec_event_cache_generic_update               *)
ExecCount ==
    /\ Takes("fully_read") \/ Takes("generic")
    /\ LET u == update_room_unread_count(queued)
       IN  /\ queued' = u.q
           /\ Sends(u.send)
           /\ hist' = [hist EXCEPT !.zeroed = StillZeroed(u.send),
                                   !.overlap = @ /\ u.send = <<>>]
    /\ UNCHANGED cache

(* exec_joined_room_update: the unread count, then the typing list and the *)
(* receipts that are newer than what is cached, in one change.             *)
ExecUpdate ==
    /\ Takes("update")
    /\ LET a == Head(channel)
           u == update_room_unread_count(queued)
           newer == a.u # None /\ a.ts > cache.markers[a.u]
           c == [t |-> "ephemeral", typing |-> a.typing,
                 markers |-> IF newer THEN [NoMarkers EXCEPT ![a.u] = a.ts] ELSE NoMarkers]
           new == (a.typing # None \/ newer) /\ is_new_room_change(u.q, c)
       IN  /\ queued' = IF new THEN track_room_change(u.q, c) ELSE u.q
           /\ Sends(IF new THEN Append(u.send, c) ELSE u.send)
           /\ cache' = IF a.u = None THEN cache
                       ELSE [cache EXCEPT !.known = TRUE,
                                          !.markers[a.u] = IF newer THEN a.ts ELSE @]
           /\ hist' = [hist EXCEPT
                !.drops = IF new /\ Evicts(u.q, c) THEN @ + 1 ELSE @,
                !.overlap = u.send = <<>> /\ (@ \/ (new /\ Evicts(u.q, c) /\ Replays(channel))),
                !.zeroed = StillZeroed(u.send),
                !.silent = IF newer THEN @ \ {a.u} ELSE @]

(* Fault: the queue is dropped.                                            *)
ExecDiscovered_drops ==
    /\ Takes("discovered")
    /\ queued' = <<>>
    /\ hist' = [hist EXCEPT !.drops = @ + 1]
    /\ UNCHANGED <<cache, out>>

(* exec_queued_room_changes                                                *)
ExecDiscovered ==
    /\ Takes("discovered")
    /\ Sends(queued)
    /\ queued' = <<>>
    /\ hist' = [hist EXCEPT !.drops = @ + 1]
    /\ UNCHANGED cache

(* Three seconds after mark_as_read.                                       *)
Expire ==
    /\ cache.marked = "recent"
    /\ cache' = [cache EXCEPT !.marked = "old"]
    /\ UNCHANGED <<changes, server, pending, room, handlers, stream, channel,
                   queued, request, out, app, requests, hist>>

Executor ==
    ExecField \/ ExecOwn \/ ExecAny \/ ExecMessage \/ ExecCount \/ ExecUpdate
      \/ ExecDiscovered

-----------------------------------------------------------------------------
(* Requests *)

(* The application sends request r, which becomes q.                       *)
Begin(r, q) ==
    /\ requests < MaxRequests
    /\ request[r] = Idle
    /\ requests' = requests + 1
    /\ request' = [request EXCEPT ![r] = q]
    /\ UNCHANGED <<handlers, stream, channel, queued, out, app>>

(* Request r goes on as q.                                                 *)
GoesOn(r, q) ==
    /\ request' = [request EXCEPT ![r] = q]
    /\ UNCHANGED <<handlers, stream, channel, queued, app, requests>>

Answer(msg) == [kind |-> "reply", msg |-> msg]

(* get_rooms: the room is in the list if it can be assembled and is of the *)
(* kind that was asked for.                                                *)
GetRooms(r) ==
    /\ room.member # "none"
    /\ \E unjoined, fails \in BOOLEAN :
         Begin(r, Answer([t |-> "list",
                          snap |-> IF fails \/ ~(unjoined \/ room.member = "joined")
                                     THEN None ELSE Snapshot]))
    /\ UNCHANGED <<changes, server, pending, room, cache, hist>>

(* Our membership changes through a request: the homeserver records it,    *)
(* and the SDK knows it before the next sync.                              *)
Move(m) ==
    /\ server.member \in Moves[m].from
    /\ server' = [server EXCEPT !.member = Moves[m].to]
    /\ Record([t |-> "own", m |-> m])
    /\ room' = Moved(Moves[m].to)
    /\ hist' = [hist EXCEPT !.moves = IF JoinedIn(room') # JoinedIn(room) THEN @ + 1 ELSE @]

(* join_room, create_group_room, create_direct_room and invitation_reply:  *)
(* the room is joined, then assembled.                                     *)
JoinRoom(r) ==
    /\ Move("Joined") \/ (room.member = "invited" /\ Move("InvitationAccepted"))
    /\ Begin(r, [kind |-> "join"])
    /\ UNCHANGED cache

(* create_group_room and create_direct_room may be given an avatar.        *)
UploadAvatar(r) ==
    /\ request[r].kind = "join"
    /\ "avatar" \in Fields
    /\ Change("avatar")
    /\ GoesOn(r, [kind |-> "joined"])
    /\ UNCHANGED <<room, cache, out, hist>>

Assemble(r) ==
    /\ request[r].kind \in {"join", "joined"}
    /\ \/ GoesOn(r, Answer([t |-> "room", snap |-> Snapshot])) /\ UNCHANGED hist
       \/ GoesOn(r, Idle) /\ hist' = [hist EXCEPT !.untold = @ \cup {hist.moves}]
    /\ UNCHANGED <<changes, server, pending, room, cache, out>>

(* leave_room, and invitation_reply for a declined invitation, which is    *)
(* not answered with an event.                                             *)
LeaveRoom(r) ==
    /\ \/ room.member = "invited" /\ Move("InvitationRejected")
       \/ room.member = "joined" /\ Move("Left")
    /\ \/ Begin(r, Answer([t |-> "left", moves |-> hist'.moves]))
       \/ Begin(r, Idle)
    /\ UNCHANGED cache

(* change_room changes one field after the other.                          *)
ChangeRoom(r) ==
    /\ room.member = "joined"
    /\ \E fs \in SUBSET (Fields \cap ToSet(ChangeOrder)) :
         /\ fs # {}
         /\ Begin(r, [kind |-> "change", todo |-> fs, val |-> <<>>])
    /\ UNCHANGED <<changes, server, pending, room, cache, hist>>

(* update_room_join_rule changes the rule and then the visibility, which   *)
(* may fail.                                                               *)
VisibilityFails(r) ==
    /\ Change("join_rule")
    /\ GoesOn(r, Idle)

(* remove_conference_url finds no conference to remove.  (The removal of   *)
(* one is a redaction, which no handler of the room's state sees.)         *)
NothingToRemove(r, rest) ==
    /\ UNCHANGED <<changes, server, pending>>
    /\ GoesOn(r, rest)

(* The field of fs that change_room changes first.                         *)
FirstOf(fs) == ChangeOrder[Min({i \in DOMAIN ChangeOrder : ChangeOrder[i] \in fs})]

(* The next field of change_room.  An error ends the request without a     *)
(* word about the fields changed before, except for an avatar that cannot  *)
(* be uploaded.                                                            *)
ChangeField(r) ==
    /\ request[r].kind = "change"
    /\ request[r].todo # {}
    /\ LET f == FirstOf(request[r].todo)
           rest == [request[r] EXCEPT !.todo = @ \ {f}]
       IN  \/ /\ Change(f)
              /\ GoesOn(r, [rest EXCEPT !.val = With(@, f, server.val[f] + 1)])
           \/ /\ UNCHANGED <<changes, server, pending>>
              /\ GoesOn(r, IF f = "avatar" THEN rest ELSE Idle)
           \/ f = "join_rule" /\ VisibilityFails(r)
           \/ f = "conference" /\ NothingToRemove(r, rest)
    /\ UNCHANGED <<room, cache, out, hist>>

ChangeDone(r) ==
    /\ request[r].kind = "change"
    /\ request[r].todo = {}
    /\ out' = Append(out, [t |-> "fields", from |-> "request", val |-> request[r].val])
    /\ GoesOn(r, Idle)
    /\ UNCHANGED <<changes, server, pending, room, cache, hist>>

(* pin_unpin_message and invite                                            *)
PinOrInvite(r) ==
    /\ room.member = "joined"
    /\ \E f \in Fields \cap {"pinned", "members"} :
         /\ Change(f)
         /\ Begin(r, [kind |-> "load", f |-> f])
    /\ UNCHANGED <<room, cache, hist>>

(* The reply has the pinned messages as the SDK knows them, possibly not   *)
(* yet the new ones; the members may be asked from the homeserver.         *)
LoadReply(r) ==
    /\ request[r].kind = "load"
    /\ LET f == request[r].f
       IN  \/ \E v \in room.val[f] .. IF f = "pinned" THEN room.val[f] ELSE server.val[f] :
                out' = Append(out, [t |-> "fields", from |-> "request", val |-> Only(f, v)])
           \/ f = "members" /\ UNCHANGED out
    /\ GoesOn(r, Idle)
    /\ UNCHANGED <<changes, server, pending, room, cache, hist>>

(* mark_as_read: the receipts are sent, then the time is cached.           *)
MarkAsRead(r) ==
    /\ room.member = "joined"
    /\ Record([t |-> "read"])
    /\ Begin(r, [kind |-> "mark"])
    /\ UNCHANGED <<server, room, cache, hist>>

MarkCached(r) ==
    /\ request[r].kind = "mark"
    /\ cache' = [cache EXCEPT !.known = TRUE, !.marked = "recent"]
    /\ out' = Append(out, [t |-> "unread", n |-> 0])
    /\ hist' = [hist EXCEPT !.zeroed = TRUE]
    /\ GoesOn(r, Idle)
    /\ UNCHANGED <<changes, server, pending, room>>

(* A request is answered.                                                  *)
Reply(r) ==
    /\ request[r].kind = "reply"
    /\ out' = Append(out, request[r].msg)
    /\ GoesOn(r, Idle)
    /\ UNCHANGED <<changes, server, pending, room, cache, hist>>

(* get_room_messages, as far as the read markers go: the fetcher remembers *)
(* the cached ones, an event of the page adds the markers of its readers,  *)
(* and all are sent if they differ.                                        *)
FetchPage(r) ==
    /\ room.member # "none"
    /\ Begin(r, [kind |-> "page", current |-> cache.markers])
    /\ cache' = [cache EXCEPT !.known = TRUE]
    /\ UNCHANGED <<changes, server, pending, room, hist>>

(* cache_read_markers for an event at ts that u wrote or has read.         *)
CacheMarker(u, ts) == Newer(cache.markers, [NoMarkers EXCEPT ![u] = ts])

load_and_cache_event_read_markers(r) ==
    /\ request[r].kind = "page"
    /\ \E u \in Users, ts \in 1 .. changes :
         cache' = [cache EXCEPT !.markers = CacheMarker(u, ts)]
    /\ GoesOn(r, [request[r] EXCEPT !.kind = "loaded"])
    /\ UNCHANGED <<changes, server, pending, room, out, hist>>

(* Fault: only the markers of users that had none are compared.            *)
update_read_markers_once(r) ==
    /\ request[r].kind = "loaded"
    /\ IF \E u \in Users : request[r].current[u] = 0 /\ cache.markers[u] # 0
         THEN /\ out' = Append(out, [t |-> "markers", markers |-> cache.markers])
              /\ hist' = [hist EXCEPT !.silent = {}]
         ELSE UNCHANGED <<out, hist>>
    /\ GoesOn(r, Idle)
    /\ UNCHANGED <<changes, server, pending, room, cache>>

(* update_read_markers                                                     *)
update_read_markers(r) ==
    /\ request[r].kind = "loaded"
    /\ IF cache.markers # request[r].current
         THEN /\ out' = Append(out, [t |-> "markers", markers |-> cache.markers])
              /\ hist' = [hist EXCEPT !.silent = {}]
         ELSE UNCHANGED <<out, hist>>
    /\ GoesOn(r, Idle)
    /\ UNCHANGED <<changes, server, pending, room, cache>>

(* The page ends with an error after the markers of an event were cached.  *)
PageFails(r) ==
    /\ request[r].kind \in {"page", "loaded"}
    /\ hist' = [hist EXCEPT
         !.silent = @ \cup {u \in Users : cache.markers[u] # request[r].current[u]}]
    /\ GoesOn(r, Idle)
    /\ UNCHANGED <<changes, server, pending, room, cache, out>>

(* get_message and a retried decryption cache the markers of their event   *)
(* and send none.                                                          *)
CacheSilently ==
    /\ requests < MaxRequests
    /\ requests' = requests + 1
    /\ room.member # "none"
    /\ \E u \in Users, ts \in 1 .. changes :
         /\ cache' = [cache EXCEPT !.known = TRUE, !.markers = CacheMarker(u, ts)]
         /\ hist' = [hist EXCEPT !.silent = IF ts > cache.markers[u] THEN @ \cup {u} ELSE @]
    /\ UNCHANGED <<changes, server, pending, room, handlers, stream, channel,
                   queued, request, out, app>>

Asks(r) ==
    GetRooms(r) \/ JoinRoom(r) \/ LeaveRoom(r) \/ ChangeRoom(r) \/ PinOrInvite(r)
      \/ MarkAsRead(r) \/ FetchPage(r)

Processes(r) ==
    UploadAvatar(r) \/ Assemble(r) \/ ChangeField(r) \/ ChangeDone(r) \/ LoadReply(r)
      \/ MarkCached(r) \/ load_and_cache_event_read_markers(r) \/ update_read_markers(r) \/ PageFails(r)
      \/ Reply(r)

-----------------------------------------------------------------------------
(* The application and on_response *)

(* What the application has been told of the fields: val is what it shows, *)
(* which the last message overwrites.  The rest is history: best are the   *)
(* newest values any message had, and stale are the fields of which a      *)
(* snapshot or a reply brought an older one after that.                    *)
Overwritten(val) == [f \in Fields |-> IF f \in DOMAIN val THEN val[f] ELSE app.fields.val[f]]

Older(val) == {f \in DOMAIN val : val[f] < app.fields.best[f]}

Best(val) == [f \in Fields |-> IF f \in DOMAIN val \ Older(val) THEN val[f]
                               ELSE app.fields.best[f]]

ToldFields(val, shown, excused) ==
    [val   |-> IF shown THEN Overwritten(val) ELSE app.fields.val,
     best  |-> Best(val),
     stale |-> (app.fields.stale \ (DOMAIN val \ Older(val)))
                 \cup (IF excused THEN Older(val) ELSE {})]

(* What message m tells; a change of a room that is not shown is ignored.  *)
Told(m) ==
    CASE m.t = "fields"  -> [app EXCEPT !.fields =
                               ToldFields(m.val, app.room = "listed", m.from # "executor")]
      [] m.t = "unread"  -> [app EXCEPT !.unread = IF app.room = "listed" THEN m.n ELSE @]
      [] m.t \in {"ephemeral", "markers"} -> [app EXCEPT !.markers = Newer(@, m.markers)]
      [] m.t = "left"    -> [app EXCEPT !.room = "none", !.unread = 0]
      [] m.t = "invited" -> [app EXCEPT !.room = IF @ = "none" THEN "invited" ELSE @]
      [] OTHER           -> IF m.snap = None THEN app
                            ELSE [app EXCEPT !.room = IF m.snap.joined THEN "listed" ELSE "none",
                                             !.unread = IF m.snap.joined THEN m.snap.unread ELSE 0,
                                             !.fields = ToldFields(m.snap.val, TRUE, TRUE)]

IsSnapshot(m) == m.t \in {"room", "list"} /\ m.snap # None

(* A message reaches the application and passes on_response, which queues  *)
(* RoomDiscovered for every room of a list and for a created room, and     *)
(* waits for space.                                                        *)
Deliver ==
    /\ out # <<>>
    /\ LET m == Head(out)
       IN  /\ app' = Told(m)
           /\ IF IsSnapshot(m)
                THEN /\ Len(channel) < ChannelCapacity
                     /\ channel' = Append(channel, [t |-> "discovered"])
                     /\ hist' = [hist EXCEPT !.overlap = m.snap.drops # hist.drops,
                                             !.late = m.snap.moves # hist.moves,
                                             !.untold = @ \ {m.snap.moves}]
                ELSE /\ hist' = [hist EXCEPT !.late = IF m.t = "left" THEN m.moves # hist.moves
                                                      ELSE @]
                     /\ UNCHANGED channel
    /\ out' = Tail(out)
    /\ UNCHANGED <<changes, server, pending, room, handlers, stream,
                   queued, cache, request, requests>>

-----------------------------------------------------------------------------

(* Everything the program does by itself.                                  *)
Works ==
    \/ Sync \/ Handle \/ Executor \/ Deliver
    \/ \E s \in {"updates", "generic"} : Forward(s)
    \/ \E r \in Requests : Processes(r)

RoomNext ==
    \/ Homeserver
    \/ Works
    \/ Expire
    \/ CacheSilently
    \/ \E r \in Requests : Asks(r)

(* Every task goes on: the sync loop and its handlers, the tasks of the    *)
(* streams, the executor, gouda_core's delivery and the requests.         *)
Fairness ==
    /\ WF_roomVars(Sync) /\ WF_roomVars(Handle) /\ WF_roomVars(Executor) /\ WF_roomVars(Deliver)
    /\ \A s \in {"updates", "generic"} : WF_roomVars(Forward(s))
    /\ \A r \in Requests : WF_roomVars(Processes(r))

Spec == RoomInit /\ [][RoomNext]_roomVars /\ Fairness

-----------------------------------------------------------------------------
(* Properties *)

(* The channel and the queue of changes keep to their limits; the types.   *)
TypeOK ==
    /\ server \in [val : [Fields -> Nat], member : {"none", "invited", "joined", "left"}]
    /\ room.val \in [Fields -> Nat] /\ room.unread \in Nat
    /\ Len(channel) <= ChannelCapacity
    /\ Len(queued) <= MaxQueued
    /\ \A x \in ToSet(queued) : x.t \in {"unread", "ephemeral"}
    /\ cache \in [known : BOOLEAN, marked : {"none", "recent", "old"}, markers : Markers]
    /\ app \in [room : {"none", "invited", "listed"}, unread : Nat, markers : Markers,
                fields : [val : [Fields -> Nat], best : [Fields -> Nat], stale : SUBSET Fields]]
    /\ requests \in 0 .. MaxRequests

(* Nothing is on its way.                                                  *)
Quiet ==
    /\ pending = <<>> /\ handlers = <<>> /\ channel = <<>> /\ out = <<>>
    /\ \A s \in DOMAIN stream : stream[s].q = <<>>
    /\ \A r \in Requests : request[r] = Idle

(* The handlers of state events, change_room and the snapshots: once       *)
(* nothing is on its way, a room that is shown is shown with the newest    *)
(* value of every field, whatever change_room, other devices and the       *)
(* executor did at once, and though a change of a room that is not shown   *)
(* yet is lost.  The exceptions are an event that was skipped as           *)
(* historical, members or an avatar that could not be loaded (skipped),    *)
(* and a snapshot or a reply that was made before a change and delivered   *)
(* after it, which nothing repairs (stale).                                *)
FieldsShown ==
    Quiet /\ app.room = "listed" =>
      \A f \in Fields :
        app.fields.val[f] = room.val[f] \/ f \in hist.skipped \/ f \in app.fields.stale

(* update_room_unread_count, track_room_change and                         *)
(* exec_queued_room_changes: the application ends with the unread count of *)
(* the SDK, although equal changes are suppressed and a snapshot that was  *)
(* assembled before a change may replace it.  Only mark_as_read (zeroed),  *)
(* a queue that was replayed or lost its count too early to repair the     *)
(* last snapshot (overlap) and a stream of updates that lagged are         *)
(* excepted.                                                               *)
UnreadShown ==
    Quiet /\ app.room = "listed" /\ room.member = "joined" /\ ~hist.zeroed /\ ~hist.overlap
      /\ ~stream["updates"].lagged
    => app.unread = room.unread

(* process_own_membership_change, leave_room and the snapshots: the rooms  *)
(* shown as joined are the joined ones, unless the last change was skipped *)
(* as historical, was a join of a room that counts as known, an invitation *)
(* accepted elsewhere or an assembly that failed, or a snapshot from       *)
(* before it was delivered after it.                                       *)
JoinedIsListed ==
    Quiet /\ hist.moves \notin hist.untold /\ ~hist.late
      => (app.room = "listed" <=> room.member = "joined")

(* cache_read_marker returns whether the marker changed: every marker in   *)
(* the cache has been told, whether it came from a message, a receipt or a *)
(* page, or was cached by a task that sends none or failed (silent).       *)
MarkersTold ==
    Quiet => \A u \in Users : app.markers[u] = cache.markers[u] \/ u \in hist.silent

(* send_action and on_response wait for space in the executor's channel,   *)
(* and the executor sends what passes on_response: they never wait for     *)
(* each other for good, and everything that is on its way arrives.         *)
Drains == []<>Quiet

=============================================================================
