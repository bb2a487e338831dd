-------------------------- MODULE RoomEventsProofs --------------------------
(***************************************************************************)
(* Proofs about RoomEvents: what the application is told about a room.     *)
(***************************************************************************)
EXTENDS RoomEvents, TLAPS

(***************************************************************************)
(* Types, for the set F of fields the behaviour looks at.                  *)
(***************************************************************************)
Partial(F) == UNION {[S -> Nat] : S \in SUBSET F}

Members == {"none", "invited", "joined", "left"}

FieldEvents(F) == [t : {"field"}, f : F, v : Nat]
OwnEvents == [t : {"own"}, m : DOMAIN Moves]
MessageEvents == [t : {"message"}, u : Users, ts : Times]
EphemeralEvents == [t : {"ephemeral"}, typing : {TRUE, None}, u : Users \cup {None}, ts : Times]
ReadEvents == [t : {"read"}]

Events(F) == FieldEvents(F) \cup OwnEvents \cup MessageEvents \cup EphemeralEvents \cup ReadEvents

OwnActions == [t : {"own"}, m : DOMAIN Moves, k : Nat]
AnyActions == [t : {"any"}, u : Users, ts : Times]
UpdateActions == [t : {"update"}, typing : {TRUE, None}, u : Users \cup {None}, ts : Times]
GenericActions == [t : {"generic"}]
OtherActions == [t : {"message", "fully_read", "discovered"}]

StreamActions == UpdateActions \cup GenericActions
Actions(F) == FieldEvents(F) \cup OwnActions \cup AnyActions \cup OtherActions \cup StreamActions

Snapshots(F) ==
    [val : [F -> Nat], unread : Nat, joined : BOOLEAN, drops : Nat, moves : Nat]

UnreadMessages == [t : {"unread"}, n : Nat]
EphemeralMessages == [t : {"ephemeral"}, typing : {TRUE, None}, markers : Markers]
FieldMessages(F) == [t : {"fields"}, from : {"executor", "request"}, val : Partial(F)]
MarkerMessages == [t : {"markers"}, markers : Markers]
InvitedMessages == [t : {"invited"}]
LeftMessages == [t : {"left"}, moves : Nat]
RoomMessages(F) == [t : {"room"}, snap : Snapshots(F)]
ListMessages(F) == [t : {"list"}, snap : Snapshots(F) \cup {None}]

Changes == UnreadMessages \cup EphemeralMessages
Replies(F) == LeftMessages \cup RoomMessages(F) \cup ListMessages(F)
Messages(F) == Changes \cup FieldMessages(F) \cup MarkerMessages \cup InvitedMessages \cup Replies(F)

PlainRequests == [kind : {"none", "join", "joined", "mark"}]
ReplyRequests(F) == [kind : {"reply"}, msg : Replies(F)]
ChangeRequests(F) ==
    [kind : {"change"}, todo : SUBSET (F \cap ToSet(ChangeOrder)), val : Partial(F)]
LoadRequests(F) == [kind : {"load"}, f : F]
PageRequests == [kind : {"page", "loaded"}, current : Markers]

RequestStates(F) ==
    PlainRequests \cup ReplyRequests(F) \cup ChangeRequests(F) \cup LoadRequests(F) \cup PageRequests

FieldsTold(F) == [val : [F -> Nat], best : [F -> Nat], stale : SUBSET F]
Apps(F) ==
    [room : {"none", "invited", "listed"}, unread : Nat, markers : Markers, fields : FieldsTold(F)]

Stream == [open : BOOLEAN, lagged : BOOLEAN, q : Seq(StreamActions)]

Hist(F) ==
    [skipped : SUBSET F, silent : SUBSET Users, zeroed : BOOLEAN, drops : Nat,
     overlap : BOOLEAN, moves : Nat, untold : SUBSET Nat, late : BOOLEAN]

HomeTypes(F) ==
    /\ server \in [val : [F -> Nat], member : Members]
    /\ changes \in Times
    /\ pending \in Seq(Events(F))

RoomTypes(F) == room \in [val : [F -> Nat], member : Members, unread : Nat]

HandlerTypes(F) ==
    /\ handlers \in Seq(Actions(F))
    /\ stream \in [{"updates", "generic"} -> Stream]

ChannelTypes(F) ==
    /\ channel \in Seq(Actions(F))
    /\ Len(channel) <= ChannelCapacity

QueueTypes ==
    /\ queued \in Seq(Changes)
    /\ Len(queued) <= MaxQueued

CacheTypes == cache \in [known : BOOLEAN, marked : {"none", "recent", "old"}, markers : Markers]

RequestTypes(F) ==
    /\ request \in [Requests -> RequestStates(F)]
    /\ requests \in 0 .. MaxRequests

OutTypes(F) ==
    /\ out \in Seq(Messages(F))
    /\ app \in Apps(F)

HistTypes(F) == hist \in Hist(F)

Types(F) ==
    /\ HomeTypes(F) /\ RoomTypes(F) /\ HandlerTypes(F) /\ ChannelTypes(F) /\ QueueTypes
    /\ CacheTypes /\ RequestTypes(F) /\ OutTypes(F) /\ HistTypes(F)

TypeInv == Types(Fields)

-----------------------------------------------------------------------------
(* Values and their types.                                                 *)

(* The bounds are natural numbers, and so are the times.                   *)
LEMMA Bounds ==
    /\ MaxChanges \in Nat /\ MaxRequests \in Nat /\ MaxPending \in Nat
    /\ ChannelCapacity \in Nat /\ ChannelCapacity > 0
    /\ MaxQueued \in Nat /\ MaxQueued > 0
    /\ StreamCapacity \in Nat /\ StreamCapacity > 0
    /\ None \notin Users
BY RoomEventsAssumption

(* Read markers stay in their type when one of them is replaced or when    *)
(* the newer ones are taken.                                               *)
LEMMA MarkerTypes ==
    /\ Times \subseteq Nat /\ 0 \in Times
    /\ NoMarkers \in Markers
    /\ \A a, b \in Markers : Newer(a, b) \in Markers
    /\ \A a \in Markers, u \in Users, ts \in Times : [a EXCEPT ![u] = ts] \in Markers
BY Bounds DEF Times, Markers, NoMarkers, Newer

(* Values of some of the fields: none, those of one field, of another one  *)
(* in addition, of all fields and of those in a set.                       *)
LEMMA PartialTypes ==
    ASSUME NEW F
    PROVE  /\ <<>> \in Partial(F)
           /\ \A f \in F, v \in Nat : Only(f, v) \in Partial(F)
           /\ \A f \in F, v \in Nat, p \in Partial(F) : With(p, f, v) \in Partial(F)
           /\ \A p \in [F -> Nat] : \A S : Restrict(p, F \cap S) \in Partial(F)
           /\ \A p \in Partial(F) : DOMAIN p \subseteq F /\ \A f \in DOMAIN p : p[f] \in Nat
<1>1. <<>> \in Partial(F)
    <2>1. <<>> \in [{} -> Nat]
        OBVIOUS
    <2> QED
        BY <2>1 DEF Partial
<1>2. ASSUME NEW f \in F, NEW v \in Nat PROVE Only(f, v) \in Partial(F)
    <2>1. Only(f, v) \in [{f} -> Nat]
        BY DEF Only
    <2> QED
        BY <2>1 DEF Partial
<1>3. ASSUME NEW f \in F, NEW v \in Nat, NEW p \in Partial(F) PROVE With(p, f, v) \in Partial(F)
    <2>1. PICK S \in SUBSET F : p \in [S -> Nat]
        BY DEF Partial
    <2>2. With(p, f, v) \in [S \cup {f} -> Nat]
        BY <2>1 DEF With
    <2>3. S \cup {f} \in SUBSET F
        OBVIOUS
    <2> QED
        BY <2>2, <2>3 DEF Partial
<1>4. ASSUME NEW p \in [F -> Nat], NEW S PROVE Restrict(p, F \cap S) \in Partial(F)
    <2>1. Restrict(p, F \cap S) \in [F \cap S -> Nat]
        BY DEF Restrict
    <2> QED
        BY <2>1 DEF Partial
<1>5. \A p \in Partial(F) : DOMAIN p \subseteq F /\ \A f \in DOMAIN p : p[f] \in Nat
    BY DEF Partial
<1> QED
    BY <1>1, <1>2, <1>3, <1>4, <1>5

(* Moves of our membership lead to a membership.                           *)
LEMMA MoveTypes ==
    /\ DOMAIN Moves = {"Invited", "Joined", "InvitationAccepted", "InvitationRejected", "Left"}
    /\ \A m \in DOMAIN Moves : Moves[m].to \in Members
BY DEF Moves, Members

(* What kinds of events there are.                                         *)
LEMMA EventForms ==
    ASSUME NEW F, NEW e \in Events(F)
    PROVE  /\ e.t \in {"field", "own", "message", "ephemeral", "read"}
           /\ e.t = "field" => e \in FieldEvents(F) /\ e.f \in F /\ e.v \in Nat
           /\ e.t = "own" => e.m \in DOMAIN Moves
           /\ e.t = "message" => e.u \in Users /\ e.ts \in Times
           /\ e.t = "ephemeral" =>
                e.typing \in {TRUE, None} /\ e.u \in Users \cup {None} /\ e.ts \in Times
BY DEF Events, FieldEvents, OwnEvents, MessageEvents, EphemeralEvents, ReadEvents

(* What kinds of actions there are.                                        *)
LEMMA ActionForms ==
    ASSUME NEW F, NEW a \in Actions(F)
    PROVE  /\ a.t = "field" => a.f \in F /\ a.v \in Nat
           /\ a.t = "own" => a.m \in DOMAIN Moves /\ a.k \in Nat
           /\ a.t = "any" => a.u \in Users /\ a.ts \in Times
           /\ a.t = "update" =>
                a.typing \in {TRUE, None} /\ a.u \in Users \cup {None} /\ a.ts \in Times
BY DEF Actions, FieldEvents, OwnActions, AnyActions, OtherActions, StreamActions,
       UpdateActions, GenericActions

(* What kinds of messages there are.                                       *)
LEMMA MessageForms ==
    ASSUME NEW F, NEW m \in Messages(F)
    PROVE  /\ m.t \in {"unread", "ephemeral", "fields", "markers", "invited", "left",
                       "room", "list"}
           /\ m.t = "unread" => m.n \in Nat
           /\ m.t \in {"ephemeral", "markers"} => m.markers \in Markers
           /\ m.t = "fields" => m.val \in Partial(F)
           /\ m.t = "left" => m.moves \in Nat
           /\ m.t \in {"room", "list"} => m.snap \in Snapshots(F) \/ m.snap = None
BY DEF Messages, Changes, Replies, UnreadMessages, EphemeralMessages, FieldMessages,
       MarkerMessages, InvitedMessages, LeftMessages, RoomMessages, ListMessages

(* What states a request can be in.                                        *)
LEMMA RequestForms ==
    ASSUME NEW F, NEW q \in RequestStates(F)
    PROVE  /\ q.kind \in {"none", "join", "joined", "mark", "reply", "change", "load", "page",
                          "loaded"}
           /\ q.kind = "reply" => q.msg \in Replies(F)
           /\ q.kind = "change" => /\ q \in ChangeRequests(F)
                                   /\ q.todo \in SUBSET (F \cap ToSet(ChangeOrder))
                                   /\ q.val \in Partial(F)
           /\ q.kind = "load" => q.f \in F
           /\ q.kind \in {"page", "loaded"} => q \in PageRequests /\ q.current \in Markers
BY DEF RequestStates, PlainRequests, ReplyRequests, ChangeRequests, LoadRequests, PageRequests

(* change_room takes its next field from those it has still to change.     *)
LEMMA FirstOfTypes ==
    ASSUME NEW fs \in SUBSET ToSet(ChangeOrder), fs # {}
    PROVE  FirstOf(fs) \in fs
<1> DEFINE S == {i \in DOMAIN ChangeOrder : ChangeOrder[i] \in fs}
<1>1. DOMAIN ChangeOrder = 1 .. 5
    BY DEF ChangeOrder
<1>2. S # {} /\ S \subseteq 1 .. 5
    BY <1>1 DEF ToSet
<1>3. \E x \in S : \A y \in S : x <= y
    BY <1>2
<1>4. Min(S) \in S
    BY <1>3 DEF Min
<1> QED
    BY <1>4 DEF FirstOf

-----------------------------------------------------------------------------
(* Types: the homeserver, the sync loop and the streams.                   *)

(* The fields of a behaviour are those of its types.                       *)
LEMMA FieldsAre ==
    ASSUME NEW F, HomeTypes(F)
    PROVE  Fields = F
BY DEF HomeTypes, Fields

(* The homeserver records an event.                                        *)
LEMMA RecordTypes ==
    ASSUME NEW F, HomeTypes(F), NEW e \in Events(F), Record(e)
    PROVE  changes' \in Times /\ pending' \in Seq(Events(F))
BY Bounds DEF HomeTypes, Record, Times

(* The homeserver changes a field.                                         *)
LEMMA ChangeTypes ==
    ASSUME NEW F, HomeTypes(F), NEW f \in F, Change(f)
    PROVE  HomeTypes(F)'
<1>1. server.val[f] + 1 \in Nat
    BY DEF HomeTypes
<1>2. [t |-> "field", f |-> f, v |-> server.val[f] + 1] \in Events(F)
    BY <1>1 DEF Events, FieldEvents
<1>3. changes' \in Times /\ pending' \in Seq(Events(F))
    BY <1>2, RecordTypes DEF Change
<1>4. server' \in [val : [F -> Nat], member : Members]
    BY <1>1 DEF Change, HomeTypes
<1> QED
    BY <1>3, <1>4 DEF HomeTypes

(* The homeserver moves our membership.                                    *)
LEMMA MemberTypes ==
    ASSUME NEW F, HomeTypes(F), NEW m \in DOMAIN Moves,
           server' = [server EXCEPT !.member = Moves[m].to],
           Record([t |-> "own", m |-> m])
    PROVE  HomeTypes(F)'
<1>1. [t |-> "own", m |-> m] \in Events(F)
    BY DEF Events, OwnEvents
<1>2. changes' \in Times /\ pending' \in Seq(Events(F))
    BY <1>1, RecordTypes
<1>3. server' \in [val : [F -> Nat], member : Members]
    BY MoveTypes DEF HomeTypes
<1> QED
    BY <1>2, <1>3 DEF HomeTypes

(* Homeserver keeps the types.                                             *)
LEMMA HomeserverTypes ==
    ASSUME NEW F, Types(F), Homeserver
    PROVE  Types(F)'
<1>1. HomeTypes(F) /\ Fields = F
    BY FieldsAre DEF Types
<1>2. OtherChanges
    BY DEF Homeserver
<1>3. HomeTypes(F)'
    <2>1. CASE \E f \in Fields : Change(f)
        BY <1>1, <2>1, ChangeTypes
    <2>2. CASE \E m \in DOMAIN Moves :
                 /\ server' = [server EXCEPT !.member = Moves[m].to]
                 /\ Record([t |-> "own", m |-> m])
        BY <1>1, <2>2, MemberTypes
    <2>3. ASSUME NEW e \in Events(F), Record(e), UNCHANGED server PROVE HomeTypes(F)'
        BY <1>1, <2>3, RecordTypes DEF HomeTypes
    <2>4. changes < MaxChanges => changes + 1 \in Times
        BY <1>1, Bounds DEF HomeTypes, Times
    <2>5. CASE UNCHANGED server /\ \E u \in Users : Record([t |-> "message", u |-> u, ts |-> changes + 1])
        <3>1. PICK u \in Users : Record([t |-> "message", u |-> u, ts |-> changes + 1])
            BY <2>5
        <3>2. [t |-> "message", u |-> u, ts |-> changes + 1] \in Events(F)
            BY <3>1, <2>4 DEF Record, Events, MessageEvents
        <3> QED
            BY <2>3, <2>5, <3>1, <3>2
    <2>6. CASE /\ UNCHANGED server
               /\ \E typing \in {TRUE, None}, u \in Users \cup {None} :
                    Record([t |-> "ephemeral", typing |-> typing, u |-> u, ts |-> changes + 1])
        <3>1. PICK typing \in {TRUE, None}, u \in Users \cup {None} :
                Record([t |-> "ephemeral", typing |-> typing, u |-> u, ts |-> changes + 1])
            BY <2>6
        <3>2. [t |-> "ephemeral", typing |-> typing, u |-> u, ts |-> changes + 1] \in Events(F)
            BY <3>1, <2>4 DEF Record, Events, EphemeralEvents
        <3> QED
            BY <2>3, <2>6, <3>1, <3>2
    <2>7. CASE UNCHANGED server /\ Record([t |-> "read"])
        <3>1. [t |-> "read"] \in Events(F)
            BY DEF Events, ReadEvents
        <3> QED
            BY <2>3, <2>7, <3>1
    <2> QED
        BY <1>2, <2>1, <2>2, <2>5, <2>6, <2>7 DEF OtherChanges
<1> QED
    BY <1>3 DEF Homeserver, Types, RoomTypes, HandlerTypes, ChannelTypes, QueueTypes, CacheTypes,
                RequestTypes, OutTypes, HistTypes

(* A room we move in stays a room.                                         *)
LEMMA MovedTypes ==
    ASSUME NEW F, RoomTypes(F), NEW m \in Members
    PROVE  Moved(m) \in [val : [F -> Nat], member : Members, unread : Nat]
BY DEF RoomTypes, Moved

(* What an event makes of the room and what its handlers queue.            *)
LEMMA SyncedTypes ==
    ASSUME NEW F, RoomTypes(F), NEW e \in Events(F), NEW k \in Nat
    PROVE  /\ Applied(e) \in [val : [F -> Nat], member : Members, unread : Nat]
           /\ HandlersOf(e, k) \in Seq(Actions(F))
           /\ UpdateOf(e) \in StreamActions
<1> USE EventForms DEF RoomTypes
<1>1. CASE e.t = "field"
    <2>1. Applied(e) = [room EXCEPT !.val[e.f] = e.v] /\ HandlersOf(e, k) = <<e>>
        BY <1>1 DEF Applied, HandlersOf
    <2>2. e \in Actions(F)
        BY <1>1 DEF Actions
    <2>3. UpdateOf(e) \in StreamActions
        BY <1>1, MarkerTypes DEF UpdateOf, StreamActions, UpdateActions
    <2>4. e.f \in F /\ e.v \in Nat
        BY <1>1
    <2>5. [room EXCEPT !.val[e.f] = e.v] \in [val : [F -> Nat], member : Members, unread : Nat]
        BY <2>4
    <2>6. <<e>> \in Seq(Actions(F))
        BY <2>2
    <2> QED
        BY <2>1, <2>3, <2>5, <2>6
<1>2. CASE e.t = "own"
    <2>1. /\ Applied(e) = Moved(Moves[e.m].to)
          /\ HandlersOf(e, k) = <<[t |-> "own", m |-> e.m, k |-> k]>>
        BY <1>2 DEF Applied, HandlersOf
    <2>2. [t |-> "own", m |-> e.m, k |-> k] \in Actions(F)
        BY <1>2 DEF Actions, OwnActions
    <2>3. UpdateOf(e) \in StreamActions
        BY <1>2, MarkerTypes DEF UpdateOf, StreamActions, UpdateActions
    <2>4. Moves[e.m].to \in Members
        BY <1>2, MoveTypes
    <2>5. Moved(Moves[e.m].to) \in [val : [F -> Nat], member : Members, unread : Nat]
        BY <2>4, MovedTypes
    <2>6. <<[t |-> "own", m |-> e.m, k |-> k]>> \in Seq(Actions(F))
        BY <2>2
    <2> QED
        BY <2>1, <2>3, <2>5, <2>6
<1>3. CASE e.t = "message"
    <2>1. /\ Applied(e) = [room EXCEPT !.unread = @ + 1]
          /\ HandlersOf(e, k) = <<[t |-> "any", u |-> e.u, ts |-> e.ts], [t |-> "message"]>>
        BY <1>3 DEF Applied, HandlersOf
    <2>2. [t |-> "any", u |-> e.u, ts |-> e.ts] \in Actions(F) /\ [t |-> "message"] \in Actions(F)
        BY <1>3 DEF Actions, AnyActions, OtherActions
    <2>3. UpdateOf(e) \in StreamActions
        BY <1>3, MarkerTypes DEF UpdateOf, StreamActions, UpdateActions
    <2> QED
        BY <1>3, <2>1, <2>2, <2>3
<1>4. CASE e.t = "ephemeral"
    <2>1. Applied(e) = room /\ HandlersOf(e, k) = <<>>
        BY <1>4 DEF Applied, HandlersOf
    <2>2. UpdateOf(e) \in StreamActions
        BY <1>4 DEF UpdateOf, StreamActions, UpdateActions
    <2> QED
        BY <2>1, <2>2
<1>5. CASE e.t = "read"
    <2>1. Applied(e) = [room EXCEPT !.unread = 0] /\ HandlersOf(e, k) = <<[t |-> "fully_read"]>>
        BY <1>5 DEF Applied, HandlersOf
    <2>2. [t |-> "fully_read"] \in Actions(F)
        BY DEF Actions, OtherActions
    <2>3. UpdateOf(e) \in StreamActions
        BY <1>5, MarkerTypes DEF UpdateOf, StreamActions, UpdateActions
    <2> QED
        BY <2>1, <2>2, <2>3
<1> QED
    BY <1>1, <1>2, <1>3, <1>4, <1>5

(* A stream stays one when something is pushed into it.                    *)
LEMMA PushTypes ==
    ASSUME NEW s \in Stream, NEW x \in StreamActions
    PROVE  Push(s, x) \in Stream
<1>1. Append(s.q, x) \in Seq(StreamActions)
    BY DEF Stream
<1>2. Len(s.q) = StreamCapacity => Append(Tail(s.q), x) \in Seq(StreamActions)
    BY Bounds DEF Stream
<1> QED
    BY <1>1, <1>2 DEF Push, Stream

(* Sync keeps the types.                                                   *)
LEMMA SyncTypes ==
    ASSUME NEW F, Types(F), Sync
    PROVE  Types(F)'
<1> DEFINE Rooms == [val : [F -> Nat], member : Members, unread : Nat]
<1>1. PICK e : e = Head(pending)
    OBVIOUS
<1>2. e \in Events(F) /\ pending' \in Seq(Events(F))
    BY <1>1 DEF Types, HomeTypes, Sync
<1>3. PICK k : k = hist'.moves
    OBVIOUS
<1>4. hist' \in Hist(F) /\ k \in Nat
    BY <1>3 DEF Sync, Types, HistTypes, Hist
<1>5. room' = Applied(e) /\ handlers' = HandlersOf(e, k)
    BY <1>1, <1>3 DEF Sync
<1>6. RoomTypes(F) /\ Applied(e) \in Rooms /\ HandlersOf(e, k) \in Seq(Actions(F))
      /\ UpdateOf(e) \in StreamActions
    BY <1>2, <1>4, SyncedTypes DEF Types
<1>7. PICK x : x = UpdateOf(e)
    OBVIOUS
<1>8. stream' \in [{"updates", "generic"} -> Stream]
    <2>1. stream \in [{"updates", "generic"} -> Stream] /\ DOMAIN stream = {"updates", "generic"}
        BY DEF Types, HandlerTypes
    <2>2. \A s \in {"updates", "generic"} : Push(stream[s], x) \in Stream
        BY <1>6, <1>7, <2>1, PushTypes
    <2>3. [t |-> "generic"] \in StreamActions
        BY DEF StreamActions, GenericActions
    <2>4. \A s \in {"updates", "generic"} : Push(stream[s], [t |-> "generic"]) \in Stream
        BY <2>1, <2>3, PushTypes
    <2>5. stream' = [s \in {"updates", "generic"} |->
                IF room'.member # "joined" THEN stream[s]
                ELSE IF s = "updates" THEN Push(stream[s], x)
                ELSE IF e.t = "message" THEN Push(stream[s], [t |-> "generic"])
                ELSE stream[s]]
        BY <1>1, <1>7, <2>1 DEF Sync
    <2> QED
        BY <2>1, <2>2, <2>4, <2>5
<1> QED
    BY <1>2, <1>4, <1>5, <1>6, <1>8 DEF Sync, Types, HomeTypes, RoomTypes, HandlerTypes,
       ChannelTypes, QueueTypes, CacheTypes, RequestTypes, OutTypes, HistTypes

(* Handle keeps the types.                                                 *)
LEMMA HandleTypes ==
    ASSUME NEW F, Types(F), Handle
    PROVE  Types(F)'
<1>1. PICK a : a = Head(handlers)
    OBVIOUS
<1>2. handlers # <<>> /\ handlers \in Seq(Actions(F)) /\ handlers' = Tail(handlers)
    BY DEF Types, HandlerTypes, Handle
<1>3. a \in Actions(F) /\ handlers' \in Seq(Actions(F))
    BY <1>1, <1>2
<1>4. /\ a.t = "field" => a.f \in F
      /\ a.t = "own" => a.k \in Nat
    BY <1>3, ActionForms
<1>5. hist \in Hist(F)
    BY DEF Types, HistTypes
<1>6. CASE /\ Len(channel) < ChannelCapacity
           /\ channel' = Append(channel, a)
           /\ hist' = [hist EXCEPT !.skipped = IF a.t = "field" THEN @ \ {a.f} ELSE @]
    <2>1. hist' \in Hist(F)
        BY <1>4, <1>5, <1>6 DEF Hist
    <2>2. ChannelTypes(F)'
        BY <1>3, <1>6, Bounds DEF Types, ChannelTypes
    <2> QED
        BY <1>3, <2>1, <2>2 DEF Handle, Types, HomeTypes, RoomTypes, HandlerTypes,
           QueueTypes, CacheTypes, RequestTypes, OutTypes, HistTypes
<1>7. CASE /\ hist' = [hist EXCEPT !.skipped = IF a.t = "field" THEN @ \cup {a.f} ELSE @,
                                   !.untold = IF a.t = "own" /\ a.m # "InvitationRejected"
                                                THEN @ \cup {a.k} ELSE @]
           /\ UNCHANGED channel
    <2>1. hist' \in Hist(F)
        BY <1>4, <1>5, <1>7 DEF Hist
    <2> QED
        BY <1>3, <1>7, <2>1 DEF Handle, Types, HomeTypes, RoomTypes, HandlerTypes, ChannelTypes,
           QueueTypes, CacheTypes, RequestTypes, OutTypes, HistTypes
<1> QED
    BY <1>1, <1>6, <1>7 DEF Handle

(* Forward keeps the types.                                                *)
LEMMA ForwardTypes ==
    ASSUME NEW F, Types(F), NEW s \in {"updates", "generic"}, Forward(s)
    PROVE  Types(F)'
<1>1. /\ stream \in [{"updates", "generic"} -> Stream] /\ stream[s] \in Stream
      /\ stream[s].q \in Seq(StreamActions) /\ stream[s].q # <<>>
    BY DEF Types, HandlerTypes, Forward, Stream
<1>2. <<>> \in Seq(StreamActions) /\ Tail(stream[s].q) \in Seq(StreamActions)
      /\ Head(stream[s].q) \in Actions(F)
    BY <1>1 DEF Actions
<1>3. \/ stream' = [stream EXCEPT ![s].open = FALSE, ![s].q = <<>>]
      \/ stream' = [stream EXCEPT ![s].q = Tail(@)]
    BY DEF Forward
<1>4. stream' \in [{"updates", "generic"} -> Stream]
    <2>1. /\ [stream[s] EXCEPT !.open = FALSE, !.q = <<>>] \in Stream
          /\ [stream[s] EXCEPT !.q = Tail(@)] \in Stream
        BY <1>1, <1>2 DEF Stream
    <2>2. CASE stream' = [stream EXCEPT ![s].open = FALSE, ![s].q = <<>>]
        BY <1>1, <2>1, <2>2
    <2>3. CASE stream' = [stream EXCEPT ![s].q = Tail(@)]
        BY <1>1, <2>1, <2>3
    <2> QED
        BY <1>3, <2>2, <2>3
<1>5. \/ UNCHANGED channel
      \/ Len(channel) < ChannelCapacity /\ channel' = Append(channel, Head(stream[s].q))
    BY DEF Forward
<1>6. ChannelTypes(F)'
    BY <1>2, <1>5, Bounds DEF Types, ChannelTypes
<1> QED
    BY <1>4, <1>6 DEF Forward, Types, HomeTypes, RoomTypes, HandlerTypes, ChannelTypes,
       QueueTypes, CacheTypes, RequestTypes, OutTypes, HistTypes

-----------------------------------------------------------------------------
(* Types: the executor.                                                    *)

(* What the executor leaves alone, and the action it takes.                *)
LEMMA TakesTypes ==
    ASSUME NEW F, Types(F), NEW t, Takes(t)
    PROVE  /\ Head(channel) \in Actions(F) /\ Head(channel).t = t
           /\ HomeTypes(F)' /\ RoomTypes(F)' /\ HandlerTypes(F)' /\ ChannelTypes(F)'
           /\ RequestTypes(F)'
           /\ UNCHANGED app
<1>1. /\ channel \in Seq(Actions(F)) /\ channel # <<>> /\ channel' = Tail(channel)
      /\ Len(channel) <= ChannelCapacity
    BY DEF Types, ChannelTypes, Takes
<1>2. Head(channel) \in Actions(F) /\ ChannelTypes(F)'
    BY <1>1, Bounds DEF ChannelTypes
<1> QED
    BY <1>2 DEF Takes, Types, HomeTypes, RoomTypes, HandlerTypes, RequestTypes

(* Messages that are sent are on their way.                                *)
LEMMA SendsTypes ==
    ASSUME NEW F, OutTypes(F), UNCHANGED app, NEW msgs \in Seq(Messages(F)), Sends(msgs)
    PROVE  OutTypes(F)'
BY DEF OutTypes, Sends

(* A snapshot of the room.                                                 *)
LEMMA SnapshotTypes ==
    ASSUME NEW F, Types(F)
    PROVE  Snapshot \in Snapshots(F)
BY DEF Types, RoomTypes, HistTypes, Hist, Snapshot, Snapshots

(* Messages of each kind.                                                  *)
LEMMA MessageTypes ==
    ASSUME NEW F
    PROVE  /\ Changes \subseteq Messages(F) /\ Replies(F) \subseteq Messages(F)
           /\ \A n \in Nat : [t |-> "unread", n |-> n] \in Changes
           /\ \A typing \in {TRUE, None}, ms \in Markers :
                [t |-> "ephemeral", typing |-> typing, markers |-> ms] \in Changes
           /\ \A val \in Partial(F), from \in {"executor", "request"} :
                [t |-> "fields", from |-> from, val |-> val] \in Messages(F)
           /\ \A ms \in Markers : [t |-> "markers", markers |-> ms] \in Messages(F)
           /\ [t |-> "invited"] \in Messages(F)
           /\ \A k \in Nat : [t |-> "left", moves |-> k] \in Replies(F)
           /\ \A s \in Snapshots(F) : [t |-> "room", snap |-> s] \in Replies(F)
           /\ \A s \in Snapshots(F) \cup {None} : [t |-> "list", snap |-> s] \in Replies(F)
BY DEF Messages, Changes, Replies, UnreadMessages, EphemeralMessages, FieldMessages,
       MarkerMessages, InvitedMessages, LeftMessages, RoomMessages, ListMessages

(* ExecField keeps the types.                                              *)
LEMMA ExecFieldTypes ==
    ASSUME NEW F, Types(F), ExecField
    PROVE  Types(F)'
<1>1. Takes("field") /\ UNCHANGED <<queued, cache>>
    BY DEF ExecField
<1>2. PICK a : a = Head(channel)
    OBVIOUS
<1>3. a \in Actions(F) /\ a.t = "field" /\ a.f \in F /\ a.v \in Nat
    BY <1>1, <1>2, TakesTypes, ActionForms
<1>4. Value(a) \in Nat
    BY <1>3 DEF Value, Types, RoomTypes
<1>5. PICK m : m = [t |-> "fields", from |-> "executor", val |-> Only(a.f, Value(a))]
    OBVIOUS
<1>6. PICK m0 : m0 = [t |-> "fields", from |-> "executor", val |-> Only(a.f, 0)]
    OBVIOUS
<1>7. /\ <<m>> \in Seq(Messages(F)) /\ <<m0>> \in Seq(Messages(F))
      /\ <<>> \in Seq(Messages(F))
    <2>1. m \in Messages(F) /\ m0 \in Messages(F)
        BY <1>3, <1>4, <1>5, <1>6, PartialTypes, MessageTypes
    <2> QED
        BY <2>1
<1>8. /\ Sends(<<m>>) \/ Sends(<<m0>>) \/ Sends(<<>>)
      /\ UNCHANGED hist \/ hist' = [hist EXCEPT !.skipped = @ \cup {a.f}]
    BY <1>2, <1>5, <1>6 DEF ExecField
<1>9. OutTypes(F)'
    BY <1>1, <1>7, <1>8, TakesTypes, SendsTypes DEF Types
<1>10. HistTypes(F)'
    BY <1>3, <1>8 DEF Types, HistTypes, Hist
<1> QED
    BY <1>1, <1>9, <1>10, TakesTypes DEF Types, QueueTypes, CacheTypes

(* ExecOwn keeps the types.                                                *)
LEMMA ExecOwnTypes ==
    ASSUME NEW F, Types(F), ExecOwn
    PROVE  Types(F)'
<1>1. Takes("own") /\ UNCHANGED <<queued, cache>>
    BY DEF ExecOwn
<1>2. PICK a : a = Head(channel)
    OBVIOUS
<1>3. a \in Actions(F) /\ a.t = "own" /\ a.k \in Nat
    BY <1>1, <1>2, TakesTypes, ActionForms
<1>4. PICK s : s = Snapshot
    OBVIOUS
<1>5. PICK p : p = Restrict(room.val, Fields \cap {"members"})
    OBVIOUS
<1>6. s \in Snapshots(F) /\ p \in Partial(F)
    <2>1. Fields = F /\ room.val \in [F -> Nat]
        BY FieldsAre DEF Types, RoomTypes
    <2> QED
        BY <1>4, <1>5, <2>1, SnapshotTypes, PartialTypes
<1>7. /\ <<[t |-> "invited"]>> \in Seq(Messages(F))
      /\ <<[t |-> "left", moves |-> a.k]>> \in Seq(Messages(F))
      /\ <<[t |-> "room", snap |-> s]>> \in Seq(Messages(F))
      /\ <<[t |-> "fields", from |-> "executor", val |-> p]>> \in Seq(Messages(F))
      /\ <<>> \in Seq(Messages(F))
    <2>1. /\ [t |-> "invited"] \in Messages(F)
          /\ [t |-> "left", moves |-> a.k] \in Messages(F)
          /\ [t |-> "room", snap |-> s] \in Messages(F)
        BY <1>3, <1>6, MessageTypes
    <2>2. [t |-> "fields", from |-> "executor", val |-> p] \in Messages(F)
        BY <1>6, MessageTypes
    <2>3. \A x \in Messages(F) : <<x>> \in Seq(Messages(F))
        OBVIOUS
    <2> QED
        BY <2>1, <2>2, <2>3
<1>8. /\ \/ Sends(<<[t |-> "invited"]>>)
         \/ Sends(<<[t |-> "left", moves |-> a.k]>>)
         \/ Sends(<<[t |-> "room", snap |-> s]>>)
         \/ Sends(<<[t |-> "fields", from |-> "executor", val |-> p]>>)
         \/ Sends(<<>>)
      /\ UNCHANGED hist \/ hist' = [hist EXCEPT !.untold = @ \cup {a.k}]
    BY <1>2, <1>4, <1>5 DEF ExecOwn
<1>9. OutTypes(F)'
    BY <1>1, <1>7, <1>8, TakesTypes, SendsTypes DEF Types
<1>10. HistTypes(F)'
    BY <1>3, <1>8 DEF Types, HistTypes, Hist
<1> QED
    BY <1>1, <1>9, <1>10, TakesTypes DEF Types, QueueTypes, CacheTypes

(* ExecAny keeps the types.                                                *)
LEMMA ExecAnyTypes ==
    ASSUME NEW F, Types(F), ExecAny
    PROVE  Types(F)'
<1>1. Takes("any") /\ UNCHANGED queued
    BY DEF ExecAny
<1>2. PICK a : a = Head(channel)
    OBVIOUS
<1>3. a \in Actions(F) /\ a.u \in Users /\ a.ts \in Times
    BY <1>1, <1>2, TakesTypes, ActionForms
<1>4. PICK ms : ms = [NoMarkers EXCEPT ![a.u] = a.ts]
    OBVIOUS
<1>5. ms \in Markers
    BY <1>3, <1>4, MarkerTypes
<1>6. <<[t |-> "markers", markers |-> ms]>> \in Seq(Messages(F)) /\ <<>> \in Seq(Messages(F))
    BY <1>5, MessageTypes
<1>7. /\ Sends(<<[t |-> "markers", markers |-> ms]>>) \/ Sends(<<>>)
      /\ UNCHANGED hist \/ hist' = [hist EXCEPT !.silent = @ \ {a.u}]
                        \/ hist' = [hist EXCEPT !.silent = @]
      /\ \/ cache' = [cache EXCEPT !.known = TRUE, !.markers[a.u] = a.ts]
         \/ cache' = [cache EXCEPT !.known = TRUE, !.markers[a.u] = @]
    BY <1>2, <1>4 DEF ExecAny
<1>8. OutTypes(F)'
    BY <1>1, <1>6, <1>7, TakesTypes, SendsTypes DEF Types
<1>9. HistTypes(F)'
    BY <1>3, <1>7 DEF Types, HistTypes, Hist
<1>10. CacheTypes'
    <2>1. cache.markers \in Markers /\ [cache.markers EXCEPT ![a.u] = a.ts] \in Markers
        BY <1>3, MarkerTypes DEF Types, CacheTypes
    <2>2. cache.markers \in Markers /\ [cache.markers EXCEPT ![a.u] = @] = cache.markers
        BY <2>1 DEF Markers
    <2> QED
        BY <1>7, <2>1, <2>2 DEF Types, CacheTypes
<1> QED
    BY <1>1, <1>8, <1>9, <1>10, TakesTypes DEF Types, QueueTypes

(* ExecMessage keeps the types.                                            *)
LEMMA ExecMessageTypes ==
    ASSUME NEW F, Types(F), ExecMessage
    PROVE  Types(F)'
<1>1. Takes("message") /\ UNCHANGED <<out, queued, hist>>
    BY DEF ExecMessage
<1>2. \/ cache' = [cache EXCEPT !.marked = "none"]
      \/ cache' = [cache EXCEPT !.marked = @]
    BY DEF ExecMessage
<1>3. CacheTypes'
    BY <1>2 DEF Types, CacheTypes
<1> QED
    BY <1>1, <1>3, TakesTypes DEF Types, QueueTypes, OutTypes, HistTypes

(* The queue of changes keeps to its limit.                                *)
LEMMA TrackTypes ==
    ASSUME NEW q \in Seq(Changes), Len(q) <= MaxQueued, NEW c \in Changes
    PROVE  /\ track_room_change(q, c) \in Seq(Changes)
           /\ Len(track_room_change(q, c)) <= MaxQueued
BY Bounds DEF track_room_change

(* The unread count is tracked and sent.                                   *)
LEMMA CountTypes ==
    ASSUME NEW F, Types(F), NEW u, u = update_room_unread_count(queued)
    PROVE  /\ u.q \in Seq(Changes) /\ Len(u.q) <= MaxQueued
           /\ u.send \in Seq(Changes) /\ u.send \in Seq(Messages(F))
<1>1. UnreadChange \in Changes /\ UnreadChange \in Messages(F)
    BY MessageTypes DEF UnreadChange, Types, RoomTypes
<1>2. queued \in Seq(Changes) /\ Len(queued) <= MaxQueued
    BY DEF Types, QueueTypes
<1> QED
    BY <1>1, <1>2, TrackTypes DEF update_room_unread_count

(* ExecCount keeps the types.                                              *)
LEMMA ExecCountTypes ==
    ASSUME NEW F, Types(F), ExecCount
    PROVE  Types(F)'
<1>1. (Takes("fully_read") \/ Takes("generic")) /\ UNCHANGED cache
    BY DEF ExecCount
<1>2. PICK u : u = update_room_unread_count(queued)
    OBVIOUS
<1>3. /\ queued' = u.q /\ Sends(u.send)
      /\ hist' = [hist EXCEPT !.zeroed = StillZeroed(u.send), !.overlap = @ /\ u.send = <<>>]
    BY <1>2 DEF ExecCount
<1>4. StillZeroed(u.send) \in BOOLEAN
    BY DEF StillZeroed, Withheld
<1>5. HistTypes(F)'
    BY <1>3, <1>4 DEF Types, HistTypes, Hist
<1>6. OutTypes(F)'
    BY <1>1, <1>2, <1>3, CountTypes, TakesTypes, SendsTypes DEF Types
<1> QED
    BY <1>1, <1>2, <1>3, <1>5, <1>6, CountTypes, TakesTypes DEF Types, QueueTypes, CacheTypes

(* ExecDiscovered keeps the types.                                         *)
LEMMA ExecDiscoveredTypes ==
    ASSUME NEW F, Types(F), ExecDiscovered
    PROVE  Types(F)'
<1>1. /\ Takes("discovered") /\ UNCHANGED cache /\ Sends(queued) /\ queued' = <<>>
      /\ hist' = [hist EXCEPT !.drops = @ + 1]
    BY DEF ExecDiscovered
<1>2. queued \in Seq(Messages(F)) /\ QueueTypes'
    BY <1>1, MessageTypes, Bounds DEF Types, QueueTypes
<1>3. OutTypes(F)'
    BY <1>1, <1>2, TakesTypes DEF Types, OutTypes, Sends
<1>4. HistTypes(F)'
    BY <1>1 DEF Types, HistTypes, Hist
<1> QED
    BY <1>1, <1>2, <1>3, <1>4, TakesTypes DEF Types, CacheTypes

(* What an update tells besides the unread count: the change c, whether it *)
(* has a newer read marker, and whether it is sent.                        *)
UpdateNewer(a) == a.u # None /\ a.ts > cache.markers[a.u]
UpdateChange(a) ==
    [t |-> "ephemeral", typing |-> a.typing,
     markers |-> IF UpdateNewer(a) THEN [NoMarkers EXCEPT ![a.u] = a.ts] ELSE NoMarkers]
UpdateSent(a, q) ==
    (a.typing # None \/ UpdateNewer(a)) /\ is_new_room_change(q, UpdateChange(a))

(* ExecUpdate keeps the types.                                             *)
LEMMA ExecUpdateTypes ==
    ASSUME NEW F, Types(F), ExecUpdate
    PROVE  Types(F)'
<1>1. PICK a : a = Head(channel)
    OBVIOUS
<1>2. PICK u : u = update_room_unread_count(queued)
    OBVIOUS
<1>3. PICK c : c = UpdateChange(a)
    OBVIOUS
<1>4. PICK new : new = UpdateSent(a, u.q)
    OBVIOUS
<1>5. PICK newer : newer = UpdateNewer(a)
    OBVIOUS
<1>6. /\ Takes("update")
      /\ queued' = IF new THEN track_room_change(u.q, c) ELSE u.q
      /\ Sends(IF new THEN Append(u.send, c) ELSE u.send)
      /\ cache' = IF a.u = None THEN cache
                  ELSE [cache EXCEPT !.known = TRUE,
                                     !.markers[a.u] = IF newer THEN a.ts ELSE @]
      /\ hist' = [hist EXCEPT
           !.drops = IF new /\ Evicts(u.q, c) THEN @ + 1 ELSE @,
           !.overlap = u.send = <<>> /\ (@ \/ (new /\ Evicts(u.q, c) /\ Replays(channel))),
           !.zeroed = StillZeroed(u.send),
           !.silent = IF newer THEN @ \ {a.u} ELSE @]
    BY <1>1, <1>2, <1>3, <1>4, <1>5 DEF ExecUpdate, UpdateChange, UpdateSent, UpdateNewer
<1>7. a.typing \in {TRUE, None} /\ a.u \in Users \cup {None} /\ a.ts \in Times
    BY <1>1, <1>6, TakesTypes, ActionForms
<1>8. newer => a.u \in Users
    BY <1>5, <1>7 DEF UpdateNewer
<1>9. c \in Changes
    <2>1. newer => [NoMarkers EXCEPT ![a.u] = a.ts] \in Markers
        BY <1>7, <1>8, MarkerTypes
    <2>2. (IF newer THEN [NoMarkers EXCEPT ![a.u] = a.ts] ELSE NoMarkers) \in Markers
        BY <2>1, MarkerTypes
    <2>3. c = [t |-> "ephemeral", typing |-> a.typing,
               markers |-> IF newer THEN [NoMarkers EXCEPT ![a.u] = a.ts] ELSE NoMarkers]
        BY <1>3, <1>5 DEF UpdateChange
    <2> QED
        BY <1>7, <2>2, <2>3, MessageTypes
<1>10. /\ u.q \in Seq(Changes) /\ Len(u.q) <= MaxQueued
       /\ u.send \in Seq(Changes) /\ u.send \in Seq(Messages(F))
    BY <1>2, CountTypes
<1>11. QueueTypes'
    BY <1>6, <1>9, <1>10, TrackTypes DEF QueueTypes
<1>12. OutTypes(F)'
    <2>1. c \in Messages(F)
        BY <1>9, MessageTypes
    <2>2. (IF new THEN Append(u.send, c) ELSE u.send) \in Seq(Messages(F))
        BY <1>10, <2>1
    <2> QED
        BY <1>6, <2>2, TakesTypes, SendsTypes DEF Types
<1>13. CacheTypes'
    <2>1. cache.markers \in Markers
          /\ (a.u # None => [cache.markers EXCEPT ![a.u] = a.ts] \in Markers)
        BY <1>7, MarkerTypes DEF Types, CacheTypes
    <2>2. [cache.markers EXCEPT ![a.u] = @] = cache.markers
        BY <2>1 DEF Markers
    <2>3. \/ cache' = cache
          \/ cache' = [cache EXCEPT !.known = TRUE, !.markers[a.u] = @]
          \/ a.u # None /\ cache' = [cache EXCEPT !.known = TRUE, !.markers[a.u] = a.ts]
        BY <1>6
    <2> QED
        BY <2>1, <2>2, <2>3 DEF Types, CacheTypes
<1>14. HistTypes(F)'
    <2>1. StillZeroed(u.send) \in BOOLEAN
        BY DEF StillZeroed, Withheld
    <2>2. PICK d : d = IF new /\ Evicts(u.q, c) THEN hist.drops + 1 ELSE hist.drops
        OBVIOUS
    <2>3. PICK sl : sl = IF newer THEN hist.silent \ {a.u} ELSE hist.silent
        OBVIOUS
    <2>4. hist \in Hist(F)
        BY DEF Types, HistTypes
    <2>5. d \in Nat /\ sl \in SUBSET Users
        BY <2>2, <2>3, <2>4 DEF Hist
    <2>6. PICK v \in BOOLEAN :
             v = (u.send = <<>> /\ (hist.overlap \/ (new /\ Evicts(u.q, c) /\ Replays(channel))))
        OBVIOUS
    <2>7. hist' = [hist EXCEPT !.drops = d, !.overlap = v, !.zeroed = StillZeroed(u.send),
                               !.silent = sl]
        BY <1>6, <2>2, <2>3, <2>6
    <2> QED
        BY <2>1, <2>4, <2>5, <2>7 DEF HistTypes, Hist
<1> QED
    BY <1>6, <1>11, <1>12, <1>13, <1>14, TakesTypes DEF Types

(* The executor keeps the types.                                           *)
LEMMA ExecutorTypes ==
    ASSUME NEW F, Types(F), Executor
    PROVE  Types(F)'
BY ExecFieldTypes, ExecOwnTypes, ExecAnyTypes, ExecMessageTypes, ExecCountTypes, ExecUpdateTypes,
   ExecDiscoveredTypes DEF Executor

(* Expire keeps the types.                                                 *)
LEMMA ExpireTypes ==
    ASSUME NEW F, Types(F), Expire
    PROVE  Types(F)'
<1>1. CacheTypes'
    BY DEF Types, CacheTypes, Expire
<1> QED
    BY <1>1 DEF Expire, Types, HomeTypes, RoomTypes, HandlerTypes, ChannelTypes, QueueTypes,
       RequestTypes, OutTypes, HistTypes

-----------------------------------------------------------------------------
(* Types: the requests.                                                    *)

(* States of a request of each kind.                                       *)
LEMMA RequestMade ==
    ASSUME NEW F
    PROVE  /\ Idle \in RequestStates(F)
           /\ [kind |-> "join"] \in RequestStates(F)
           /\ [kind |-> "joined"] \in RequestStates(F)
           /\ [kind |-> "mark"] \in RequestStates(F)
           /\ \A m \in Replies(F) : Answer(m) \in RequestStates(F)
           /\ \A fs \in SUBSET (F \cap ToSet(ChangeOrder)), val \in Partial(F) :
                [kind |-> "change", todo |-> fs, val |-> val] \in RequestStates(F)
           /\ \A f \in F : [kind |-> "load", f |-> f] \in RequestStates(F)
           /\ \A ms \in Markers : [kind |-> "page", current |-> ms] \in RequestStates(F)
BY DEF Idle, Answer, RequestStates, PlainRequests, ReplyRequests, ChangeRequests, LoadRequests,
       PageRequests

(* What the beginning of a request leaves well typed.                      *)
LEMMA BeginTypes ==
    ASSUME NEW F, Types(F), NEW r \in Requests, NEW q \in RequestStates(F), Begin(r, q)
    PROVE  HandlerTypes(F)' /\ ChannelTypes(F)' /\ QueueTypes' /\ RequestTypes(F)' /\ OutTypes(F)'
<1>1. RequestTypes(F)'
    BY Bounds DEF Types, RequestTypes, Begin
<1> QED
    BY <1>1 DEF Begin, Types, HandlerTypes, ChannelTypes, QueueTypes, OutTypes

(* What a later step of a request leaves well typed.                       *)
LEMMA GoesOnTypes ==
    ASSUME NEW F, Types(F), NEW r \in Requests, NEW q \in RequestStates(F), GoesOn(r, q)
    PROVE  /\ HandlerTypes(F)' /\ ChannelTypes(F)' /\ QueueTypes' /\ RequestTypes(F)'
           /\ UNCHANGED app
<1>1. RequestTypes(F)'
    BY DEF Types, RequestTypes, GoesOn
<1> QED
    BY <1>1 DEF GoesOn, Types, HandlerTypes, ChannelTypes, QueueTypes

(* GetRooms keeps the types.                                               *)
LEMMA GetRoomsTypes ==
    ASSUME NEW F, Types(F), NEW r \in Requests, GetRooms(r)
    PROVE  Types(F)'
<1>1. PICK s : s = Snapshot
    OBVIOUS
<1>2. s \in Snapshots(F)
    BY <1>1, SnapshotTypes
<1>3. /\ Answer([t |-> "list", snap |-> s]) \in RequestStates(F)
      /\ Answer([t |-> "list", snap |-> None]) \in RequestStates(F)
    BY <1>2, MessageTypes, RequestMade
<1>4. \/ Begin(r, Answer([t |-> "list", snap |-> s]))
      \/ Begin(r, Answer([t |-> "list", snap |-> None]))
    BY <1>1 DEF GetRooms
<1>5. HandlerTypes(F)' /\ ChannelTypes(F)' /\ QueueTypes' /\ RequestTypes(F)' /\ OutTypes(F)'
    BY <1>3, <1>4, BeginTypes
<1> QED
    BY <1>5 DEF GetRooms, Types, HomeTypes, RoomTypes, CacheTypes, HistTypes

(* A request moves our membership.                                         *)
LEMMA MoveStepTypes ==
    ASSUME NEW F, Types(F), NEW m \in DOMAIN Moves, Move(m)
    PROVE  HomeTypes(F)' /\ RoomTypes(F)' /\ HistTypes(F)'
<1>1. HomeTypes(F)'
    BY MemberTypes DEF Types, Move
<1>2. RoomTypes(F)'
    <2>1. Moves[m].to \in Members
        BY MoveTypes
    <2>2. Moved(Moves[m].to) \in [val : [F -> Nat], member : Members, unread : Nat]
        BY <2>1, MovedTypes DEF Types
    <2> QED
        BY <2>2 DEF Move, RoomTypes
<1>3. HistTypes(F)'
    BY DEF Move, Types, HistTypes, Hist
<1> QED
    BY <1>1, <1>2, <1>3

(* JoinRoom keeps the types.                                               *)
LEMMA JoinRoomTypes ==
    ASSUME NEW F, Types(F), NEW r \in Requests, JoinRoom(r)
    PROVE  Types(F)'
<1>1. /\ Move("Joined") \/ Move("InvitationAccepted")
      /\ Begin(r, [kind |-> "join"]) /\ UNCHANGED cache
    BY DEF JoinRoom
<1>2. HomeTypes(F)' /\ RoomTypes(F)' /\ HistTypes(F)'
    BY <1>1, MoveStepTypes, MoveTypes
<1>3. HandlerTypes(F)' /\ ChannelTypes(F)' /\ QueueTypes' /\ RequestTypes(F)' /\ OutTypes(F)'
    BY <1>1, BeginTypes, RequestMade
<1> QED
    BY <1>1, <1>2, <1>3 DEF Types, CacheTypes

(* UploadAvatar keeps the types.                                           *)
LEMMA UploadAvatarTypes ==
    ASSUME NEW F, Types(F), NEW r \in Requests, UploadAvatar(r)
    PROVE  Types(F)'
<1>1. /\ "avatar" \in Fields /\ Change("avatar") /\ GoesOn(r, [kind |-> "joined"])
      /\ UNCHANGED <<room, cache, out, hist>>
    BY DEF UploadAvatar
<1>2. HomeTypes(F)'
    BY <1>1, FieldsAre, ChangeTypes DEF Types
<1>3. /\ HandlerTypes(F)' /\ ChannelTypes(F)' /\ QueueTypes' /\ RequestTypes(F)'
      /\ UNCHANGED app
    BY <1>1, GoesOnTypes, RequestMade
<1> QED
    BY <1>1, <1>2, <1>3 DEF Types, RoomTypes, CacheTypes, HistTypes, OutTypes

(* Assemble keeps the types.                                               *)
LEMMA AssembleTypes ==
    ASSUME NEW F, Types(F), NEW r \in Requests, Assemble(r)
    PROVE  Types(F)'
<1>1. PICK s : s = Snapshot
    OBVIOUS
<1>2. Answer([t |-> "room", snap |-> s]) \in RequestStates(F) /\ Idle \in RequestStates(F)
    BY <1>1, SnapshotTypes, MessageTypes, RequestMade
<1>3. /\ GoesOn(r, Answer([t |-> "room", snap |-> s])) \/ GoesOn(r, Idle)
      /\ UNCHANGED hist \/ hist' = [hist EXCEPT !.untold = @ \cup {hist.moves}]
      /\ UNCHANGED <<changes, server, pending, room, cache, out>>
    BY <1>1 DEF Assemble
<1>4. /\ HandlerTypes(F)' /\ ChannelTypes(F)' /\ QueueTypes' /\ RequestTypes(F)'
      /\ UNCHANGED app
    BY <1>2, <1>3, GoesOnTypes
<1>5. HistTypes(F)'
    BY <1>3 DEF Types, HistTypes, Hist
<1> QED
    BY <1>3, <1>4, <1>5 DEF Types, HomeTypes, RoomTypes, CacheTypes, OutTypes

(* LeaveRoom keeps the types.                                              *)
LEMMA LeaveRoomTypes ==
    ASSUME NEW F, Types(F), NEW r \in Requests, LeaveRoom(r)
    PROVE  Types(F)'
<1>1. PICK k : k = hist'.moves
    OBVIOUS
<1>2. /\ Move("InvitationRejected") \/ Move("Left")
      /\ Begin(r, Answer([t |-> "left", moves |-> k])) \/ Begin(r, Idle)
      /\ UNCHANGED cache
    BY <1>1 DEF LeaveRoom
<1>3. HomeTypes(F)' /\ RoomTypes(F)' /\ HistTypes(F)'
    BY <1>2, MoveStepTypes, MoveTypes
<1>4. k \in Nat
    BY <1>1, <1>3 DEF HistTypes, Hist
<1>5. Answer([t |-> "left", moves |-> k]) \in RequestStates(F) /\ Idle \in RequestStates(F)
    BY <1>4, MessageTypes, RequestMade
<1>6. HandlerTypes(F)' /\ ChannelTypes(F)' /\ QueueTypes' /\ RequestTypes(F)' /\ OutTypes(F)'
    BY <1>2, <1>5, BeginTypes
<1> QED
    BY <1>2, <1>3, <1>6 DEF Types, CacheTypes

(* ChangeRoom keeps the types.                                             *)
LEMMA ChangeRoomTypes ==
    ASSUME NEW F, Types(F), NEW r \in Requests, ChangeRoom(r)
    PROVE  Types(F)'
<1>1. Fields = F
    BY FieldsAre DEF Types
<1>2. PICK fs \in SUBSET (F \cap ToSet(ChangeOrder)) :
        Begin(r, [kind |-> "change", todo |-> fs, val |-> <<>>])
    BY <1>1 DEF ChangeRoom
<1>3. [kind |-> "change", todo |-> fs, val |-> <<>>] \in RequestStates(F)
    BY RequestMade, PartialTypes
<1>4. HandlerTypes(F)' /\ ChannelTypes(F)' /\ QueueTypes' /\ RequestTypes(F)' /\ OutTypes(F)'
    BY <1>2, <1>3, BeginTypes
<1> QED
    BY <1>4 DEF ChangeRoom, Types, HomeTypes, RoomTypes, CacheTypes, HistTypes

(* The state of change_room after field f was changed, or passed over.     *)
ChangedField(q, f) == [q EXCEPT !.todo = @ \ {f}, !.val = With(@, f, server.val[f] + 1)]
PassedField(q, f) == [q EXCEPT !.todo = @ \ {f}]

(* The steps of ChangeField for the field f it takes.                      *)
LEMMA ChangeFieldSteps ==
    ASSUME NEW F, Types(F), NEW r \in Requests, ChangeField(r)
    PROVE  \E f \in F :
             /\ f = FirstOf(request[r].todo)
             /\ request[r].kind = "change"
             /\ UNCHANGED <<room, cache, out, hist>>
             /\ \/ Change(f) /\ GoesOn(r, ChangedField(request[r], f))
                \/ UNCHANGED <<changes, server, pending>> /\ GoesOn(r, PassedField(request[r], f))
                \/ UNCHANGED <<changes, server, pending>> /\ GoesOn(r, Idle)
                \/ Change(f) /\ GoesOn(r, Idle)
<1>1. PICK f : f = FirstOf(request[r].todo)
    OBVIOUS
<1>2. request[r].kind = "change" /\ request[r].todo # {} /\ request[r] \in RequestStates(F)
    BY DEF ChangeField, Types, RequestTypes
<1>3. request[r].todo \in SUBSET (F \cap ToSet(ChangeOrder)) /\ request[r] \in ChangeRequests(F)
    BY <1>2, RequestForms
<1>4. f \in F
    BY <1>1, <1>2, <1>3, FirstOfTypes
<1>5. \A v : [PassedField(request[r], f) EXCEPT !.val = With(@, f, v)]
               = [request[r] EXCEPT !.todo = @ \ {f}, !.val = With(@, f, v)]
    BY <1>3 DEF PassedField, ChangeRequests
<1> QED
    BY <1>1, <1>2, <1>4, <1>5 DEF ChangeField, ChangedField, PassedField, VisibilityFails, NothingToRemove

(* ChangeField keeps the types.                                            *)
LEMMA ChangeFieldTypes ==
    ASSUME NEW F, Types(F), NEW r \in Requests, ChangeField(r)
    PROVE  Types(F)'
<1>1. PICK f \in F :
             /\ f = FirstOf(request[r].todo)
             /\ request[r].kind = "change"
             /\ UNCHANGED <<room, cache, out, hist>>
             /\ \/ Change(f) /\ GoesOn(r, ChangedField(request[r], f))
                \/ UNCHANGED <<changes, server, pending>> /\ GoesOn(r, PassedField(request[r], f))
                \/ UNCHANGED <<changes, server, pending>> /\ GoesOn(r, Idle)
                \/ Change(f) /\ GoesOn(r, Idle)
    BY ChangeFieldSteps
<1>2. HomeTypes(F)'
    BY <1>1, ChangeTypes DEF Types, HomeTypes
<1>3. PICK q1 : q1 = ChangedField(request[r], f)
    OBVIOUS
<1>4. PICK q2 : q2 = PassedField(request[r], f)
    OBVIOUS
<1>5. Idle \in RequestStates(F) /\ q1 \in RequestStates(F) /\ q2 \in RequestStates(F)
    <2>1. request[r] \in ChangeRequests(F)
        BY <1>1, RequestForms DEF Types, RequestTypes
    <2>2. server.val[f] + 1 \in Nat
        BY DEF Types, HomeTypes
    <2>3. With(request[r].val, f, server.val[f] + 1) \in Partial(F)
        BY <2>1, <2>2, PartialTypes DEF ChangeRequests
    <2>4. q1 \in ChangeRequests(F) /\ q2 \in ChangeRequests(F)
        BY <1>3, <1>4, <2>1, <2>3 DEF ChangeRequests, ChangedField, PassedField
    <2> QED
        BY <2>4, RequestMade DEF RequestStates
<1>6. /\ HandlerTypes(F)' /\ ChannelTypes(F)' /\ QueueTypes' /\ RequestTypes(F)'
      /\ UNCHANGED app
    BY <1>1, <1>3, <1>4, <1>5, GoesOnTypes
<1> QED
    BY <1>1, <1>2, <1>6 DEF Types, RoomTypes, CacheTypes, OutTypes, HistTypes

(* A request that ends with a message.                                     *)
LEMMA AnsweredTypes ==
    ASSUME NEW F, Types(F), NEW r \in Requests, NEW m \in Messages(F),
           out' = Append(out, m), GoesOn(r, Idle)
    PROVE  /\ HandlerTypes(F)' /\ ChannelTypes(F)' /\ QueueTypes' /\ RequestTypes(F)'
           /\ OutTypes(F)'
<1>1. /\ HandlerTypes(F)' /\ ChannelTypes(F)' /\ QueueTypes' /\ RequestTypes(F)'
      /\ UNCHANGED app
    BY GoesOnTypes, RequestMade
<1> QED
    BY <1>1 DEF Types, OutTypes

(* ChangeDone keeps the types.                                             *)
LEMMA ChangeDoneTypes ==
    ASSUME NEW F, Types(F), NEW r \in Requests, ChangeDone(r)
    PROVE  Types(F)'
<1>1. /\ request[r].kind = "change" /\ GoesOn(r, Idle)
      /\ out' = Append(out, [t |-> "fields", from |-> "request", val |-> request[r].val])
      /\ UNCHANGED <<changes, server, pending, room, cache, hist>>
    BY DEF ChangeDone
<1>2. PICK m : m = [t |-> "fields", from |-> "request", val |-> request[r].val]
    OBVIOUS
<1>3. m \in Messages(F)
    BY <1>1, <1>2, RequestForms, MessageTypes DEF Types, RequestTypes
<1>4. /\ HandlerTypes(F)' /\ ChannelTypes(F)' /\ QueueTypes' /\ RequestTypes(F)' /\ OutTypes(F)'
    BY <1>1, <1>2, <1>3, AnsweredTypes
<1> QED
    BY <1>1, <1>4 DEF Types, HomeTypes, RoomTypes, CacheTypes, HistTypes

(* PinOrInvite keeps the types.                                            *)
LEMMA PinOrInviteTypes ==
    ASSUME NEW F, Types(F), NEW r \in Requests, PinOrInvite(r)
    PROVE  Types(F)'
<1>1. PICK f \in F : Change(f) /\ Begin(r, [kind |-> "load", f |-> f])
    BY FieldsAre DEF PinOrInvite, Types
<1>2. HomeTypes(F)'
    BY <1>1, ChangeTypes DEF Types
<1>3. HandlerTypes(F)' /\ ChannelTypes(F)' /\ QueueTypes' /\ RequestTypes(F)' /\ OutTypes(F)'
    BY <1>1, BeginTypes, RequestMade
<1> QED
    BY <1>2, <1>3 DEF PinOrInvite, Types, RoomTypes, CacheTypes, HistTypes

(* LoadReply keeps the types.                                              *)
LEMMA LoadReplyTypes ==
    ASSUME NEW F, Types(F), NEW r \in Requests, LoadReply(r)
    PROVE  Types(F)'
<1>1. /\ request[r].kind = "load" /\ GoesOn(r, Idle)
      /\ UNCHANGED <<changes, server, pending, room, cache, hist>>
    BY DEF LoadReply
<1>2. PICK f : f = request[r].f
    OBVIOUS
<1>3. f \in F /\ room.val[f] \in Nat /\ server.val[f] \in Nat
    BY <1>1, <1>2, RequestForms DEF Types, RequestTypes, RoomTypes, HomeTypes
<1>4. CASE UNCHANGED out
    <2>1. /\ HandlerTypes(F)' /\ ChannelTypes(F)' /\ QueueTypes' /\ RequestTypes(F)'
          /\ UNCHANGED app
        BY <1>1, GoesOnTypes, RequestMade
    <2> QED
        BY <1>1, <1>4, <2>1 DEF Types, HomeTypes, RoomTypes, CacheTypes, HistTypes, OutTypes
<1>5. CASE \E v \in Nat : out' = Append(out, [t |-> "fields", from |-> "request", val |-> Only(f, v)])
    <2>1. PICK v \in Nat : out' = Append(out, [t |-> "fields", from |-> "request", val |-> Only(f, v)])
        BY <1>5
    <2>2. [t |-> "fields", from |-> "request", val |-> Only(f, v)] \in Messages(F)
        BY <1>3, PartialTypes, MessageTypes
    <2>3. /\ HandlerTypes(F)' /\ ChannelTypes(F)' /\ QueueTypes' /\ RequestTypes(F)' /\ OutTypes(F)'
        BY <1>1, <2>1, <2>2, AnsweredTypes
    <2> QED
        BY <1>1, <2>3 DEF Types, HomeTypes, RoomTypes, CacheTypes, HistTypes
<1> QED
    BY <1>2, <1>3, <1>4, <1>5 DEF LoadReply

(* MarkAsRead keeps the types.                                             *)
LEMMA MarkAsReadTypes ==
    ASSUME NEW F, Types(F), NEW r \in Requests, MarkAsRead(r)
    PROVE  Types(F)'
<1>1. /\ Record([t |-> "read"]) /\ Begin(r, [kind |-> "mark"])
      /\ UNCHANGED <<server, room, cache, hist>>
    BY DEF MarkAsRead
<1>2. [t |-> "read"] \in Events(F)
    BY DEF Events, ReadEvents
<1>3. HomeTypes(F)'
    <2>1. changes' \in Times /\ pending' \in Seq(Events(F))
        BY <1>1, <1>2, RecordTypes DEF Types
    <2> QED
        BY <1>1, <2>1 DEF Types, HomeTypes
<1>4. HandlerTypes(F)' /\ ChannelTypes(F)' /\ QueueTypes' /\ RequestTypes(F)' /\ OutTypes(F)'
    BY <1>1, BeginTypes, RequestMade
<1> QED
    BY <1>1, <1>3, <1>4 DEF Types, RoomTypes, CacheTypes, HistTypes

(* MarkCached keeps the types.                                             *)
LEMMA MarkCachedTypes ==
    ASSUME NEW F, Types(F), NEW r \in Requests, MarkCached(r)
    PROVE  Types(F)'
<1>1. /\ cache' = [cache EXCEPT !.known = TRUE, !.marked = "recent"]
      /\ out' = Append(out, [t |-> "unread", n |-> 0])
      /\ hist' = [hist EXCEPT !.zeroed = TRUE]
      /\ GoesOn(r, Idle) /\ UNCHANGED <<changes, server, pending, room>>
    BY DEF MarkCached
<1>2. [t |-> "unread", n |-> 0] \in Messages(F)
    BY MessageTypes
<1>3. /\ HandlerTypes(F)' /\ ChannelTypes(F)' /\ QueueTypes' /\ RequestTypes(F)' /\ OutTypes(F)'
    BY <1>1, <1>2, AnsweredTypes
<1>4. CacheTypes' /\ HistTypes(F)'
    BY <1>1 DEF Types, CacheTypes, HistTypes, Hist
<1> QED
    BY <1>1, <1>3, <1>4 DEF Types, HomeTypes, RoomTypes

(* Reply keeps the types.                                                  *)
LEMMA ReplyTypes ==
    ASSUME NEW F, Types(F), NEW r \in Requests, Reply(r)
    PROVE  Types(F)'
<1>1. /\ request[r].kind = "reply" /\ GoesOn(r, Idle) /\ out' = Append(out, request[r].msg)
      /\ UNCHANGED <<changes, server, pending, room, cache, hist>>
    BY DEF Reply
<1>2. PICK m : m = request[r].msg
    OBVIOUS
<1>3. m \in Messages(F)
    BY <1>1, <1>2, RequestForms, MessageTypes DEF Types, RequestTypes
<1>4. /\ HandlerTypes(F)' /\ ChannelTypes(F)' /\ QueueTypes' /\ RequestTypes(F)' /\ OutTypes(F)'
    BY <1>1, <1>2, <1>3, AnsweredTypes
<1> QED
    BY <1>1, <1>4 DEF Types, HomeTypes, RoomTypes, CacheTypes, HistTypes

(* FetchPage keeps the types.                                              *)
LEMMA FetchPageTypes ==
    ASSUME NEW F, Types(F), NEW r \in Requests, FetchPage(r)
    PROVE  Types(F)'
<1>1. PICK ms : ms = cache.markers
    OBVIOUS
<1>2. /\ Begin(r, [kind |-> "page", current |-> ms])
      /\ cache' = [cache EXCEPT !.known = TRUE]
      /\ UNCHANGED <<changes, server, pending, room, hist>>
    BY <1>1 DEF FetchPage
<1>3. ms \in Markers /\ CacheTypes'
    BY <1>1, <1>2 DEF Types, CacheTypes
<1>4. HandlerTypes(F)' /\ ChannelTypes(F)' /\ QueueTypes' /\ RequestTypes(F)' /\ OutTypes(F)'
    BY <1>2, <1>3, BeginTypes, RequestMade
<1> QED
    BY <1>2, <1>3, <1>4 DEF Types, HomeTypes, RoomTypes, HistTypes

(* The markers after one more was cached.                                  *)
LEMMA CacheMarkerTypes ==
    ASSUME NEW F, Types(F), NEW u \in Users, NEW ts \in 1 .. changes
    PROVE  CacheMarker(u, ts) \in Markers /\ ts \in Times
<1>1. ts \in Times
    BY Bounds DEF Types, HomeTypes, Times
<1> QED
    BY <1>1, MarkerTypes DEF CacheMarker, Types, CacheTypes

(* load_and_cache_event_read_markers keeps the types.                      *)
LEMMA LoadMarkersTypes ==
    ASSUME NEW F, Types(F), NEW r \in Requests, load_and_cache_event_read_markers(r)
    PROVE  Types(F)'
<1>1. PICK u \in Users, ts \in 1 .. changes : cache' = [cache EXCEPT !.markers = CacheMarker(u, ts)]
    BY DEF load_and_cache_event_read_markers
<1>2. PICK q : q = [request[r] EXCEPT !.kind = "loaded"]
    OBVIOUS
<1>3. /\ request[r].kind = "page" /\ GoesOn(r, q)
      /\ UNCHANGED <<changes, server, pending, room, out, hist>>
    BY <1>2 DEF load_and_cache_event_read_markers
<1>4. q \in RequestStates(F)
    BY <1>2, <1>3, RequestForms DEF Types, RequestTypes, RequestStates, PageRequests
<1>5. /\ HandlerTypes(F)' /\ ChannelTypes(F)' /\ QueueTypes' /\ RequestTypes(F)'
      /\ UNCHANGED app
    BY <1>3, <1>4, GoesOnTypes
<1>6. CacheTypes'
    BY <1>1, CacheMarkerTypes DEF Types, CacheTypes
<1> QED
    BY <1>3, <1>5, <1>6 DEF Types, HomeTypes, RoomTypes, HistTypes, OutTypes

(* update_read_markers keeps the types.                                    *)
LEMMA SendMarkersTypes ==
    ASSUME NEW F, Types(F), NEW r \in Requests, update_read_markers(r)
    PROVE  Types(F)'
<1>1. GoesOn(r, Idle) /\ UNCHANGED <<changes, server, pending, room, cache>>
    BY DEF update_read_markers
<1>2. CASE UNCHANGED <<out, hist>>
    <2>1. /\ HandlerTypes(F)' /\ ChannelTypes(F)' /\ QueueTypes' /\ RequestTypes(F)'
          /\ UNCHANGED app
        BY <1>1, GoesOnTypes, RequestMade
    <2> QED
        BY <1>1, <1>2, <2>1 DEF Types, HomeTypes, RoomTypes, CacheTypes, HistTypes, OutTypes
<1>3. CASE /\ out' = Append(out, [t |-> "markers", markers |-> cache.markers])
           /\ hist' = [hist EXCEPT !.silent = {}]
    <2>1. PICK m : m = [t |-> "markers", markers |-> cache.markers]
        OBVIOUS
    <2>2. m \in Messages(F)
        BY <2>1, MessageTypes DEF Types, CacheTypes
    <2>3. /\ HandlerTypes(F)' /\ ChannelTypes(F)' /\ QueueTypes' /\ RequestTypes(F)' /\ OutTypes(F)'
        BY <1>1, <1>3, <2>1, <2>2, AnsweredTypes
    <2>4. HistTypes(F)'
        BY <1>3 DEF Types, HistTypes, Hist
    <2> QED
        BY <1>1, <2>3, <2>4 DEF Types, HomeTypes, RoomTypes, CacheTypes
<1> QED
    BY <1>2, <1>3 DEF update_read_markers

(* PageFails keeps the types.                                              *)
LEMMA PageFailsTypes ==
    ASSUME NEW F, Types(F), NEW r \in Requests, PageFails(r)
    PROVE  Types(F)'
<1>1. /\ GoesOn(r, Idle) /\ UNCHANGED <<changes, server, pending, room, cache, out>>
      /\ hist' = [hist EXCEPT
           !.silent = @ \cup {u \in Users : cache.markers[u] # request[r].current[u]}]
    BY DEF PageFails
<1>2. /\ HandlerTypes(F)' /\ ChannelTypes(F)' /\ QueueTypes' /\ RequestTypes(F)'
      /\ UNCHANGED app
    BY <1>1, GoesOnTypes, RequestMade
<1>3. HistTypes(F)'
    BY <1>1 DEF Types, HistTypes, Hist
<1> QED
    BY <1>1, <1>2, <1>3 DEF Types, HomeTypes, RoomTypes, CacheTypes, OutTypes

(* CacheSilently keeps the types.                                          *)
LEMMA CacheSilentlyTypes ==
    ASSUME NEW F, Types(F), CacheSilently
    PROVE  Types(F)'
<1>1. PICK u \in Users, ts \in 1 .. changes :
         /\ cache' = [cache EXCEPT !.known = TRUE, !.markers = CacheMarker(u, ts)]
         /\ hist' = [hist EXCEPT !.silent = IF ts > cache.markers[u] THEN @ \cup {u} ELSE @]
    BY DEF CacheSilently
<1>2. CacheTypes' /\ HistTypes(F)'
    BY <1>1, CacheMarkerTypes DEF Types, CacheTypes, HistTypes, Hist
<1>3. RequestTypes(F)'
    BY Bounds DEF CacheSilently, Types, RequestTypes
<1> QED
    BY <1>2, <1>3 DEF CacheSilently, Types, HomeTypes, RoomTypes, HandlerTypes, ChannelTypes,
       QueueTypes, OutTypes

(* The steps of the requests keep the types.                               *)
LEMMA RequestsTypes ==
    ASSUME NEW F, Types(F), NEW r \in Requests, Asks(r) \/ Processes(r)
    PROVE  Types(F)'
<1>1. CASE Asks(r)
    BY <1>1, GetRoomsTypes, JoinRoomTypes, LeaveRoomTypes, ChangeRoomTypes, PinOrInviteTypes,
       MarkAsReadTypes, FetchPageTypes DEF Asks
<1>2. CASE Processes(r)
    BY <1>2, UploadAvatarTypes, AssembleTypes, ChangeFieldTypes, ChangeDoneTypes, LoadReplyTypes,
       MarkCachedTypes, LoadMarkersTypes, SendMarkersTypes, PageFailsTypes, ReplyTypes DEF Processes
<1> QED
    BY <1>1, <1>2

-----------------------------------------------------------------------------
(* Types: the application.                                                 *)

(* The newest values, and what they are of each field.                     *)
LEMMA BestTypes ==
    ASSUME NEW F, Types(F), NEW p \in Partial(F)
    PROVE  /\ Best(p) \in [F -> Nat]
           /\ \A f \in F : /\ Best(p)[f] >= app.fields.best[f]
                           /\ f \in DOMAIN p => Best(p)[f] >= p[f]
                           /\ Best(p)[f] = app.fields.best[f] \/ (f \in DOMAIN p /\ Best(p)[f] = p[f])
<1>1. Fields = F /\ app.fields.best \in [F -> Nat]
    BY FieldsAre DEF Types, OutTypes, Apps, FieldsTold
<1>2. DOMAIN p \subseteq F /\ \A f \in DOMAIN p : p[f] \in Nat
    BY PartialTypes
<1> QED
    BY <1>1, <1>2 DEF Best, Older

(* What is told of the fields keeps its type.                              *)
LEMMA ToldFieldsTypes ==
    ASSUME NEW F, Types(F), NEW p \in Partial(F), NEW shown, NEW excused
    PROVE  ToldFields(p, shown, excused) \in FieldsTold(F)
<1>1. /\ Fields = F /\ app.fields.val \in [F -> Nat] /\ app.fields.stale \subseteq F
    BY FieldsAre DEF Types, OutTypes, Apps, FieldsTold
<1>2. DOMAIN p \subseteq F /\ \A f \in DOMAIN p : p[f] \in Nat
    BY PartialTypes
<1>3. Overwritten(p) \in [F -> Nat]
    BY <1>1, <1>2 DEF Overwritten
<1>4. (IF shown THEN Overwritten(p) ELSE app.fields.val) \in [F -> Nat]
    BY <1>1, <1>3
<1>5. Best(p) \in [F -> Nat]
    BY BestTypes
<1>6. /\ Older(p) \subseteq F
      /\ (app.fields.stale \ (DOMAIN p \ Older(p))) \cup (IF excused THEN Older(p) ELSE {}) \subseteq F
    BY <1>1, <1>2 DEF Older
<1> QED
    BY <1>4, <1>5, <1>6 DEF ToldFields, FieldsTold

(* What a message tells keeps the application's state in its type.         *)
LEMMA ToldTypes ==
    ASSUME NEW F, Types(F), NEW m \in Messages(F)
    PROVE  Told(m) \in Apps(F)
<1>1. app \in Apps(F)
    BY DEF Types, OutTypes
<1>2. CASE m.t = "fields"
    <2>1. PICK x : x = ToldFields(m.val, app.room = "listed", m.from # "executor")
        OBVIOUS
    <2>2. Told(m) = [app EXCEPT !.fields = x]
        BY <1>2, <2>1 DEF Told
    <2>3. x \in FieldsTold(F)
        BY <1>2, <2>1, MessageForms, ToldFieldsTypes
    <2> QED
        BY <1>1, <2>2, <2>3 DEF Apps
<1>3. CASE m.t = "unread"
    <2>1. Told(m) = [app EXCEPT !.unread = IF app.room = "listed" THEN m.n ELSE @]
        BY <1>3 DEF Told
    <2>2. m.n \in Nat
        BY <1>3, MessageForms
    <2> QED
        BY <1>1, <2>1, <2>2 DEF Apps
<1>4. CASE m.t \in {"ephemeral", "markers"}
    <2>1. Told(m) = [app EXCEPT !.markers = Newer(@, m.markers)]
        BY <1>4 DEF Told
    <2>2. Newer(app.markers, m.markers) \in Markers
        BY <1>1, <1>4, MessageForms, MarkerTypes DEF Apps
    <2> QED
        BY <1>1, <2>1, <2>2 DEF Apps
<1>5. CASE m.t = "left"
    <2>1. Told(m) = [app EXCEPT !.room = "none", !.unread = 0]
        BY <1>5 DEF Told
    <2>2. \A x \in Apps(F) : [x EXCEPT !.room = "none", !.unread = 0] \in Apps(F)
        BY DEF Apps
    <2> QED
        BY <1>1, <2>1, <2>2 DEF Apps
<1>6. CASE m.t = "invited"
    <2>1. Told(m) = [app EXCEPT !.room = IF @ = "none" THEN "invited" ELSE @]
        BY <1>6 DEF Told
    <2>2. (IF app.room = "none" THEN "invited" ELSE app.room) \in {"none", "invited", "listed"}
        BY <1>1 DEF Apps
    <2> QED
        BY <1>1, <2>1, <2>2 DEF Apps
<1>7. CASE m.t \in {"room", "list"}
    <2>1. Told(m) = IF m.snap = None THEN app
                    ELSE [app EXCEPT !.room = IF m.snap.joined THEN "listed" ELSE "none",
                                     !.unread = IF m.snap.joined THEN m.snap.unread ELSE 0,
                                     !.fields = ToldFields(m.snap.val, TRUE, TRUE)]
        BY <1>7 DEF Told
    <2>2. CASE m.snap = None
        BY <1>1, <2>1, <2>2
    <2>3. CASE m.snap # None
        <3>1. m.snap.val \in [F -> Nat] /\ m.snap.unread \in Nat
            BY <1>7, <2>3, MessageForms DEF Snapshots
        <3>2. m.snap.val \in Partial(F)
            BY <3>1 DEF Partial
        <3>3. PICK y : y = ToldFields(m.snap.val, TRUE, TRUE)
            OBVIOUS
        <3>4. PICK x : x = IF m.snap.joined THEN "listed" ELSE "none"
            OBVIOUS
        <3>5. PICK n : n = IF m.snap.joined THEN m.snap.unread ELSE 0
            OBVIOUS
        <3>6. x \in {"none", "invited", "listed"} /\ n \in Nat /\ y \in FieldsTold(F)
            BY <3>1, <3>2, <3>3, <3>4, <3>5, ToldFieldsTypes
        <3>7. Told(m) = [app EXCEPT !.room = x, !.unread = n, !.fields = y]
            BY <2>1, <2>3, <3>3, <3>4, <3>5
        <3> QED
            BY <1>1, <3>6, <3>7 DEF Apps
    <2> QED
        BY <2>2, <2>3
<1> QED
    BY <1>2, <1>3, <1>4, <1>5, <1>6, <1>7, MessageForms

(* Deliver keeps the types.                                                *)
LEMMA DeliverTypes ==
    ASSUME NEW F, Types(F), Deliver
    PROVE  Types(F)'
<1>1. PICK m : m = Head(out)
    OBVIOUS
<1>2. out # <<>> /\ out \in Seq(Messages(F)) /\ out' = Tail(out) /\ app' = Told(m)
    BY <1>1 DEF Deliver, Types, OutTypes
<1>3. m \in Messages(F) /\ out' \in Seq(Messages(F))
    BY <1>1, <1>2
<1>4. OutTypes(F)'
    BY <1>2, <1>3, ToldTypes DEF OutTypes
<1>5. \/ /\ Len(channel) < ChannelCapacity
         /\ channel' = Append(channel, [t |-> "discovered"])
         /\ hist' = [hist EXCEPT !.overlap = m.snap.drops # hist.drops,
                                 !.late = m.snap.moves # hist.moves,
                                 !.untold = @ \ {m.snap.moves}]
      \/ UNCHANGED channel /\ hist' = [hist EXCEPT !.late = m.moves # hist.moves]
      \/ UNCHANGED channel /\ hist' = [hist EXCEPT !.late = @]
    BY <1>1 DEF Deliver
<1>6. HistTypes(F)'
    BY <1>5 DEF Types, HistTypes, Hist
<1>7. [t |-> "discovered"] \in Actions(F)
    BY DEF Actions, OtherActions
<1>8. ChannelTypes(F)'
    BY <1>5, <1>7, Bounds DEF Types, ChannelTypes
<1> QED
    BY <1>4, <1>6, <1>8 DEF Deliver, Types, HomeTypes, RoomTypes, HandlerTypes, QueueTypes,
       CacheTypes, RequestTypes

(* The types hold initially.                                               *)
LEMMA TypesInit == RoomInit => TypeInv
<1> SUFFICES ASSUME RoomInit PROVE TypeInv
    OBVIOUS
<1>1. PICK F \in FieldSets, m \in {"none", "joined"} :
         /\ server = [val |-> [f \in F |-> 0], member |-> m]
         /\ room = [val |-> server.val, member |-> m, unread |-> 0]
    BY DEF RoomInit
<1>2. Fields = F /\ server.val \in [F -> Nat]
    BY <1>1 DEF Fields
<1>3. HomeTypes(F)
    <2>1. changes = 0 /\ pending = <<>>
        BY DEF RoomInit
    <2>2. pending \in Seq(Events(F))
        BY <2>1
    <2> QED
        BY <1>1, <2>1, <2>2, MarkerTypes DEF HomeTypes, Members
<1>4. RoomTypes(F)
    BY <1>1, <1>2 DEF RoomTypes, Members
<1>5. HandlerTypes(F) /\ ChannelTypes(F) /\ QueueTypes
    BY Bounds DEF RoomInit, HandlerTypes, Stream, ChannelTypes, QueueTypes
<1>6. CacheTypes
    BY MarkerTypes DEF RoomInit, CacheTypes
<1>7. RequestTypes(F)
    BY RequestMade, Bounds DEF RoomInit, RequestTypes
<1>8. OutTypes(F)
    BY <1>2, MarkerTypes DEF RoomInit, OutTypes, Apps, FieldsTold
<1>9. HistTypes(F)
    BY DEF RoomInit, HistInit, HistTypes, Hist
<1> QED
    BY <1>2, <1>3, <1>4, <1>5, <1>6, <1>7, <1>8, <1>9 DEF TypeInv, Types

(* Every step keeps the types; in particular the fields stay the same.     *)
LEMMA TypesStep ==
    ASSUME NEW F, Types(F), [RoomNext]_roomVars
    PROVE  Types(F)'
<1>1. CASE UNCHANGED roomVars
    BY <1>1 DEF roomVars, Types, HomeTypes, RoomTypes, HandlerTypes, ChannelTypes, QueueTypes,
       CacheTypes, RequestTypes, OutTypes, HistTypes
<1>2. CASE RoomNext
    BY <1>2, HomeserverTypes, SyncTypes, HandleTypes, ForwardTypes, ExecutorTypes, DeliverTypes,
       ExpireTypes, CacheSilentlyTypes, RequestsTypes DEF RoomNext, Works
<1> QED
    BY <1>1, <1>2

(* The types are an invariant.                                             *)
LEMMA TypeInvStep == TypeInv /\ [RoomNext]_roomVars => TypeInv'
<1> SUFFICES ASSUME TypeInv, [RoomNext]_roomVars PROVE TypeInv'
    OBVIOUS
<1>1. PICK F : F = Fields
    OBVIOUS
<1>2. Types(F)'
    BY <1>1, TypesStep DEF TypeInv
<1>3. Fields' = F
    BY <1>2 DEF Types, HomeTypes, Fields
<1> QED
    BY <1>2, <1>3 DEF TypeInv

(***************************************************************************)
(* Type correctness of RoomEvents, with the limits of the executor's       *)
(* channel and of the queued changes, for any number of fields, members,   *)
(* changes and requests.                                                   *)
(***************************************************************************)
THEOREM TypeCorrect == Spec => []TypeOK
<1>1. TypeInv => TypeOK
    <2> SUFFICES ASSUME TypeInv PROVE TypeOK
        OBVIOUS
    <2>1. \A x \in ToSet(queued) : x.t \in {"unread", "ephemeral"}
        <3>1. queued \in Seq(Changes)
            BY DEF TypeInv, Types, QueueTypes
        <3>2. \A i \in DOMAIN queued : queued[i] \in Changes
            BY <3>1
        <3>3. \A c \in Changes : c.t \in {"unread", "ephemeral"}
            BY DEF Changes, UnreadMessages, EphemeralMessages
        <3> QED
            BY <3>2, <3>3 DEF ToSet
    <2> QED
        BY <2>1 DEF TypeInv, Types, HomeTypes, RoomTypes, ChannelTypes, QueueTypes, CacheTypes,
           RequestTypes, OutTypes, Apps, FieldsTold, TypeOK, Members
<1> QED
    BY <1>1, TypesInit, TypeInvStep, PTL DEF Spec

-----------------------------------------------------------------------------
(***************************************************************************)
(* The fields: the SDK is not ahead of the homeserver, the events the sync *)
(* loop has not received lead from the one to the other, and nothing that  *)
(* is on its way to the application is newer than the homeserver.          *)
(***************************************************************************)
FieldEvent(s, i, f) == s[i].t = "field" /\ s[i].f = f

ServerInv ==
    /\ \A i \in 1 .. Len(pending), f \in Fields : FieldEvent(pending, i, f) =>
         /\ room.val[f] < pending[i].v
         /\ pending[i].v <= server.val[f]
         /\ \A j \in 1 .. Len(pending) :
              j > i /\ FieldEvent(pending, j, f) => pending[i].v < pending[j].v
    /\ \A f \in Fields :
         /\ room.val[f] <= server.val[f]
         /\ \/ room.val[f] = server.val[f]
            \/ \E i \in 1 .. Len(pending) :
                 FieldEvent(pending, i, f) /\ pending[i].v = server.val[f]

Below(val) == \A f \in Fields : f \in DOMAIN val => val[f] <= server.val[f]

MessageBelow(m) ==
    /\ m.t = "fields" => Below(m.val)
    /\ m.t \in {"room", "list"} => m.snap = None \/ Below(m.snap.val)

BelowInv ==
    /\ Below(app.fields.best)
    /\ \A i \in 1 .. Len(out) : MessageBelow(out[i])
    /\ \A i \in 1 .. Len(channel), f \in Fields :
         FieldEvent(channel, i, f) => channel[i].v <= room.val[f]
    /\ \A r \in Requests :
         /\ request[r].kind = "reply" => MessageBelow(request[r].msg)
         /\ request[r].kind = "change" => Below(request[r].val)

(* The newest value of field f that the SDK knows has been told, will not  *)
(* be, or is on its way.                                                   *)
FieldTold(f) ==
    \/ app.fields.best[f] >= room.val[f]
    \/ f \in hist.skipped
    \/ \E i \in 1 .. Len(handlers) : FieldEvent(handlers, i, f)
    \/ \E i \in 1 .. Len(channel) :
         FieldEvent(channel, i, f) /\ channel[i].v = room.val[f]
    \/ \E i \in 1 .. Len(out) :
         out[i].t = "fields" /\ f \in DOMAIN out[i].val /\ out[i].val[f] >= room.val[f]

FieldInv ==
    /\ \A i \in 1 .. Len(handlers), f \in Fields :
         FieldEvent(handlers, i, f) => handlers[i].v = room.val[f]
    /\ \A f \in Fields : FieldTold(f)

(* x, an event of field f or a word of the executor about it, has a value; *)
(* and the last of a sequence has the value v.                             *)
About(x, f) ==
    \/ x.t = "field" /\ x.f = f
    \/ x.t = "fields" /\ x.from = "executor" /\ f \in DOMAIN x.val

ValueIn(x, f) == IF x.t = "field" THEN x.v ELSE x.val[f]

Some(s, f) == \E i \in 1 .. Len(s) : About(s[i], f)

LastIs(s, f, v) ==
    \A i \in 1 .. Len(s) : About(s[i], f) =>
      ValueIn(s[i], f) = v \/ \E j \in 1 .. Len(s) : j > i /\ About(s[j], f)

(* The last word of the executor about field f is the newest value, if     *)
(* nothing was skipped; and a room that is shown is shown with the newest  *)
(* value the application was told, unless the executor will tell another   *)
(* or something else overwrote it.                                         *)
Ordered(f) ==
    \/ f \in hist.skipped
    \/ Some(handlers, f)
    \/ /\ LastIs(channel, f, room.val[f])
       /\ Some(channel, f) \/ LastIs(out, f, room.val[f])

Shown(f) ==
    app.room = "listed" =>
      \/ f \in hist.skipped \/ f \in app.fields.stale
      \/ app.fields.val[f] = app.fields.best[f]
      \/ Some(pending, f) \/ Some(handlers, f) \/ Some(channel, f) \/ Some(out, f)

ShownInv == \A f \in Fields : Ordered(f) /\ Shown(f)

RequestBelow(q) ==
    /\ q.kind = "reply" => MessageBelow(q.msg)
    /\ q.kind = "change" => Below(q.val)

NewestInv == ServerInv /\ BelowInv /\ FieldInv

(* What a step can do to the homeserver, its events and the SDK's copy.    *)
Still == server'.val = server.val /\ room'.val = room.val /\ UNCHANGED pending
Changed(f) == Change(f) /\ room'.val = room.val
Recorded(e) ==
    /\ server'.val = server.val /\ room'.val = room.val
    /\ e.t # "field" /\ pending' = Append(pending, e)

HomeStep(F) ==
    \/ Still
    \/ \E f \in F : Changed(f)
    \/ \E e \in Events(F) : Recorded(e)
    \/ Sync

(* Every step does one of these.                                           *)
LEMMA HomeSteps ==
    ASSUME NEW F, Types(F), RoomNext
    PROVE  HomeStep(F)
<1>1. Fields = F /\ RoomTypes(F) /\ HomeTypes(F)
    BY FieldsAre DEF Types
<1>2. ASSUME NEW m \in DOMAIN Moves, server' = [server EXCEPT !.member = Moves[m].to],
             Record([t |-> "own", m |-> m]), room'.val = room.val
      PROVE  HomeStep(F)
    <2>1. [t |-> "own", m |-> m] \in Events(F) /\ server'.val = server.val
        BY <1>1, <1>2 DEF Events, OwnEvents, HomeTypes
    <2> QED
        BY <1>2, <2>1 DEF HomeStep, Recorded, Record
<1>3. ASSUME NEW m \in DOMAIN Moves, Move(m) PROVE HomeStep(F)
    <2>1. room'.val = room.val
        BY <1>1, <1>3 DEF Move, Moved, RoomTypes
    <2> QED
        BY <1>2, <1>3, <2>1 DEF Move
<1>4. CASE Homeserver
    <2>1. OtherChanges /\ room' = room
        BY <1>4 DEF Homeserver
    <2>2. CASE \E f \in Fields : Change(f)
        BY <1>1, <2>1, <2>2 DEF HomeStep, Changed
    <2>3. CASE \E m \in DOMAIN Moves :
                 /\ server' = [server EXCEPT !.member = Moves[m].to]
                 /\ Record([t |-> "own", m |-> m])
        BY <1>2, <2>1, <2>3
    <2>4. ASSUME NEW e, e.t # "field", Record(e), UNCHANGED server PROVE HomeStep(F)
        <3>1. pending' = Append(pending, e) /\ pending' \in Seq(Events(F))
            BY <1>4, <2>4, HomeserverTypes DEF Record, Types, HomeTypes
        <3>2. pending'[Len(pending) + 1] = e /\ Len(pending') = Len(pending) + 1 /\ Len(pending) \in Nat
            BY <1>1, <3>1 DEF HomeTypes
        <3>3. e \in Events(F)
            BY <3>1, <3>2
        <3> QED
            BY <2>1, <2>4, <3>1, <3>3 DEF HomeStep, Recorded
    <2> QED
        BY <2>1, <2>2, <2>3, <2>4 DEF OtherChanges
<1>5. CASE Sync
    BY <1>5 DEF HomeStep
<1>6. CASE Handle \/ Executor \/ Deliver \/ \E s \in {"updates", "generic"} : Forward(s)
    BY <1>6 DEF Handle, Executor, Deliver, Forward, ExecField, ExecOwn, ExecAny, ExecMessage,
       ExecCount, ExecUpdate, ExecDiscovered, Takes, HomeStep, Still
<1>7. CASE Expire \/ CacheSilently
    BY <1>7 DEF Expire, CacheSilently, HomeStep, Still
<1>8. ASSUME NEW r \in Requests, Asks(r) PROVE HomeStep(F)
    <2>1. CASE JoinRoom(r) \/ LeaveRoom(r)
        BY <1>3, <2>1, MoveTypes DEF JoinRoom, LeaveRoom
    <2>2. CASE PinOrInvite(r)
        BY <1>1, <2>2 DEF PinOrInvite, HomeStep, Changed
    <2>3. CASE MarkAsRead(r)
        <3>1. [t |-> "read"] \in Events(F)
            BY DEF Events, ReadEvents
        <3> QED
            BY <2>3, <3>1 DEF MarkAsRead, Record, HomeStep, Recorded
    <2>4. CASE GetRooms(r) \/ ChangeRoom(r) \/ FetchPage(r)
        BY <2>4 DEF GetRooms, ChangeRoom, FetchPage, HomeStep, Still
    <2> QED
        BY <1>8, <2>1, <2>2, <2>3, <2>4 DEF Asks
<1>9. ASSUME NEW r \in Requests, Processes(r) PROVE HomeStep(F)
    <2>1. CASE UploadAvatar(r)
        BY <1>1, <2>1 DEF UploadAvatar, HomeStep, Changed
    <2>2. CASE ChangeField(r)
        BY <2>2, ChangeFieldSteps DEF HomeStep, Changed, Still
    <2>3. CASE ~UploadAvatar(r) /\ ~ChangeField(r)
        BY <1>9, <2>3 DEF Processes, Assemble, ChangeDone, LoadReply, MarkCached, Reply, PageFails,
           load_and_cache_event_read_markers, update_read_markers, HomeStep, Still
    <2> QED
        BY <2>1, <2>2, <2>3
<1> QED
    BY <1>4, <1>5, <1>6, <1>7, <1>8, <1>9 DEF RoomNext, Works

(* Events that lead from the SDK's copy to the homeserver's do so after    *)
(* every step, and neither copy loses a change.                            *)
LEMMA ServerStep ==
    ASSUME NEW F, Types(F), Types(F)', ServerInv, HomeStep(F)
    PROVE  /\ ServerInv'
           /\ \A f \in F : server.val[f] <= server'.val[f] /\ room.val[f] <= room'.val[f]
<1>1. /\ Fields = F /\ Fields' = F
      /\ server.val \in [F -> Nat] /\ room.val \in [F -> Nat]
      /\ server'.val \in [F -> Nat] /\ room'.val \in [F -> Nat]
      /\ pending \in Seq(Events(F)) /\ pending' \in Seq(Events(F))
    <2>1. Fields = F /\ Fields' = F
        BY DEF Types, HomeTypes, Fields
    <2> QED
        BY <2>1 DEF Types, HomeTypes, RoomTypes
<1>2. CASE Still
    BY <1>1, <1>2 DEF Still, ServerInv, FieldEvent
<1>3. ASSUME NEW f \in F, Changed(f) PROVE ServerInv' /\ \A g \in F : server.val[g] <= server'.val[g]
    <2>1. PICK e : e = [t |-> "field", f |-> f, v |-> server.val[f] + 1]
        OBVIOUS
    <2>2. /\ e.t = "field" /\ e.f = f /\ e.v = server.val[f] + 1
          /\ room'.val = room.val /\ pending' = Append(pending, e)
        BY <1>3, <2>1 DEF Changed, Change, Record
    <2>3. /\ server'.val[f] = server.val[f] + 1
          /\ \A g \in F : g # f => server'.val[g] = server.val[g]
        BY <1>1, <1>3 DEF Changed, Change, Types, HomeTypes
    <2>4. /\ Len(pending') = Len(pending) + 1 /\ Len(pending) \in Nat
          /\ \A i \in 1 .. Len(pending) : pending'[i] = pending[i]
          /\ pending'[Len(pending) + 1] = e
        BY <1>1, <2>2
    <2>5. ASSUME NEW g \in F
          PROVE  /\ room'.val[g] <= server'.val[g]
                 /\ \/ room'.val[g] = server'.val[g]
                    \/ \E i \in 1 .. Len(pending') :
                         FieldEvent(pending', i, g) /\ pending'[i].v = server'.val[g]
        <3>1. CASE g = f
            BY <1>1, <2>2, <2>3, <2>4, <3>1 DEF ServerInv, FieldEvent
        <3>2. CASE g # f
            <4>1. CASE room.val[g] = server.val[g]
                BY <1>1, <2>2, <2>3, <3>2, <4>1
            <4>2. CASE \E i \in 1 .. Len(pending) :
                         FieldEvent(pending, i, g) /\ pending[i].v = server.val[g]
                <5>1. PICK i \in 1 .. Len(pending) :
                         FieldEvent(pending, i, g) /\ pending[i].v = server.val[g]
                    BY <4>2
                <5>2. /\ i \in 1 .. Len(pending') /\ FieldEvent(pending', i, g)
                      /\ pending'[i].v = server'.val[g]
                    BY <2>3, <2>4, <3>2, <5>1 DEF FieldEvent
                <5>3. room'.val[g] <= server'.val[g]
                    BY <1>1, <2>2, <2>3, <3>2 DEF ServerInv
                <5> QED
                    BY <5>2, <5>3
            <4> QED
                BY <1>1, <4>1, <4>2 DEF ServerInv
        <3> QED
            BY <3>1, <3>2
    <2>6. ASSUME NEW i \in 1 .. Len(pending'), NEW g \in F, FieldEvent(pending', i, g)
          PROVE  /\ room'.val[g] < pending'[i].v /\ pending'[i].v <= server'.val[g]
                 /\ \A j \in 1 .. Len(pending') :
                      j > i /\ FieldEvent(pending', j, g) => pending'[i].v < pending'[j].v
        <3>1. pending'[i].v \in Nat
            <4>1. pending'[i] \in Events(F) /\ pending'[i].t = "field"
                BY <1>1, <2>6 DEF FieldEvent
            <4> QED
                BY <4>1, EventForms
        <3>2. CASE i = Len(pending) + 1
            <4>1. g = f /\ pending'[i].v = server.val[f] + 1
                BY <2>2, <2>4, <2>6, <3>2 DEF FieldEvent
            <4>2. room.val[f] <= server.val[f]
                BY <1>1 DEF ServerInv
            <4> QED
                BY <1>1, <2>2, <2>3, <2>4, <3>2, <4>1, <4>2
        <3>3. CASE i \in 1 .. Len(pending)
            <4>1. /\ room.val[g] < pending[i].v /\ pending[i].v <= server.val[g]
                  /\ \A j \in 1 .. Len(pending) :
                       j > i /\ FieldEvent(pending, j, g) => pending[i].v < pending[j].v
                <5>1. FieldEvent(pending, i, g)
                    BY <2>4, <2>6, <3>3 DEF FieldEvent
                <5> QED
                    BY <1>1, <3>3, <5>1 DEF ServerInv
            <4>2. pending'[i].v <= server'.val[g]
                <5>1. pending'[i] = pending[i] /\ pending[i].v \in Nat /\ server.val[g] \in Nat
                    BY <1>1, <2>4, <3>1, <3>3
                <5>2. server'.val[g] = server.val[g] \/ server'.val[g] = server.val[g] + 1
                    BY <2>3
                <5> QED
                    BY <4>1, <5>1, <5>2
            <4>3. ASSUME NEW j \in 1 .. Len(pending'), j > i, FieldEvent(pending', j, g)
                  PROVE  pending'[i].v < pending'[j].v
                <5>1. CASE j \in 1 .. Len(pending)
                    <6>1. FieldEvent(pending, j, g) /\ pending'[j] = pending[j] /\ pending'[i] = pending[i]
                        BY <2>4, <3>3, <4>3, <5>1 DEF FieldEvent
                    <6> QED
                        BY <4>1, <4>3, <5>1, <6>1
                <5>2. CASE j = Len(pending) + 1
                    <6>1. g = f /\ pending'[j].v = server.val[f] + 1
                        BY <2>2, <2>4, <4>3, <5>2 DEF FieldEvent
                    <6> QED
                        BY <1>1, <2>4, <3>1, <3>3, <4>1, <6>1
                <5> QED
                    BY <2>4, <5>1, <5>2
            <4> QED
                BY <2>2, <2>4, <3>3, <4>1, <4>2, <4>3
        <3> QED
            BY <2>4, <3>2, <3>3
    <2>7. ServerInv'
        <3>1. (\A i \in 1 .. Len(pending), g \in Fields : FieldEvent(pending, i, g) =>
                /\ room.val[g] < pending[i].v /\ pending[i].v <= server.val[g]
                /\ \A j \in 1 .. Len(pending) :
                     j > i /\ FieldEvent(pending, j, g) => pending[i].v < pending[j].v)'
            BY <1>1, <2>6 DEF FieldEvent
        <3>2. (\A g \in Fields :
                /\ room.val[g] <= server.val[g]
                /\ \/ room.val[g] = server.val[g]
                   \/ \E i \in 1 .. Len(pending) :
                        FieldEvent(pending, i, g) /\ pending[i].v = server.val[g])'
            BY <1>1, <2>5 DEF FieldEvent
        <3> QED
            BY <3>1, <3>2 DEF ServerInv
    <2> QED
        BY <1>1, <2>3, <2>7
<1>4. ASSUME NEW e \in Events(F), Recorded(e) PROVE ServerInv'
    <2>1. /\ Len(pending') = Len(pending) + 1 /\ Len(pending) \in Nat
          /\ \A i \in 1 .. Len(pending) : pending'[i] = pending[i]
          /\ pending'[Len(pending) + 1].t # "field"
          /\ room'.val = room.val /\ server'.val = server.val
        BY <1>1, <1>4 DEF Recorded
    <2>2. \A f \in F : \A i \in 1 .. Len(pending') :
            FieldEvent(pending', i, f) =>
              i \in 1 .. Len(pending) /\ FieldEvent(pending, i, f) /\ pending'[i] = pending[i]
        BY <2>1 DEF FieldEvent
    <2>3. \A f \in F : \A i \in 1 .. Len(pending) :
            FieldEvent(pending, i, f) =>
              i \in 1 .. Len(pending') /\ FieldEvent(pending', i, f) /\ pending'[i] = pending[i]
        BY <2>1 DEF FieldEvent
    <2>4. \A f \in F :
            /\ room'.val[f] <= server'.val[f]
            /\ \/ room'.val[f] = server'.val[f]
               \/ \E i \in 1 .. Len(pending') :
                    FieldEvent(pending', i, f) /\ pending'[i].v = server'.val[f]
        <3>1. ASSUME NEW f \in F
              PROVE  \/ room.val[f] = server.val[f]
                     \/ \E i \in 1 .. Len(pending') :
                          FieldEvent(pending', i, f) /\ pending'[i].v = server.val[f]
            BY <1>1, <2>3 DEF ServerInv
        <3> QED
            BY <1>1, <2>1, <3>1 DEF ServerInv
    <2>5. ASSUME NEW i \in 1 .. Len(pending'), NEW f \in F, FieldEvent(pending', i, f)
          PROVE  /\ room'.val[f] < pending'[i].v /\ pending'[i].v <= server'.val[f]
                 /\ \A j \in 1 .. Len(pending') :
                      j > i /\ FieldEvent(pending', j, f) => pending'[i].v < pending'[j].v
        <3>1. i \in 1 .. Len(pending) /\ FieldEvent(pending, i, f) /\ pending'[i] = pending[i]
            BY <2>2, <2>5
        <3>2. /\ room.val[f] < pending[i].v /\ pending[i].v <= server.val[f]
              /\ \A j \in 1 .. Len(pending) :
                   j > i /\ FieldEvent(pending, j, f) => pending[i].v < pending[j].v
            BY <1>1, <3>1 DEF ServerInv
        <3> QED
            BY <2>1, <2>2, <3>1, <3>2
    <2> QED
        BY <1>1, <2>4, <2>5 DEF ServerInv, FieldEvent
<1>5. CASE Sync
    <2>1. PICK e : e = Head(pending)
        OBVIOUS
    <2>2. /\ pending # <<>> /\ e \in Events(F) /\ e = pending[1]
          /\ Len(pending) \in Nat /\ Len(pending) > 0 /\ Len(pending') = Len(pending) - 1
          /\ \A i \in 1 .. Len(pending') : pending'[i] = pending[i + 1]
          /\ UNCHANGED server /\ room' = Applied(e)
        BY <1>1, <1>5, <2>1 DEF Sync
    <2>3. /\ e.t = "field" => e.f \in F /\ e.v \in Nat /\ room'.val[e.f] = e.v
          /\ \A f \in F : ~FieldEvent(pending, 1, f) => room'.val[f] = room.val[f]
        <3>1. CASE e.t = "field"
            <4>1. Applied(e) = [room EXCEPT !.val[e.f] = e.v] /\ e.f \in F /\ e.v \in Nat
                BY <2>2, <3>1, EventForms DEF Applied
            <4> QED
                BY <1>1, <2>2, <3>1, <4>1 DEF Types, RoomTypes, FieldEvent
        <3>2. CASE e.t # "field"
            <4>1. e.t \in {"own", "message", "ephemeral", "read"}
                BY <2>2, <3>2, EventForms
            <4>2. Applied(e).val = room.val
                BY <4>1 DEF Applied, Moved, Types, RoomTypes
            <4> QED
                BY <2>2, <3>2, <4>2
        <3> QED
            BY <3>1, <3>2
    <2>4. \A f \in F : FieldEvent(pending, 1, f) => /\ room'.val[f] = pending[1].v
                                                    /\ pending[1].v \in Nat
                                                    /\ room.val[f] < pending[1].v
                                                    /\ pending[1].v <= server.val[f]
        BY <1>1, <2>2, <2>3 DEF FieldEvent, ServerInv
    <2>5. ASSUME NEW i \in 1 .. Len(pending'), NEW f \in F, FieldEvent(pending', i, f)
          PROVE  /\ room'.val[f] < pending'[i].v /\ pending'[i].v <= server'.val[f]
                 /\ \A j \in 1 .. Len(pending') :
                      j > i /\ FieldEvent(pending', j, f) => pending'[i].v < pending'[j].v
        <3>1. i + 1 \in 1 .. Len(pending) /\ i + 1 > 1 /\ FieldEvent(pending, i + 1, f)
            BY <2>2, <2>5 DEF FieldEvent
        <3>2. /\ room.val[f] < pending[i + 1].v /\ pending[i + 1].v <= server.val[f]
              /\ \A j \in 1 .. Len(pending) :
                   j > i + 1 /\ FieldEvent(pending, j, f) => pending[i + 1].v < pending[j].v
            BY <1>1, <3>1 DEF ServerInv
        <3>3. room'.val[f] < pending[i + 1].v
            <4>1. CASE FieldEvent(pending, 1, f)
                <5>1. pending[1].v < pending[i + 1].v
                    <6>1. 1 \in 1 .. Len(pending)
                        BY <2>2
                    <6>2. \A j \in 1 .. Len(pending) :
                            j > 1 /\ FieldEvent(pending, j, f) => pending[1].v < pending[j].v
                        BY <1>1, <4>1, <6>1 DEF ServerInv
                    <6> QED
                        BY <3>1, <6>2
                <5> QED
                    BY <2>4, <4>1, <5>1
            <4>2. CASE ~FieldEvent(pending, 1, f)
                BY <2>3, <3>2, <4>2
            <4> QED
                BY <4>1, <4>2
        <3>4. ASSUME NEW j \in 1 .. Len(pending'), j > i, FieldEvent(pending', j, f)
              PROVE  pending'[i].v < pending'[j].v
            <4>1. j + 1 \in 1 .. Len(pending) /\ j + 1 > i + 1 /\ FieldEvent(pending, j + 1, f)
                <5>1. pending'[j] = pending[j + 1]
                    BY <2>2
                <5>2. j + 1 \in 1 .. Len(pending) /\ j + 1 > i + 1
                    BY <2>2, <3>4
                <5> QED
                    BY <3>4, <5>1, <5>2 DEF FieldEvent
            <4> QED
                BY <2>2, <3>2, <4>1
        <3> QED
            BY <2>2, <3>2, <3>3, <3>4
    <2>6. ASSUME NEW f \in F
          PROVE  /\ room'.val[f] <= server'.val[f]
                 /\ \/ room'.val[f] = server'.val[f]
                    \/ \E i \in 1 .. Len(pending') :
                         FieldEvent(pending', i, f) /\ pending'[i].v = server'.val[f]
        <3>1. room'.val[f] <= server'.val[f]
            BY <1>1, <2>2, <2>3, <2>4 DEF ServerInv
        <3>2. CASE room.val[f] = server.val[f]
            BY <1>1, <2>2, <2>3, <2>4, <3>1, <3>2
        <3>3. CASE \E i \in 1 .. Len(pending) :
                     FieldEvent(pending, i, f) /\ pending[i].v = server.val[f]
            <4>1. PICK i \in 1 .. Len(pending) :
                     FieldEvent(pending, i, f) /\ pending[i].v = server.val[f]
                BY <3>3
            <4>2. CASE i = 1
                BY <2>2, <2>4, <3>1, <4>1, <4>2
            <4>3. CASE i # 1
                <5>1. i - 1 \in 1 .. Len(pending') /\ pending'[i - 1] = pending[i]
                    BY <2>2, <4>3
                <5> QED
                    BY <2>2, <3>1, <4>1, <5>1 DEF FieldEvent
            <4> QED
                BY <4>2, <4>3
        <3> QED
            BY <1>1, <3>2, <3>3 DEF ServerInv
    <2>7. ServerInv'
        <3> DEFINE P(i, f) == FieldEvent(pending', i, f)
        <3>1. \A i \in 1 .. Len(pending'), f \in F : P(i, f) =>
                /\ room'.val[f] < pending'[i].v /\ pending'[i].v <= server'.val[f]
                /\ \A j \in 1 .. Len(pending') : j > i /\ P(j, f) => pending'[i].v < pending'[j].v
            BY <2>5
        <3>2. \A f \in F :
                /\ room'.val[f] <= server'.val[f]
                /\ \/ room'.val[f] = server'.val[f]
                   \/ \E i \in 1 .. Len(pending') : P(i, f) /\ pending'[i].v = server'.val[f]
            BY <2>6
        <3>3. (\A i \in 1 .. Len(pending), f \in Fields : FieldEvent(pending, i, f) =>
                /\ room.val[f] < pending[i].v /\ pending[i].v <= server.val[f]
                /\ \A j \in 1 .. Len(pending) :
                     j > i /\ FieldEvent(pending, j, f) => pending[i].v < pending[j].v)'
            BY <1>1, <3>1 DEF FieldEvent
        <3>4. (\A f \in Fields :
                /\ room.val[f] <= server.val[f]
                /\ \/ room.val[f] = server.val[f]
                   \/ \E i \in 1 .. Len(pending) :
                        FieldEvent(pending, i, f) /\ pending[i].v = server.val[f])'
            BY <1>1, <3>2 DEF FieldEvent
        <3> QED
            BY <3>3, <3>4 DEF ServerInv
    <2>8. ASSUME NEW f \in F PROVE room.val[f] <= room'.val[f]
        <3>1. CASE FieldEvent(pending, 1, f)
            <4>1. room'.val[f] = pending[1].v /\ pending[1].v \in Nat /\ room.val[f] < pending[1].v
                BY <2>4, <3>1
            <4>2. room.val[f] \in Nat
                BY <1>1
            <4> QED
                BY <4>1, <4>2
        <3>2. CASE ~FieldEvent(pending, 1, f)
            BY <1>1, <2>3, <3>2
        <3> QED
            BY <3>1, <3>2
    <2> QED
        BY <1>1, <2>2, <2>7, <2>8
<1>6. CASE \E f \in F : Changed(f)
    BY <1>1, <1>3, <1>6 DEF Changed
<1>7. CASE \E e \in Events(F) : Recorded(e)
    BY <1>1, <1>4, <1>7 DEF Recorded
<1> QED
    BY <1>1, <1>2, <1>5, <1>6, <1>7 DEF HomeStep, Still

(* No field of the homeserver gets an older value.                         *)
Rising(F) == \A f \in F : server.val[f] <= server'.val[f]

(* What is not newer than the homeserver stays so.                         *)
LEMMA BelowStays ==
    ASSUME NEW F, Types(F), Types(F)', Rising(F), NEW p \in Partial(F), Below(p)
    PROVE  Below(p)'
<1>1. Fields = F /\ Fields' = F
    BY DEF Types, HomeTypes, Fields
<1>2. server.val \in [F -> Nat] /\ server'.val \in [F -> Nat]
    BY DEF Types, HomeTypes
<1>3. \A f \in DOMAIN p : p[f] \in Nat
    BY PartialTypes
<1> QED
    BY <1>1, <1>2, <1>3 DEF Below, Rising

(* So does a message.                                                      *)
LEMMA MessageStays ==
    ASSUME NEW F, Types(F), Types(F)', Rising(F), NEW m \in Messages(F), MessageBelow(m)
    PROVE  MessageBelow(m)'
<1>1. CASE m.t = "fields"
    <2>1. m.val \in Partial(F) /\ Below(m.val)
        BY <1>1, MessageForms DEF MessageBelow
    <2>2. Below(m.val)'
        BY <2>1, BelowStays
    <2> QED
        BY <1>1, <2>2 DEF MessageBelow
<1>2. CASE m.t \in {"room", "list"} /\ m.snap # None
    <2>1. m.snap.val \in [F -> Nat] /\ Below(m.snap.val)
        BY <1>2, MessageForms DEF MessageBelow, Snapshots
    <2>2. m.snap.val \in Partial(F)
        BY <2>1 DEF Partial
    <2>3. Below(m.snap.val)'
        BY <2>1, <2>2, BelowStays
    <2> QED
        BY <1>2, <2>3 DEF MessageBelow
<1> QED
    BY <1>1, <1>2 DEF MessageBelow

(* And so does a request.                                                  *)
LEMMA RequestStays ==
    ASSUME NEW F, Types(F), Types(F)', Rising(F), NEW q \in RequestStates(F), RequestBelow(q)
    PROVE  RequestBelow(q)'
<1>1. q.kind = "reply" => q.msg \in Messages(F)
    BY RequestForms, MessageTypes
<1>2. q.kind = "change" => q.val \in Partial(F)
    BY RequestForms
<1>3. q.kind = "reply" => MessageBelow(q.msg)'
    BY <1>1, MessageStays DEF RequestBelow
<1>4. q.kind = "change" => Below(q.val)'
    BY <1>2, BelowStays DEF RequestBelow
<1> QED
    BY <1>3, <1>4 DEF RequestBelow

(* Messages about other things than fields are not newer.                  *)
LEMMA PlainBelow ==
    /\ \A m \in Changes \cup MarkerMessages \cup InvitedMessages \cup LeftMessages : MessageBelow(m)
    /\ \A m \in Changes \cup MarkerMessages \cup InvitedMessages \cup LeftMessages : MessageBelow(m)'
BY DEF Changes, UnreadMessages, EphemeralMessages, MarkerMessages, InvitedMessages, LeftMessages,
       MessageBelow

(* The SDK's copy of the room is not newer than the homeserver's, nor is   *)
(* a snapshot of it.                                                       *)
LEMMA SnapshotBelow ==
    ASSUME NEW F, Types(F), ServerInv
    PROVE  Below(room.val) /\ Below(Snapshot.val)
BY FieldsAre DEF Types, RoomTypes, ServerInv, Below, Snapshot

(* What the executor says of a field is what the SDK knows.                *)
SaysCurrent(m) ==
    m.t = "fields" /\ m.from = "executor" =>
      \A f \in Fields : f \in DOMAIN m.val => m.val[f] = room.val[f]

(* Steps that add messages about the fields which are not newer than the   *)
(* homeserver, and current ones of the executor, and touch neither the     *)
(* SDK's copy nor what the handlers of the fields have queued.             *)
ChannelAside ==
    \/ UNCHANGED channel
    \/ \E x : x.t # "field" /\ channel' = Append(channel, x)
    \/ channel # <<>> /\ Head(channel).t # "field" /\ channel' = Tail(channel)

OutBelow(F) ==
    \E msgs \in Seq(Messages(F)) :
        /\ out' = out \o msgs
        /\ \A i \in 1 .. Len(msgs) : MessageBelow(msgs[i])' /\ SaysCurrent(msgs[i])'

RequestsBelow(F) ==
    \A r \in Requests :
        \/ request'[r] = request[r]
        \/ \E q \in RequestStates(F) : request'[r] = q /\ RequestBelow(q)'

Ordinary(F) ==
    /\ room'.val = room.val /\ UNCHANGED <<handlers, app>> /\ hist'.skipped = hist.skipped
    /\ ChannelAside
    /\ OutBelow(F)
    /\ RequestsBelow(F)

(* Messages, actions and requests after such a step.                       *)
LEMMA OutBelowStep ==
    ASSUME NEW F, Types(F), Types(F)', Rising(F), BelowInv, OutBelow(F)
    PROVE  /\ (\A i \in 1 .. Len(out) : MessageBelow(out[i]))'
           /\ \A i \in 1 .. Len(out) : i \in 1 .. Len(out') /\ out'[i] = out[i]
<1>1. PICK msgs \in Seq(Messages(F)) :
        out' = out \o msgs /\ \A i \in 1 .. Len(msgs) : MessageBelow(msgs[i])'
    BY DEF OutBelow
<1>2. out \in Seq(Messages(F)) /\ Len(out) \in Nat /\ Len(msgs) \in Nat
    BY DEF Types, OutTypes
<1>3. /\ Len(out') = Len(out) + Len(msgs)
      /\ \A i \in 1 .. Len(out) : out'[i] = out[i]
      /\ \A i \in 1 .. Len(msgs) : out'[Len(out) + i] = msgs[i]
    BY <1>1, <1>2
<1>4. ASSUME NEW i \in 1 .. Len(out') PROVE MessageBelow(out[i])'
    <2>1. CASE i \in 1 .. Len(out)
        <3>1. PICK m : m = out[i]
            OBVIOUS
        <3>2. m \in Messages(F) /\ MessageBelow(m) /\ out'[i] = m
            BY <1>2, <1>3, <2>1, <3>1 DEF BelowInv
        <3>3. MessageBelow(m)'
            BY <3>2, MessageStays
        <3> QED
            BY <3>2, <3>3
    <2>2. CASE i \notin 1 .. Len(out)
        <3>1. PICK j \in 1 .. Len(msgs) : i = Len(out) + j
            <4>1. i - Len(out) \in 1 .. Len(msgs) /\ i = Len(out) + (i - Len(out))
                BY <1>2, <1>3, <2>2
            <4> QED
                BY <4>1
        <3>2. PICK m : m = msgs[j]
            OBVIOUS
        <3>3. MessageBelow(m)' /\ out'[i] = m
            BY <1>1, <1>3, <3>1, <3>2
        <3> QED
            BY <3>3
    <2> QED
        BY <2>1, <2>2
<1> QED
    BY <1>2, <1>3, <1>4

(* The actions of the fields in the channel stay the same.                 *)
LEMMA ChannelAsideStep ==
    ASSUME NEW F, Types(F), Types(F)', ChannelAside
    PROVE  \A f :
             /\ \A i \in 1 .. Len(channel') : FieldEvent(channel', i, f) =>
                  \E j \in 1 .. Len(channel) : FieldEvent(channel, j, f) /\ channel[j] = channel'[i]
             /\ \A i \in 1 .. Len(channel) : FieldEvent(channel, i, f) =>
                  \E j \in 1 .. Len(channel') : FieldEvent(channel', j, f) /\ channel'[j] = channel[i]
<1> TAKE f
<1>1. channel \in Seq(Actions(F)) /\ Len(channel) \in Nat
    BY DEF Types, ChannelTypes
<1>2. CASE UNCHANGED channel
    BY <1>2 DEF FieldEvent
<1>3. CASE \E x : x.t # "field" /\ channel' = Append(channel, x)
    <2>1. PICK x : x.t # "field" /\ channel' = Append(channel, x)
        BY <1>3
    <2>2. /\ Len(channel') = Len(channel) + 1 /\ channel'[Len(channel) + 1] = x
          /\ \A i \in 1 .. Len(channel) : channel'[i] = channel[i]
        BY <1>1, <2>1
    <2> QED
        BY <1>1, <2>1, <2>2 DEF FieldEvent
<1>4. CASE channel # <<>> /\ Head(channel).t # "field" /\ channel' = Tail(channel)
    <2>1. /\ Len(channel) > 0 /\ Len(channel') = Len(channel) - 1 /\ channel[1].t # "field"
          /\ \A i \in 1 .. Len(channel') : channel'[i] = channel[i + 1]
        BY <1>1, <1>4
    <2>2. ASSUME NEW i \in 1 .. Len(channel'), FieldEvent(channel', i, f)
          PROVE  \E j \in 1 .. Len(channel) : FieldEvent(channel, j, f) /\ channel[j] = channel'[i]
        <3>1. i + 1 \in 1 .. Len(channel)
            BY <1>1, <2>1
        <3> QED
            BY <2>1, <2>2, <3>1 DEF FieldEvent
    <2>3. ASSUME NEW i \in 1 .. Len(channel), FieldEvent(channel, i, f)
          PROVE  \E j \in 1 .. Len(channel') : FieldEvent(channel', j, f) /\ channel'[j] = channel[i]
        <3>1. i # 1
            BY <2>1, <2>3 DEF FieldEvent
        <3>2. i - 1 \in 1 .. Len(channel') /\ channel'[i - 1] = channel[i]
            BY <1>1, <2>1, <3>1
        <3> QED
            BY <2>3, <3>2 DEF FieldEvent
    <2> QED
        BY <2>2, <2>3
<1> QED
    BY <1>2, <1>3, <1>4 DEF ChannelAside

(* Such steps keep the invariant.                                          *)
LEMMA OrdinaryStep ==
    ASSUME NEW F, Types(F), Types(F)', Rising(F), NewestInv, Ordinary(F)
    PROVE  BelowInv' /\ FieldInv'
<1>1. Fields = F /\ Fields' = F
    BY DEF Types, HomeTypes, Fields
<1>2. /\ room'.val = room.val /\ app' = app /\ handlers' = handlers
      /\ hist'.skipped = hist.skipped
    BY DEF Ordinary
<1>3. /\ (\A i \in 1 .. Len(out) : MessageBelow(out[i]))'
      /\ \A i \in 1 .. Len(out) : i \in 1 .. Len(out') /\ out'[i] = out[i]
    BY OutBelowStep DEF Ordinary, NewestInv
<1>4. \A f :
        /\ \A i \in 1 .. Len(channel') : FieldEvent(channel', i, f) =>
             \E j \in 1 .. Len(channel) : FieldEvent(channel, j, f) /\ channel[j] = channel'[i]
        /\ \A i \in 1 .. Len(channel) : FieldEvent(channel, i, f) =>
             \E j \in 1 .. Len(channel') : FieldEvent(channel', j, f) /\ channel'[j] = channel[i]
    BY ChannelAsideStep DEF Ordinary
<1>5. BelowInv'
    <2>1. Below(app.fields.best)'
        <3>1. PICK p : p = app.fields.best
            OBVIOUS
        <3>2. p \in [F -> Nat] /\ Below(p) /\ app'.fields.best = p
            BY <1>2, <3>1 DEF Types, OutTypes, Apps, FieldsTold, NewestInv, BelowInv
        <3>3. p \in Partial(F)
            BY <3>2 DEF Partial
        <3>4. Below(p)'
            BY <3>2, <3>3, BelowStays
        <3> QED
            BY <3>2, <3>4
    <2>2. \A i \in 1 .. Len(channel'), f \in F : FieldEvent(channel', i, f) => channel'[i].v <= room'.val[f]
        <3>1. \A i \in 1 .. Len(channel), f \in F : FieldEvent(channel, i, f) => channel[i].v <= room.val[f]
            BY <1>1 DEF NewestInv, BelowInv
        <3> SUFFICES ASSUME NEW i \in 1 .. Len(channel'), NEW f \in F, FieldEvent(channel', i, f)
                     PROVE  channel'[i].v <= room'.val[f]
            OBVIOUS
        <3>2. PICK j \in 1 .. Len(channel) : FieldEvent(channel, j, f) /\ channel[j] = channel'[i]
            BY <1>4
        <3>3. channel[j].v <= room.val[f]
            BY <3>1, <3>2
        <3> QED
            BY <1>2, <3>2, <3>3
    <2>3. ASSUME NEW r \in Requests PROVE RequestBelow(request[r])'
        <3>1. CASE request'[r] = request[r]
            <4>1. PICK q : q = request[r]
                OBVIOUS
            <4>2. q \in RequestStates(F) /\ RequestBelow(q)
                BY <4>1 DEF Types, RequestTypes, NewestInv, BelowInv, RequestBelow
            <4>3. RequestBelow(q)'
                BY <4>2, RequestStays
            <4> QED
                BY <3>1, <4>1, <4>3
        <3>2. CASE \E q \in RequestStates(F) : request'[r] = q /\ RequestBelow(q)'
            BY <3>2
        <3> QED
            BY <3>1, <3>2 DEF Ordinary, RequestsBelow
    <2>4. (\A i \in 1 .. Len(channel), f \in Fields :
             FieldEvent(channel, i, f) => channel[i].v <= room.val[f])'
        BY <1>1, <2>2 DEF FieldEvent
    <2>5. (\A r \in Requests : RequestBelow(request[r]))'
        BY <2>3
    <2> QED
        BY <1>3, <2>1, <2>4, <2>5 DEF BelowInv, RequestBelow
<1>6. ASSUME NEW f \in F PROVE FieldTold(f)'
    <2>1. FieldTold(f)
        BY <1>1 DEF NewestInv, FieldInv
    <2>2. CASE app.fields.best[f] >= room.val[f] \/ f \in hist.skipped
               \/ \E i \in 1 .. Len(handlers) : FieldEvent(handlers, i, f)
        BY <1>2, <2>2 DEF FieldTold, FieldEvent
    <2>3. CASE \E i \in 1 .. Len(channel) : FieldEvent(channel, i, f) /\ channel[i].v = room.val[f]
        <3>1. \E j \in 1 .. Len(channel') : FieldEvent(channel', j, f) /\ channel'[j].v = room'.val[f]
            BY <1>2, <1>4, <2>3
        <3> QED
            BY <3>1 DEF FieldTold, FieldEvent
    <2>4. CASE \E i \in 1 .. Len(out) :
                 out[i].t = "fields" /\ f \in DOMAIN out[i].val /\ out[i].val[f] >= room.val[f]
        <3>1. \E i \in 1 .. Len(out') :
                 out'[i].t = "fields" /\ f \in DOMAIN out'[i].val /\ out'[i].val[f] >= room'.val[f]
            BY <1>2, <1>3, <2>4
        <3> QED
            BY <3>1 DEF FieldTold
    <2> QED
        BY <2>1, <2>2, <2>3, <2>4 DEF FieldTold
<1>7. FieldInv'
    <2>1. (\A i \in 1 .. Len(handlers), f \in Fields :
             FieldEvent(handlers, i, f) => handlers[i].v = room.val[f])'
        BY <1>1, <1>2 DEF NewestInv, FieldInv, FieldEvent
    <2>2. (\A f \in Fields : FieldTold(f))'
        BY <1>1, <1>6
    <2> QED
        BY <2>1, <2>2 DEF FieldInv
<1> QED
    BY <1>5, <1>7

(* No message, one message, or several are sent.                           *)
LEMMA OutMade ==
    ASSUME NEW F, Types(F)
    PROVE  /\ UNCHANGED out => OutBelow(F)
           /\ \A m \in Messages(F) :
                out' = Append(out, m) /\ MessageBelow(m)' /\ SaysCurrent(m)' => OutBelow(F)
<1>1. out \in Seq(Messages(F))
    BY DEF Types, OutTypes
<1>2. out \o <<>> = out /\ <<>> \in Seq(Messages(F)) /\ Len(<<>>) = 0
    BY <1>1
<1>3. ASSUME NEW m \in Messages(F)
      PROVE  /\ Append(out, m) = out \o <<m>> /\ <<m>> \in Seq(Messages(F))
             /\ Len(<<m>>) = 1 /\ <<m>>[1] = m
    BY <1>1
<1>4. ASSUME UNCHANGED out PROVE OutBelow(F)
    <2>1. PICK msgs : msgs = <<>>
        OBVIOUS
    <2>2. msgs \in Seq(Messages(F)) /\ out' = out \o msgs /\ Len(msgs) = 0
        BY <1>2, <1>4, <2>1
    <2>3. \A i \in 1 .. Len(msgs) : FALSE
        BY <2>2
    <2> QED
        BY <2>2, <2>3 DEF OutBelow
<1>5. ASSUME NEW m \in Messages(F), out' = Append(out, m), MessageBelow(m)', SaysCurrent(m)'
      PROVE  OutBelow(F)
    <2>1. \A i \in 1 .. Len(<<m>>) : MessageBelow(<<m>>[i])' /\ SaysCurrent(<<m>>[i])'
        BY <1>3, <1>5
    <2> QED
        BY <1>3, <1>5, <2>1 DEF OutBelow
<1> QED
    BY <1>4, <1>5

(* Messages of the executor.                                               *)
LEMMA SendsMade ==
    ASSUME NEW F, NEW msgs \in Seq(Messages(F)), Sends(msgs),
           \A i \in 1 .. Len(msgs) : MessageBelow(msgs[i])' /\ SaysCurrent(msgs[i])'
    PROVE  OutBelow(F)
BY DEF Sends, OutBelow

(* A request begins or goes on.                                            *)
LEMMA RequestsMade ==
    ASSUME NEW F, Types(F), NEW r \in Requests, NEW q \in RequestStates(F), RequestBelow(q)',
           Begin(r, q) \/ GoesOn(r, q)
    PROVE  RequestsBelow(F)
BY DEF Types, RequestTypes, Begin, GoesOn, RequestsBelow

(* A snapshot that is being sent.                                          *)
LEMMA SnapshotSent ==
    ASSUME NEW F, Types(F), Types(F)', Rising(F), ServerInv, NEW s, s = Snapshot,
           NEW t \in {"room", "list"}
    PROVE  /\ [t |-> t, snap |-> s] \in Replies(F) /\ MessageBelow([t |-> t, snap |-> s])'
           /\ Answer([t |-> t, snap |-> s]) \in RequestStates(F)
           /\ RequestBelow(Answer([t |-> t, snap |-> s]))'
<1>1. s \in Snapshots(F) /\ Below(s.val) /\ s.val \in [F -> Nat]
    BY SnapshotTypes, SnapshotBelow DEF Snapshots
<1>2. s.val \in Partial(F)
    BY <1>1 DEF Partial
<1>3. Below(s.val)'
    BY <1>1, <1>2, BelowStays
<1>4. PICK m : m = [t |-> t, snap |-> s]
    OBVIOUS
<1>5. m \in Replies(F)
    BY <1>1, <1>4, MessageTypes
<1>6. MessageBelow(m)'
    BY <1>3, <1>4 DEF MessageBelow
<1>7. Answer(m) \in RequestStates(F)
    BY <1>5, RequestMade
<1>8. RequestBelow(Answer(m))'
    BY <1>6 DEF Answer, RequestBelow
<1> QED
    BY <1>4, <1>5, <1>6, <1>7, <1>8

(* The homeserver, the clock and markers that are cached without a word.   *)
LEMMA OutsideOrdinary ==
    ASSUME NEW F, Types(F), Homeserver \/ Expire \/ CacheSilently
    PROVE  Ordinary(F)
<1>1. /\ UNCHANGED <<room, handlers, app, channel, out, request>>
      /\ UNCHANGED hist \/ \E x : hist' = [hist EXCEPT !.silent = x]
    BY DEF Homeserver, Expire, CacheSilently
<1>2. hist'.skipped = hist.skipped
    BY <1>1 DEF Types, HistTypes, Hist
<1> QED
    BY <1>1, <1>2, OutMade DEF Ordinary, ChannelAside, RequestsBelow

(* The streams.                                                            *)
LEMMA ForwardOrdinary ==
    ASSUME NEW F, Types(F), NEW s \in {"updates", "generic"}, Forward(s)
    PROVE  Ordinary(F)
<1>1. UNCHANGED <<room, handlers, app, out, request, hist>>
    BY DEF Forward
<1>2. PICK x : x = Head(stream[s].q)
    OBVIOUS
<1>3. stream[s].q \in Seq(StreamActions) /\ stream[s].q # <<>>
    BY DEF Forward, Types, HandlerTypes, Stream
<1>4. x \in StreamActions
    BY <1>2, <1>3
<1>5. x.t # "field"
    BY <1>4 DEF StreamActions, UpdateActions, GenericActions
<1>6. ChannelAside
    BY <1>2, <1>5 DEF Forward, ChannelAside
<1> QED
    BY <1>1, <1>6, OutMade DEF Ordinary, RequestsBelow

(* What the executor leaves alone when it takes no action of a field.      *)
LEMMA TakesOrdinary ==
    ASSUME NEW F, Types(F), NEW t, t # "field", Takes(t), OutBelow(F), hist'.skipped = hist.skipped
    PROVE  Ordinary(F)
BY DEF Takes, Ordinary, ChannelAside, RequestsBelow

(* Our own membership.                                                     *)
LEMMA ExecOwnOrdinary ==
    ASSUME NEW F, Types(F), Types(F)', Rising(F), ServerInv, ExecOwn
    PROVE  Ordinary(F)
<1>1. Takes("own")
    BY DEF ExecOwn
<1>2. PICK a : a = Head(channel)
    OBVIOUS
<1>3. a.k \in Nat
    BY <1>1, <1>2, TakesTypes, ActionForms
<1>4. PICK s : s = Snapshot
    OBVIOUS
<1>5. PICK p : p = Restrict(room.val, Fields \cap {"members"})
    OBVIOUS
<1>6. \/ Sends(<<[t |-> "invited"]>>)
      \/ Sends(<<[t |-> "left", moves |-> a.k]>>)
      \/ Sends(<<[t |-> "room", snap |-> s]>>)
      \/ Sends(<<[t |-> "fields", from |-> "executor", val |-> p]>>)
      \/ Sends(<<>>)
    BY <1>2, <1>4, <1>5 DEF ExecOwn
<1>7. UNCHANGED hist \/ hist' = [hist EXCEPT !.untold = @ \cup {a.k}]
    BY <1>2 DEF ExecOwn
<1>8. hist'.skipped = hist.skipped
    BY <1>7 DEF Types, HistTypes, Hist
<1>9. /\ [t |-> "invited"] \in Messages(F) /\ MessageBelow([t |-> "invited"])'
      /\ [t |-> "left", moves |-> a.k] \in Messages(F) /\ MessageBelow([t |-> "left", moves |-> a.k])'
    BY <1>3, MessageTypes DEF MessageBelow
<1>10. /\ [t |-> "room", snap |-> s] \in Messages(F) /\ MessageBelow([t |-> "room", snap |-> s])'
    BY <1>4, SnapshotSent, MessageTypes
<1>11. PICK m : m = [t |-> "fields", from |-> "executor", val |-> p]
    OBVIOUS
<1>12. m \in Messages(F) /\ MessageBelow(m)' /\ SaysCurrent(m)'
    <2>1. Fields = F /\ room.val \in [F -> Nat]
        BY FieldsAre DEF Types, RoomTypes
    <2>2. p \in Partial(F)
        BY <1>5, <2>1, PartialTypes
    <2>3. Below(p)
        BY <1>5, <2>1, SnapshotBelow DEF Below, Restrict
    <2>4. Below(p)'
        BY <2>2, <2>3, BelowStays
    <2>5. \A f \in DOMAIN p : f \in F /\ p[f] = room.val[f]
        BY <1>5, <2>1 DEF Restrict
    <2>6. m \in Messages(F)
        BY <1>11, <2>2, MessageTypes
    <2>7. MessageBelow(m)'
        BY <1>11, <2>4 DEF MessageBelow
    <2>8. room' = room
        BY <1>1 DEF Takes
    <2>9. SaysCurrent(m)'
        BY <1>11, <2>5, <2>8 DEF SaysCurrent
    <2> QED
        BY <2>6, <2>7, <2>9
<1>13. ASSUME NEW x \in Messages(F), MessageBelow(x)', SaysCurrent(x)', Sends(<<x>>) PROVE OutBelow(F)
    <2>1. out' = Append(out, x)
        BY <1>13 DEF Sends, Types, OutTypes
    <2> QED
        BY <1>13, <2>1, OutMade
<1>14. Sends(<<>>) => OutBelow(F)
    <2>1. Sends(<<>>) => out' = out
        BY DEF Sends, Types, OutTypes
    <2> QED
        BY <2>1, OutMade
<1>15. /\ SaysCurrent([t |-> "invited"])' /\ SaysCurrent([t |-> "left", moves |-> a.k])'
       /\ SaysCurrent([t |-> "room", snap |-> s])'
    BY DEF SaysCurrent
<1>16. OutBelow(F)
    BY <1>6, <1>9, <1>10, <1>11, <1>12, <1>13, <1>14, <1>15
<1> QED
    BY <1>1, <1>8, <1>16, TakesOrdinary

(* Messages that say nothing about fields.                                 *)
LEMMA PlainSends ==
    ASSUME NEW F, NEW msgs \in Seq(Changes \cup MarkerMessages), Sends(msgs)
    PROVE  OutBelow(F)
<1>1. msgs \in Seq(Messages(F))
    BY DEF Messages
<1>2. ASSUME NEW i \in 1 .. Len(msgs) PROVE MessageBelow(msgs[i])' /\ SaysCurrent(msgs[i])'
    <2>1. PICK m : m = msgs[i]
        OBVIOUS
    <2>2. m \in Changes \cup MarkerMessages
        BY <2>1
    <2>3. MessageBelow(m)' /\ SaysCurrent(m)'
        BY <2>2, PlainBelow
           DEF SaysCurrent, Changes, UnreadMessages, EphemeralMessages, MarkerMessages
    <2> QED
        BY <2>1, <2>3
<1> QED
    BY <1>1, <1>2, SendsMade

(* The executor, except for fields and membership.                         *)
LEMMA ExecOrdinary ==
    ASSUME NEW F, Types(F), ExecAny \/ ExecMessage \/ ExecCount \/ ExecUpdate \/ ExecDiscovered
    PROVE  Ordinary(F)
<1>1. hist \in Hist(F) /\ queued \in Seq(Changes)
    BY DEF Types, HistTypes, QueueTypes
<1>2. CASE ExecAny
    <2>1. PICK a : a = Head(channel)
        OBVIOUS
    <2>2. Takes("any") /\ a.u \in Users /\ a.ts \in Times
        BY <1>2, <2>1, TakesTypes, ActionForms DEF ExecAny
    <2>3. PICK m : m = [t |-> "markers", markers |-> [NoMarkers EXCEPT ![a.u] = a.ts]]
        OBVIOUS
    <2>4. m \in MarkerMessages
        BY <2>2, <2>3, MarkerTypes DEF MarkerMessages
    <2>5. <<m>> \in Seq(Changes \cup MarkerMessages) /\ <<>> \in Seq(Changes \cup MarkerMessages)
        BY <2>4
    <2>6. Sends(<<m>>) \/ Sends(<<>>)
        BY <1>2, <2>1, <2>3 DEF ExecAny
    <2>7. OutBelow(F)
        BY <2>5, <2>6, PlainSends
    <2>8. hist' = [hist EXCEPT !.silent = @ \ {a.u}] \/ hist' = [hist EXCEPT !.silent = @]
        BY <1>2, <2>1 DEF ExecAny
    <2>9. hist'.skipped = hist.skipped
        BY <1>1, <2>8 DEF Hist
    <2> QED
        BY <2>2, <2>7, <2>9, TakesOrdinary
<1>3. CASE ExecMessage
    <2>1. Takes("message") /\ UNCHANGED <<out, hist>>
        BY <1>3 DEF ExecMessage
    <2> QED
        BY <2>1, OutMade, TakesOrdinary
<1>4. CASE ExecCount
    <2>1. PICK u : u = update_room_unread_count(queued)
        OBVIOUS
    <2>2. /\ Takes("fully_read") \/ Takes("generic")
          /\ Sends(u.send) /\ \E z, v : hist' = [hist EXCEPT !.zeroed = z, !.overlap = v]
        BY <1>4, <2>1 DEF ExecCount
    <2>3. u.send \in Seq(Changes \cup MarkerMessages)
        BY <2>1, CountTypes
    <2>4. OutBelow(F)
        BY <2>2, <2>3, PlainSends
    <2>5. hist'.skipped = hist.skipped
        BY <1>1, <2>2 DEF Hist
    <2> QED
        BY <2>2, <2>4, <2>5, TakesOrdinary
<1>5. CASE ExecUpdate
    <2>1. PICK a : a = Head(channel)
        OBVIOUS
    <2>2. PICK u : u = update_room_unread_count(queued)
        OBVIOUS
    <2>3. PICK c : c = UpdateChange(a)
        OBVIOUS
    <2>4. /\ Takes("update")
          /\ Sends(Append(u.send, c)) \/ Sends(u.send)
          /\ \E d, v, z, s :
               hist' = [hist EXCEPT !.drops = d, !.overlap = v, !.zeroed = z, !.silent = s]
        BY <1>5, <2>1, <2>2, <2>3 DEF ExecUpdate, UpdateChange, UpdateNewer
    <2>5. a.typing \in {TRUE, None} /\ a.u \in Users \cup {None} /\ a.ts \in Times
        BY <2>1, <2>4, TakesTypes, ActionForms
    <2>6. c \in Changes
        <3>1. UpdateNewer(a) => [NoMarkers EXCEPT ![a.u] = a.ts] \in Markers
            BY <2>5, MarkerTypes DEF UpdateNewer
        <3>2. (IF UpdateNewer(a) THEN [NoMarkers EXCEPT ![a.u] = a.ts] ELSE NoMarkers) \in Markers
            BY <3>1, MarkerTypes
        <3> QED
            BY <2>3, <2>5, <3>2, MessageTypes DEF UpdateChange
    <2>7. u.send \in Seq(Changes)
        BY <2>2, CountTypes
    <2>8. Append(u.send, c) \in Seq(Changes \cup MarkerMessages)
          /\ u.send \in Seq(Changes \cup MarkerMessages)
        BY <2>6, <2>7
    <2>9. OutBelow(F)
        BY <2>4, <2>8, PlainSends
    <2>10. hist'.skipped = hist.skipped
        BY <1>1, <2>4 DEF Hist
    <2> QED
        BY <2>4, <2>9, <2>10, TakesOrdinary
<1>6. CASE ExecDiscovered
    <2>1. Takes("discovered") /\ Sends(queued) /\ hist' = [hist EXCEPT !.drops = @ + 1]
        BY <1>6 DEF ExecDiscovered
    <2>2. PICK q : q = queued
        OBVIOUS
    <2>3. q \in Seq(Changes \cup MarkerMessages)
        BY <1>1, <2>2
    <2>4. OutBelow(F)
        BY <2>1, <2>2, <2>3, PlainSends
    <2>5. hist'.skipped = hist.skipped
        BY <1>1, <2>1 DEF Hist
    <2> QED
        BY <2>1, <2>4, <2>5, TakesOrdinary
<1> QED
    BY <1>2, <1>3, <1>4, <1>5, <1>6

(* What a request leaves alone.                                            *)
LEMMA RequestOrdinary ==
    ASSUME NEW F, Types(F), NEW r \in Requests, NEW q \in RequestStates(F), RequestBelow(q)',
           Begin(r, q) \/ GoesOn(r, q), room'.val = room.val, hist'.skipped = hist.skipped,
           OutBelow(F)
    PROVE  Ordinary(F)
<1>1. RequestsBelow(F)
    BY RequestsMade
<1>2. UNCHANGED <<handlers, channel, app>>
    BY DEF Begin, GoesOn
<1> QED
    BY <1>1, <1>2 DEF Ordinary, ChannelAside

(* A request that begins sends nothing yet.                                *)
LEMMA AsksOrdinary ==
    ASSUME NEW F, Types(F), Types(F)', Rising(F), ServerInv, NEW r \in Requests, Asks(r)
    PROVE  Ordinary(F)
<1>1. hist \in Hist(F) /\ RoomTypes(F) /\ Fields = F
    BY FieldsAre DEF Types, HistTypes
<1>2. ASSUME NEW q \in RequestStates(F), RequestBelow(q)', Begin(r, q), room'.val = room.val,
             hist'.skipped = hist.skipped
      PROVE  Ordinary(F)
    <2>1. OutBelow(F)
        BY <1>2, OutMade DEF Begin
    <2> QED
        BY <1>2, <2>1, RequestOrdinary
<1>3. ASSUME NEW m, Move(m) PROVE room'.val = room.val /\ hist'.skipped = hist.skipped
    BY <1>1, <1>3 DEF Move, Moved, RoomTypes, Hist
<1>4. CASE GetRooms(r)
    <2>1. PICK s : s = Snapshot
        OBVIOUS
    <2>2. /\ UNCHANGED <<room, hist>>
          /\ \/ Begin(r, Answer([t |-> "list", snap |-> s]))
             \/ Begin(r, Answer([t |-> "list", snap |-> None]))
        BY <1>4, <2>1 DEF GetRooms
    <2>3. /\ Answer([t |-> "list", snap |-> s]) \in RequestStates(F)
          /\ RequestBelow(Answer([t |-> "list", snap |-> s]))'
        BY <2>1, SnapshotSent
    <2>4. /\ Answer([t |-> "list", snap |-> None]) \in RequestStates(F)
          /\ RequestBelow(Answer([t |-> "list", snap |-> None]))'
        BY MessageTypes, RequestMade DEF Answer, RequestBelow, MessageBelow
    <2> QED
        BY <1>2, <2>2, <2>3, <2>4
<1>5. CASE JoinRoom(r)
    <2>1. PICK q : q = [kind |-> "join"]
        OBVIOUS
    <2>2. q \in RequestStates(F) /\ RequestBelow(q)'
        BY <2>1, RequestMade DEF RequestBelow
    <2>3. Begin(r, q) /\ (Move("Joined") \/ Move("InvitationAccepted"))
        BY <1>5, <2>1 DEF JoinRoom
    <2> QED
        BY <1>2, <1>3, <2>2, <2>3
<1>6. CASE LeaveRoom(r)
    <2>1. PICK k : k = hist'.moves
        OBVIOUS
    <2>2. PICK q : q = Answer([t |-> "left", moves |-> k])
        OBVIOUS
    <2>3. k \in Nat
        BY <2>1 DEF Types, HistTypes, Hist
    <2>4. q \in RequestStates(F) /\ RequestBelow(q)' /\ Idle \in RequestStates(F) /\ RequestBelow(Idle)'
        BY <2>2, <2>3, MessageTypes, RequestMade DEF RequestBelow, Answer, MessageBelow, Idle
    <2>5. (Begin(r, q) \/ Begin(r, Idle)) /\ (Move("InvitationRejected") \/ Move("Left"))
        BY <1>6, <2>1, <2>2 DEF LeaveRoom
    <2> QED
        BY <1>2, <1>3, <2>4, <2>5
<1>7. CASE ChangeRoom(r)
    <2>1. PICK fs \in SUBSET (F \cap ToSet(ChangeOrder)) :
            Begin(r, [kind |-> "change", todo |-> fs, val |-> <<>>])
        BY <1>1, <1>7 DEF ChangeRoom
    <2>2. PICK q : q = [kind |-> "change", todo |-> fs, val |-> <<>>]
        OBVIOUS
    <2>3. q \in RequestStates(F)
        BY <2>2, RequestMade, PartialTypes
    <2>4. DOMAIN q.val = {} /\ q.kind = "change"
        BY <2>2
    <2>5. RequestBelow(q)'
        BY <2>4 DEF RequestBelow, Below
    <2>6. UNCHANGED <<room, hist>>
        BY <1>7 DEF ChangeRoom
    <2> QED
        BY <1>2, <2>1, <2>2, <2>3, <2>5, <2>6
<1>8. CASE PinOrInvite(r)
    <2>1. PICK f \in F : Begin(r, [kind |-> "load", f |-> f])
        BY <1>1, <1>8 DEF PinOrInvite
    <2>2. PICK q : q = [kind |-> "load", f |-> f]
        OBVIOUS
    <2>3. q \in RequestStates(F) /\ RequestBelow(q)'
        BY <2>2, RequestMade DEF RequestBelow
    <2>4. UNCHANGED <<room, hist>>
        BY <1>8 DEF PinOrInvite
    <2> QED
        BY <1>2, <2>1, <2>2, <2>3, <2>4
<1>9. CASE MarkAsRead(r)
    <2>1. PICK q : q = [kind |-> "mark"]
        OBVIOUS
    <2>2. q \in RequestStates(F) /\ RequestBelow(q)'
        BY <2>1, RequestMade DEF RequestBelow
    <2>3. Begin(r, q) /\ UNCHANGED <<room, hist>>
        BY <1>9, <2>1 DEF MarkAsRead
    <2> QED
        BY <1>2, <2>2, <2>3
<1>10. CASE FetchPage(r)
    <2>1. PICK q : q = [kind |-> "page", current |-> cache.markers]
        OBVIOUS
    <2>2. q \in RequestStates(F) /\ RequestBelow(q)'
        BY <2>1, RequestMade DEF RequestBelow, Types, CacheTypes
    <2>3. Begin(r, q) /\ UNCHANGED <<room, hist>>
        BY <1>10, <2>1 DEF FetchPage
    <2> QED
        BY <1>2, <2>2, <2>3
<1> QED
    BY <1>4, <1>5, <1>6, <1>7, <1>8, <1>9, <1>10 DEF Asks

(* The later steps of a request.                                           *)
LEMMA ProcessesOrdinary ==
    ASSUME NEW F, Types(F), Types(F)', Rising(F), ServerInv, BelowInv, NEW r \in Requests, Processes(r)
    PROVE  Ordinary(F)
<1>1. hist \in Hist(F) /\ Fields = F /\ Fields' = F
    BY FieldsAre DEF Types, HistTypes, HomeTypes, Fields
<1>2. request[r] \in RequestStates(F)
    BY DEF Types, RequestTypes
<1>3. Idle \in RequestStates(F) /\ RequestBelow(Idle)'
    BY RequestMade DEF Idle, RequestBelow
<1>4. ASSUME NEW m \in Messages(F), MessageBelow(m)', out' = Append(out, m), GoesOn(r, Idle),
             UNCHANGED room, hist'.skipped = hist.skipped,
             m.t # "fields" \/ m.from # "executor"
      PROVE  Ordinary(F)
    <2>1. SaysCurrent(m)'
        BY <1>4 DEF SaysCurrent
    <2>2. OutBelow(F)
        BY <1>4, <2>1, OutMade
    <2> QED
        BY <1>3, <1>4, <2>2, RequestOrdinary
<1>5. ASSUME NEW q \in RequestStates(F), RequestBelow(q)', UNCHANGED out, GoesOn(r, q),
             UNCHANGED room, hist'.skipped = hist.skipped
      PROVE  Ordinary(F)
    <2>1. OutBelow(F)
        BY <1>5, OutMade
    <2> QED
        BY <1>5, <2>1, RequestOrdinary
<1>6. CASE UploadAvatar(r)
    <2>1. [kind |-> "joined"] \in RequestStates(F) /\ RequestBelow([kind |-> "joined"])'
        BY RequestMade DEF RequestBelow
    <2>2. GoesOn(r, [kind |-> "joined"]) /\ UNCHANGED <<room, out, hist>>
        BY <1>6 DEF UploadAvatar
    <2> QED
        BY <1>5, <2>1, <2>2
<1>7. CASE Assemble(r)
    <2>1. PICK s : s = Snapshot
        OBVIOUS
    <2>2. PICK q : q = Answer([t |-> "room", snap |-> s])
        OBVIOUS
    <2>3. q \in RequestStates(F) /\ RequestBelow(q)'
        BY <2>1, <2>2, SnapshotSent
    <2>4. /\ GoesOn(r, q) \/ GoesOn(r, Idle)
          /\ UNCHANGED <<room, out>>
          /\ UNCHANGED hist \/ hist' = [hist EXCEPT !.untold = @ \cup {hist.moves}]
        BY <1>7, <2>1, <2>2 DEF Assemble
    <2>5. hist'.skipped = hist.skipped
        BY <1>1, <2>4 DEF Hist
    <2> QED
        BY <1>3, <1>5, <2>3, <2>4, <2>5
<1>8. CASE ChangeField(r)
    <2>1. PICK f \in F :
             /\ request[r].kind = "change"
             /\ UNCHANGED <<room, cache, out, hist>>
             /\ \/ Change(f) /\ GoesOn(r, ChangedField(request[r], f))
                \/ GoesOn(r, PassedField(request[r], f))
                \/ GoesOn(r, Idle)
        BY <1>8, ChangeFieldSteps
    <2>2. PICK p : p = request[r].val
        OBVIOUS
    <2>3. request[r] \in ChangeRequests(F) /\ p \in Partial(F) /\ Below(p)
        BY <1>2, <2>1, <2>2, RequestForms DEF BelowInv
    <2>4. Below(p)'
        BY <2>3, BelowStays
    <2>5. CASE Change(f) /\ GoesOn(r, ChangedField(request[r], f))
        <3>1. PICK v : v = server.val[f] + 1
            OBVIOUS
        <3>2. v \in Nat /\ server'.val[f] = v
            BY <2>5, <3>1 DEF Types, HomeTypes, Change
        <3>3. PICK q : q = ChangedField(request[r], f)
            OBVIOUS
        <3>4. q.kind = "change" /\ q.val = With(p, f, v)
            BY <2>1, <2>2, <2>3, <3>1, <3>3 DEF ChangedField, ChangeRequests
        <3>5. With(p, f, v) \in Partial(F)
            BY <2>3, <3>2, PartialTypes
        <3>6. q \in RequestStates(F)
            BY <2>2, <2>3, <3>1, <3>3, <3>5 DEF ChangedField, ChangeRequests, RequestStates
        <3>7. Below(With(p, f, v))'
            BY <1>1, <2>4, <3>2 DEF Below, With
        <3>8. RequestBelow(q)'
            BY <3>4, <3>7 DEF RequestBelow
        <3> QED
            BY <1>5, <2>1, <2>5, <3>3, <3>6, <3>8
    <2>6. CASE GoesOn(r, PassedField(request[r], f))
        <3>1. PICK q : q = PassedField(request[r], f)
            OBVIOUS
        <3>2. q.kind = "change" /\ q.val = p /\ q \in RequestStates(F)
            BY <2>1, <2>2, <2>3, <3>1 DEF PassedField, ChangeRequests, RequestStates
        <3>3. RequestBelow(q)'
            BY <2>4, <3>2 DEF RequestBelow
        <3> QED
            BY <1>5, <2>1, <2>6, <3>1, <3>2, <3>3
    <2>7. CASE GoesOn(r, Idle)
        BY <1>3, <1>5, <2>1, <2>7
    <2> QED
        BY <2>1, <2>5, <2>6, <2>7
<1>9. CASE ChangeDone(r)
    <2>1. PICK p : p = request[r].val
        OBVIOUS
    <2>2. /\ request[r].kind = "change" /\ GoesOn(r, Idle) /\ UNCHANGED <<room, hist>>
          /\ out' = Append(out, [t |-> "fields", from |-> "request", val |-> p])
        BY <1>9, <2>1 DEF ChangeDone
    <2>3. p \in Partial(F) /\ Below(p)
        BY <1>2, <2>1, <2>2, RequestForms DEF BelowInv
    <2>4. Below(p)'
        BY <2>3, BelowStays
    <2>5. PICK m : m = [t |-> "fields", from |-> "request", val |-> p]
        OBVIOUS
    <2>6. m \in Messages(F) /\ MessageBelow(m)'
        BY <2>3, <2>4, <2>5, MessageTypes DEF MessageBelow
    <2> QED
        BY <1>4, <2>2, <2>5, <2>6
<1>10. CASE LoadReply(r)
    <2>1. PICK f : f = request[r].f
        OBVIOUS
    <2>2. request[r].kind = "load" /\ GoesOn(r, Idle) /\ UNCHANGED <<room, server, hist>>
        BY <1>10 DEF LoadReply
    <2>3. /\ f \in F /\ room.val[f] \in Nat /\ server.val[f] \in Nat
          /\ room.val[f] <= server.val[f]
        BY <1>1, <1>2, <2>1, <2>2, RequestForms DEF Types, RoomTypes, HomeTypes, ServerInv
    <2>4. \/ \E v \in Nat : /\ v <= server.val[f]
                            /\ out' = Append(out, [t |-> "fields", from |-> "request", val |-> Only(f, v)])
          \/ UNCHANGED out
        BY <1>10, <2>1, <2>3 DEF LoadReply
    <2>5. CASE UNCHANGED out
        BY <1>3, <1>5, <2>2, <2>5
    <2>6. ASSUME NEW v \in Nat, v <= server.val[f],
                 out' = Append(out, [t |-> "fields", from |-> "request", val |-> Only(f, v)])
          PROVE  Ordinary(F)
        <3>1. PICK m : m = [t |-> "fields", from |-> "request", val |-> Only(f, v)]
            OBVIOUS
        <3>2. m \in Messages(F)
            BY <2>3, <3>1, PartialTypes, MessageTypes
        <3>3. Below(Only(f, v))'
            BY <1>1, <2>2, <2>6 DEF Below, Only
        <3>4. MessageBelow(m)'
            BY <3>1, <3>3 DEF MessageBelow
        <3> QED
            BY <1>4, <2>2, <2>6, <3>1, <3>2, <3>4
    <2> QED
        BY <2>4, <2>5, <2>6
<1>11. CASE MarkCached(r)
    <2>1. /\ out' = Append(out, [t |-> "unread", n |-> 0]) /\ GoesOn(r, Idle)
          /\ UNCHANGED room /\ hist' = [hist EXCEPT !.zeroed = TRUE]
        BY <1>11 DEF MarkCached
    <2>2. PICK m : m = [t |-> "unread", n |-> 0]
        OBVIOUS
    <2>3. m \in Messages(F) /\ MessageBelow(m)'
        BY <2>2, MessageTypes DEF MessageBelow
    <2>4. hist'.skipped = hist.skipped
        BY <1>1, <2>1 DEF Hist
    <2> QED
        BY <1>4, <2>1, <2>2, <2>3, <2>4
<1>12. CASE load_and_cache_event_read_markers(r)
    <2>1. PICK q : q = [request[r] EXCEPT !.kind = "loaded"]
        OBVIOUS
    <2>2. request[r].kind = "page" /\ GoesOn(r, q) /\ UNCHANGED <<room, out, hist>>
        BY <1>12, <2>1 DEF load_and_cache_event_read_markers
    <2>3. q.kind = "loaded" /\ q \in RequestStates(F)
        BY <1>2, <2>1, <2>2, RequestForms DEF RequestStates, PageRequests
    <2>4. RequestBelow(q)'
        BY <2>3 DEF RequestBelow
    <2> QED
        BY <1>5, <2>2, <2>3, <2>4
<1>13. CASE update_read_markers(r)
    <2>1. GoesOn(r, Idle) /\ UNCHANGED room
        BY <1>13 DEF update_read_markers
    <2>2. \/ UNCHANGED <<out, hist>>
          \/ /\ out' = Append(out, [t |-> "markers", markers |-> cache.markers])
             /\ hist' = [hist EXCEPT !.silent = {}]
        BY <1>13 DEF update_read_markers
    <2>3. hist'.skipped = hist.skipped
        BY <1>1, <2>2 DEF Hist
    <2>4. PICK m : m = [t |-> "markers", markers |-> cache.markers]
        OBVIOUS
    <2>5. m \in Messages(F) /\ MessageBelow(m)'
        BY <2>4, MessageTypes DEF Types, CacheTypes, MessageBelow
    <2> QED
        BY <1>3, <1>4, <1>5, <2>1, <2>2, <2>3, <2>4, <2>5
<1>14. CASE PageFails(r)
    <2>1. /\ GoesOn(r, Idle) /\ UNCHANGED <<room, out>>
          /\ \E x : hist' = [hist EXCEPT !.silent = x]
        BY <1>14 DEF PageFails
    <2>2. hist'.skipped = hist.skipped
        BY <1>1, <2>1 DEF Hist
    <2> QED
        BY <1>3, <1>5, <2>1, <2>2
<1>15. CASE Reply(r)
    <2>1. PICK m : m = request[r].msg
        OBVIOUS
    <2>2. /\ request[r].kind = "reply" /\ GoesOn(r, Idle) /\ out' = Append(out, m)
          /\ UNCHANGED <<room, hist>>
        BY <1>15, <2>1 DEF Reply
    <2>3. m \in Messages(F) /\ MessageBelow(m)
        BY <1>2, <2>1, <2>2, RequestForms, MessageTypes DEF BelowInv
    <2>4. MessageBelow(m)'
        BY <2>3, MessageStays
    <2>5. m \in Replies(F)
        BY <1>2, <2>1, <2>2, RequestForms
    <2>6. m.t # "fields"
        BY <2>5 DEF Replies, LeftMessages, RoomMessages, ListMessages
    <2> QED
        BY <1>4, <2>2, <2>3, <2>4, <2>6
<1> QED
    BY <1>6, <1>7, <1>8, <1>9, <1>10, <1>11, <1>12, <1>13, <1>14, <1>15 DEF Processes

(* What Sync does to the fields: the one of a field's event gets its value *)
(* and is handled, the others stay.                                        *)
LEMMA SyncFields ==
    ASSUME NEW F, Types(F), Sync, NEW e, e = Head(pending)
    PROVE  /\ e \in Events(F)
           /\ e.t = "field" => /\ e.f \in F /\ e.v \in Nat /\ room'.val[e.f] = e.v
                               /\ handlers' = <<e>>
           /\ e.t # "field" => \A i \in 1 .. Len(handlers') : handlers'[i].t # "field"
           /\ \A f \in F : ~(e.t = "field" /\ e.f = f) => room'.val[f] = room.val[f]
<1>1. pending \in Seq(Events(F)) /\ pending # <<>> /\ room.val \in [F -> Nat]
      /\ room \in [val : [F -> Nat], member : Members, unread : Nat]
    BY DEF Types, HomeTypes, RoomTypes, Sync
<1>2. e \in Events(F)
    BY <1>1
<1>3. PICK k : k = hist'.moves
    OBVIOUS
<1>4. room' = Applied(e) /\ handlers' = HandlersOf(e, k)
    BY <1>3 DEF Sync
<1>5. CASE e.t = "field"
    <2>1. Applied(e) = [room EXCEPT !.val[e.f] = e.v] /\ HandlersOf(e, k) = <<e>>
        BY <1>5 DEF Applied, HandlersOf
    <2>2. e.f \in F /\ e.v \in Nat
        BY <1>2, <1>5, EventForms
    <2>3. /\ room'.val[e.f] = e.v
          /\ \A f \in F : f # e.f => room'.val[f] = room.val[f]
        BY <1>1, <1>4, <2>1, <2>2
    <2> QED
        BY <1>2, <1>4, <1>5, <2>1, <2>2, <2>3
<1>6. CASE e.t # "field"
    <2>1. e.t \in {"own", "message", "ephemeral", "read"}
        BY <1>2, <1>6, EventForms
    <2>2. room'.val = room.val
        BY <1>1, <1>4, <2>1 DEF Applied, Moved
    <2>3. \A i \in 1 .. Len(handlers') : handlers'[i].t # "field"
        <3>1. CASE e.t = "own"
            <4>1. handlers' = <<[t |-> "own", m |-> e.m, k |-> k]>>
                BY <1>4, <3>1 DEF HandlersOf
            <4> QED
                BY <4>1
        <3>2. CASE e.t = "message"
            <4>1. handlers' = <<[t |-> "any", u |-> e.u, ts |-> e.ts], [t |-> "message"]>>
                BY <1>4, <3>2 DEF HandlersOf
            <4> QED
                BY <4>1
        <3>3. CASE e.t = "ephemeral"
            <4>1. handlers' = <<>>
                BY <1>4, <3>3 DEF HandlersOf
            <4> QED
                BY <4>1
        <3>4. CASE e.t = "read"
            <4>1. handlers' = <<[t |-> "fully_read"]>>
                BY <1>4, <3>4 DEF HandlersOf
            <4> QED
                BY <4>1
        <3> QED
            BY <2>1, <3>1, <3>2, <3>3, <3>4
    <2> QED
        BY <1>2, <1>6, <2>2, <2>3
<1> QED
    BY <1>5, <1>6

(* A new value is handled next.                                            *)
LEMMA SyncFieldInv ==
    ASSUME NEW F, Types(F), Types(F)', NewestInv, Sync,
           \A f \in F : room.val[f] <= room'.val[f]
    PROVE  BelowInv' /\ FieldInv'
<1>1. Fields = F /\ Fields' = F
    BY DEF Types, HomeTypes, Fields
<1>2. PICK e : e = Head(pending)
    OBVIOUS
<1>3. /\ e.t = "field" => /\ e.f \in F /\ e.v \in Nat /\ room'.val[e.f] = e.v
                          /\ handlers' = <<e>>
      /\ e.t # "field" => \A i \in 1 .. Len(handlers') : handlers'[i].t # "field"
      /\ \A f \in F : ~(e.t = "field" /\ e.f = f) => room'.val[f] = room.val[f]
    BY <1>2, SyncFields
<1>4. /\ UNCHANGED <<server, channel, out, app, request>> /\ handlers = <<>>
      /\ hist'.skipped = hist.skipped
    BY DEF Sync, Types, HistTypes, Hist
<1>5. BelowInv'
    <2>1. ASSUME NEW i \in 1 .. Len(channel), NEW f \in F, FieldEvent(channel, i, f)
          PROVE  channel[i].v <= room'.val[f]
        <3>1. channel[i] \in Actions(F)
            BY DEF Types, ChannelTypes
        <3>2. channel[i].v \in Nat
            BY <2>1, <3>1, ActionForms DEF FieldEvent
        <3>3. room.val[f] \in Nat /\ room'.val[f] \in Nat /\ room.val[f] <= room'.val[f]
            BY DEF Types, RoomTypes
        <3>4. channel[i].v <= room.val[f]
            BY <1>1, <2>1 DEF NewestInv, BelowInv
        <3> QED
            BY <3>2, <3>3, <3>4
    <2>2. (\A i \in 1 .. Len(channel), f \in Fields :
             FieldEvent(channel, i, f) => channel[i].v <= room.val[f])'
        BY <1>1, <1>4, <2>1 DEF FieldEvent
    <2> QED
        BY <1>1, <1>4, <2>2 DEF NewestInv, BelowInv, Below, MessageBelow
<1>6. ASSUME NEW i \in 1 .. Len(handlers'), NEW f \in F, FieldEvent(handlers', i, f)
      PROVE  handlers'[i].v = room'.val[f]
    BY <1>3, <1>6 DEF FieldEvent
<1>7. ASSUME NEW f \in F PROVE FieldTold(f)'
    <2>1. CASE e.t = "field" /\ e.f = f
        <3>1. handlers' = <<e>> /\ Len(<<e>>) = 1 /\ <<e>>[1] = e
            BY <1>3, <2>1
        <3>2. 1 \in 1 .. Len(handlers') /\ FieldEvent(handlers', 1, f)
            BY <2>1, <3>1 DEF FieldEvent
        <3> QED
            BY <3>2 DEF FieldTold, FieldEvent
    <2>2. CASE ~(e.t = "field" /\ e.f = f)
        <3>1. room'.val[f] = room.val[f] /\ Len(handlers) = 0
            BY <1>3, <1>4, <2>2
        <3>2. FieldTold(f)
            BY <1>1 DEF NewestInv, FieldInv
        <3> QED
            BY <1>4, <3>1, <3>2 DEF FieldTold, FieldEvent
    <2> QED
        BY <2>1, <2>2
<1>8. FieldInv'
    <2>1. (\A i \in 1 .. Len(handlers), f \in Fields :
             FieldEvent(handlers, i, f) => handlers[i].v = room.val[f])'
        BY <1>1, <1>6 DEF FieldEvent
    <2>2. (\A f \in Fields : FieldTold(f))'
        BY <1>1, <1>7
    <2> QED
        BY <2>1, <2>2 DEF FieldInv
<1> QED
    BY <1>5, <1>8

(* A handler queues the value, or skips it.                                *)
LEMMA HandleFieldInv ==
    ASSUME NEW F, Types(F), Types(F)', NewestInv, Handle
    PROVE  BelowInv' /\ FieldInv'
<1>1. Fields = F /\ Fields' = F
    BY DEF Types, HomeTypes, Fields
<1>2. PICK a : a = Head(handlers)
    OBVIOUS
<1>3. /\ handlers \in Seq(Actions(F)) /\ handlers # <<>> /\ handlers' = Tail(handlers)
      /\ channel \in Seq(Actions(F)) /\ Len(channel) \in Nat
    BY DEF Handle, Types, HandlerTypes, ChannelTypes
<1>4. /\ Len(handlers) \in Nat /\ Len(handlers) > 0 /\ Len(handlers') = Len(handlers) - 1
      /\ handlers[1] = a /\ \A i \in 1 .. Len(handlers') : handlers'[i] = handlers[i + 1]
      /\ a \in Actions(F)
    BY <1>2, <1>3
<1>5. UNCHANGED <<server, room, out, app, request>>
    BY DEF Handle
<1>6. a.t = "field" => a.f \in F /\ a.v = room.val[a.f] /\ room.val[a.f] \in Nat
    <2>1. a.t = "field" => a.f \in F
        BY <1>4, ActionForms
    <2>2. 1 \in 1 .. Len(handlers)
        BY <1>4
    <2>3. a.t = "field" => a.v = room.val[a.f]
        BY <1>1, <1>4, <2>1, <2>2 DEF NewestInv, FieldInv, FieldEvent
    <2> QED
        BY <2>1, <2>3 DEF Types, RoomTypes
<1>7. \/ /\ channel' = Append(channel, a)
         /\ hist' = [hist EXCEPT !.skipped = IF a.t = "field" THEN @ \ {a.f} ELSE @]
      \/ /\ UNCHANGED channel
         /\ \E x : hist' = [hist EXCEPT !.skipped = IF a.t = "field" THEN @ \cup {a.f} ELSE @,
                                        !.untold = x]
    BY <1>2 DEF Handle
<1>8. \/ /\ channel' = Append(channel, a)
         /\ hist'.skipped = IF a.t = "field" THEN hist.skipped \ {a.f} ELSE hist.skipped
      \/ /\ UNCHANGED channel
         /\ hist'.skipped = IF a.t = "field" THEN hist.skipped \cup {a.f} ELSE hist.skipped
    BY <1>7 DEF Types, HistTypes, Hist
<1>9. /\ \A i \in 1 .. Len(channel) : i \in 1 .. Len(channel') /\ channel'[i] = channel[i]
      /\ \A i \in 1 .. Len(channel') : i \in 1 .. Len(channel) \/ channel'[i] = a
    <2>1. channel' = Append(channel, a) \/ channel' = channel
        BY <1>8
    <2> QED
        BY <1>3, <2>1
<1>10. BelowInv'
    <2>1. ASSUME NEW i \in 1 .. Len(channel'), NEW f \in F, FieldEvent(channel', i, f)
          PROVE  channel'[i].v <= room'.val[f]
        <3>1. CASE i \in 1 .. Len(channel)
            BY <1>1, <1>5, <1>9, <2>1, <3>1 DEF NewestInv, BelowInv, FieldEvent
        <3>2. CASE channel'[i] = a
            BY <1>5, <1>6, <2>1, <3>2 DEF FieldEvent
        <3> QED
            BY <1>9, <3>1, <3>2
    <2>2. (\A i \in 1 .. Len(channel), f \in Fields :
             FieldEvent(channel, i, f) => channel[i].v <= room.val[f])'
        BY <1>1, <2>1 DEF FieldEvent
    <2> QED
        BY <1>1, <1>5, <2>2 DEF NewestInv, BelowInv, Below, MessageBelow
<1>11. ASSUME NEW i \in 1 .. Len(handlers'), NEW f \in F, FieldEvent(handlers', i, f)
       PROVE  handlers'[i].v = room'.val[f]
    <2>1. i + 1 \in 1 .. Len(handlers) /\ FieldEvent(handlers, i + 1, f)
        BY <1>4, <1>11 DEF FieldEvent
    <2> QED
        BY <1>1, <1>4, <1>5, <2>1 DEF NewestInv, FieldInv
<1>12. ASSUME NEW f \in F PROVE FieldTold(f)'
    <2>1. FieldTold(f)
        BY <1>1 DEF NewestInv, FieldInv
    <2>2. CASE a.t = "field" /\ a.f = f
        <3>1. CASE channel' = Append(channel, a)
            <4>1. Len(channel') = Len(channel) + 1 /\ channel'[Len(channel) + 1] = a
                BY <1>3, <3>1
            <4>2. Len(channel) + 1 \in 1 .. Len(channel')
                BY <1>3, <4>1
            <4>3. \E i \in 1 .. Len(channel') :
                    FieldEvent(channel', i, f) /\ channel'[i].v = room'.val[f]
                BY <1>5, <1>6, <2>2, <4>1, <4>2 DEF FieldEvent
            <4> QED
                BY <4>3 DEF FieldTold, FieldEvent
        <3>2. CASE hist'.skipped = IF a.t = "field" THEN hist.skipped \cup {a.f} ELSE hist.skipped
            BY <2>2, <3>2 DEF FieldTold
        <3> QED
            BY <1>8, <3>1, <3>2
    <2>3. CASE ~(a.t = "field" /\ a.f = f)
        <3>1. f \in hist.skipped => f \in hist'.skipped
            BY <1>8, <2>3
        <3>2. CASE \E i \in 1 .. Len(handlers) : FieldEvent(handlers, i, f)
            <4>1. PICK i \in 1 .. Len(handlers) : FieldEvent(handlers, i, f)
                BY <3>2
            <4>2. i # 1
                BY <1>4, <2>3, <4>1 DEF FieldEvent
            <4>3. i - 1 \in 1 .. Len(handlers') /\ handlers'[i - 1] = handlers[i]
                BY <1>4, <4>2
            <4> QED
                BY <4>1, <4>3 DEF FieldTold, FieldEvent
        <3>3. CASE \E i \in 1 .. Len(channel) :
                     FieldEvent(channel, i, f) /\ channel[i].v = room.val[f]
            <4>1. \E i \in 1 .. Len(channel') :
                     FieldEvent(channel', i, f) /\ channel'[i].v = room'.val[f]
                BY <1>5, <1>9, <3>3 DEF FieldEvent
            <4> QED
                BY <4>1 DEF FieldTold, FieldEvent
        <3>4. CASE \/ app.fields.best[f] >= room.val[f]
                   \/ \E i \in 1 .. Len(out) :
                        out[i].t = "fields" /\ f \in DOMAIN out[i].val /\ out[i].val[f] >= room.val[f]
            BY <1>5, <3>4 DEF FieldTold
        <3>5. CASE f \in hist.skipped
            BY <3>1, <3>5 DEF FieldTold
        <3> QED
            BY <2>1, <3>2, <3>3, <3>4, <3>5 DEF FieldTold
    <2> QED
        BY <2>2, <2>3
<1>13. FieldInv'
    <2>1. (\A i \in 1 .. Len(handlers), f \in Fields :
             FieldEvent(handlers, i, f) => handlers[i].v = room.val[f])'
        BY <1>1, <1>11 DEF FieldEvent
    <2>2. (\A f \in Fields : FieldTold(f))'
        BY <1>1, <1>12
    <2> QED
        BY <2>1, <2>2 DEF FieldInv
<1> QED
    BY <1>10, <1>13

(* The executor sends the value, or it cannot be loaded.                   *)
LEMMA ExecFieldInv ==
    ASSUME NEW F, Types(F), Types(F)', NewestInv, ExecField
    PROVE  BelowInv' /\ FieldInv'
<1>1. Fields = F /\ Fields' = F
    BY DEF Types, HomeTypes, Fields
<1>2. PICK a : a = Head(channel)
    OBVIOUS
<1>3. /\ channel \in Seq(Actions(F)) /\ channel # <<>> /\ channel' = Tail(channel)
      /\ a.t = "field" /\ UNCHANGED <<server, room, handlers, app, request>>
    BY <1>2 DEF ExecField, Takes, Types, ChannelTypes
<1>4. /\ Len(channel) \in Nat /\ Len(channel) > 0 /\ Len(channel') = Len(channel) - 1
      /\ channel[1] = a /\ \A i \in 1 .. Len(channel') : channel'[i] = channel[i + 1]
      /\ a \in Actions(F)
    BY <1>2, <1>3
<1>5. /\ a.f \in F /\ a.v \in Nat /\ room.val[a.f] \in Nat /\ server.val[a.f] \in Nat
      /\ a.v <= room.val[a.f] /\ room.val[a.f] <= server.val[a.f]
    <2>1. a.f \in F /\ a.v \in Nat
        BY <1>3, <1>4, ActionForms
    <2>2. 1 \in 1 .. Len(channel)
        BY <1>4
    <2>3. a.v <= room.val[a.f]
        BY <1>1, <1>3, <1>4, <2>1, <2>2 DEF NewestInv, BelowInv, FieldEvent
    <2> QED
        BY <1>1, <2>1, <2>3 DEF Types, RoomTypes, HomeTypes, NewestInv, ServerInv
<1>6. PICK v : v = Value(a)
    OBVIOUS
<1>7. v \in Nat /\ v <= server.val[a.f] /\ (a.v = room.val[a.f] => v = room.val[a.f])
    BY <1>5, <1>6 DEF Value
<1>8. PICK m : m = [t |-> "fields", from |-> "executor", val |-> Only(a.f, v)]
    OBVIOUS
<1>9. /\ m \in Messages(F) /\ m.t = "fields"
      /\ DOMAIN m.val = {a.f} /\ m.val[a.f] = v
    <2>1. m.t = "fields" /\ m.val = Only(a.f, v)
        BY <1>8
    <2>2. DOMAIN Only(a.f, v) = {a.f} /\ Only(a.f, v)[a.f] = v
        BY DEF Only
    <2>3. Only(a.f, v) \in Partial(F)
        BY <1>5, <1>7, PartialTypes
    <2>4. m \in Messages(F)
        BY <1>8, <2>3, MessageTypes
    <2> QED
        BY <2>1, <2>2, <2>4
<1>10. PICK m0 : m0 = [t |-> "fields", from |-> "executor", val |-> Only(a.f, 0)]
    OBVIOUS
<1>11. \/ Sends(<<m>>) /\ UNCHANGED hist
       \/ /\ Sends(<<m0>>) \/ Sends(<<>>)
          /\ hist' = [hist EXCEPT !.skipped = @ \cup {a.f}]
    BY <1>2, <1>6, <1>8, <1>10 DEF ExecField
<1>12. out \in Seq(Messages(F)) /\ Len(out) \in Nat
    BY DEF Types, OutTypes
<1>13. \/ out' = Append(out, m) /\ hist'.skipped = hist.skipped
       \/ /\ out' = Append(out, m0) \/ out' = out
          /\ hist'.skipped = hist.skipped \cup {a.f}
    BY <1>11, <1>12 DEF Sends, Types, HistTypes, Hist
<1>14. m0 \in Messages(F) /\ MessageBelow(m0)' /\ MessageBelow(m)'
    <2>1. MessageBelow(m)'
        BY <1>1, <1>3, <1>7, <1>9 DEF MessageBelow, Below
    <2>2. m0 \in Messages(F)
        BY <1>5, <1>10, PartialTypes, MessageTypes
    <2>3. m0.t = "fields" /\ DOMAIN m0.val = {a.f} /\ m0.val[a.f] = 0
        BY <1>10 DEF Only
    <2>4. MessageBelow(m0)'
        BY <1>1, <1>3, <1>5, <2>3 DEF MessageBelow, Below
    <2> QED
        BY <2>1, <2>2, <2>4
<1>15. \A x : MessageBelow(x) => MessageBelow(x)'
    BY <1>1, <1>3 DEF MessageBelow, Below
<1>16. /\ (\A i \in 1 .. Len(out) : MessageBelow(out[i]))'
       /\ \A i \in 1 .. Len(out) : i \in 1 .. Len(out') /\ out'[i] = out[i]
    <2>1. \A i \in 1 .. Len(out) : i \in 1 .. Len(out') /\ out'[i] = out[i]
        BY <1>12, <1>13
    <2>2. ASSUME NEW i \in 1 .. Len(out'), NEW x, x = out'[i] PROVE MessageBelow(x)'
        <3>1. x = m \/ x = m0 \/ (i \in 1 .. Len(out) /\ x = out[i])
            BY <1>12, <1>13, <2>2
        <3>2. CASE i \in 1 .. Len(out) /\ x = out[i]
            BY <1>15, <3>2 DEF NewestInv, BelowInv
        <3> QED
            BY <1>14, <3>1, <3>2
    <2>3. (\A i \in 1 .. Len(out) : MessageBelow(out[i]))'
        BY <2>2
    <2> QED
        BY <2>1, <2>3
<1>17. BelowInv'
    <2>1. ASSUME NEW i \in 1 .. Len(channel'), NEW f \in F, FieldEvent(channel', i, f)
          PROVE  channel'[i].v <= room'.val[f]
        <3>1. i + 1 \in 1 .. Len(channel) /\ FieldEvent(channel, i + 1, f)
            BY <1>4, <2>1 DEF FieldEvent
        <3> QED
            BY <1>1, <1>3, <1>4, <3>1 DEF NewestInv, BelowInv
    <2>2. (\A i \in 1 .. Len(channel), f \in Fields :
             FieldEvent(channel, i, f) => channel[i].v <= room.val[f])'
        BY <1>1, <2>1 DEF FieldEvent
    <2>3. Below(app.fields.best)'
        BY <1>1, <1>3 DEF NewestInv, BelowInv, Below
    <2>4. (\A r \in Requests : /\ request[r].kind = "reply" => MessageBelow(request[r].msg)
                               /\ request[r].kind = "change" => Below(request[r].val))'
        BY <1>1, <1>3 DEF NewestInv, BelowInv, MessageBelow, Below
    <2> QED
        BY <1>16, <2>2, <2>3, <2>4 DEF BelowInv
<1>18. ASSUME NEW f \in F PROVE FieldTold(f)'
    <2>1. FieldTold(f)
        BY <1>1 DEF NewestInv, FieldInv
    <2>2. CASE \E i \in 1 .. Len(channel) : FieldEvent(channel, i, f) /\ channel[i].v = room.val[f]
        <3>1. PICK i \in 1 .. Len(channel) : FieldEvent(channel, i, f) /\ channel[i].v = room.val[f]
            BY <2>2
        <3>2. CASE i = 1
            <4>1. a.f = f /\ a.v = room.val[f]
                BY <1>4, <3>1, <3>2 DEF FieldEvent
            <4>2. CASE out' = Append(out, m)
                <5>1. out'[Len(out) + 1] = m /\ Len(out) + 1 \in 1 .. Len(out')
                    BY <1>12, <4>2
                <5>2. f \in DOMAIN m.val /\ m.val[f] >= room'.val[f]
                    BY <1>3, <1>5, <1>7, <1>9, <4>1
                <5> QED
                    BY <1>9, <5>1, <5>2 DEF FieldTold
            <4>3. CASE hist'.skipped = hist.skipped \cup {a.f}
                BY <4>1, <4>3 DEF FieldTold
            <4> QED
                BY <1>13, <4>2, <4>3
        <3>3. CASE i # 1
            <4>1. i - 1 \in 1 .. Len(channel') /\ channel'[i - 1] = channel[i]
                BY <1>4, <3>3
            <4> QED
                BY <1>3, <3>1, <4>1 DEF FieldTold, FieldEvent
        <3> QED
            BY <3>2, <3>3
    <2>3. CASE app.fields.best[f] >= room.val[f] \/ f \in hist.skipped
               \/ \E i \in 1 .. Len(handlers) : FieldEvent(handlers, i, f)
        BY <1>3, <1>13, <2>3 DEF FieldTold, FieldEvent
    <2>4. CASE \E i \in 1 .. Len(out) :
                 out[i].t = "fields" /\ f \in DOMAIN out[i].val /\ out[i].val[f] >= room.val[f]
        <3>1. \E i \in 1 .. Len(out') :
                 out'[i].t = "fields" /\ f \in DOMAIN out'[i].val /\ out'[i].val[f] >= room'.val[f]
            BY <1>3, <1>16, <2>4
        <3> QED
            BY <3>1 DEF FieldTold
    <2> QED
        BY <2>1, <2>2, <2>3, <2>4 DEF FieldTold
<1>19. FieldInv'
    <2>1. (\A i \in 1 .. Len(handlers), f \in Fields :
             FieldEvent(handlers, i, f) => handlers[i].v = room.val[f])'
        BY <1>1, <1>3 DEF NewestInv, FieldInv, FieldEvent
    <2>2. (\A f \in Fields : FieldTold(f))'
        BY <1>1, <1>18
    <2> QED
        BY <2>1, <2>2 DEF FieldInv
<1> QED
    BY <1>17, <1>19

(* What a message makes of the fields the application knows.               *)
LEMMA ToldShown ==
    ASSUME NEW F, Types(F), NEW m \in Messages(F)
    PROVE  /\ m.t = "fields" =>
                /\ Told(m).fields = ToldFields(m.val, app.room = "listed", m.from # "executor")
                /\ Told(m).room = app.room
           /\ IsSnapshot(m) => Told(m).fields = ToldFields(m.snap.val, TRUE, TRUE)
           /\ m.t # "fields" /\ ~IsSnapshot(m) =>
                /\ Told(m).fields = app.fields
                /\ Told(m).room = "listed" => app.room = "listed"
<1>1. /\ DOMAIN app = {"room", "fields", "unread", "markers"}
      /\ app = [x \in DOMAIN app |-> app[x]]
    BY DEF Types, OutTypes, Apps
<1>2. m.t \in {"unread", "ephemeral", "fields", "markers", "invited", "left", "room", "list"}
    BY MessageForms
<1>3. CASE m.t = "fields"
    <2>1. PICK x : x = ToldFields(m.val, app.room = "listed", m.from # "executor")
        OBVIOUS
    <2>2. Told(m) = [app EXCEPT !.fields = x]
        BY <1>3, <2>1 DEF Told
    <2> QED
        BY <1>1, <1>3, <2>1, <2>2 DEF IsSnapshot
<1>4. CASE m.t = "unread"
    <2>1. Told(m) = [app EXCEPT !.unread = IF app.room = "listed" THEN m.n ELSE @]
        BY <1>4 DEF Told
    <2> QED
        BY <1>1, <1>4, <2>1 DEF IsSnapshot
<1>5. CASE m.t \in {"ephemeral", "markers"}
    <2>1. Told(m) = [app EXCEPT !.markers = Newer(@, m.markers)]
        BY <1>5 DEF Told
    <2> QED
        BY <1>1, <1>5, <2>1 DEF IsSnapshot
<1>6. CASE m.t = "left"
    <2>1. Told(m) = [app EXCEPT !.room = "none", !.unread = 0]
        BY <1>6 DEF Told
    <2> QED
        BY <1>1, <1>6, <2>1 DEF IsSnapshot
<1>7. CASE m.t = "invited"
    <2>1. Told(m) = [app EXCEPT !.room = IF @ = "none" THEN "invited" ELSE @]
        BY <1>7 DEF Told
    <2> QED
        BY <1>1, <1>7, <2>1 DEF IsSnapshot
<1>8. CASE m.t \in {"room", "list"}
    <2>1. CASE m.snap = None
        <3>1. Told(m) = app
            BY <1>8, <2>1 DEF Told
        <3> QED
            BY <1>8, <2>1, <3>1 DEF IsSnapshot
    <2>2. CASE m.snap # None
        <3>1. PICK y : y = ToldFields(m.snap.val, TRUE, TRUE)
            OBVIOUS
        <3>2. Told(m) = [app EXCEPT !.room = IF m.snap.joined THEN "listed" ELSE "none",
                                    !.unread = IF m.snap.joined THEN m.snap.unread ELSE 0,
                                    !.fields = y]
            BY <1>8, <2>2, <3>1 DEF Told
        <3>3. Told(m).fields = y
            BY <1>1, <3>2
        <3> QED
            BY <1>8, <2>2, <3>1, <3>3 DEF IsSnapshot
    <2> QED
        BY <2>1, <2>2
<1> QED
    BY <1>2, <1>3, <1>4, <1>5, <1>6, <1>7, <1>8

(* What a message makes of the newest values the application knows.        *)
LEMMA ToldBest ==
    ASSUME NEW F, Types(F), NEW m \in Messages(F), MessageBelow(m), Below(app.fields.best)
    PROVE  /\ Below(Told(m).fields.best)
           /\ \A f \in F : /\ Told(m).fields.best[f] >= app.fields.best[f]
                           /\ m.t = "fields" /\ f \in DOMAIN m.val => Told(m).fields.best[f] >= m.val[f]
<1>1. Fields = F /\ app.fields.best \in [F -> Nat]
    BY FieldsAre DEF Types, OutTypes, Apps, FieldsTold
<1>2. ASSUME NEW p \in Partial(F), Below(p), Told(m).fields.best = Best(p)
      PROVE  /\ Below(Told(m).fields.best)
             /\ \A f \in F : /\ Told(m).fields.best[f] >= app.fields.best[f]
                             /\ f \in DOMAIN p => Told(m).fields.best[f] >= p[f]
    <2>1. /\ Best(p) \in [F -> Nat]
          /\ \A f \in F : /\ Best(p)[f] >= app.fields.best[f]
                          /\ f \in DOMAIN p => Best(p)[f] >= p[f]
                          /\ Best(p)[f] = app.fields.best[f] \/ (f \in DOMAIN p /\ Best(p)[f] = p[f])
        BY BestTypes
    <2>2. Below(Best(p))
        BY <1>1, <1>2, <2>1 DEF Below
    <2> QED
        BY <1>2, <2>1, <2>2
<1>3. CASE m.t = "fields"
    <2>1. Told(m).fields = ToldFields(m.val, app.room = "listed", m.from # "executor")
        BY <1>1, <1>3, ToldShown
    <2>2. m.val \in Partial(F) /\ Below(m.val)
        BY <1>3, MessageForms DEF MessageBelow
    <2>3. Told(m).fields.best = Best(m.val)
        BY <2>1 DEF ToldFields
    <2> QED
        BY <1>2, <2>2, <2>3
<1>4. CASE m.t \in {"room", "list"} /\ m.snap # None
    <2>1. Told(m).fields = ToldFields(m.snap.val, TRUE, TRUE)
        BY <1>4, ToldShown DEF IsSnapshot
    <2>2. m.snap.val \in [F -> Nat] /\ Below(m.snap.val)
        BY <1>4, MessageForms DEF MessageBelow, Snapshots
    <2>3. m.snap.val \in Partial(F)
        BY <2>2 DEF Partial
    <2>4. Told(m).fields.best = Best(m.snap.val)
        BY <2>1 DEF ToldFields
    <2> QED
        BY <1>2, <1>4, <2>2, <2>3, <2>4
<1>5. CASE m.t # "fields" /\ ~(m.t \in {"room", "list"} /\ m.snap # None)
    <2>1. Told(m).fields = app.fields
        BY <1>5, ToldShown DEF IsSnapshot
    <2> QED
        BY <1>1, <1>5, <2>1
<1> QED
    BY <1>3, <1>4, <1>5

(* A message arrives.                                                      *)
LEMMA DeliverFieldInv ==
    ASSUME NEW F, Types(F), Types(F)', NewestInv, Deliver
    PROVE  BelowInv' /\ FieldInv'
<1>1. Fields = F /\ Fields' = F
    BY DEF Types, HomeTypes, Fields
<1>2. PICK m : m = Head(out)
    OBVIOUS
<1>3. /\ out \in Seq(Messages(F)) /\ out # <<>> /\ out' = Tail(out) /\ app' = Told(m)
      /\ UNCHANGED <<server, room, handlers, request>>
    BY <1>2 DEF Deliver, Types, OutTypes
<1>4. /\ Len(out) \in Nat /\ Len(out) > 0 /\ Len(out') = Len(out) - 1
      /\ out[1] = m /\ \A i \in 1 .. Len(out') : out'[i] = out[i + 1]
      /\ m \in Messages(F)
    BY <1>2, <1>3
<1>5. MessageBelow(m) /\ Below(app.fields.best)
    <2>1. 1 \in 1 .. Len(out)
        BY <1>4
    <2> QED
        BY <1>4, <2>1 DEF NewestInv, BelowInv
<1>6. /\ Below(app'.fields.best)
      /\ \A f \in F : /\ app'.fields.best[f] >= app.fields.best[f]
                      /\ m.t = "fields" /\ f \in DOMAIN m.val => app'.fields.best[f] >= m.val[f]
    BY <1>3, <1>4, <1>5, ToldBest
<1>7. hist'.skipped = hist.skipped /\ ChannelAside
    <2>1. \/ /\ channel' = Append(channel, [t |-> "discovered"])
             /\ hist' = [hist EXCEPT !.overlap = m.snap.drops # hist.drops,
                                     !.late = m.snap.moves # hist.moves,
                                     !.untold = @ \ {m.snap.moves}]
          \/ UNCHANGED channel /\ hist' = [hist EXCEPT !.late = m.moves # hist.moves]
          \/ UNCHANGED channel /\ hist' = [hist EXCEPT !.late = @]
        BY <1>2 DEF Deliver
    <2>2. [t |-> "discovered"].t # "field"
        OBVIOUS
    <2> QED
        BY <2>1, <2>2 DEF ChannelAside, Types, HistTypes, Hist
<1>8. \A f :
        /\ \A i \in 1 .. Len(channel') : FieldEvent(channel', i, f) =>
             \E j \in 1 .. Len(channel) : FieldEvent(channel, j, f) /\ channel[j] = channel'[i]
        /\ \A i \in 1 .. Len(channel) : FieldEvent(channel, i, f) =>
             \E j \in 1 .. Len(channel') : FieldEvent(channel', j, f) /\ channel'[j] = channel[i]
    BY <1>7, ChannelAsideStep
<1>9. BelowInv'
    <2>1. Below(app.fields.best)'
        BY <1>1, <1>3, <1>6 DEF Below
    <2>2. ASSUME NEW i \in 1 .. Len(out') PROVE MessageBelow(out[i])'
        <3>1. i + 1 \in 1 .. Len(out) /\ out'[i] = out[i + 1]
            BY <1>4
        <3>2. MessageBelow(out[i + 1])
            BY <3>1 DEF NewestInv, BelowInv
        <3> QED
            BY <1>1, <1>3, <3>1, <3>2 DEF MessageBelow, Below
    <2>3. (\A i \in 1 .. Len(out) : MessageBelow(out[i]))'
        BY <2>2
    <2>4. \A i \in 1 .. Len(channel'), f \in F : FieldEvent(channel', i, f) => channel'[i].v <= room'.val[f]
        <3>1. \A i \in 1 .. Len(channel), f \in F : FieldEvent(channel, i, f) => channel[i].v <= room.val[f]
            BY <1>1 DEF NewestInv, BelowInv
        <3> QED
            BY <1>3, <1>8, <3>1
    <2>5. (\A i \in 1 .. Len(channel), f \in Fields :
             FieldEvent(channel, i, f) => channel[i].v <= room.val[f])'
        BY <1>1, <2>4 DEF FieldEvent
    <2>6. (\A r \in Requests : /\ request[r].kind = "reply" => MessageBelow(request[r].msg)
                               /\ request[r].kind = "change" => Below(request[r].val))'
        BY <1>1, <1>3 DEF NewestInv, BelowInv, MessageBelow, Below
    <2> QED
        BY <2>1, <2>3, <2>5, <2>6 DEF BelowInv
<1>10. ASSUME NEW f \in F PROVE FieldTold(f)'
    <2>1. FieldTold(f)
        BY <1>1 DEF NewestInv, FieldInv
    <2>2. /\ app.fields.best[f] \in Nat /\ app'.fields.best[f] \in Nat /\ room.val[f] \in Nat
          /\ app'.fields.best[f] >= app.fields.best[f]
        BY <1>6 DEF Types, OutTypes, Apps, FieldsTold, RoomTypes
    <2>3. CASE app.fields.best[f] >= room.val[f]
        <3>1. app'.fields.best[f] >= room'.val[f]
            BY <1>3, <2>2, <2>3
        <3> QED
            BY <3>1 DEF FieldTold
    <2>4. CASE f \in hist.skipped \/ \E i \in 1 .. Len(handlers) : FieldEvent(handlers, i, f)
        BY <1>3, <1>7, <2>4 DEF FieldTold, FieldEvent
    <2>5. CASE \E i \in 1 .. Len(channel) : FieldEvent(channel, i, f) /\ channel[i].v = room.val[f]
        <3>1. \E j \in 1 .. Len(channel') : FieldEvent(channel', j, f) /\ channel'[j].v = room'.val[f]
            BY <1>3, <1>8, <2>5
        <3> QED
            BY <3>1 DEF FieldTold, FieldEvent
    <2>6. CASE \E i \in 1 .. Len(out) :
                 out[i].t = "fields" /\ f \in DOMAIN out[i].val /\ out[i].val[f] >= room.val[f]
        <3>1. PICK i \in 1 .. Len(out) :
                 out[i].t = "fields" /\ f \in DOMAIN out[i].val /\ out[i].val[f] >= room.val[f]
            BY <2>6
        <3>2. CASE i = 1
            <4>1. m.t = "fields" /\ f \in DOMAIN m.val /\ m.val[f] >= room.val[f]
                BY <1>4, <3>1, <3>2
            <4>2. m.val[f] \in Nat
                BY <1>4, <4>1, MessageForms, PartialTypes
            <4>3. app'.fields.best[f] >= m.val[f]
                BY <1>6, <4>1
            <4>4. app'.fields.best[f] >= room'.val[f]
                BY <1>3, <2>2, <4>1, <4>2, <4>3
            <4> QED
                BY <4>4 DEF FieldTold
        <3>3. CASE i # 1
            <4>1. i - 1 \in 1 .. Len(out') /\ out'[i - 1] = out[i]
                BY <1>4, <3>3
            <4>2. \E j \in 1 .. Len(out') :
                     out'[j].t = "fields" /\ f \in DOMAIN out'[j].val /\ out'[j].val[f] >= room'.val[f]
                BY <1>3, <3>1, <4>1
            <4> QED
                BY <4>2 DEF FieldTold
        <3> QED
            BY <3>2, <3>3
    <2> QED
        BY <2>1, <2>3, <2>4, <2>5, <2>6 DEF FieldTold
<1>11. FieldInv'
    <2>1. (\A i \in 1 .. Len(handlers), f \in Fields :
             FieldEvent(handlers, i, f) => handlers[i].v = room.val[f])'
        BY <1>1, <1>3 DEF NewestInv, FieldInv, FieldEvent
    <2>2. (\A f \in Fields : FieldTold(f))'
        BY <1>1, <1>10
    <2> QED
        BY <2>1, <2>2 DEF FieldInv
<1> QED
    BY <1>9, <1>11

(* Sequences of events and words about a field: one is added, several are  *)
(* added, the first is taken.                                              *)
LEMMA SomeAdded ==
    ASSUME NEW S, NEW s \in Seq(S), NEW x \in S, NEW f, NEW v
    PROVE  /\ Some(Append(s, x), f) <=> Some(s, f) \/ About(x, f)
           /\ About(x, f) /\ ValueIn(x, f) = v => LastIs(Append(s, x), f, v)
           /\ LastIs(s, f, v) /\ ~About(x, f) => LastIs(Append(s, x), f, v)
<1>1. PICK a : a = Append(s, x)
    OBVIOUS
<1>2. /\ Len(s) \in Nat /\ Len(a) = Len(s) + 1 /\ a[Len(s) + 1] = x
      /\ \A i \in 1 .. Len(s) : a[i] = s[i]
    BY <1>1
<1>3. /\ \A i \in 1 .. Len(s) : i \in 1 .. Len(a) /\ Len(s) + 1 > i
      /\ \A i \in 1 .. Len(a) : i \in 1 .. Len(s) \/ i = Len(s) + 1
      /\ Len(s) + 1 \in 1 .. Len(a)
    BY <1>2
<1>4. Some(a, f) <=> Some(s, f) \/ About(x, f)
    BY <1>2, <1>3 DEF Some
<1>5. About(x, f) /\ ValueIn(x, f) = v => LastIs(a, f, v)
    BY <1>2, <1>3 DEF LastIs
<1>6. LastIs(s, f, v) /\ ~About(x, f) => LastIs(a, f, v)
    BY <1>2, <1>3 DEF LastIs
<1> QED
    BY <1>1, <1>4, <1>5, <1>6

LEMMA SomeSent ==
    ASSUME NEW S, NEW s \in Seq(S), NEW w \in Seq(S), NEW f, NEW v,
           \A i \in 1 .. Len(w) : About(w[i], f) => ValueIn(w[i], f) = v
    PROVE  /\ Some(s, f) => Some(s \o w, f)
           /\ LastIs(s, f, v) => LastIs(s \o w, f, v)
<1>1. PICK a : a = s \o w
    OBVIOUS
<1>2. /\ Len(s) \in Nat /\ Len(w) \in Nat /\ Len(a) = Len(s) + Len(w)
      /\ \A i \in 1 .. Len(s) : a[i] = s[i]
      /\ \A i \in 1 .. Len(w) : a[Len(s) + i] = w[i]
    BY <1>1
<1>3. /\ \A i \in 1 .. Len(s) : i \in 1 .. Len(a)
      /\ \A i \in 1 .. Len(a) :
           i \in 1 .. Len(s) \/ \E k \in 1 .. Len(w) : i = Len(s) + k
    <2>1. ASSUME NEW i \in 1 .. Len(a), i \notin 1 .. Len(s)
          PROVE  \E k \in 1 .. Len(w) : i = Len(s) + k
        <3>1. i - Len(s) \in 1 .. Len(w) /\ i = Len(s) + (i - Len(s))
            BY <1>2, <2>1
        <3> QED
            BY <3>1
    <2> QED
        BY <1>2, <2>1
<1>4. Some(s, f) => Some(a, f)
    BY <1>2, <1>3 DEF Some
<1>5. LastIs(s, f, v) => LastIs(a, f, v)
    <2> SUFFICES ASSUME LastIs(s, f, v), NEW i \in 1 .. Len(a), About(a[i], f)
                 PROVE  ValueIn(a[i], f) = v \/ \E j \in 1 .. Len(a) : j > i /\ About(a[j], f)
        BY DEF LastIs
    <2>1. CASE i \in 1 .. Len(s)
        BY <1>2, <1>3, <2>1 DEF LastIs
    <2>2. CASE \E k \in 1 .. Len(w) : i = Len(s) + k
        BY <1>2, <2>2
    <2> QED
        BY <1>3, <2>1, <2>2
<1> QED
    BY <1>1, <1>4, <1>5

LEMMA SomeTaken ==
    ASSUME NEW S, NEW s \in Seq(S), s # <<>>, NEW f, NEW v
    PROVE  /\ Some(s, f) <=> Some(Tail(s), f) \/ About(Head(s), f)
           /\ LastIs(s, f, v) => LastIs(Tail(s), f, v)
           /\ LastIs(s, f, v) /\ About(Head(s), f) /\ ~Some(Tail(s), f) => ValueIn(Head(s), f) = v
<1>1. PICK a : a = Tail(s)
    OBVIOUS
<1>2. /\ Len(s) \in Nat /\ Len(s) > 0 /\ Len(a) = Len(s) - 1 /\ s[1] = Head(s)
      /\ \A i \in 1 .. Len(a) : a[i] = s[i + 1]
    BY <1>1
<1>3. /\ 1 \in 1 .. Len(s)
      /\ \A i \in 1 .. Len(a) : i + 1 \in 1 .. Len(s)
      /\ \A i \in 1 .. Len(s) : i > 1 => i - 1 \in 1 .. Len(a) /\ a[i - 1] = s[i]
      /\ \A i \in 1 .. Len(s) : i = 1 \/ i > 1
    BY <1>2
<1>4. Some(s, f) <=> Some(a, f) \/ About(Head(s), f)
    BY <1>2, <1>3 DEF Some
<1>5. LastIs(s, f, v) => LastIs(a, f, v)
    <2> SUFFICES ASSUME LastIs(s, f, v), NEW i \in 1 .. Len(a), About(a[i], f)
                 PROVE  ValueIn(a[i], f) = v \/ \E j \in 1 .. Len(a) : j > i /\ About(a[j], f)
        BY DEF LastIs
    <2>1. CASE ValueIn(s[i + 1], f) = v
        BY <1>2, <2>1
    <2>2. CASE \E j \in 1 .. Len(s) : j > i + 1 /\ About(s[j], f)
        <3>1. PICK j \in 1 .. Len(s) : j > i + 1 /\ About(s[j], f)
            BY <2>2
        <3>2. j > 1 /\ j - 1 > i
            BY <3>1
        <3> QED
            BY <1>3, <3>1, <3>2
    <2> QED
        BY <1>2, <1>3, <2>1, <2>2 DEF LastIs
<1>6. LastIs(s, f, v) /\ About(Head(s), f) /\ ~Some(a, f) => ValueIn(Head(s), f) = v
    <2> SUFFICES ASSUME LastIs(s, f, v), About(Head(s), f), ~Some(a, f)
                 PROVE  ValueIn(Head(s), f) = v
        OBVIOUS
    <2>1. ASSUME NEW j \in 1 .. Len(s), j > 1, About(s[j], f) PROVE FALSE
        BY <1>3, <2>1 DEF Some
    <2> QED
        BY <1>2, <1>3, <2>1 DEF LastIs
<1> QED
    BY <1>1, <1>4, <1>5, <1>6

(* What an action, an event or a message is about.                         *)
LEMMA AboutForms ==
    ASSUME NEW F, NEW f
    PROVE  /\ \A x \in Actions(F) \cup Events(F) : About(x, f) <=> x.t = "field" /\ x.f = f
           /\ \A x \in Messages(F) :
                About(x, f) <=> x.t = "fields" /\ x.from = "executor" /\ f \in DOMAIN x.val
           /\ \A x \in Messages(F) : About(x, f) => ValueIn(x, f) = x.val[f]
<1>1. \A x \in Actions(F) : x.t # "fields"
    BY ActionForms DEF Actions, FieldEvents, OwnActions, AnyActions, OtherActions, StreamActions,
       UpdateActions, GenericActions
<1>2. \A x \in Events(F) : x.t # "fields"
    BY EventForms DEF Events, FieldEvents, OwnEvents, MessageEvents, EphemeralEvents, ReadEvents
<1>3. \A x \in Messages(F) : x.t # "field"
    BY MessageForms
<1> QED
    BY <1>1, <1>2, <1>3 DEF About, ValueIn

(* The events the sync loop has not received are kept by every other step. *)
LEMMA PendingKept ==
    ASSUME NEW F, Types(F), HomeStep(F), ~Sync, NEW f
    PROVE  Some(pending, f) => Some(pending', f)
<1>1. pending \in Seq(Events(F))
    BY DEF Types, HomeTypes
<1>2. CASE Still
    BY <1>2 DEF Still
<1>3. ASSUME NEW e, pending' = Append(pending, e), Some(pending, f) PROVE Some(pending', f)
    <2>1. PICK i \in 1 .. Len(pending) : About(pending[i], f)
        BY <1>3 DEF Some
    <2>2. i \in 1 .. Len(pending') /\ pending'[i] = pending[i]
        BY <1>1, <1>3
    <2> QED
        BY <2>1, <2>2 DEF Some
<1> QED
    BY <1>2, <1>3 DEF HomeStep, Changed, Change, Recorded, Record

(* The channel, when nothing is taken from it or added to it that is about *)
(* a field.                                                                *)
LEMMA ChannelAsideOrder ==
    ASSUME NEW F, Types(F), Types(F)', ChannelAside, NEW f, NEW v
    PROVE  /\ Some(channel', f) <=> Some(channel, f)
           /\ LastIs(channel, f, v) => LastIs(channel', f, v)
<1>1. channel \in Seq(Actions(F)) /\ channel' \in Seq(Actions(F))
    BY DEF Types, ChannelTypes
<1>2. CASE UNCHANGED channel
    BY <1>2
<1>3. CASE \E x : x.t # "field" /\ channel' = Append(channel, x)
    <2>1. PICK x : x.t # "field" /\ channel' = Append(channel, x)
        BY <1>3
    <2>2. Len(channel') = Len(channel) + 1 /\ channel'[Len(channel) + 1] = x /\ Len(channel) \in Nat
        BY <1>1, <2>1
    <2>3. x \in Actions(F)
        BY <1>1, <2>2
    <2>4. ~About(x, f)
        BY <2>1, <2>3, AboutForms
    <2> QED
        BY <1>1, <2>1, <2>3, <2>4, SomeAdded
<1>4. CASE channel # <<>> /\ Head(channel).t # "field" /\ channel' = Tail(channel)
    <2>1. PICK x : x = Head(channel)
        OBVIOUS
    <2>2. x \in Actions(F) /\ x.t # "field"
        BY <1>1, <1>4, <2>1
    <2>3. ~About(x, f)
        BY <2>2, AboutForms
    <2> QED
        BY <1>1, <1>4, <2>1, <2>3, SomeTaken
<1> QED
    BY <1>2, <1>3, <1>4 DEF ChannelAside

(* Steps that add no word about a field but a current one.                 *)
LEMMA OrdinaryShown ==
    ASSUME NEW F, Types(F), Types(F)', HomeStep(F), ~Sync, ShownInv, Ordinary(F)
    PROVE  ShownInv'
<1>1. Fields = F /\ Fields' = F
    BY DEF Types, HomeTypes, Fields
<1>2. /\ room'.val = room.val /\ app' = app /\ handlers' = handlers
      /\ hist'.skipped = hist.skipped
    BY DEF Ordinary
<1>3. PICK msgs \in Seq(Messages(F)) :
        out' = out \o msgs /\ \A i \in 1 .. Len(msgs) : SaysCurrent(msgs[i])'
    BY DEF Ordinary, OutBelow
<1>4. out \in Seq(Messages(F))
    BY DEF Types, OutTypes
<1>5. ASSUME NEW f \in F PROVE Ordered(f)' /\ Shown(f)'
    <2>1. Ordered(f) /\ Shown(f)
        BY <1>1 DEF ShownInv
    <2>2. PICK v : v = room.val[f]
        OBVIOUS
    <2>3. ASSUME NEW i \in 1 .. Len(msgs), About(msgs[i], f) PROVE ValueIn(msgs[i], f) = v
        <3>1. PICK x : x = msgs[i]
            OBVIOUS
        <3>2. x \in Messages(F) /\ SaysCurrent(x)' /\ About(x, f)
            BY <1>3, <2>3, <3>1
        <3>3. /\ x.t = "fields" /\ x.from = "executor" /\ f \in DOMAIN x.val
              /\ ValueIn(x, f) = x.val[f]
            BY <3>2, AboutForms
        <3>4. x.val[f] = room'.val[f]
            BY <1>1, <3>2, <3>3 DEF SaysCurrent
        <3> QED
            BY <1>2, <2>2, <3>1, <3>3, <3>4
    <2>4. /\ Some(out, f) => Some(out', f)
          /\ LastIs(out, f, v) => LastIs(out', f, v)
        BY <1>3, <1>4, <2>3, SomeSent
    <2>5. /\ Some(channel', f) <=> Some(channel, f)
          /\ LastIs(channel, f, v) => LastIs(channel', f, v)
        BY ChannelAsideOrder DEF Ordinary
    <2>6. Some(pending, f) => Some(pending', f)
        BY PendingKept
    <2>7. Ordered(f)'
        BY <1>2, <2>1, <2>2, <2>4, <2>5 DEF Ordered
    <2>8. Shown(f)'
        BY <1>2, <2>1, <2>4, <2>5, <2>6 DEF Shown
    <2> QED
        BY <2>7, <2>8
<1> QED
    BY <1>1, <1>5 DEF ShownInv

(* A new value is handled next.                                            *)
LEMMA SyncShown ==
    ASSUME NEW F, Types(F), Types(F)', ShownInv, Sync
    PROVE  ShownInv'
<1>1. Fields = F /\ Fields' = F
    BY DEF Types, HomeTypes, Fields
<1>2. PICK e : e = Head(pending)
    OBVIOUS
<1>3. /\ e \in Events(F)
      /\ e.t = "field" => handlers' = <<e>>
      /\ \A f \in F : ~(e.t = "field" /\ e.f = f) => room'.val[f] = room.val[f]
    BY <1>2, SyncFields
<1>4. /\ UNCHANGED <<channel, out, app>> /\ handlers = <<>>
      /\ pending \in Seq(Events(F)) /\ pending # <<>> /\ pending' = Tail(pending)
      /\ hist'.skipped = hist.skipped
    BY DEF Sync, Types, HomeTypes, HistTypes, Hist
<1>5. ASSUME NEW f \in F PROVE Ordered(f)' /\ Shown(f)'
    <2>1. Ordered(f) /\ Shown(f)
        BY <1>1 DEF ShownInv
    <2>2. CASE e.t = "field" /\ e.f = f
        <3>1. Len(handlers') = 1 /\ handlers'[1] = e
            BY <1>3, <2>2
        <3>2. Some(handlers', f)
            BY <2>2, <3>1 DEF Some, About
        <3> QED
            BY <3>2 DEF Ordered, Shown
    <2>3. CASE ~(e.t = "field" /\ e.f = f)
        <3>1. ~About(e, f)
            BY <1>3, <2>3, AboutForms
        <3>2. Some(pending, f) => Some(pending', f)
            BY <1>2, <1>4, <3>1, SomeTaken
        <3>3. ~Some(handlers, f)
            BY <1>4 DEF Some
        <3>4. room'.val[f] = room.val[f]
            BY <1>3, <2>3
        <3>5. Ordered(f)'
            BY <1>4, <2>1, <3>3, <3>4 DEF Ordered
        <3>6. Shown(f)'
            BY <1>4, <2>1, <3>2, <3>3 DEF Shown
        <3> QED
            BY <3>5, <3>6
    <2> QED
        BY <2>2, <2>3
<1> QED
    BY <1>1, <1>5 DEF ShownInv

(* A handler queues the newest value, or skips it.                         *)
LEMMA HandleShown ==
    ASSUME NEW F, Types(F), Types(F)', HomeStep(F), ~Sync, FieldInv, ShownInv, Handle
    PROVE  ShownInv'
<1>1. Fields = F /\ Fields' = F
    BY DEF Types, HomeTypes, Fields
<1>2. PICK a : a = Head(handlers)
    OBVIOUS
<1>3. /\ handlers \in Seq(Actions(F)) /\ handlers # <<>> /\ handlers' = Tail(handlers)
      /\ channel \in Seq(Actions(F)) /\ a \in Actions(F)
      /\ UNCHANGED <<room, out, app>>
    BY <1>2 DEF Handle, Types, HandlerTypes, ChannelTypes
<1>4. \/ /\ channel' = Append(channel, a)
         /\ hist' = [hist EXCEPT !.skipped = IF a.t = "field" THEN @ \ {a.f} ELSE @]
      \/ /\ UNCHANGED channel
         /\ \E x : hist' = [hist EXCEPT !.skipped = IF a.t = "field" THEN @ \cup {a.f} ELSE @,
                                        !.untold = x]
    BY <1>2 DEF Handle
<1>5. \/ /\ channel' = Append(channel, a)
         /\ hist'.skipped = IF a.t = "field" THEN hist.skipped \ {a.f} ELSE hist.skipped
      \/ /\ UNCHANGED channel
         /\ hist'.skipped = IF a.t = "field" THEN hist.skipped \cup {a.f} ELSE hist.skipped
    BY <1>4 DEF Types, HistTypes, Hist
<1>6. ASSUME NEW f \in F PROVE Ordered(f)' /\ Shown(f)'
    <2>1. Ordered(f) /\ Shown(f)
        BY <1>1 DEF ShownInv
    <2>2. PICK v : v = room.val[f]
        OBVIOUS
    <2>3. Some(pending, f) => Some(pending', f)
        BY PendingKept
    <2>4. CASE About(a, f)
        <3>1. a.t = "field" /\ a.f = f
            BY <1>3, <2>4, AboutForms
        <3>2. CASE f \in hist'.skipped
            BY <3>2 DEF Ordered, Shown
        <3>3. CASE channel' = Append(channel, a)
            <4>1. Len(handlers) \in Nat /\ 1 \in 1 .. Len(handlers) /\ handlers[1] = a
                BY <1>2, <1>3
            <4>2. ValueIn(a, f) = v
                BY <1>1, <2>2, <3>1, <4>1 DEF FieldInv, FieldEvent, ValueIn
            <4>3. Some(channel', f) /\ LastIs(channel', f, v)
                BY <1>3, <2>4, <3>3, <4>2, SomeAdded
            <4> QED
                BY <1>3, <2>2, <4>3 DEF Ordered, Shown
        <3> QED
            BY <1>5, <3>1, <3>2, <3>3
    <2>5. CASE ~About(a, f)
        <3>1. Some(handlers', f) <=> Some(handlers, f)
            BY <1>2, <1>3, <2>5, SomeTaken
        <3>2. f \in hist'.skipped <=> f \in hist.skipped
            BY <1>3, <1>5, <2>5, AboutForms
        <3>3. /\ Some(channel', f) <=> Some(channel, f)
              /\ LastIs(channel, f, v) => LastIs(channel', f, v)
            <4>1. CASE UNCHANGED channel
                BY <4>1
            <4>2. CASE channel' = Append(channel, a)
                <5>1. PICK c : c = Append(channel, a)
                    OBVIOUS
                <5>2. /\ Some(c, f) <=> Some(channel, f)
                      /\ LastIs(channel, f, v) => LastIs(c, f, v)
                    BY <1>3, <2>5, <5>1, SomeAdded
                <5> QED
                    BY <4>2, <5>1, <5>2
            <4> QED
                BY <1>5, <4>1, <4>2
        <3>4. Ordered(f)'
            BY <1>3, <2>1, <2>2, <3>1, <3>2, <3>3 DEF Ordered
        <3>5. Shown(f)'
            BY <1>3, <2>1, <2>3, <3>1, <3>2, <3>3 DEF Shown
        <3> QED
            BY <3>4, <3>5
    <2> QED
        BY <2>4, <2>5
<1> QED
    BY <1>1, <1>6 DEF ShownInv

(* The executor sends the last value it was told to, or cannot load it.    *)
LEMMA ExecFieldShown ==
    ASSUME NEW F, Types(F), Types(F)', HomeStep(F), ~Sync, ShownInv, ExecField
    PROVE  ShownInv'
<1>1. Fields = F /\ Fields' = F
    BY DEF Types, HomeTypes, Fields
<1>2. PICK a : a = Head(channel)
    OBVIOUS
<1>3. /\ channel \in Seq(Actions(F)) /\ channel # <<>> /\ channel' = Tail(channel)
      /\ a \in Actions(F) /\ a.t = "field" /\ UNCHANGED <<room, handlers, app>>
    BY <1>2 DEF ExecField, Takes, Types, ChannelTypes
<1>4. a.f \in F /\ a.v \in Nat
    BY <1>3, ActionForms
<1>5. PICK m : m = [t |-> "fields", from |-> "executor", val |-> Only(a.f, Value(a))]
    OBVIOUS
<1>6. PICK m0 : m0 = [t |-> "fields", from |-> "executor", val |-> Only(a.f, 0)]
    OBVIOUS
<1>7. /\ m \in Messages(F) /\ m0 \in Messages(F)
      /\ \A f : (About(m, f) <=> f = a.f) /\ (About(m0, f) <=> f = a.f)
      /\ ValueIn(m, a.f) = Value(a)
    <2>1. Value(a) \in Nat
        BY <1>4 DEF Value, Types, RoomTypes
    <2>2. m \in Messages(F) /\ m0 \in Messages(F)
        BY <1>4, <1>5, <1>6, <2>1, PartialTypes, MessageTypes
    <2>3. /\ m.t = "fields" /\ m.from = "executor" /\ DOMAIN m.val = {a.f}
          /\ m.val[a.f] = Value(a)
          /\ m0.t = "fields" /\ m0.from = "executor" /\ DOMAIN m0.val = {a.f}
        BY <1>5, <1>6 DEF Only
    <2> QED
        BY <2>2, <2>3 DEF About, ValueIn
<1>8. \/ Sends(<<m>>) /\ UNCHANGED hist
      \/ /\ Sends(<<m0>>) \/ Sends(<<>>)
         /\ hist' = [hist EXCEPT !.skipped = @ \cup {a.f}]
    BY <1>2, <1>5, <1>6 DEF ExecField
<1>9. out \in Seq(Messages(F))
    BY DEF Types, OutTypes
<1>10. \/ out' = Append(out, m) /\ hist'.skipped = hist.skipped
       \/ /\ out' = Append(out, m0) \/ out' = out
          /\ hist'.skipped = hist.skipped \cup {a.f}
    BY <1>8, <1>9 DEF Sends, Types, HistTypes, Hist
<1>11. ASSUME NEW f \in F PROVE Ordered(f)' /\ Shown(f)'
    <2>1. Ordered(f) /\ Shown(f)
        BY <1>1 DEF ShownInv
    <2>2. PICK v : v = room.val[f]
        OBVIOUS
    <2>3. Some(pending, f) => Some(pending', f)
        BY PendingKept
    <2>4. /\ Some(channel, f) <=> Some(channel', f) \/ About(a, f)
          /\ LastIs(channel, f, v) => LastIs(channel', f, v)
          /\ LastIs(channel, f, v) /\ About(a, f) /\ ~Some(channel', f) => ValueIn(a, f) = v
        BY <1>2, <1>3, SomeTaken
    <2>5. About(a, f) <=> a.f = f
        BY <1>3, AboutForms
    <2>6. CASE a.f = f
        <3>1. CASE f \in hist'.skipped
            BY <3>1 DEF Ordered, Shown
        <3>2. CASE f \notin hist'.skipped
            <4>1. out' = Append(out, m) /\ f \notin hist.skipped
                BY <1>10, <2>6, <3>2
            <4>2. Some(out', f)
                BY <1>7, <1>9, <2>6, <4>1, SomeAdded
            <4>3. CASE Some(handlers, f)
                BY <1>3, <4>2, <4>3 DEF Ordered, Shown
            <4>4. CASE LastIs(channel, f, v)
                <5>1. CASE Some(channel', f)
                    BY <1>3, <2>2, <2>4, <4>2, <4>4, <5>1 DEF Ordered, Shown
                <5>2. CASE ~Some(channel', f)
                    <6>1. a.v = v
                        BY <1>3, <2>4, <2>5, <2>6, <4>4, <5>2 DEF ValueIn
                    <6>2. Value(a) = v
                        BY <2>2, <2>6, <6>1 DEF Value
                    <6>3. LastIs(out', f, v)
                        BY <1>7, <1>9, <2>6, <4>1, <6>2, SomeAdded
                    <6> QED
                        BY <1>3, <2>2, <2>4, <4>2, <4>4, <6>3 DEF Ordered, Shown
                <5> QED
                    BY <5>1, <5>2
            <4> QED
                BY <2>1, <2>2, <4>1, <4>3, <4>4 DEF Ordered
        <3> QED
            BY <3>1, <3>2
    <2>7. CASE a.f # f
        <3>1. /\ Some(out', f) <=> Some(out, f)
              /\ LastIs(out, f, v) => LastIs(out', f, v)
            <4>1. ~About(m, f) /\ ~About(m0, f)
                BY <1>7, <2>7
            <4>2. ASSUME NEW y \in Messages(F), ~About(y, f), out' = Append(out, y)
                  PROVE  /\ Some(out', f) <=> Some(out, f)
                         /\ LastIs(out, f, v) => LastIs(out', f, v)
                <5>1. PICK o : o = Append(out, y)
                    OBVIOUS
                <5>2. /\ Some(o, f) <=> Some(out, f)
                      /\ LastIs(out, f, v) => LastIs(o, f, v)
                    BY <1>9, <4>2, <5>1, SomeAdded
                <5> QED
                    BY <4>2, <5>1, <5>2
            <4>3. CASE out' = out
                BY <4>3
            <4> QED
                BY <1>7, <1>10, <4>1, <4>2, <4>3
        <3>2. f \in hist'.skipped <=> f \in hist.skipped
            BY <1>10, <2>7
        <3>3. Ordered(f)'
            BY <1>3, <2>1, <2>2, <2>4, <2>5, <2>7, <3>1, <3>2 DEF Ordered
        <3>4. Shown(f)'
            BY <1>3, <2>1, <2>3, <2>4, <2>5, <2>7, <3>1, <3>2 DEF Shown
        <3> QED
            BY <3>3, <3>4
    <2> QED
        BY <2>6, <2>7
<1> QED
    BY <1>1, <1>11 DEF ShownInv

(* What the application shows of field f after it was told of some fields: *)
(* the newest value it was told, or an older one.                          *)
Tellings(p, shown, excused, f, x) ==
    /\ f \notin DOMAIN p =>
         /\ x.best[f] = app.fields.best[f]
         /\ shown => x.val[f] = app.fields.val[f]
         /\ f \in app.fields.stale => f \in x.stale
    /\ f \in DOMAIN p /\ shown =>
         \/ x.val[f] = x.best[f]
         \/ excused /\ f \in x.stale
         \/ p[f] < app.fields.best[f]
    /\ f \in DOMAIN p /\ shown /\ excused => x.val[f] = x.best[f] \/ f \in x.stale

LEMMA ToldNewest ==
    ASSUME NEW F, Types(F), NEW p \in Partial(F), NEW shown \in BOOLEAN, NEW excused \in BOOLEAN,
           NEW f \in F, NEW x, x = ToldFields(p, shown, excused)
    PROVE  Tellings(p, shown, excused, f, x)
<1>1. Fields = F
    BY DEF Types, HomeTypes, Fields
<1>2. /\ x.val = IF shown THEN Overwritten(p) ELSE app.fields.val
      /\ x.best = Best(p)
      /\ x.stale = (app.fields.stale \ (DOMAIN p \ Older(p)))
                     \cup (IF excused THEN Older(p) ELSE {})
    BY DEF ToldFields
<1>3. /\ Overwritten(p)[f] = IF f \in DOMAIN p THEN p[f] ELSE app.fields.val[f]
      /\ Best(p)[f] = IF f \in DOMAIN p \ Older(p) THEN p[f] ELSE app.fields.best[f]
    BY <1>1 DEF Overwritten, Best
<1>4. f \in Older(p) <=> f \in DOMAIN p /\ p[f] < app.fields.best[f]
    BY DEF Older
<1> QED
    BY <1>2, <1>3, <1>4 DEF Tellings

(* A message arrives.                                                      *)
LEMMA DeliverShown ==
    ASSUME NEW F, Types(F), Types(F)', HomeStep(F), ~Sync, NewestInv, ShownInv, Deliver
    PROVE  ShownInv'
<1>1. Fields = F /\ Fields' = F
    BY DEF Types, HomeTypes, Fields
<1>2. PICK m : m = Head(out)
    OBVIOUS
<1>3. /\ out \in Seq(Messages(F)) /\ out # <<>> /\ out' = Tail(out) /\ app' = Told(m)
      /\ m \in Messages(F) /\ UNCHANGED <<room, server, pending, handlers>>
    BY <1>2 DEF Deliver, Types, OutTypes
<1>4. hist'.skipped = hist.skipped /\ ChannelAside
    <2>1. \/ /\ channel' = Append(channel, [t |-> "discovered"])
             /\ hist' = [hist EXCEPT !.overlap = m.snap.drops # hist.drops,
                                     !.late = m.snap.moves # hist.moves,
                                     !.untold = @ \ {m.snap.moves}]
          \/ UNCHANGED channel /\ hist' = [hist EXCEPT !.late = m.moves # hist.moves]
          \/ UNCHANGED channel /\ hist' = [hist EXCEPT !.late = @]
        BY <1>2 DEF Deliver
    <2>2. [t |-> "discovered"].t # "field"
        OBVIOUS
    <2> QED
        BY <2>1, <2>2 DEF ChannelAside, Types, HistTypes, Hist
<1>5. ASSUME NEW f \in F PROVE Ordered(f)' /\ Shown(f)'
    <2>1. Ordered(f) /\ Shown(f)
        BY <1>1 DEF ShownInv
    <2>2. PICK v : v = room.val[f]
        OBVIOUS
    <2>3. /\ Some(channel', f) <=> Some(channel, f)
          /\ LastIs(channel, f, v) => LastIs(channel', f, v)
        BY <1>4, ChannelAsideOrder
    <2>4. /\ Some(out, f) <=> Some(out', f) \/ About(m, f)
          /\ LastIs(out, f, v) => LastIs(out', f, v)
          /\ LastIs(out, f, v) /\ About(m, f) /\ ~Some(out', f) => ValueIn(m, f) = v
        BY <1>2, <1>3, SomeTaken
    <2>5. Ordered(f)'
        BY <1>3, <1>4, <2>1, <2>2, <2>3, <2>4 DEF Ordered
    <2>6. About(m, f) => /\ m.t = "fields" /\ m.from = "executor" /\ f \in DOMAIN m.val
                         /\ ValueIn(m, f) = m.val[f]
        BY <1>3, AboutForms
    <2>7. ASSUME app'.room = "listed", m.t = "fields" PROVE Shown(f)'
        <3>1. /\ app'.fields = ToldFields(m.val, app.room = "listed", m.from # "executor")
              /\ app.room = "listed" /\ m.val \in Partial(F)
            BY <1>3, <2>7, ToldShown, MessageForms
        <3>2. PICK b \in BOOLEAN, e \in BOOLEAN : b /\ (e <=> m.from # "executor")
            OBVIOUS
        <3>3. PICK x : x = ToldFields(m.val, b, e) /\ app'.fields = x
            <4>1. e = (m.from # "executor") /\ b = (app.room = "listed")
                BY <3>1, <3>2
            <4> QED
                BY <3>1, <4>1
        <3>4. /\ f \notin DOMAIN m.val =>
                   /\ x.best[f] = app.fields.best[f] /\ x.val[f] = app.fields.val[f]
                   /\ f \in app.fields.stale => f \in x.stale
              /\ f \in DOMAIN m.val =>
                   \/ x.val[f] = x.best[f]
                   \/ m.from # "executor" /\ f \in x.stale
                   \/ m.val[f] < app.fields.best[f]
              /\ f \in DOMAIN m.val /\ m.from # "executor" => x.val[f] = x.best[f] \/ f \in x.stale
            <4>1. Tellings(m.val, b, e, f, x)
                BY <3>1, <3>2, <3>3, ToldNewest
            <4> QED
                BY <3>2, <4>1 DEF Tellings
        <3>5. CASE f \notin DOMAIN m.val
            BY <1>3, <1>4, <2>1, <2>3, <2>4, <2>6, <3>1, <3>3, <3>4, <3>5 DEF Shown
        <3>6. CASE x.val[f] = x.best[f] \/ f \in x.stale
            BY <3>3, <3>6 DEF Shown
        <3>7. CASE f \in DOMAIN m.val /\ m.from = "executor" /\ m.val[f] < app.fields.best[f]
            <4>1. About(m, f) /\ ValueIn(m, f) = m.val[f]
                BY <2>6, <2>7, <3>7 DEF About
            <4>2. CASE f \in hist.skipped \/ Some(handlers, f) \/ Some(channel, f) \/ Some(out', f)
                BY <1>3, <1>4, <2>3, <4>2 DEF Shown
            <4>3. CASE LastIs(out, f, v) /\ ~Some(out', f)
                <5>1. v < app.fields.best[f]
                    BY <2>4, <3>7, <4>1, <4>3
                <5>2. /\ app.fields.best[f] \in Nat /\ f \in DOMAIN app.fields.best
                      /\ server.val[f] \in Nat /\ v \in Nat
                    BY <2>2 DEF Types, OutTypes, Apps, FieldsTold, HomeTypes, RoomTypes
                <5>3. app.fields.best[f] <= server.val[f]
                    BY <1>1, <5>2 DEF NewestInv, BelowInv, Below
                <5>4. room.val[f] # server.val[f]
                    BY <2>2, <5>1, <5>2, <5>3
                <5>5. \E i \in 1 .. Len(pending) : FieldEvent(pending, i, f)
                    BY <1>1, <5>4 DEF NewestInv, ServerInv
                <5>6. Some(pending, f)
                    BY <5>5 DEF Some, FieldEvent, About
                <5> QED
                    BY <1>3, <5>6 DEF Shown
            <4> QED
                BY <2>1, <2>2, <4>2, <4>3 DEF Ordered
        <3> QED
            BY <3>4, <3>5, <3>6, <3>7
    <2>8. ASSUME app'.room = "listed", IsSnapshot(m) PROVE Shown(f)'
        <3>1. app'.fields = ToldFields(m.snap.val, TRUE, TRUE)
            BY <1>3, <2>8, ToldShown
        <3>2. m.snap.val \in [F -> Nat]
            BY <1>3, <2>8, MessageForms DEF IsSnapshot, Snapshots
        <3>3. m.snap.val \in Partial(F)
            BY <3>2 DEF Partial
        <3>4. Tellings(m.snap.val, TRUE, TRUE, f, ToldFields(m.snap.val, TRUE, TRUE))
            BY <3>3, ToldNewest
        <3>5. app'.fields.val[f] = app'.fields.best[f] \/ f \in app'.fields.stale
            BY <3>1, <3>2, <3>4 DEF Tellings
        <3> QED
            BY <3>5 DEF Shown
    <2>9. ASSUME app'.room = "listed", m.t # "fields", ~IsSnapshot(m) PROVE Shown(f)'
        <3>1. app'.fields = app.fields /\ app.room = "listed"
            BY <1>3, <2>9, ToldShown
        <3>2. ~About(m, f)
            BY <2>6, <2>9
        <3> QED
            BY <1>3, <1>4, <2>1, <2>3, <2>4, <3>1, <3>2 DEF Shown
    <2>10. CASE app'.room # "listed"
        BY <2>5, <2>10 DEF Shown
    <2> QED
        BY <2>5, <2>7, <2>8, <2>9, <2>10
<1> QED
    BY <1>1, <1>5 DEF ShownInv

(* The invariant holds initially ...                                       *)
LEMMA NewestInit == RoomInit => NewestInv
<1> SUFFICES ASSUME RoomInit PROVE NewestInv
    OBVIOUS
<1>1. PICK F \in FieldSets, m \in {"none", "joined"} :
         /\ server = [val |-> [f \in F |-> 0], member |-> m]
         /\ room = [val |-> server.val, member |-> m, unread |-> 0]
    BY DEF RoomInit
<1>2. /\ Fields = F /\ room.val = server.val /\ app.fields.best = server.val
      /\ \A f \in F : server.val[f] = 0
    BY <1>1 DEF Fields, RoomInit
<1>3. Len(pending) = 0 /\ Len(handlers) = 0 /\ Len(channel) = 0 /\ Len(out) = 0
    BY DEF RoomInit
<1>4. \A r \in Requests : request[r].kind = "none"
    BY DEF RoomInit, Idle
<1>5. ServerInv
    BY <1>2, <1>3 DEF ServerInv
<1>6. BelowInv
    BY <1>2, <1>3, <1>4 DEF BelowInv, Below
<1>7. FieldInv
    BY <1>2, <1>3 DEF FieldInv, FieldTold
<1> QED
    BY <1>5, <1>6, <1>7 DEF NewestInv

LEMMA ShownInit == RoomInit => ShownInv
<1> SUFFICES ASSUME RoomInit, NEW f \in Fields PROVE Ordered(f) /\ Shown(f)
    BY DEF ShownInv
<1>1. Len(channel) = 0 /\ Len(out) = 0 /\ app.fields.val = app.fields.best
    BY DEF RoomInit
<1>2. LastIs(channel, f, room.val[f]) /\ LastIs(out, f, room.val[f])
    BY <1>1 DEF LastIs
<1> QED
    BY <1>1, <1>2 DEF Ordered, Shown

(* ... and after every step.                                               *)
LEMMA NewestStep ==
    TypeInv /\ NewestInv /\ ShownInv /\ [RoomNext]_roomVars => NewestInv' /\ ShownInv'
<1> SUFFICES ASSUME TypeInv, NewestInv, ShownInv, [RoomNext]_roomVars
             PROVE  NewestInv' /\ ShownInv'
    OBVIOUS
<1>1. PICK F : F = Fields
    OBVIOUS
<1>2. Types(F) /\ Types(F)'
    BY <1>1, TypesStep DEF TypeInv
<1>3. CASE UNCHANGED roomVars
    <2>1. NewestInv'
        BY <1>3 DEF roomVars, NewestInv, ServerInv, BelowInv, FieldInv, FieldEvent, FieldTold,
           Fields, Below, MessageBelow
    <2>2. ShownInv'
        BY <1>3 DEF roomVars, ShownInv, Ordered, Shown, Fields
    <2> QED
        BY <2>1, <2>2
<1>4. CASE RoomNext
    <2>1. /\ ServerInv' /\ HomeStep(F)
          /\ \A f \in F : server.val[f] <= server'.val[f] /\ room.val[f] <= room'.val[f]
        BY <1>2, <1>4, HomeSteps, ServerStep DEF NewestInv
    <2>2. Rising(F) /\ ServerInv /\ BelowInv
        BY <2>1 DEF Rising, NewestInv
    <2>3. CASE Sync
        BY <1>2, <2>1, <2>3, SyncFieldInv, SyncShown DEF NewestInv
    <2>4. CASE ~Sync /\ (Handle \/ ExecField \/ Deliver)
        <3>1. NewestInv'
            BY <1>2, <2>1, <2>4, HandleFieldInv, ExecFieldInv, DeliverFieldInv DEF NewestInv
        <3>2. ShownInv'
            BY <1>2, <2>1, <2>4, HandleShown, ExecFieldShown, DeliverShown DEF NewestInv
        <3> QED
            BY <3>1, <3>2
    <2>5. CASE ~Sync /\ Ordinary(F)
        BY <1>2, <2>1, <2>2, <2>5, OrdinaryStep, OrdinaryShown DEF NewestInv
    <2>6. CASE Homeserver \/ Expire \/ CacheSilently
        BY <1>2, <2>3, <2>5, <2>6, OutsideOrdinary
    <2>7. ASSUME NEW s \in {"updates", "generic"}, Forward(s) PROVE NewestInv' /\ ShownInv'
        BY <1>2, <2>3, <2>5, <2>7, ForwardOrdinary
    <2>8. CASE ExecOwn
        BY <1>2, <2>2, <2>3, <2>5, <2>8, ExecOwnOrdinary
    <2>9. CASE ExecAny \/ ExecMessage \/ ExecCount \/ ExecUpdate \/ ExecDiscovered
        BY <1>2, <2>3, <2>5, <2>9, ExecOrdinary
    <2>10. ASSUME NEW r \in Requests, Asks(r) \/ Processes(r) PROVE NewestInv' /\ ShownInv'
        BY <1>2, <2>2, <2>3, <2>5, <2>10, AsksOrdinary, ProcessesOrdinary
    <2> QED
        BY <1>4, <2>3, <2>4, <2>6, <2>7, <2>8, <2>9, <2>10 DEF RoomNext, Works, Executor
<1> QED
    BY <1>3, <1>4

(***************************************************************************)
(* Once nothing is on its way, a room that is shown is shown with the      *)
(* newest value of every field of it, or the event of that value was       *)
(* skipped or could not be loaded, or a snapshot or a reply from before a  *)
(* change arrived after it: for any sets of fields, sizes of the channel   *)
(* and numbers of changes and requests, whatever fails.                    *)
(***************************************************************************)
THEOREM FieldsShownCorrect == Spec => []FieldsShown
<1>1. TypeInv /\ NewestInv /\ ShownInv => FieldsShown
    <2> SUFFICES ASSUME TypeInv, NewestInv, ShownInv, Quiet, app.room = "listed",
                        NEW f \in Fields, f \notin hist.skipped, f \notin app.fields.stale
                 PROVE  app.fields.val[f] = room.val[f]
        BY DEF FieldsShown
    <2>1. Len(pending) = 0 /\ Len(handlers) = 0 /\ Len(channel) = 0 /\ Len(out) = 0
        BY DEF Quiet
    <2>2. FieldTold(f) /\ Below(app.fields.best)
        BY DEF NewestInv, FieldInv, BelowInv
    <2>3. room.val[f] = server.val[f]
        BY <2>1 DEF NewestInv, ServerInv
    <2>4. /\ app \in Apps(Fields) /\ room \in [val : [Fields -> Nat], member : Members, unread : Nat]
        BY DEF TypeInv, Types, OutTypes, RoomTypes
    <2>5. app.fields.best[f] \in Nat /\ room.val[f] \in Nat /\ f \in DOMAIN app.fields.best
        BY <2>4 DEF Apps, FieldsTold
    <2>6. app.fields.best[f] <= room.val[f]
        BY <2>2, <2>3, <2>5 DEF Below
    <2>7. app.fields.best[f] >= room.val[f]
        BY <2>1, <2>2 DEF FieldTold
    <2>8. app.fields.val[f] = app.fields.best[f]
        BY <2>1 DEF ShownInv, Shown, Some
    <2> QED
        BY <2>5, <2>6, <2>7, <2>8
<1> QED
    BY <1>1, TypesInit, TypeInvStep, NewestInit, ShownInit, NewestStep, PTL DEF Spec

-----------------------------------------------------------------------------
(***************************************************************************)
(* The read markers.  No marker that is on its way, or that a page began   *)
(* with, is newer than the cached one (AtMostInv); and the cached one has  *)
(* been told, was cached by a task that sends none, is on its way, or will *)
(* be sent at the end of a page that began with another one (MarkerInv).   *)
(***************************************************************************)
AtMost(a, b) == \A u \in Users : a[u] <= b[u]

HasMarkers(m) == m.t \in {"ephemeral", "markers"}
Within(m, b) == HasMarkers(m) => AtMost(m.markers, b)

Paging(q) == q.kind \in {"page", "loaded"}

AtMostInv ==
    /\ AtMost(app.markers, cache.markers)
    /\ \A i \in 1 .. Len(out) : Within(out[i], cache.markers)
    /\ \A i \in 1 .. Len(queued) : Within(queued[i], cache.markers)
    /\ \A r \in Requests : Paging(request[r]) => AtMost(request[r].current, cache.markers)

MarkerTold(u) ==
    \/ app.markers[u] = cache.markers[u]
    \/ u \in hist.silent
    \/ \E i \in 1 .. Len(out) : HasMarkers(out[i]) /\ out[i].markers[u] = cache.markers[u]
    \/ \E r \in Requests : Paging(request[r]) /\ request[r].current[u] # cache.markers[u]

MarkerInv == \A u \in Users : MarkerTold(u)

MarkersInv == AtMostInv /\ MarkerInv

(* A step that is not a delivery: the cached markers only grow, what is    *)
(* added is not newer than them, and every user's marker is as it was or   *)
(* is told, silent or waiting for the end of a page.                       *)
OutGrows(b) ==
    /\ \A i \in 1 .. Len(out) : i \in 1 .. Len(out') /\ out'[i] = out[i]
    /\ \A i \in 1 .. Len(out') : i \in 1 .. Len(out) \/ Within(out'[i], b)

PageKept(r, u) ==
    \/ request[r].current[u] = cache.markers[u]
    \/ u \in hist'.silent
    \/ Paging(request'[r]) /\ request'[r].current[u] = request[r].current[u]

MarkerKept(u) ==
    \/ /\ cache'.markers[u] = cache.markers[u]
       /\ u \in hist.silent => u \in hist'.silent
       /\ \A r \in Requests : Paging(request[r]) => PageKept(r, u)
    \/ u \in hist'.silent
    \/ \E i \in 1 .. Len(out') : HasMarkers(out'[i]) /\ out'[i].markers[u] = cache'.markers[u]
    \/ \E r \in Requests : Paging(request'[r]) /\ request'[r].current[u] # cache'.markers[u]

MarkerStep ==
    /\ UNCHANGED app
    /\ AtMost(cache.markers, cache'.markers)
    /\ OutGrows(cache'.markers)
    /\ \A i \in 1 .. Len(queued') : Within(queued'[i], cache'.markers)
    /\ \A r \in Requests : Paging(request'[r]) => AtMost(request'[r].current, cache'.markers)
    /\ \A u \in Users : MarkerKept(u)

(* The markers in a state of the right type.                               *)
LEMMA MarkersAre ==
    ASSUME NEW F, Types(F)
    PROVE  /\ Markers \subseteq [Users -> Nat]
           /\ cache.markers \in Markers /\ app.markers \in Markers
           /\ out \in Seq(Messages(F)) /\ queued \in Seq(Messages(F))
           /\ \A i \in 1 .. Len(out) : HasMarkers(out[i]) => out[i].markers \in Markers
           /\ \A i \in 1 .. Len(queued) : HasMarkers(queued[i]) => queued[i].markers \in Markers
           /\ \A r \in Requests : Paging(request[r]) => request[r].current \in Markers
<1>1. Markers \subseteq [Users -> Nat]
    BY MarkerTypes DEF Markers
<1>2. cache.markers \in Markers /\ app.markers \in Markers
    BY DEF Types, CacheTypes, OutTypes, Apps
<1>3. out \in Seq(Messages(F)) /\ queued \in Seq(Messages(F))
    BY MessageTypes DEF Types, OutTypes, QueueTypes
<1>4. \A m \in Messages(F) : HasMarkers(m) => m.markers \in Markers
    BY MessageForms DEF HasMarkers
<1>5. \A r \in Requests : Paging(request[r]) => request[r].current \in Markers
    BY RequestForms DEF Types, RequestTypes, Paging
<1>6. /\ \A i \in 1 .. Len(out) : out[i] \in Messages(F)
      /\ \A i \in 1 .. Len(queued) : queued[i] \in Messages(F)
    BY <1>3
<1> QED
    BY <1>1, <1>2, <1>3, <1>4, <1>5, <1>6

(* What is not newer than the cached markers stays so as they grow.        *)
LEMMA WithinStays ==
    ASSUME NEW a \in [Users -> Nat], NEW b \in [Users -> Nat], AtMost(a, b)
    PROVE  /\ \A c \in [Users -> Nat] : AtMost(c, a) => AtMost(c, b)
           /\ \A m : (HasMarkers(m) => m.markers \in [Users -> Nat]) /\ Within(m, a) => Within(m, b)
<1>1. \A c \in [Users -> Nat] : AtMost(c, a) => AtMost(c, b)
    BY DEF AtMost
<1> QED
    BY <1>1 DEF Within

(* Such steps keep the invariant.                                          *)
LEMMA MarkerStepInv ==
    ASSUME NEW F, Types(F), Types(F)', MarkersInv, MarkerStep
    PROVE  MarkersInv'
<1>1. /\ cache.markers \in [Users -> Nat] /\ cache'.markers \in [Users -> Nat]
      /\ app.markers \in [Users -> Nat] /\ app'.markers = app.markers
    BY MarkerTypes DEF Types, CacheTypes, OutTypes, Apps, MarkerStep, Markers
<1>2. AtMost(app'.markers, cache'.markers)
    BY <1>1, WithinStays DEF MarkersInv, AtMostInv, MarkerStep
<1>3. ASSUME NEW i \in 1 .. Len(out') PROVE Within(out'[i], cache'.markers)
    <2>1. CASE i \in 1 .. Len(out)
        <3>1. /\ Within(out[i], cache.markers) /\ out'[i] = out[i]
              /\ HasMarkers(out[i]) => out[i].markers \in [Users -> Nat]
            BY <2>1, MarkersAre DEF MarkersInv, AtMostInv, MarkerStep, OutGrows
        <3> QED
            BY <1>1, <3>1, WithinStays DEF MarkerStep
    <2> QED
        BY <2>1 DEF MarkerStep, OutGrows
<1>4. AtMostInv'
    BY <1>2, <1>3 DEF AtMostInv, MarkerStep, AtMost, Within, HasMarkers, Paging
<1>5. ASSUME NEW u \in Users PROVE MarkerTold(u)'
    <2>1. MarkerTold(u) /\ MarkerKept(u)
        BY DEF MarkersInv, MarkerInv, MarkerStep
    <2>2. CASE u \in hist'.silent
        BY <2>2 DEF MarkerTold
    <2>3. CASE \E i \in 1 .. Len(out') : HasMarkers(out'[i]) /\ out'[i].markers[u] = cache'.markers[u]
        BY <2>3 DEF MarkerTold, HasMarkers
    <2>4. CASE \E r \in Requests : Paging(request'[r]) /\ request'[r].current[u] # cache'.markers[u]
        BY <2>4 DEF MarkerTold, Paging
    <2>5. CASE /\ cache'.markers[u] = cache.markers[u]
               /\ u \in hist.silent => u \in hist'.silent
               /\ \A r \in Requests : Paging(request[r]) => PageKept(r, u)
        <3>1. CASE app.markers[u] = cache.markers[u]
            BY <1>1, <2>5, <3>1 DEF MarkerTold
        <3>2. CASE u \in hist.silent
            BY <2>2, <2>5, <3>2
        <3>3. CASE \E i \in 1 .. Len(out) : HasMarkers(out[i]) /\ out[i].markers[u] = cache.markers[u]
            <4>1. PICK i \in 1 .. Len(out) : HasMarkers(out[i]) /\ out[i].markers[u] = cache.markers[u]
                BY <3>3
            <4>2. i \in 1 .. Len(out') /\ out'[i] = out[i]
                BY DEF MarkerStep, OutGrows
            <4> QED
                BY <2>3, <2>5, <4>1, <4>2
        <3>4. CASE \E r \in Requests : Paging(request[r]) /\ request[r].current[u] # cache.markers[u]
            <4>1. PICK r \in Requests : Paging(request[r]) /\ request[r].current[u] # cache.markers[u]
                BY <3>4
            <4>2. PageKept(r, u)
                BY <2>5, <4>1
            <4> QED
                BY <2>2, <2>4, <2>5, <4>1, <4>2 DEF PageKept
        <3> QED
            BY <2>1, <3>1, <3>2, <3>3, <3>4 DEF MarkerTold
    <2> QED
        BY <2>1, <2>2, <2>3, <2>4, <2>5 DEF MarkerKept
<1>6. MarkerInv'
    BY <1>5 DEF MarkerInv
<1> QED
    BY <1>4, <1>6 DEF MarkersInv

(* Steps that touch no marker.                                             *)
MarkersAside ==
    /\ UNCHANGED <<app, queued>> /\ cache'.markers = cache.markers /\ hist'.silent = hist.silent
    /\ UNCHANGED out \/ \E m : ~HasMarkers(m) /\ out' = Append(out, m)
    /\ \A r \in Requests : request'[r] = request[r] \/ (~Paging(request[r]) /\ ~Paging(request'[r]))

(* They are steps of that kind.                                            *)
LEMMA AsideStep ==
    ASSUME NEW F, Types(F), AtMostInv, MarkersAside
    PROVE  MarkerStep
<1>1. cache.markers \in [Users -> Nat] /\ out \in Seq(Messages(F))
    BY MarkersAre
<1>2. AtMost(cache.markers, cache'.markers)
    BY <1>1 DEF AtMost, MarkersAside
<1>3. OutGrows(cache'.markers)
    <2>1. CASE UNCHANGED out
        BY <2>1 DEF OutGrows
    <2>2. ASSUME NEW m, ~HasMarkers(m), out' = Append(out, m) PROVE OutGrows(cache'.markers)
        <3>1. /\ \A i \in 1 .. Len(out) : i \in 1 .. Len(out') /\ out'[i] = out[i]
              /\ \A i \in 1 .. Len(out') : i \in 1 .. Len(out) \/ out'[i] = m
            BY <1>1, <2>2
        <3> QED
            BY <2>2, <3>1 DEF OutGrows, Within
    <2> QED
        BY <2>1, <2>2 DEF MarkersAside
<1>4. \A i \in 1 .. Len(queued') : Within(queued'[i], cache'.markers)
    BY DEF MarkersAside, AtMostInv
<1>5. \A r \in Requests : Paging(request'[r]) => AtMost(request'[r].current, cache'.markers)
    BY DEF MarkersAside, AtMostInv
<1>6. \A u \in Users : MarkerKept(u)
    BY DEF MarkersAside, MarkerKept, PageKept
<1> QED
    BY <1>2, <1>3, <1>4, <1>5, <1>6 DEF MarkersAside, MarkerStep

(* The homeserver, the sync loop with its handlers and streams, and the    *)
(* clock touch no marker.                                                  *)
LEMMA SyncAside ==
    ASSUME NEW F, Types(F),
           \/ Homeserver \/ Sync \/ Handle \/ Expire \/ \E s \in {"updates", "generic"} : Forward(s)
    PROVE  MarkersAside
<1>1. UNCHANGED <<app, queued, out, request>>
    BY DEF Homeserver, Sync, Handle, Expire, Forward
<1>2. UNCHANGED cache \/ cache' = [cache EXCEPT !.marked = "old"]
    BY DEF Homeserver, Sync, Handle, Expire, Forward
<1>3. cache'.markers = cache.markers
    BY <1>2 DEF Types, CacheTypes
<1>4. \/ UNCHANGED hist
      \/ \E k : hist' = [hist EXCEPT !.moves = k]
      \/ \E x : hist' = [hist EXCEPT !.skipped = x]
      \/ \E x, y : hist' = [hist EXCEPT !.skipped = x, !.untold = y]
    <2>1. CASE Sync
        BY <2>1 DEF Sync
    <2>2. CASE Handle
        BY <2>2 DEF Handle
    <2> QED
        BY <2>1, <2>2 DEF Homeserver, Expire, Forward
<1>5. hist'.silent = hist.silent
    BY <1>4 DEF Types, HistTypes, Hist
<1> QED
    BY <1>1, <1>3, <1>5 DEF MarkersAside

(* Neither do the executor's handlers of fields, membership and messages.  *)
LEMMA ExecAside ==
    ASSUME NEW F, Types(F), ExecField \/ ExecOwn \/ ExecMessage
    PROVE  MarkersAside
<1>1. UNCHANGED <<app, queued, request>>
    BY DEF ExecField, ExecOwn, ExecMessage, Takes
<1>2. \/ UNCHANGED cache
      \/ \E x : cache' = [cache EXCEPT !.marked = x]
    BY DEF ExecField, ExecOwn, ExecMessage
<1>3. cache'.markers = cache.markers
    BY <1>2 DEF Types, CacheTypes
<1>4. \/ UNCHANGED hist
      \/ \E x : hist' = [hist EXCEPT !.skipped = x]
      \/ \E x : hist' = [hist EXCEPT !.untold = x]
    BY DEF ExecField, ExecOwn, ExecMessage
<1>5. hist'.silent = hist.silent
    BY <1>4 DEF Types, HistTypes, Hist
<1>6. \/ UNCHANGED out \/ Sends(<<>>)
      \/ \E m : m.t \in {"fields", "invited", "left", "room"} /\ Sends(<<m>>)
    <2>1. CASE ExecField
        <3>1. PICK m : m = [t |-> "fields", from |-> "executor",
                              val |-> Only(Head(channel).f, Value(Head(channel)))]
            OBVIOUS
        <3>2. m.t = "fields"
            BY <3>1
        <3> QED
            BY <2>1, <3>1, <3>2 DEF ExecField
    <2>2. CASE ExecOwn
        <3>1. PICK a : a = Head(channel)
            OBVIOUS
        <3>2. PICK m1 : m1 = [t |-> "left", moves |-> a.k]
            OBVIOUS
        <3>3. PICK m2 : m2 = [t |-> "room", snap |-> Snapshot]
            OBVIOUS
        <3>4. PICK m3 : m3 = [t |-> "fields", from |-> "executor",
                                val |-> Restrict(room.val, Fields \cap {"members"})]
            OBVIOUS
        <3>5. PICK m4 : m4 = [t |-> "invited"]
            OBVIOUS
        <3>6. m1.t = "left" /\ m2.t = "room" /\ m3.t = "fields" /\ m4.t = "invited"
            BY <3>2, <3>3, <3>4, <3>5
        <3>7. Sends(<<m1>>) \/ Sends(<<m2>>) \/ Sends(<<m3>>) \/ Sends(<<m4>>) \/ Sends(<<>>)
            BY <2>2, <3>1, <3>2, <3>3, <3>4, <3>5 DEF ExecOwn
        <3> QED
            BY <3>6, <3>7
    <2> QED
        BY <2>1, <2>2 DEF ExecMessage
<1>7. out \in Seq(Messages(F))
    BY DEF Types, OutTypes
<1>8. UNCHANGED out \/ \E m : ~HasMarkers(m) /\ out' = Append(out, m)
    <2>1. Sends(<<>>) => out' = out
        BY <1>7 DEF Sends
    <2>2. ASSUME NEW m, Sends(<<m>>) PROVE out' = Append(out, m)
        BY <1>7, <2>2 DEF Sends
    <2>3. \A m : m.t \in {"fields", "invited", "left", "room"} => ~HasMarkers(m)
        BY DEF HasMarkers
    <2>4. CASE \E m : m.t \in {"fields", "invited", "left", "room"} /\ Sends(<<m>>)
        <3>1. PICK m : m.t \in {"fields", "invited", "left", "room"} /\ Sends(<<m>>)
            BY <2>4
        <3>2. ~HasMarkers(m) /\ out' = Append(out, m)
            BY <2>2, <2>3, <3>1
        <3> QED
            BY <3>2
    <2> QED
        BY <1>6, <2>1, <2>4
<1> QED
    BY <1>1, <1>3, <1>5, <1>8 DEF MarkersAside

(* A request that begins or goes on and is no page touches no marker.      *)
LEMMA RequestAside ==
    ASSUME NEW F, Types(F), NEW r \in Requests, ~Paging(request[r]), NEW q, ~Paging(q),
           Begin(r, q) \/ GoesOn(r, q),
           cache'.markers = cache.markers, hist'.silent = hist.silent,
           UNCHANGED out \/ \E m : ~HasMarkers(m) /\ out' = Append(out, m)
    PROVE  MarkersAside
<1>1. UNCHANGED <<app, queued>> /\ request' = [request EXCEPT ![r] = q]
    BY DEF Begin, GoesOn
<1>2. \A s \in Requests : request'[s] = request[s] \/ (s = r /\ request'[s] = q)
    BY <1>1 DEF Types, RequestTypes
<1> QED
    BY <1>1, <1>2 DEF MarkersAside

(* The requests that begin, except for a page.                             *)
LEMMA AsksAside ==
    ASSUME NEW F, Types(F), NEW r \in Requests,
           GetRooms(r) \/ JoinRoom(r) \/ LeaveRoom(r) \/ ChangeRoom(r) \/ PinOrInvite(r) \/ MarkAsRead(r)
    PROVE  MarkersAside
<1>1. UNCHANGED cache
    BY DEF GetRooms, JoinRoom, LeaveRoom, ChangeRoom, PinOrInvite, MarkAsRead
<1>2. UNCHANGED hist \/ \E k : hist' = [hist EXCEPT !.moves = k]
    BY DEF GetRooms, JoinRoom, LeaveRoom, ChangeRoom, PinOrInvite, MarkAsRead, Move
<1>3. hist'.silent = hist.silent
    BY <1>2 DEF Types, HistTypes, Hist
<1>4. \E q : q.kind \in {"reply", "join", "none", "change", "load", "mark"} /\ Begin(r, q)
    <2>1. CASE GetRooms(r)
        <3>1. PICK m : Begin(r, Answer(m))
            BY <2>1 DEF GetRooms
        <3>2. Answer(m).kind = "reply"
            BY DEF Answer
        <3> QED
            BY <3>1, <3>2
    <2>2. CASE JoinRoom(r)
        <3>1. Begin(r, [kind |-> "join"]) /\ [kind |-> "join"].kind = "join"
            BY <2>2 DEF JoinRoom
        <3> QED
            BY <3>1
    <2>3. CASE LeaveRoom(r)
        <3>1. PICK m : m = [t |-> "left", moves |-> hist'.moves]
            OBVIOUS
        <3>2. Begin(r, Answer(m)) \/ Begin(r, Idle)
            BY <2>3, <3>1 DEF LeaveRoom
        <3>3. Answer(m).kind = "reply" /\ Idle.kind = "none"
            BY DEF Answer, Idle
        <3> QED
            BY <3>2, <3>3
    <2>4. CASE ChangeRoom(r)
        <3>1. PICK fs : Begin(r, [kind |-> "change", todo |-> fs, val |-> <<>>])
            BY <2>4 DEF ChangeRoom
        <3>2. [kind |-> "change", todo |-> fs, val |-> <<>>].kind = "change"
            OBVIOUS
        <3> QED
            BY <3>1, <3>2
    <2>5. CASE PinOrInvite(r)
        <3>1. PICK f : Begin(r, [kind |-> "load", f |-> f])
            BY <2>5 DEF PinOrInvite
        <3>2. [kind |-> "load", f |-> f].kind = "load"
            OBVIOUS
        <3> QED
            BY <3>1, <3>2
    <2>6. CASE MarkAsRead(r)
        <3>1. Begin(r, [kind |-> "mark"]) /\ [kind |-> "mark"].kind = "mark"
            BY <2>6 DEF MarkAsRead
        <3> QED
            BY <3>1
    <2> QED
        BY <2>1, <2>2, <2>3, <2>4, <2>5, <2>6
<1>5. PICK q : q.kind \in {"reply", "join", "none", "change", "load", "mark"} /\ Begin(r, q)
    BY <1>4
<1>6. ~Paging(q) /\ ~Paging(request[r]) /\ UNCHANGED out
    BY <1>5 DEF Begin, Paging, Idle
<1> QED
    BY <1>1, <1>3, <1>5, <1>6, RequestAside

(* The later steps of those requests.                                      *)
LEMMA ProcessesAside ==
    ASSUME NEW F, Types(F), NEW r \in Requests,
           UploadAvatar(r) \/ Assemble(r) \/ ChangeField(r) \/ ChangeDone(r) \/ LoadReply(r)
             \/ MarkCached(r) \/ Reply(r)
    PROVE  MarkersAside
<1>1. Idle.kind = "none" /\ ~Paging(Idle)
    BY DEF Idle, Paging
<1>2. hist \in Hist(F) /\ cache \in [known : BOOLEAN, marked : {"none", "recent", "old"}, markers : Markers]
    BY DEF Types, HistTypes, CacheTypes
<1>3. request[r] \in RequestStates(F)
    BY DEF Types, RequestTypes
<1>4. CASE UploadAvatar(r)
    <2>1. /\ request[r].kind = "join" /\ GoesOn(r, [kind |-> "joined"]) /\ UNCHANGED <<cache, hist, out>>
          /\ [kind |-> "joined"].kind = "joined"
        BY <1>4 DEF UploadAvatar
    <2>2. ~Paging([kind |-> "joined"]) /\ ~Paging(request[r])
        BY <2>1 DEF Paging
    <2> QED
        BY <2>1, <2>2, RequestAside
<1>5. CASE Assemble(r)
    <2>1. PICK q : q = Answer([t |-> "room", snap |-> Snapshot])
        OBVIOUS
    <2>2. /\ request[r].kind \in {"join", "joined"} /\ UNCHANGED <<cache, out>>
          /\ GoesOn(r, q) \/ GoesOn(r, Idle)
          /\ UNCHANGED hist \/ hist' = [hist EXCEPT !.untold = @ \cup {hist.moves}]
        BY <1>5, <2>1 DEF Assemble
    <2>3. ~Paging(q) /\ ~Paging(request[r])
        BY <2>1, <2>2 DEF Paging, Answer
    <2>4. hist'.silent = hist.silent
        BY <1>2, <2>2 DEF Hist
    <2> QED
        BY <1>1, <2>2, <2>3, <2>4, RequestAside
<1>6. CASE ChangeField(r)
    <2>1. PICK f : /\ request[r].kind = "change"
                   /\ UNCHANGED <<room, cache, out, hist>>
                   /\ \/ GoesOn(r, ChangedField(request[r], f))
                      \/ GoesOn(r, PassedField(request[r], f))
                      \/ GoesOn(r, Idle)
        BY <1>6, ChangeFieldSteps
    <2>2. request[r] \in ChangeRequests(F)
        BY <1>3, <2>1, RequestForms
    <2>3. ChangedField(request[r], f).kind = "change" /\ PassedField(request[r], f).kind = "change"
        BY <2>2 DEF ChangedField, PassedField, ChangeRequests
    <2>4. /\ ~Paging(request[r]) /\ ~Paging(ChangedField(request[r], f))
          /\ ~Paging(PassedField(request[r], f))
        BY <2>1, <2>3 DEF Paging
    <2> QED
        BY <1>1, <2>1, <2>4, RequestAside
<1>7. ASSUME NEW m, ~HasMarkers(m), out' = Append(out, m) \/ UNCHANGED out, ~Paging(request[r]),
             GoesOn(r, Idle), cache'.markers = cache.markers, hist'.silent = hist.silent
      PROVE  MarkersAside
    BY <1>1, <1>7, RequestAside
<1>8. CASE ChangeDone(r)
    <2>1. PICK m : m = [t |-> "fields", from |-> "request", val |-> request[r].val]
        OBVIOUS
    <2>2. ~HasMarkers(m)
        BY <2>1 DEF HasMarkers
    <2>3. ~Paging(request[r]) /\ out' = Append(out, m) /\ GoesOn(r, Idle) /\ UNCHANGED <<cache, hist>>
        BY <1>8, <2>1 DEF ChangeDone, Paging
    <2> QED
        BY <1>7, <2>2, <2>3
<1>9. CASE LoadReply(r)
    <2>1. ~Paging(request[r]) /\ GoesOn(r, Idle) /\ UNCHANGED <<cache, hist>>
        BY <1>9 DEF LoadReply, Paging
    <2>2. PICK v : \/ out' = Append(out, [t |-> "fields", from |-> "request",
                                              val |-> Only(request[r].f, v)])
                   \/ UNCHANGED out
        BY <1>9 DEF LoadReply
    <2>3. PICK m : m = [t |-> "fields", from |-> "request", val |-> Only(request[r].f, v)]
        OBVIOUS
    <2>4. ~HasMarkers(m)
        BY <2>3 DEF HasMarkers
    <2> QED
        BY <1>7, <2>1, <2>2, <2>3, <2>4
<1>10. CASE MarkCached(r)
    <2>1. PICK m : m = [t |-> "unread", n |-> 0]
        OBVIOUS
    <2>2. ~HasMarkers(m)
        BY <2>1 DEF HasMarkers
    <2>3. /\ ~Paging(request[r]) /\ out' = Append(out, m) /\ GoesOn(r, Idle)
          /\ cache' = [cache EXCEPT !.known = TRUE, !.marked = "recent"]
          /\ hist' = [hist EXCEPT !.zeroed = TRUE]
        BY <1>10, <2>1 DEF MarkCached, Paging
    <2>4. cache'.markers = cache.markers /\ hist'.silent = hist.silent
        BY <1>2, <2>3 DEF Hist
    <2> QED
        BY <1>7, <2>2, <2>3, <2>4
<1>11. CASE Reply(r)
    <2>1. PICK m : m = request[r].msg
        OBVIOUS
    <2>2. /\ request[r].kind = "reply" /\ out' = Append(out, m) /\ GoesOn(r, Idle)
          /\ UNCHANGED <<cache, hist>>
        BY <1>11, <2>1 DEF Reply
    <2>3. m \in Replies(F)
        BY <1>3, <2>1, <2>2, RequestForms
    <2>4. ~HasMarkers(m) /\ ~Paging(request[r])
        BY <2>2, <2>3 DEF HasMarkers, Paging, Replies, LeftMessages, RoomMessages, ListMessages
    <2> QED
        BY <1>7, <2>2, <2>4
<1> QED
    BY <1>4, <1>5, <1>6, <1>8, <1>9, <1>10, <1>11

(* What the executor sends follows what is on its way.                     *)
LEMMA SendsGrow ==
    ASSUME NEW F, Types(F), NEW msgs \in Seq(Messages(F)), Sends(msgs), NEW b,
           \A i \in 1 .. Len(msgs) : Within(msgs[i], b)
    PROVE  /\ OutGrows(b)
           /\ \A i \in 1 .. Len(msgs) : \E j \in 1 .. Len(out') : out'[j] = msgs[i]
<1>1. out \in Seq(Messages(F)) /\ Len(out) \in Nat /\ Len(msgs) \in Nat
    BY DEF Types, OutTypes
<1>2. out' = out \o msgs
    BY DEF Sends
<1>3. /\ Len(out') = Len(out) + Len(msgs)
      /\ \A i \in 1 .. Len(out) : out'[i] = out[i]
      /\ \A i \in 1 .. Len(msgs) : out'[Len(out) + i] = msgs[i]
    BY <1>1, <1>2
<1>4. \A i \in 1 .. Len(out) : i \in 1 .. Len(out') /\ out'[i] = out[i]
    BY <1>1, <1>3
<1>5. ASSUME NEW i \in 1 .. Len(out'), i \notin 1 .. Len(out) PROVE Within(out'[i], b)
    <2>1. i - Len(out) \in 1 .. Len(msgs) /\ i = Len(out) + (i - Len(out))
        BY <1>1, <1>3, <1>5
    <2>2. out'[i] = msgs[i - Len(out)]
        BY <1>3, <2>1
    <2> QED
        BY <2>1, <2>2
<1>6. \A i \in 1 .. Len(msgs) : Len(out) + i \in 1 .. Len(out')
    BY <1>1, <1>3
<1> QED
    BY <1>3, <1>4, <1>5, <1>6 DEF OutGrows

(* The queue of changes holds no newer markers when a change is tracked.   *)
LEMMA TrackWithin ==
    ASSUME NEW q \in Seq(Changes), NEW c \in Changes, NEW b, Within(c, b),
           \A i \in 1 .. Len(q) : Within(q[i], b)
    PROVE  \A i \in 1 .. Len(track_room_change(q, c)) : Within(track_room_change(q, c)[i], b)
<1>1. PICK p : p = IF Len(q) >= MaxQueued THEN Tail(q) ELSE q
    OBVIOUS
<1>2. p \in Seq(Changes) /\ \A i \in 1 .. Len(p) : Within(p[i], b)
    <2>1. CASE p = q
        BY <2>1
    <2>2. CASE p = Tail(q) /\ Len(q) >= MaxQueued
        <3>1. q # <<>> /\ Len(q) \in Nat
            BY <2>2, Bounds
        <3>2. p \in Seq(Changes) /\ Len(p) = Len(q) - 1
              /\ \A i \in 1 .. Len(p) : i + 1 \in 1 .. Len(q) /\ p[i] = q[i + 1]
            BY <2>2, <3>1
        <3> QED
            BY <3>2
    <2> QED
        BY <1>1, <2>1, <2>2
<1>3. /\ Append(p, c) \in Seq(Changes)
      /\ \A i \in 1 .. Len(Append(p, c)) :
           (i \in 1 .. Len(p) /\ Append(p, c)[i] = p[i]) \/ Append(p, c)[i] = c
    BY <1>2
<1>4. track_room_change(q, c) = Append(p, c)
    BY <1>1 DEF track_room_change
<1> QED
    BY <1>2, <1>3, <1>4

(* The unread count: the queue and the messages.                           *)
LEMMA CountWithin ==
    ASSUME NEW F, Types(F), NEW b, \A i \in 1 .. Len(queued) : Within(queued[i], b),
           NEW u, u = update_room_unread_count(queued)
    PROVE  /\ \A i \in 1 .. Len(u.q) : Within(u.q[i], b)
           /\ \A i \in 1 .. Len(u.send) : Within(u.send[i], b)
<1>1. PICK c : c = UnreadChange
    OBVIOUS
<1>2. c \in Changes /\ Within(c, b)
    BY <1>1, MessageTypes DEF UnreadChange, Types, RoomTypes, Within, HasMarkers
<1>3. queued \in Seq(Changes)
    BY DEF Types, QueueTypes
<1>4. CASE u = [q |-> track_room_change(queued, c), send |-> <<c>>]
    <2>1. u.q = track_room_change(queued, c) /\ u.send = <<c>>
        BY <1>4
    <2>2. Len(<<c>>) = 1 /\ <<c>>[1] = c
        OBVIOUS
    <2> QED
        BY <1>2, <1>3, <2>1, <2>2, TrackWithin
<1>5. CASE u = [q |-> queued, send |-> <<>>]
    <2>1. u.q = queued /\ u.send = <<>> /\ Len(<<>>) = 0
        BY <1>5
    <2> QED
        BY <2>1
<1> QED
    BY <1>1, <1>4, <1>5 DEF update_room_unread_count

(* A step of the executor that adds no marker to the cache.                *)
LEMMA SentStep ==
    ASSUME NEW F, Types(F), AtMostInv, UNCHANGED <<app, request>>,
           cache'.markers = cache.markers, hist'.silent = hist.silent,
           OutGrows(cache.markers),
           \A i \in 1 .. Len(queued') : Within(queued'[i], cache.markers)
    PROVE  MarkerStep
<1>1. AtMost(cache.markers, cache'.markers)
    BY MarkersAre DEF AtMost
<1>2. \A u \in Users : MarkerKept(u)
    BY DEF MarkerKept, PageKept
<1> QED
    BY <1>1, <1>2 DEF MarkerStep, AtMostInv

(* ExecCount and ExecDiscovered.                                           *)
LEMMA QueueMarkers ==
    ASSUME NEW F, Types(F), AtMostInv, ExecCount \/ ExecDiscovered
    PROVE  MarkerStep
<1>1. UNCHANGED <<app, request, cache>>
    BY DEF ExecCount, ExecDiscovered, Takes
<1>2. hist'.silent = hist.silent
    <2>1. \/ hist' = [hist EXCEPT !.drops = @ + 1]
          \/ \E z, v : hist' = [hist EXCEPT !.zeroed = z, !.overlap = v]
        BY DEF ExecCount, ExecDiscovered
    <2> QED
        BY <2>1 DEF Types, HistTypes, Hist
<1>3. PICK b : b = cache.markers
    OBVIOUS
<1>4. \A i \in 1 .. Len(queued) : Within(queued[i], b)
    BY <1>3 DEF AtMostInv
<1>5. CASE ExecCount
    <2>1. PICK u : u = update_room_unread_count(queued)
        OBVIOUS
    <2>2. queued' = u.q /\ Sends(u.send)
        BY <1>5, <2>1 DEF ExecCount
    <2>3. u.send \in Seq(Messages(F))
        BY <2>1, CountTypes
    <2>4. /\ \A i \in 1 .. Len(queued') : Within(queued'[i], b)
          /\ \A i \in 1 .. Len(u.send) : Within(u.send[i], b)
        BY <1>4, <2>1, <2>2, CountWithin
    <2>5. OutGrows(b)
        BY <2>2, <2>3, <2>4, SendsGrow
    <2> QED
        BY <1>1, <1>2, <1>3, <2>4, <2>5, SentStep
<1>6. CASE ExecDiscovered
    <2>1. PICK q : q = queued
        OBVIOUS
    <2>2. Sends(q) /\ queued' = <<>> /\ q \in Seq(Messages(F))
        BY <1>6, <2>1, MarkersAre DEF ExecDiscovered
    <2>3. OutGrows(b)
        BY <1>4, <2>1, <2>2, SendsGrow
    <2>4. \A i \in 1 .. Len(queued') : Within(queued'[i], b)
        BY <2>2
    <2> QED
        BY <1>1, <1>2, <1>3, <2>3, <2>4, SentStep
<1> QED
    BY <1>5, <1>6

(* The marker of w at ts is newer than that in a, and replaces it.         *)
Later(a, w, ts) == ts > a[w]
Replaced(a, w, ts) == [a EXCEPT ![w] = ts]

(* A marker of the cache that moves on is not older than before, nor is    *)
(* the message about it newer.                                             *)
LEMMA NewerMarkers ==
    ASSUME NEW a \in Markers, NEW w \in Users, NEW ts \in Times, Later(a, w, ts),
           NEW b, b = Replaced(a, w, ts), NEW ms, ms = Replaced(NoMarkers, w, ts)
    PROVE  /\ b \in [Users -> Nat] /\ AtMost(a, b) /\ AtMost(ms, b) /\ AtMost(NoMarkers, a)
           /\ ms \in Markers /\ ms[w] = ts /\ b[w] = ts /\ \A u \in Users : u # w => b[u] = a[u]
<1>1. a \in [Users -> Nat] /\ ts \in Nat /\ NoMarkers \in [Users -> Nat] /\ ms \in Markers
    BY MarkerTypes DEF Markers, Replaced
<1>2. \A u \in Users : NoMarkers[u] = 0
    BY DEF NoMarkers
<1>3. /\ b \in [Users -> Nat] /\ b[w] = ts /\ \A u \in Users : u # w => b[u] = a[u]
      /\ ms[w] = ts /\ \A u \in Users : u # w => ms[u] = NoMarkers[u]
    BY <1>1 DEF Replaced
<1>4. \A u \in Users : a[u] \in Nat /\ NoMarkers[u] <= a[u]
    BY <1>1, <1>2
<1>5. \A u \in Users : a[u] <= b[u] /\ ms[u] <= b[u]
    <2> SUFFICES ASSUME NEW u \in Users PROVE a[u] <= b[u] /\ ms[u] <= b[u]
        OBVIOUS
    <2>1. CASE u = w
        BY <1>1, <1>3, <2>1 DEF Later
    <2>2. CASE u # w
        BY <1>2, <1>3, <1>4, <2>2
    <2> QED
        BY <2>1, <2>2
<1> QED
    BY <1>1, <1>3, <1>4, <1>5 DEF AtMost

(* A step of the executor that caches a newer marker and sends it.         *)
LEMMA NewerStep ==
    ASSUME NEW F, Types(F), AtMostInv, UNCHANGED <<app, request>>,
           NEW w \in Users, NEW ts \in Times, Later(cache.markers, w, ts),
           cache'.markers = Replaced(cache.markers, w, ts), hist'.silent = hist.silent \ {w},
           OutGrows(cache'.markers),
           \A i \in 1 .. Len(queued') : Within(queued'[i], cache'.markers),
           \E i \in 1 .. Len(out') : HasMarkers(out'[i]) /\ out'[i].markers[w] = ts
    PROVE  MarkerStep
<1>1. PICK a : a = cache.markers
    OBVIOUS
<1>2. PICK b : b = cache'.markers
    OBVIOUS
<1>3. a \in Markers /\ b = Replaced(a, w, ts) /\ Later(a, w, ts)
    BY <1>1, <1>2, MarkersAre
<1>4. /\ a \in [Users -> Nat] /\ b \in [Users -> Nat] /\ AtMost(a, b)
      /\ b[w] = ts /\ \A u \in Users : u # w => b[u] = a[u]
    <2>1. PICK ms : ms = Replaced(NoMarkers, w, ts)
        OBVIOUS
    <2>2. a \in [Users -> Nat]
        BY <1>3, MarkersAre
    <2> QED
        BY <1>3, <2>1, <2>2, NewerMarkers
<1>5. \A r \in Requests : Paging(request'[r]) => AtMost(request'[r].current, b)
    <2> SUFFICES ASSUME NEW r \in Requests, Paging(request[r])
                 PROVE  AtMost(request[r].current, b)
        OBVIOUS
    <2>1. request[r].current \in [Users -> Nat] /\ AtMost(request[r].current, a)
        BY <1>1, MarkersAre DEF AtMostInv
    <2> QED
        BY <1>4, <2>1, WithinStays
<1>6. ASSUME NEW u \in Users PROVE MarkerKept(u)
    <2>1. CASE u = w
        BY <1>2, <1>4, <2>1 DEF MarkerKept
    <2>2. CASE u # w
        <3>1. cache'.markers[u] = cache.markers[u] /\ (u \in hist.silent => u \in hist'.silent)
            BY <1>1, <1>2, <1>4, <2>2
        <3>2. \A r \in Requests : Paging(request[r]) => PageKept(r, u)
            BY DEF PageKept
        <3> QED
            BY <3>1, <3>2 DEF MarkerKept
    <2> QED
        BY <2>1, <2>2
<1> QED
    BY <1>1, <1>2, <1>4, <1>5, <1>6 DEF MarkerStep

(* Who writes has read.                                                    *)
LEMMA ExecAnyMarkers ==
    ASSUME NEW F, Types(F), AtMostInv, ExecAny
    PROVE  MarkerStep
<1>1. PICK a : a = Head(channel)
    OBVIOUS
<1>2. Takes("any") /\ UNCHANGED queued /\ a.u \in Users /\ a.ts \in Times
    BY <1>1, TakesTypes, ActionForms DEF ExecAny
<1>3. UNCHANGED <<app, request>>
    BY <1>2 DEF Takes
<1>4. hist \in Hist(F) /\ CacheTypes /\ cache.markers \in Markers /\ cache.markers \in [Users -> Nat]
    BY MarkersAre DEF Types, HistTypes
<1>5. PICK ms : ms = [NoMarkers EXCEPT ![a.u] = a.ts]
    OBVIOUS
<1>6. CASE a.ts > cache.markers[a.u]
    <2>1. PICK m : m = [t |-> "markers", markers |-> ms]
        OBVIOUS
    <2>2. /\ cache' = [cache EXCEPT !.known = TRUE, !.markers[a.u] = a.ts]
          /\ Sends(<<m>>) /\ hist' = [hist EXCEPT !.silent = @ \ {a.u}]
        BY <1>1, <1>5, <1>6, <2>1 DEF ExecAny
    <2>3. /\ cache'.markers = [cache.markers EXCEPT ![a.u] = a.ts]
          /\ hist'.silent = hist.silent \ {a.u}
        BY <1>4, <2>2 DEF CacheTypes, Hist
    <2>4. PICK b : b = cache'.markers
        OBVIOUS
    <2>5. /\ b \in [Users -> Nat] /\ AtMost(cache.markers, b) /\ AtMost(ms, b)
          /\ ms \in Markers /\ ms[a.u] = a.ts
        <3>1. PICK c : c = cache.markers
            OBVIOUS
        <3>2. c \in Markers /\ a.ts > c[a.u] /\ b = [c EXCEPT ![a.u] = a.ts]
            BY <1>4, <1>6, <2>3, <2>4, <3>1
        <3>3. Later(c, a.u, a.ts) /\ b = Replaced(c, a.u, a.ts) /\ ms = Replaced(NoMarkers, a.u, a.ts)
            BY <1>5, <3>2 DEF Later, Replaced
        <3>4. PICK w : w = a.u
            OBVIOUS
        <3>5. PICK ts : ts = a.ts
            OBVIOUS
        <3>6. /\ c \in Markers /\ w \in Users /\ ts \in Times
              /\ Later(c, w, ts) /\ b = Replaced(c, w, ts) /\ ms = Replaced(NoMarkers, w, ts)
            BY <1>2, <3>2, <3>3, <3>4, <3>5
        <3>7. b \in [Users -> Nat] /\ AtMost(c, b) /\ AtMost(ms, b) /\ ms \in Markers /\ ms[w] = ts
            BY <3>6, NewerMarkers
        <3> QED
            BY <3>1, <3>4, <3>5, <3>7
    <2>6. m \in Messages(F) /\ HasMarkers(m) /\ m.markers = ms /\ Within(m, b)
        BY <2>1, <2>5, MessageTypes DEF HasMarkers, Within
    <2>7. <<m>> \in Seq(Messages(F)) /\ Len(<<m>>) = 1 /\ <<m>>[1] = m
        BY <2>6
    <2>8. /\ OutGrows(b)
          /\ \E j \in 1 .. Len(out') : out'[j] = m
        <3>1. \A i \in 1 .. Len(<<m>>) : Within(<<m>>[i], b)
            BY <2>6, <2>7
        <3>2. 1 \in 1 .. Len(<<m>>)
            BY <2>7
        <3> QED
            BY <2>2, <2>7, <3>1, <3>2, SendsGrow
    <2>9. \A i \in 1 .. Len(queued') : Within(queued'[i], b)
        <3>1. \A i \in 1 .. Len(queued) :
                /\ Within(queued[i], cache.markers)
                /\ HasMarkers(queued[i]) => queued[i].markers \in [Users -> Nat]
            BY MarkersAre DEF AtMostInv
        <3> QED
            BY <1>2, <1>4, <2>5, <3>1, WithinStays
    <2> QED
        <3>1. Later(cache.markers, a.u, a.ts) /\ cache'.markers = Replaced(cache.markers, a.u, a.ts)
            BY <1>6, <2>3 DEF Later, Replaced
        <3>2. \E j \in 1 .. Len(out') : HasMarkers(out'[j]) /\ out'[j].markers[a.u] = a.ts
            BY <2>5, <2>6, <2>8
        <3> QED
            BY <1>2, <1>3, <2>3, <2>4, <2>8, <2>9, <3>1, <3>2, NewerStep
<1>7. CASE ~(a.ts > cache.markers[a.u])
    <2>1. /\ cache' = [cache EXCEPT !.known = TRUE, !.markers[a.u] = @]
          /\ Sends(<<>>) /\ hist' = [hist EXCEPT !.silent = @]
        BY <1>1, <1>7 DEF ExecAny
    <2>2. cache'.markers = cache.markers /\ hist'.silent = hist.silent /\ out' = out
        BY <1>4, <2>1 DEF CacheTypes, Hist, Sends, Types, OutTypes
    <2>3. OutGrows(cache.markers)
        BY <2>2 DEF OutGrows
    <2>4. \A i \in 1 .. Len(queued') : Within(queued'[i], cache.markers)
        BY <1>2 DEF AtMostInv
    <2> QED
        BY <1>3, <2>2, <2>3, <2>4, SentStep
<1> QED
    BY <1>6, <1>7

(* Receipts.  A newer one is never suppressed as a change that is already  *)
(* queued, since no queued marker is newer than the cached one.            *)
LEMMA ExecUpdateMarkers ==
    ASSUME NEW F, Types(F), AtMostInv, ExecUpdate
    PROVE  MarkerStep
<1>1. PICK a : a = Head(channel)
    OBVIOUS
<1>2. PICK u : u = update_room_unread_count(queued)
    OBVIOUS
<1>3. PICK c : c = UpdateChange(a)
    OBVIOUS
<1>4. PICK new : new = UpdateSent(a, u.q)
    OBVIOUS
<1>5. /\ Takes("update")
      /\ queued' = IF new THEN track_room_change(u.q, c) ELSE u.q
      /\ Sends(IF new THEN Append(u.send, c) ELSE u.send)
      /\ cache' = IF a.u = None THEN cache
                  ELSE [cache EXCEPT !.known = TRUE,
                                     !.markers[a.u] = IF UpdateNewer(a) THEN a.ts ELSE @]
      /\ \E d, v, z : hist' = [hist EXCEPT !.drops = d, !.overlap = v, !.zeroed = z,
                                           !.silent = IF UpdateNewer(a) THEN @ \ {a.u} ELSE @]
    BY <1>1, <1>2, <1>3, <1>4 DEF ExecUpdate, UpdateChange, UpdateSent, UpdateNewer
<1>6. a.typing \in {TRUE, None} /\ a.u \in Users \cup {None} /\ a.ts \in Times
    BY <1>1, <1>5, TakesTypes, ActionForms
<1>7. UNCHANGED <<app, request>>
    BY <1>5 DEF Takes
<1>8. hist \in Hist(F) /\ CacheTypes /\ cache.markers \in Markers /\ cache.markers \in [Users -> Nat]
    BY MarkersAre DEF Types, HistTypes
<1>9. hist'.silent = IF UpdateNewer(a) THEN hist.silent \ {a.u} ELSE hist.silent
    BY <1>5, <1>8 DEF Hist
<1>10. u.q \in Seq(Changes) /\ u.send \in Seq(Changes) /\ u.send \in Seq(Messages(F))
    BY <1>2, CountTypes
<1>11. ASSUME NEW b, c \in Changes, Within(c, b), \A i \in 1 .. Len(queued) : Within(queued[i], b)
       PROVE  /\ OutGrows(b)
              /\ \A i \in 1 .. Len(queued') : Within(queued'[i], b)
              /\ new => \E j \in 1 .. Len(out') : out'[j] = c
    <2>1. /\ \A i \in 1 .. Len(u.q) : Within(u.q[i], b)
          /\ \A i \in 1 .. Len(u.send) : Within(u.send[i], b)
        BY <1>2, <1>11, CountWithin
    <2>2. \A i \in 1 .. Len(queued') : Within(queued'[i], b)
        BY <1>5, <1>10, <1>11, <2>1, TrackWithin
    <2>3. CASE new
        <3>1. c \in Messages(F)
            BY <1>11, MessageTypes
        <3>2. PICK msgs : msgs = Append(u.send, c)
            OBVIOUS
        <3>3. /\ msgs \in Seq(Messages(F)) /\ Len(msgs) = Len(u.send) + 1 /\ Len(u.send) \in Nat
              /\ msgs[Len(msgs)] = c /\ \A i \in 1 .. Len(u.send) : msgs[i] = u.send[i]
            BY <1>10, <3>1, <3>2
        <3>4. \A i \in 1 .. Len(msgs) : Within(msgs[i], b)
            <4> SUFFICES ASSUME NEW i \in 1 .. Len(msgs) PROVE Within(msgs[i], b)
                OBVIOUS
            <4>1. i \in 1 .. Len(u.send) \/ i = Len(msgs)
                BY <3>3
            <4> QED
                BY <1>11, <2>1, <3>3, <4>1
        <3>5. Sends(msgs) /\ Len(msgs) \in 1 .. Len(msgs)
            BY <1>5, <2>3, <3>2, <3>3
        <3> QED
            BY <2>2, <3>3, <3>4, <3>5, SendsGrow
    <2>4. CASE ~new
        <3>1. PICK msgs : msgs = u.send
            OBVIOUS
        <3>2. Sends(msgs) /\ msgs \in Seq(Messages(F))
            BY <1>5, <1>10, <2>4, <3>1
        <3> QED
            BY <2>1, <2>2, <2>4, <3>1, <3>2, SendsGrow
    <2> QED
        BY <2>3, <2>4
<1>12. CASE UpdateNewer(a)
    <2>1. a.u \in Users /\ a.u # None /\ a.ts > cache.markers[a.u]
        BY <1>6, <1>12 DEF UpdateNewer
    <2>2. PICK k : k = cache.markers
        OBVIOUS
    <2>3. PICK b : b = cache'.markers
        OBVIOUS
    <2>4. PICK ms : ms = [NoMarkers EXCEPT ![a.u] = a.ts]
        OBVIOUS
    <2>5. cache' = [cache EXCEPT !.known = TRUE, !.markers[a.u] = a.ts]
        BY <1>5, <1>12, <2>1
    <2>6. k \in Markers /\ k \in [Users -> Nat] /\ a.ts > k[a.u] /\ b = [k EXCEPT ![a.u] = a.ts]
        BY <1>8, <2>1, <2>2, <2>3, <2>5 DEF CacheTypes
    <2>7. /\ b \in [Users -> Nat] /\ AtMost(k, b) /\ AtMost(ms, b)
          /\ ms \in Markers /\ ms[a.u] = a.ts
        <3>1. Later(k, a.u, a.ts) /\ b = Replaced(k, a.u, a.ts) /\ ms = Replaced(NoMarkers, a.u, a.ts)
            BY <2>4, <2>6 DEF Later, Replaced
        <3>2. PICK w : w = a.u
            OBVIOUS
        <3>3. PICK ts : ts = a.ts
            OBVIOUS
        <3>4. /\ k \in Markers /\ w \in Users /\ ts \in Times
              /\ Later(k, w, ts) /\ b = Replaced(k, w, ts) /\ ms = Replaced(NoMarkers, w, ts)
            BY <1>6, <2>1, <2>6, <3>1, <3>2, <3>3
        <3>5. b \in [Users -> Nat] /\ AtMost(k, b) /\ AtMost(ms, b) /\ ms \in Markers /\ ms[w] = ts
            BY <3>4, NewerMarkers
        <3> QED
            BY <3>2, <3>3, <3>5
    <2>8. c = [t |-> "ephemeral", typing |-> a.typing, markers |-> ms]
        BY <1>3, <1>12, <2>4 DEF UpdateChange
    <2>9. c \in Changes /\ HasMarkers(c) /\ c.markers = ms /\ Within(c, b)
        BY <1>6, <2>7, <2>8, MessageTypes DEF HasMarkers, Within
    <2>10. \A i \in 1 .. Len(queued) :
             /\ Within(queued[i], k)
             /\ HasMarkers(queued[i]) => queued[i].markers \in [Users -> Nat]
        BY <2>2, MarkersAre DEF AtMostInv
    <2>11. \A i \in 1 .. Len(queued) : Within(queued[i], b)
        BY <2>6, <2>7, <2>10, WithinStays
    <2>12. new
        <3>1. \A i \in 1 .. Len(u.q) : Within(u.q[i], k)
            BY <1>2, <2>10, CountWithin
        <3>2. ASSUME u.q # <<>>, Last(u.q) = c PROVE FALSE
            <4>1. Len(u.q) \in 1 .. Len(u.q) /\ u.q[Len(u.q)] = c
                BY <1>10, <3>2 DEF Last
            <4>2. AtMost(ms, k)
                BY <2>9, <3>1, <4>1 DEF Within
            <4>3. ms[a.u] <= k[a.u] /\ k[a.u] \in Nat /\ a.ts \in Nat
                BY <1>6, <2>1, <2>6, <4>2, MarkerTypes DEF AtMost
            <4> QED
                BY <2>6, <2>7, <4>3
        <3> QED
            BY <1>3, <1>4, <1>12, <3>2 DEF UpdateSent, is_new_room_change
    <2>13. /\ OutGrows(b) /\ \A i \in 1 .. Len(queued') : Within(queued'[i], b)
           /\ \E j \in 1 .. Len(out') : out'[j] = c
        BY <1>11, <2>9, <2>11, <2>12
    <2> QED
        <3>1. Later(cache.markers, a.u, a.ts) /\ cache'.markers = Replaced(cache.markers, a.u, a.ts)
            BY <2>2, <2>3, <2>6 DEF Later, Replaced
        <3>2. \E j \in 1 .. Len(out') : HasMarkers(out'[j]) /\ out'[j].markers[a.u] = a.ts
            BY <2>7, <2>9, <2>13
        <3>3. hist'.silent = hist.silent \ {a.u} /\ OutGrows(cache'.markers)
              /\ \A i \in 1 .. Len(queued') : Within(queued'[i], cache'.markers)
            BY <1>9, <1>12, <2>3, <2>13
        <3> QED
            BY <1>6, <1>7, <2>1, <3>1, <3>2, <3>3, NewerStep
<1>13. CASE ~UpdateNewer(a)
    <2>1. PICK b : b = cache.markers
        OBVIOUS
    <2>2. cache' = cache \/ cache' = [cache EXCEPT !.known = TRUE, !.markers[a.u] = @]
        BY <1>5, <1>13
    <2>3. cache'.markers = cache.markers
        BY <1>8, <2>2 DEF CacheTypes, Markers
    <2>4. c = [t |-> "ephemeral", typing |-> a.typing, markers |-> NoMarkers]
        BY <1>3, <1>13 DEF UpdateChange
    <2>5. AtMost(NoMarkers, b) /\ NoMarkers \in Markers
        BY <1>8, <2>1, MarkerTypes DEF AtMost, NoMarkers
    <2>6. c \in Changes /\ c.markers = NoMarkers
        BY <1>6, <2>4, <2>5, MessageTypes
    <2>7. Within(c, b) /\ \A i \in 1 .. Len(queued) : Within(queued[i], b)
        BY <2>1, <2>5, <2>6 DEF Within, AtMostInv
    <2>8. OutGrows(b) /\ \A i \in 1 .. Len(queued') : Within(queued'[i], b)
        BY <1>11, <2>6, <2>7
    <2> QED
        BY <1>7, <1>9, <1>13, <2>1, <2>3, <2>8, SentStep
<1> QED
    BY <1>12, <1>13

(* A page remembers the markers it begins with.                            *)
LEMMA FetchPageMarkers ==
    ASSUME NEW F, Types(F), AtMostInv, NEW r \in Requests, FetchPage(r)
    PROVE  MarkerStep
<1>1. /\ Begin(r, [kind |-> "page", current |-> cache.markers]) /\ UNCHANGED hist
      /\ cache' = [cache EXCEPT !.known = TRUE]
    BY DEF FetchPage
<1>2. cache'.markers = cache.markers /\ cache.markers \in [Users -> Nat]
    BY <1>1, MarkersAre DEF Types, CacheTypes
<1>3. PICK q : q = [kind |-> "page", current |-> cache.markers]
    OBVIOUS
<1>4. /\ UNCHANGED <<app, out, queued>> /\ request[r] = Idle /\ ~Paging(request[r])
      /\ request' = [request EXCEPT ![r] = q]
    BY <1>1, <1>3 DEF Begin, Paging, Idle
<1>5. \A s \in Requests : request'[s] = IF s = r THEN q ELSE request[s]
    BY <1>4 DEF Types, RequestTypes
<1>6. q.current = cache.markers /\ AtMost(cache.markers, cache.markers)
    BY <1>2, <1>3 DEF AtMost
<1>7. OutGrows(cache'.markers)
    BY <1>4 DEF OutGrows
<1>8. \A i \in 1 .. Len(queued') : Within(queued'[i], cache'.markers)
    BY <1>2, <1>4 DEF AtMostInv
<1>9. \A s \in Requests : Paging(request'[s]) => AtMost(request'[s].current, cache'.markers)
    BY <1>2, <1>5, <1>6 DEF AtMostInv
<1>10. \A u \in Users : MarkerKept(u)
    BY <1>1, <1>2, <1>4, <1>5 DEF MarkerKept, PageKept
<1> QED
    BY <1>2, <1>4, <1>6, <1>7, <1>8, <1>9, <1>10 DEF MarkerStep

(* cache_read_markers never takes a marker back.                           *)
LEMMA CacheMarkerGrows ==
    ASSUME cache.markers \in [Users -> Nat], NEW w \in Users, NEW ts \in Nat,
           NEW b, b = CacheMarker(w, ts)
    PROVE  /\ b \in [Users -> Nat] /\ AtMost(cache.markers, b)
           /\ \A u \in Users : b[u] # cache.markers[u] => u = w /\ ts > cache.markers[u]
<1>1. PICK ms : ms = [NoMarkers EXCEPT ![w] = ts]
    OBVIOUS
<1>2. ms \in [Users -> Nat] /\ ms[w] = ts /\ \A u \in Users : u # w => ms[u] = 0
    BY <1>1 DEF NoMarkers
<1>3. \A u \in Users : b[u] = IF cache.markers[u] > ms[u] THEN cache.markers[u] ELSE ms[u]
    BY <1>1 DEF CacheMarker, Newer
<1>4. b \in [Users -> Nat]
    BY <1>1, <1>2 DEF CacheMarker, Newer
<1>5. ASSUME NEW u \in Users
      PROVE  /\ cache.markers[u] <= b[u]
             /\ b[u] # cache.markers[u] => u = w /\ ts > cache.markers[u]
    <2>1. cache.markers[u] \in Nat /\ ms[u] \in Nat
        BY <1>2
    <2>2. CASE u = w
        BY <1>2, <1>3, <2>1, <2>2
    <2>3. CASE u # w
        BY <1>2, <1>3, <2>1, <2>3
    <2> QED
        BY <2>2, <2>3
<1> QED
    BY <1>4, <1>5 DEF AtMost

(* A step that caches markers and sends none: a marker that changes is     *)
(* silent, or a page that began before will send it.                       *)
LEMMA CachedStep ==
    ASSUME NEW F, Types(F), AtMostInv, UNCHANGED <<app, out, queued>>,
           NEW w \in Users, NEW ts \in 1 .. changes, cache'.markers = CacheMarker(w, ts),
           hist.silent \subseteq hist'.silent,
           \A r \in Requests : /\ Paging(request'[r]) <=> Paging(request[r])
                               /\ Paging(request[r]) => request'[r].current = request[r].current,
           ts > cache.markers[w] => w \in hist'.silent \/ \E r \in Requests : Paging(request[r])
    PROVE  MarkerStep
<1>1. PICK a : a = cache.markers
    OBVIOUS
<1>2. PICK b : b = cache'.markers
    OBVIOUS
<1>3. ts \in Nat /\ a \in [Users -> Nat]
    BY <1>1, CacheMarkerTypes, MarkerTypes, MarkersAre
<1>4. /\ b \in [Users -> Nat] /\ AtMost(a, b)
      /\ \A u \in Users : b[u] # a[u] => u = w /\ ts > cache.markers[w]
    BY <1>1, <1>2, <1>3, CacheMarkerGrows
<1>5. OutGrows(b)
    BY DEF OutGrows
<1>6. \A i \in 1 .. Len(queued') : Within(queued'[i], b)
    <2>1. \A i \in 1 .. Len(queued) :
            /\ Within(queued[i], a)
            /\ HasMarkers(queued[i]) => queued[i].markers \in [Users -> Nat]
        BY <1>1, MarkersAre DEF AtMostInv
    <2> QED
        BY <1>3, <1>4, <2>1, WithinStays
<1>7. \A r \in Requests : Paging(request[r]) =>
        request[r].current \in [Users -> Nat] /\ AtMost(request[r].current, a)
    BY <1>1, MarkersAre DEF AtMostInv
<1>8. \A r \in Requests : Paging(request'[r]) => AtMost(request'[r].current, b)
    BY <1>3, <1>4, <1>7, WithinStays
<1>9. ASSUME NEW u \in Users PROVE MarkerKept(u)
    <2>1. CASE b[u] = a[u]
        BY <1>1, <1>2, <2>1 DEF MarkerKept, PageKept
    <2>2. CASE b[u] # a[u] /\ u \in hist'.silent
        BY <2>2 DEF MarkerKept
    <2>3. CASE b[u] # a[u] /\ u \notin hist'.silent
        <3>1. PICK r \in Requests : Paging(request[r])
            BY <1>4, <2>3
        <3>2. PICK c : c = request[r].current
            OBVIOUS
        <3>3. c \in [Users -> Nat] /\ c[u] <= a[u] /\ a[u] <= b[u]
            BY <1>4, <1>7, <3>1, <3>2 DEF AtMost
        <3>4. c[u] # b[u]
            BY <1>3, <1>4, <2>3, <3>3
        <3>5. Paging(request'[r]) /\ request'[r].current[u] # b[u]
            BY <3>1, <3>2, <3>4
        <3> QED
            BY <1>2, <3>5 DEF MarkerKept
    <2> QED
        BY <2>1, <2>2, <2>3
<1> QED
    BY <1>1, <1>2, <1>4, <1>5, <1>6, <1>8, <1>9 DEF MarkerStep

(* The markers of an event of a page, and those of an event that was       *)
(* loaded for itself.                                                      *)
LEMMA CachedMarkers ==
    ASSUME NEW F, Types(F), AtMostInv,
           CacheSilently \/ \E r \in Requests : load_and_cache_event_read_markers(r)
    PROVE  MarkerStep
<1>1. hist \in Hist(F) /\ CacheTypes
    BY DEF Types, HistTypes
<1>2. CASE CacheSilently
    <2>1. PICK w \in Users, ts \in 1 .. changes :
             /\ cache' = [cache EXCEPT !.known = TRUE, !.markers = CacheMarker(w, ts)]
             /\ hist' = [hist EXCEPT !.silent = IF ts > cache.markers[w] THEN @ \cup {w} ELSE @]
        BY <1>2 DEF CacheSilently
    <2>2. UNCHANGED <<app, out, queued, request>>
        BY <1>2 DEF CacheSilently
    <2>3. /\ cache'.markers = CacheMarker(w, ts)
          /\ hist'.silent = IF ts > cache.markers[w] THEN hist.silent \cup {w} ELSE hist.silent
        BY <1>1, <2>1 DEF CacheTypes, Hist
    <2>4. hist.silent \subseteq hist'.silent /\ (ts > cache.markers[w] => w \in hist'.silent)
        BY <2>3
    <2>5. \A r \in Requests : /\ Paging(request'[r]) <=> Paging(request[r])
                              /\ Paging(request[r]) => request'[r].current = request[r].current
        BY <2>2
    <2> QED
        BY <2>2, <2>3, <2>4, <2>5, CachedStep
<1>3. ASSUME NEW r \in Requests, load_and_cache_event_read_markers(r) PROVE MarkerStep
    <2>1. PICK w \in Users, ts \in 1 .. changes :
             cache' = [cache EXCEPT !.markers = CacheMarker(w, ts)]
        BY <1>3 DEF load_and_cache_event_read_markers
    <2>2. PICK q : q = [request[r] EXCEPT !.kind = "loaded"]
        OBVIOUS
    <2>3. /\ request[r].kind = "page" /\ request' = [request EXCEPT ![r] = q]
          /\ UNCHANGED <<app, out, queued, hist>>
        BY <1>3, <2>2 DEF load_and_cache_event_read_markers, GoesOn
    <2>4. cache'.markers = CacheMarker(w, ts)
        BY <1>1, <2>1 DEF CacheTypes
    <2>5. request \in [Requests -> RequestStates(F)] /\ request[r] \in PageRequests
        BY <2>3, RequestForms DEF Types, RequestTypes
    <2>6. q.kind = "loaded" /\ q.current = request[r].current
        BY <2>2, <2>5 DEF PageRequests
    <2>7. \A s \in Requests : request'[s] = IF s = r THEN q ELSE request[s]
        BY <2>3, <2>5
    <2>8. Paging(request[r]) /\ Paging(q)
        BY <2>3, <2>6 DEF Paging
    <2>9. \A s \in Requests : /\ Paging(request'[s]) <=> Paging(request[s])
                              /\ Paging(request[s]) => request'[s].current = request[s].current
        BY <2>6, <2>7, <2>8
    <2> QED
        BY <2>3, <2>4, <2>8, <2>9, CachedStep
<1> QED
    BY <1>2, <1>3

(* A page ends: the markers are sent if they differ from those it began    *)
(* with, or are silent if it failed.                                       *)
LEMMA PageMarkers ==
    ASSUME NEW F, Types(F), AtMostInv, NEW r \in Requests, update_read_markers(r) \/ PageFails(r)
    PROVE  MarkerStep
<1>1. /\ Paging(request[r]) /\ request' = [request EXCEPT ![r] = Idle]
      /\ UNCHANGED <<app, queued, cache>>
    BY DEF update_read_markers, PageFails, GoesOn, Paging
<1>2. request \in [Requests -> RequestStates(F)] /\ hist \in Hist(F) /\ ~Paging(Idle)
    BY DEF Types, RequestTypes, HistTypes, Paging, Idle
<1>3. \A s \in Requests : request'[s] = IF s = r THEN Idle ELSE request[s]
    BY <1>1, <1>2
<1>4. PICK b : b = cache.markers
    OBVIOUS
<1>5. b \in Markers /\ b \in [Users -> Nat] /\ AtMost(b, b) /\ cache'.markers = b
      /\ out \in Seq(Messages(F)) /\ request[r].current \in [Users -> Nat]
    BY <1>1, <1>4, MarkersAre DEF AtMost
<1>6. /\ \A i \in 1 .. Len(queued') : Within(queued'[i], b)
      /\ \A s \in Requests : Paging(request'[s]) => AtMost(request'[s].current, b)
    BY <1>1, <1>2, <1>3, <1>4 DEF AtMostInv
<1>7. CASE /\ out' = Append(out, [t |-> "markers", markers |-> b])
           /\ update_read_markers(r)
    <2>1. PICK m : m = [t |-> "markers", markers |-> b]
        OBVIOUS
    <2>2. m \in Messages(F) /\ HasMarkers(m) /\ m.markers = b
        BY <1>5, <2>1, MessageTypes DEF HasMarkers
    <2>3. /\ \A i \in 1 .. Len(out) : i \in 1 .. Len(out') /\ out'[i] = out[i]
          /\ \A i \in 1 .. Len(out') : i \in 1 .. Len(out) \/ out'[i] = m
          /\ Len(out') \in 1 .. Len(out') /\ out'[Len(out')] = m
        BY <1>5, <1>7, <2>1, <2>2
    <2>4. OutGrows(b)
        BY <1>5, <2>2, <2>3 DEF OutGrows, Within
    <2>5. \A u \in Users : MarkerKept(u)
        BY <1>5, <2>2, <2>3 DEF MarkerKept
    <2> QED
        BY <1>1, <1>4, <1>5, <1>6, <2>4, <2>5 DEF MarkerStep
<1>8. CASE UNCHANGED <<out, hist>> /\ b = request[r].current
    <2>1. OutGrows(b)
        BY <1>8 DEF OutGrows
    <2>2. \A u \in Users, s \in Requests : Paging(request[s]) => PageKept(s, u)
        BY <1>3, <1>4, <1>8 DEF PageKept
    <2>3. \A u \in Users : MarkerKept(u)
        BY <1>4, <1>5, <1>8, <2>2 DEF MarkerKept
    <2> QED
        BY <1>1, <1>4, <1>5, <1>6, <2>1, <2>3 DEF MarkerStep
<1>9. CASE PageFails(r)
    <2>1. UNCHANGED out /\ hist' = [hist EXCEPT
            !.silent = @ \cup {u \in Users : cache.markers[u] # request[r].current[u]}]
        BY <1>9 DEF PageFails
    <2>2. hist'.silent = hist.silent \cup {u \in Users : b[u] # request[r].current[u]}
        BY <1>2, <1>4, <2>1 DEF Hist
    <2>3. OutGrows(b)
        BY <2>1 DEF OutGrows
    <2>4. \A u \in Users, s \in Requests : Paging(request[s]) => PageKept(s, u)
        BY <1>3, <1>4, <2>2 DEF PageKept
    <2>5. \A u \in Users : MarkerKept(u)
        BY <1>4, <1>5, <2>2, <2>4 DEF MarkerKept
    <2> QED
        BY <1>1, <1>4, <1>5, <1>6, <2>3, <2>5 DEF MarkerStep
<1> QED
    BY <1>4, <1>7, <1>8, <1>9 DEF update_read_markers

(* What a message tells about the markers.                                 *)
LEMMA ToldMarkers ==
    ASSUME NEW F, Types(F), NEW m \in Messages(F)
    PROVE  /\ HasMarkers(m) => Told(m).markers = Newer(app.markers, m.markers)
           /\ ~HasMarkers(m) => Told(m).markers = app.markers
<1>1. /\ DOMAIN app = {"room", "fields", "unread", "markers"}
      /\ app = [x \in DOMAIN app |-> app[x]]
    BY DEF Types, OutTypes, Apps
<1>2. m.t \in {"unread", "ephemeral", "fields", "markers", "invited", "left", "room", "list"}
    BY MessageForms
<1>3. CASE m.t = "fields"
    <2>1. PICK x : x = ToldFields(m.val, app.room = "listed", m.from # "executor")
        OBVIOUS
    <2>2. Told(m) = [app EXCEPT !.fields = x]
        BY <1>3, <2>1 DEF Told
    <2> QED
        BY <1>1, <1>3, <2>2 DEF HasMarkers
<1>4. CASE m.t = "unread"
    <2>1. Told(m) = [app EXCEPT !.unread = IF app.room = "listed" THEN m.n ELSE @]
        BY <1>4 DEF Told
    <2> QED
        BY <1>1, <1>4, <2>1 DEF HasMarkers
<1>5. CASE m.t \in {"ephemeral", "markers"}
    <2>1. Told(m) = [app EXCEPT !.markers = Newer(@, m.markers)]
        BY <1>5 DEF Told
    <2> QED
        BY <1>1, <1>5, <2>1 DEF HasMarkers
<1>6. CASE m.t = "invited"
    <2>1. Told(m) = [app EXCEPT !.room = IF @ = "none" THEN "invited" ELSE @]
        BY <1>6 DEF Told
    <2> QED
        BY <1>1, <1>6, <2>1 DEF HasMarkers
<1>7. CASE m.t = "left"
    <2>1. Told(m) = [app EXCEPT !.room = "none", !.unread = 0]
        BY <1>7 DEF Told
    <2> QED
        BY <1>1, <1>7, <2>1 DEF HasMarkers
<1>8. CASE m.t \in {"room", "list"}
    <2>1. PICK y : y = ToldFields(m.snap.val, TRUE, TRUE)
        OBVIOUS
    <2>2. Told(m) = IF m.snap = None THEN app
                    ELSE [app EXCEPT !.room = IF m.snap.joined THEN "listed" ELSE "none",
                                     !.unread = IF m.snap.joined THEN m.snap.unread ELSE 0,
                                     !.fields = y]
        BY <1>8, <2>1 DEF Told
    <2> QED
        BY <1>1, <1>8, <2>2 DEF HasMarkers
<1> QED
    BY <1>2, <1>3, <1>4, <1>5, <1>6, <1>7, <1>8

(* A message arrives: its markers are told, and none is newer than what    *)
(* is cached.                                                              *)
LEMMA DeliverMarkers ==
    ASSUME NEW F, Types(F), Types(F)', MarkersInv, Deliver
    PROVE  MarkersInv'
<1>1. PICK m : m = Head(out)
    OBVIOUS
<1>2. /\ out \in Seq(Messages(F)) /\ out # <<>> /\ out' = Tail(out) /\ app' = Told(m)
      /\ UNCHANGED <<queued, cache, request>>
    BY <1>1 DEF Deliver, Types, OutTypes
<1>3. /\ Len(out) \in Nat /\ Len(out) > 0 /\ Len(out') = Len(out) - 1
      /\ out[1] = m /\ \A i \in 1 .. Len(out') : out'[i] = out[i + 1]
      /\ m \in Messages(F)
    BY <1>1, <1>2
<1>4. hist'.silent = hist.silent
    <2>1. \/ hist' = [hist EXCEPT !.overlap = m.snap.drops # hist.drops,
                                  !.late = m.snap.moves # hist.moves,
                                  !.untold = @ \ {m.snap.moves}]
          \/ hist' = [hist EXCEPT !.late = m.moves # hist.moves]
          \/ hist' = [hist EXCEPT !.late = @]
        BY <1>1 DEF Deliver
    <2> QED
        BY <2>1 DEF Types, HistTypes, Hist
<1>5. PICK a : a = app.markers
    OBVIOUS
<1>6. PICK b : b = cache.markers
    OBVIOUS
<1>7. a \in [Users -> Nat] /\ b \in [Users -> Nat] /\ AtMost(a, b) /\ cache'.markers = b
    BY <1>2, <1>5, <1>6, MarkersAre DEF MarkersInv, AtMostInv
<1>8. HasMarkers(m) => m.markers \in [Users -> Nat] /\ AtMost(m.markers, b)
    <2>1. 1 \in 1 .. Len(out)
        BY <1>3
    <2> QED
        BY <1>3, <1>6, <2>1, MarkersAre DEF MarkersInv, AtMostInv, Within
<1>9. PICK c : c = app'.markers
    OBVIOUS
<1>10. /\ HasMarkers(m) => c = Newer(a, m.markers)
       /\ ~HasMarkers(m) => c = a
    BY <1>2, <1>3, <1>5, <1>9, ToldMarkers
<1>11. ASSUME NEW u \in Users
       PROVE  /\ c[u] <= b[u] /\ (a[u] = b[u] => c[u] = b[u])
              /\ HasMarkers(m) /\ m.markers[u] = b[u] => c[u] = b[u]
    <2>1. a[u] \in Nat /\ b[u] \in Nat /\ a[u] <= b[u]
        BY <1>7 DEF AtMost
    <2>2. CASE ~HasMarkers(m)
        BY <1>10, <2>1, <2>2
    <2>3. CASE HasMarkers(m)
        <3>1. m.markers[u] \in Nat /\ m.markers[u] <= b[u]
            BY <1>8, <2>3 DEF AtMost
        <3>2. c[u] = IF a[u] > m.markers[u] THEN a[u] ELSE m.markers[u]
            BY <1>10, <2>3 DEF Newer
        <3> QED
            BY <2>1, <3>1, <3>2
    <2> QED
        BY <2>2, <2>3
<1>12. \A i \in 1 .. Len(out') : i + 1 \in 1 .. Len(out) /\ out'[i] = out[i + 1]
    BY <1>3
<1>13. AtMostInv'
    <2>1. AtMost(c, b)
        BY <1>11 DEF AtMost
    <2>2. \A i \in 1 .. Len(out') : Within(out'[i], b)
        BY <1>6, <1>12 DEF MarkersInv, AtMostInv
    <2>3. /\ \A i \in 1 .. Len(queued') : Within(queued'[i], b)
          /\ \A r \in Requests : Paging(request'[r]) => AtMost(request'[r].current, b)
        BY <1>2, <1>6 DEF MarkersInv, AtMostInv
    <2> QED
        BY <1>7, <1>9, <2>1, <2>2, <2>3 DEF AtMostInv, AtMost, Within, HasMarkers, Paging
<1>14. ASSUME NEW u \in Users PROVE MarkerTold(u)'
    <2>1. MarkerTold(u)
        BY DEF MarkersInv, MarkerInv
    <2>2. CASE c[u] = b[u]
        BY <1>7, <1>9, <2>2 DEF MarkerTold
    <2>3. CASE app.markers[u] = cache.markers[u]
        BY <1>5, <1>6, <1>11, <2>2, <2>3
    <2>4. CASE u \in hist.silent
        BY <1>4, <2>4 DEF MarkerTold
    <2>5. CASE \E i \in 1 .. Len(out) : HasMarkers(out[i]) /\ out[i].markers[u] = cache.markers[u]
        <3>1. PICK i \in 1 .. Len(out) : HasMarkers(out[i]) /\ out[i].markers[u] = b[u]
            BY <1>6, <2>5
        <3>2. CASE i = 1
            BY <1>3, <1>11, <2>2, <3>1, <3>2
        <3>3. CASE i # 1
            <4>1. i - 1 \in 1 .. Len(out') /\ out'[i - 1] = out[i]
                BY <1>3, <3>3
            <4>2. \E j \in 1 .. Len(out') : HasMarkers(out'[j]) /\ out'[j].markers[u] = cache'.markers[u]
                BY <1>7, <3>1, <4>1
            <4> QED
                BY <4>2 DEF MarkerTold, HasMarkers
        <3> QED
            BY <3>2, <3>3
    <2>6. CASE \E r \in Requests : Paging(request[r]) /\ request[r].current[u] # cache.markers[u]
        BY <1>2, <2>6 DEF MarkerTold, Paging
    <2> QED
        BY <2>1, <2>3, <2>4, <2>5, <2>6 DEF MarkerTold
<1>15. MarkerInv'
    BY <1>14 DEF MarkerInv
<1> QED
    BY <1>13, <1>15 DEF MarkersInv

(* The invariant of the read markers holds initially ...                   *)
LEMMA MarkersInit == RoomInit => MarkersInv
<1> SUFFICES ASSUME RoomInit PROVE MarkersInv
    OBVIOUS
<1>1. cache.markers = NoMarkers /\ app.markers = NoMarkers
    BY DEF RoomInit
<1>2. Len(queued) = 0 /\ Len(out) = 0
    BY DEF RoomInit
<1>3. \A r \in Requests : ~Paging(request[r])
    BY DEF RoomInit, Idle, Paging
<1>4. AtMost(NoMarkers, NoMarkers)
    BY DEF AtMost, NoMarkers
<1> QED
    BY <1>1, <1>2, <1>3, <1>4 DEF MarkersInv, AtMostInv, MarkerInv, MarkerTold

(* ... and after every step.                                               *)
LEMMA MarkersStep == TypeInv /\ MarkersInv /\ [RoomNext]_roomVars => MarkersInv'
<1> SUFFICES ASSUME TypeInv, MarkersInv, [RoomNext]_roomVars PROVE MarkersInv'
    OBVIOUS
<1>1. PICK F : F = Fields
    OBVIOUS
<1>2. Types(F) /\ Types(F)' /\ AtMostInv
    BY <1>1, TypesStep DEF TypeInv, MarkersInv
<1>3. CASE UNCHANGED roomVars
    BY <1>3 DEF roomVars, MarkersInv, AtMostInv, MarkerInv, MarkerTold, AtMost, Within, HasMarkers,
       Paging
<1>4. CASE RoomNext
    <2>1. CASE MarkerStep
        BY <1>2, <2>1, MarkerStepInv
    <2>2. CASE MarkersAside
        BY <1>2, <2>1, <2>2, AsideStep
    <2>3. CASE Homeserver \/ Sync \/ Handle \/ Expire
        BY <1>2, <2>2, <2>3, SyncAside
    <2>4. ASSUME NEW s \in {"updates", "generic"}, Forward(s) PROVE MarkersInv'
        BY <1>2, <2>2, <2>4, SyncAside
    <2>5. CASE ExecField \/ ExecOwn \/ ExecMessage
        BY <1>2, <2>2, <2>5, ExecAside
    <2>6. CASE ExecAny \/ ExecCount \/ ExecUpdate \/ ExecDiscovered
        BY <1>2, <2>1, <2>6, ExecAnyMarkers, QueueMarkers, ExecUpdateMarkers
    <2>7. CASE Deliver
        BY <1>2, <2>7, DeliverMarkers
    <2>8. CASE CacheSilently
        BY <1>2, <2>1, <2>8, CachedMarkers
    <2>9. ASSUME NEW r \in Requests, Asks(r) PROVE MarkersInv'
        BY <1>2, <2>1, <2>2, <2>9, AsksAside, FetchPageMarkers DEF Asks
    <2>10. ASSUME NEW r \in Requests, Processes(r) PROVE MarkersInv'
        BY <1>2, <2>1, <2>2, <2>10, ProcessesAside, CachedMarkers, PageMarkers DEF Processes
    <2> QED
        BY <1>4, <2>3, <2>4, <2>5, <2>6, <2>7, <2>8, <2>9, <2>10 DEF RoomNext, Works, Executor
<1> QED
    BY <1>3, <1>4

(***************************************************************************)
(* Once nothing is on its way, every read marker in the cache has been     *)
(* told or was cached by a task that sends none or failed: for any number  *)
(* of members, pages at the same time, changes and requests, and any limit *)
(* of the queued changes.                                                  *)
(***************************************************************************)
THEOREM MarkersToldCorrect == Spec => []MarkersTold
<1>1. TypeInv /\ MarkersInv => MarkersTold
    <2> SUFFICES ASSUME MarkersInv, Quiet, NEW u \in Users
                 PROVE  app.markers[u] = cache.markers[u] \/ u \in hist.silent
        BY DEF MarkersTold
    <2>1. Len(out) = 0 /\ \A r \in Requests : ~Paging(request[r])
        BY DEF Quiet, Idle, Paging
    <2>2. MarkerTold(u)
        BY DEF MarkersInv, MarkerInv
    <2> QED
        BY <2>1, <2>2 DEF MarkerTold
<1> QED
    BY <1>1, TypesInit, TypeInvStep, MarkersInit, MarkersStep, PTL DEF Spec
=============================================================================
