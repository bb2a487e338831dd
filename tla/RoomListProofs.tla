--------------------------- MODULE RoomListProofs ---------------------------
(***************************************************************************)
(* More proofs about RoomEvents: how the application lists the room, as    *)
(* joined or not and with which unread count.  The types of the states are *)
(* those of RoomEventsProofs.                                              *)
(***************************************************************************)
EXTENDS RoomEventsProofs

-----------------------------------------------------------------------------
(***************************************************************************)
(* Our membership.  An event or action of our own membership is about a    *)
(* join, about leaving a joined room, or about an invitation that comes or *)
(* is rejected.                                                            *)
(*                                                                         *)
(* A request may move the SDK's copy of the room ahead of the events that  *)
(* the sync loop has still to receive, which then move it back and forth.  *)
(* ChainInv: an invitation comes only after we left, and when the copy is  *)
(* joined and will not stay so, an event that tells of it comes.           *)
(***************************************************************************)
Joins(e) == e.t = "own" /\ e.m \in {"Joined", "InvitationAccepted"}
Leaves(e) == e.t = "own" /\ e.m = "Left"
Invites(e) == e.t = "own" /\ e.m \in {"Invited", "InvitationRejected"}

MoveComes(p) == \E i \in 1 .. Len(p) : Joins(p[i]) \/ Leaves(p[i])

LeftIn(p, i, n) == \E l \in 1 .. Len(p) : i < l /\ l < n /\ Leaves(p[l])

Chain(p, joined, here) ==
    /\ \A i \in 1 .. Len(p) : Joins(p[i]) => joined \/ LeftIn(p, i, Len(p) + 1)
    /\ \A i, n \in 1 .. Len(p) : i < n /\ Joins(p[i]) /\ Invites(p[n]) => LeftIn(p, i, n)
    /\ here /\ ~joined => MoveComes(p)
    /\ here /\ (\E i \in 1 .. Len(p) : Invites(p[i])) => MoveComes(p)

ChainInv == Chain(pending, JoinedIn(server), JoinedIn(room))

(* Messages and actions that tell whether we are joined: none is about a   *)
(* later move than the k-th, the last one, and one about the last one      *)
(* agrees with the room.                                                   *)
Says(m) == m.t = "left" \/ (m.t \in {"room", "list"} /\ m.snap # None)
MoveOf(m) == IF m.t = "left" THEN m.moves ELSE m.snap.moves
SaysJoined(m) == m.t # "left" /\ m.snap.joined

Agrees(m, k, joined) ==
    Says(m) => /\ MoveOf(m) <= k
               /\ MoveOf(m) = k => (SaysJoined(m) <=> joined)
ActionAgrees(a, k, joined) ==
    a.t = "own" => a.k <= k /\ (a.k = k /\ Leaves(a) => ~joined)

AllAgree(o, k, joined) == \A i \in 1 .. Len(o) : Agrees(o[i], k, joined)
ActionsAgree(s, k, joined) == \A i \in 1 .. Len(s) : ActionAgrees(s[i], k, joined)
RequestAgrees(q, k, joined) == q.kind = "reply" => Agrees(q.msg, k, joined)
RequestsAgree(rs, k, joined) == \A r \in Requests : RequestAgrees(rs[r], k, joined)

AgreeInv ==
    /\ AllAgree(out, hist.moves, JoinedIn(room))
    /\ RequestsAgree(request, hist.moves, JoinedIn(room))
    /\ ActionsAgree(handlers, hist.moves, JoinedIn(room))
    /\ ActionsAgree(channel, hist.moves, JoinedIn(room))

(* The last move has been told, will not be told, or is on its way.        *)
Tells(m, k) == Says(m) /\ MoveOf(m) = k
Brings(a, k) == (Joins(a) \/ Leaves(a)) /\ a.k = k
TellsLater(q, k) == q.kind \in {"join", "joined"} \/ (q.kind = "reply" /\ Tells(q.msg, k))

SomeTells(o, k) == \E i \in 1 .. Len(o) : Tells(o[i], k)
SomeBrings(s, k) == \E i \in 1 .. Len(s) : Brings(s[i], k)
SomeTellsLater(rs, k) == \E r \in Requests : TellsLater(rs[r], k)

SaidInv ==
    \/ hist.moves \in hist.untold \/ hist.late
    \/ app.room = "listed" <=> JoinedIn(room)
    \/ MoveComes(pending)
    \/ SomeBrings(handlers, hist.moves) \/ SomeBrings(channel, hist.moves)
    \/ SomeTells(out, hist.moves) \/ SomeTellsLater(request, hist.moves)

ListedInv == ChainInv /\ AgreeInv /\ SaidInv

(* What a step can do to our membership, on the homeserver and in the      *)
(* SDK's copy, besides Sync.                                               *)
MemberStill ==
    /\ server'.member = server.member /\ room'.member = room.member
    /\ UNCHANGED pending

MemberAside(e) ==
    /\ server'.member = server.member /\ room'.member = room.member
    /\ e.t # "own" /\ pending' = Append(pending, e)

MemberMoves(m) ==
    /\ server.member \in Moves[m].from /\ server'.member = Moves[m].to
    /\ room'.member \in {room.member, Moves[m].to}
    /\ pending' = Append(pending, [t |-> "own", m |-> m])

MemberStep(F) ==
    \/ MemberStill
    \/ \E e \in Events(F) : MemberAside(e)
    \/ \E m \in DOMAIN Moves : MemberMoves(m)
    \/ Sync

(* Every step does one of these.                                           *)
LEMMA MemberSteps ==
    ASSUME NEW F, Types(F), RoomNext
    PROVE  MemberStep(F)
<1>1. Fields = F /\ RoomTypes(F) /\ HomeTypes(F)
    BY FieldsAre DEF Types
<1>2. ASSUME NEW m \in DOMAIN Moves, server.member \in Moves[m].from,
             server' = [server EXCEPT !.member = Moves[m].to],
             Record([t |-> "own", m |-> m]), room'.member \in {room.member, Moves[m].to}
      PROVE  MemberStep(F)
    <2>1. server'.member = Moves[m].to
        BY <1>1, <1>2 DEF HomeTypes
    <2> QED
        BY <1>2, <2>1 DEF MemberStep, MemberMoves, Record
<1>3. ASSUME NEW m \in DOMAIN Moves, Move(m) PROVE MemberStep(F)
    <2>1. room'.member = Moves[m].to
        BY <1>1, <1>3 DEF Move, Moved, RoomTypes
    <2> QED
        BY <1>2, <1>3, <2>1 DEF Move
<1>4. ASSUME NEW f \in F, Change(f), UNCHANGED room PROVE MemberStep(F)
    <2>1. PICK e : e = [t |-> "field", f |-> f, v |-> server.val[f] + 1]
        OBVIOUS
    <2>2. e \in Events(F) /\ e.t # "own"
        BY <1>1, <2>1 DEF Events, FieldEvents, HomeTypes
    <2>3. pending' = Append(pending, e) /\ server'.member = server.member
        BY <1>1, <1>4, <2>1 DEF Change, Record, HomeTypes
    <2> QED
        BY <1>4, <2>2, <2>3 DEF MemberStep, MemberAside
<1>5. CASE Homeserver
    <2>1. OtherChanges /\ room' = room
        BY <1>5 DEF Homeserver
    <2>2. CASE \E f \in Fields : Change(f)
        BY <1>1, <1>4, <2>1, <2>2
    <2>3. CASE \E m \in DOMAIN Moves :
                 /\ server.member \in Moves[m].from
                 /\ server' = [server EXCEPT !.member = Moves[m].to]
                 /\ Record([t |-> "own", m |-> m])
        BY <1>2, <2>1, <2>3
    <2>4. ASSUME NEW e, e.t # "own", Record(e), UNCHANGED server PROVE MemberStep(F)
        <3>1. pending' = Append(pending, e) /\ pending' \in Seq(Events(F))
            BY <1>5, <2>4, HomeserverTypes DEF Record, Types, HomeTypes
        <3>2. pending'[Len(pending) + 1] = e /\ Len(pending') = Len(pending) + 1 /\ Len(pending) \in Nat
            BY <1>1, <3>1 DEF HomeTypes
        <3>3. e \in Events(F)
            BY <3>1, <3>2
        <3> QED
            BY <2>1, <2>4, <3>1, <3>3 DEF MemberStep, MemberAside
    <2> QED
        BY <2>1, <2>2, <2>3, <2>4 DEF OtherChanges
<1>6. CASE Sync
    BY <1>6 DEF MemberStep
<1>7. CASE Handle \/ Executor \/ Deliver \/ \E s \in {"updates", "generic"} : Forward(s)
    BY <1>7 DEF Handle, Executor, Deliver, Forward, ExecField, ExecOwn, ExecAny, ExecMessage,
       ExecCount, ExecUpdate, ExecDiscovered, Takes, MemberStep, MemberStill
<1>8. CASE Expire \/ CacheSilently
    BY <1>8 DEF Expire, CacheSilently, MemberStep, MemberStill
<1>9. ASSUME NEW r \in Requests, Asks(r) PROVE MemberStep(F)
    <2>1. CASE JoinRoom(r) \/ LeaveRoom(r)
        BY <1>3, <2>1, MoveTypes DEF JoinRoom, LeaveRoom
    <2>2. CASE PinOrInvite(r)
        BY <1>1, <1>4, <2>2 DEF PinOrInvite
    <2>3. CASE MarkAsRead(r)
        <3>1. [t |-> "read"] \in Events(F)
            BY DEF Events, ReadEvents
        <3> QED
            BY <2>3, <3>1 DEF MarkAsRead, Record, MemberStep, MemberAside
    <2>4. CASE GetRooms(r) \/ ChangeRoom(r) \/ FetchPage(r)
        BY <2>4 DEF GetRooms, ChangeRoom, FetchPage, MemberStep, MemberStill
    <2> QED
        BY <1>9, <2>1, <2>2, <2>3, <2>4 DEF Asks
<1>10. ASSUME NEW r \in Requests, Processes(r) PROVE MemberStep(F)
    <2>1. CASE UploadAvatar(r)
        BY <1>1, <1>4, <2>1 DEF UploadAvatar
    <2>2. CASE ChangeField(r)
        BY <1>4, <2>2, ChangeFieldSteps DEF MemberStep, MemberStill
    <2>3. CASE ~UploadAvatar(r) /\ ~ChangeField(r)
        BY <1>10, <2>3 DEF Processes, Assemble, ChangeDone, LoadReply, MarkCached, Reply, PageFails,
           load_and_cache_event_read_markers, update_read_markers, MemberStep, MemberStill
    <2> QED
        BY <2>1, <2>2, <2>3
<1> QED
    BY <1>5, <1>6, <1>7, <1>8, <1>9, <1>10 DEF RoomNext, Works

(* An event of our own membership is of one of the three kinds.            *)
LEMMA OwnKinds ==
    ASSUME NEW m \in DOMAIN Moves, NEW e, e.t = "own", e.m = m
    PROVE  /\ Joins(e) \/ Leaves(e) \/ Invites(e)
           /\ Joins(e) => Moves[m].to = "joined"
           /\ Leaves(e) => Moves[m].to = "left"
           /\ Invites(e) => Moves[m].to # "joined" /\ "joined" \notin Moves[m].from
           /\ ~(Joins(e) /\ Leaves(e)) /\ ~(Joins(e) /\ Invites(e)) /\ ~(Leaves(e) /\ Invites(e))
BY MoveTypes DEF Joins, Leaves, Invites, Moves

(* The homeserver records an event: ours lead from where we are.           *)
LEMMA ChainAppend ==
    ASSUME NEW F, NEW p \in Seq(Events(F)), NEW e \in Events(F),
           NEW joined \in BOOLEAN, NEW here \in BOOLEAN,
           NEW joined2 \in BOOLEAN, NEW here2 \in BOOLEAN,
           Chain(p, joined, here),
           \/ e.t # "own" /\ joined2 = joined /\ here2 = here
           \/ Joins(e) /\ joined2
           \/ Leaves(e) /\ ~joined2
           \/ Invites(e) /\ ~joined /\ ~joined2 /\ (here2 => here)
    PROVE  Chain(Append(p, e), joined2, here2)
<1>1. PICK n : n = Len(p)
    OBVIOUS
<1>2. PICK q : q = Append(p, e)
    OBVIOUS
<1>3. /\ n \in Nat /\ Len(q) = n + 1 /\ q[n + 1] = e
      /\ \A i \in 1 .. n : q[i] = p[i] /\ i \in 1 .. Len(q)
      /\ \A i \in 1 .. Len(q) : i \in 1 .. n \/ i = n + 1
    BY <1>1, <1>2
<1>4. ~(Joins(e) /\ Leaves(e)) /\ ~(Joins(e) /\ Invites(e)) /\ ~(Leaves(e) /\ Invites(e))
      /\ (e.t # "own" => ~Joins(e) /\ ~Leaves(e) /\ ~Invites(e))
    BY DEF Joins, Leaves, Invites
<1>5. ASSUME NEW i \in 1 .. n, NEW l \in 1 .. n + 1, LeftIn(p, i, l) PROVE LeftIn(q, i, l)
    BY <1>1, <1>3, <1>5 DEF LeftIn
<1>6. MoveComes(p) => MoveComes(q)
    BY <1>1, <1>3 DEF MoveComes
<1>7. Joins(e) \/ Leaves(e) => MoveComes(q)
    BY <1>3 DEF MoveComes
<1>8. ASSUME NEW i \in 1 .. n, LeftIn(q, i, n + 1) PROVE LeftIn(q, i, n + 2)
    BY <1>3, <1>8 DEF LeftIn
<1>9. ASSUME NEW i \in 1 .. Len(q), Joins(q[i]) PROVE joined2 \/ LeftIn(q, i, n + 2)
    <2>1. CASE i = n + 1
        BY <1>3, <1>4, <1>9, <2>1
    <2>2. CASE i \in 1 .. n /\ Leaves(e)
        <3>1. i < n + 1 /\ n + 1 < n + 2 /\ n + 1 \in 1 .. Len(q)
            BY <1>3, <2>2
        <3> QED
            BY <1>3, <2>2, <3>1 DEF LeftIn
    <2>3. CASE i \in 1 .. n /\ ~Leaves(e)
        <3>1. joined \/ LeftIn(p, i, n + 1)
            BY <1>1, <1>3, <1>9, <2>3 DEF Chain
        <3>2. LeftIn(p, i, n + 1) => LeftIn(q, i, n + 2)
            BY <1>3, <1>5, <1>8, <2>3
        <3> QED
            BY <2>3, <3>1, <3>2
    <2> QED
        BY <1>3, <2>1, <2>2, <2>3
<1>10. ASSUME NEW i \in 1 .. Len(q), NEW l \in 1 .. Len(q), i < l, Joins(q[i]), Invites(q[l])
       PROVE  LeftIn(q, i, l)
    <2>1. i \in 1 .. n /\ q[i] = p[i]
        BY <1>3, <1>10
    <2>2. CASE l \in 1 .. n
        <3>1. LeftIn(p, i, l)
            BY <1>1, <1>3, <1>10, <2>1, <2>2 DEF Chain
        <3> QED
            BY <1>3, <1>5, <2>1, <2>2, <3>1
    <2>3. CASE l = n + 1
        <3>1. Invites(e) /\ ~joined
            BY <1>3, <1>4, <1>10, <2>3
        <3>2. LeftIn(p, i, n + 1)
            BY <1>1, <1>10, <2>1, <3>1 DEF Chain
        <3> QED
            BY <1>3, <1>5, <2>1, <2>3, <3>2
    <2> QED
        BY <1>3, <2>2, <2>3
<1>11. here2 /\ ~joined2 => MoveComes(q)
    BY <1>6, <1>7 DEF Chain
<1>12. here2 /\ (\E i \in 1 .. Len(q) : Invites(q[i])) => MoveComes(q)
    <2>1. CASE Invites(e)
        BY <1>4, <1>11, <2>1
    <2>2. CASE Joins(e) \/ Leaves(e)
        BY <1>7, <2>2
    <2>3. CASE e.t # "own"
        <3>1. (\E i \in 1 .. Len(q) : Invites(q[i])) => (\E i \in 1 .. Len(p) : Invites(p[i]))
            BY <1>1, <1>3, <1>4, <2>3
        <3> QED
            BY <1>4, <1>6, <2>3, <3>1 DEF Chain
    <2> QED
        BY <2>1, <2>2, <2>3
<1>13. n + 2 = Len(q) + 1
    BY <1>3
<1>14. Chain(q, joined2, here2)
    BY <1>9, <1>10, <1>11, <1>12, <1>13 DEF Chain
<1> QED
    BY <1>2, <1>14

(* An event that does not tell of a move is received.                      *)
LEMMA MoveTail ==
    ASSUME NEW F, NEW p \in Seq(Events(F)), p # <<>>, MoveComes(p),
           ~Joins(Head(p)), ~Leaves(Head(p))
    PROVE  MoveComes(Tail(p))
<1>1. PICK n : n = Len(p)
    OBVIOUS
<1>2. PICK q : q = Tail(p)
    OBVIOUS
<1>3. /\ n \in Nat /\ n > 0 /\ Len(q) = n - 1 /\ Head(p) = p[1]
      /\ \A i \in 1 .. n - 1 : q[i] = p[i + 1] /\ i + 1 \in 1 .. n
    BY <1>1, <1>2
<1>4. PICK x \in 1 .. n : Joins(p[x]) \/ Leaves(p[x])
    BY <1>1 DEF MoveComes
<1>5. x # 1
    BY <1>3, <1>4
<1>6. x - 1 \in 1 .. n - 1 /\ (x - 1) + 1 = x
    BY <1>3, <1>4, <1>5
<1>7. q[x - 1] = p[x]
    BY <1>3, <1>6
<1> QED
    BY <1>2, <1>3, <1>4, <1>6, <1>7 DEF MoveComes

(* The sync loop receives an event.                                        *)
LEMMA ChainTail ==
    ASSUME NEW F, NEW p \in Seq(Events(F)), p # <<>>,
           NEW joined \in BOOLEAN, NEW here \in BOOLEAN, NEW here2 \in BOOLEAN,
           Chain(p, joined, here),
           (Head(p).t # "own" /\ here2 = here) \/ Joins(Head(p)) \/ ~here2
    PROVE  Chain(Tail(p), joined, here2)
<1>1. PICK n : n = Len(p)
    OBVIOUS
<1>2. PICK q : q = Tail(p)
    OBVIOUS
<1>3. /\ n \in Nat /\ n > 0 /\ Len(q) = n - 1 /\ Head(p) = p[1]
      /\ \A i \in 1 .. n - 1 : q[i] = p[i + 1] /\ i + 1 \in 1 .. n
    BY <1>1, <1>2
<1>4. ASSUME NEW i \in 1 .. n, NEW l \in 1 .. n + 1, LeftIn(p, i, l) PROVE LeftIn(q, i - 1, l - 1)
    <2>1. PICK x \in 1 .. n : i < x /\ x < l /\ Leaves(p[x])
        BY <1>1, <1>4 DEF LeftIn
    <2>2. /\ x - 1 \in 1 .. Len(q) /\ q[x - 1] = p[x]
          /\ i - 1 < x - 1 /\ x - 1 < l - 1
        <3>1. x - 1 \in 1 .. n - 1 /\ (x - 1) + 1 = x /\ i - 1 < x - 1 /\ x - 1 < l - 1
            BY <1>3, <2>1
        <3>2. q[x - 1] = p[(x - 1) + 1]
            BY <1>3, <3>1
        <3> QED
            BY <1>3, <3>1, <3>2
    <2> QED
        BY <2>1, <2>2 DEF LeftIn
<1>5. ASSUME NEW l \in 1 .. n + 1, LeftIn(p, 1, l) PROVE MoveComes(q)
    <2>1. LeftIn(q, 0, l - 1)
        BY <1>3, <1>4, <1>5
    <2> QED
        BY <2>1 DEF LeftIn, MoveComes
<1>6. ASSUME MoveComes(p), ~Joins(Head(p)), ~Leaves(Head(p)) PROVE MoveComes(q)
    BY <1>2, <1>6, MoveTail
<1>7. ASSUME NEW i \in 1 .. Len(q), Joins(q[i]) PROVE joined \/ LeftIn(q, i, Len(q) + 1)
    <2>1. i + 1 \in 1 .. n /\ Joins(p[i + 1]) /\ (i + 1) - 1 = i /\ (n + 1) - 1 = Len(q) + 1
          /\ n + 1 \in 1 .. n + 1
        BY <1>3, <1>7
    <2>2. joined \/ LeftIn(p, i + 1, n + 1)
        BY <1>1, <2>1 DEF Chain
    <2>3. LeftIn(p, i + 1, n + 1) => LeftIn(q, (i + 1) - 1, (n + 1) - 1)
        BY <1>4, <2>1
    <2> QED
        BY <2>1, <2>2, <2>3
<1>8. ASSUME NEW i \in 1 .. Len(q), NEW l \in 1 .. Len(q), i < l, Joins(q[i]), Invites(q[l])
      PROVE  LeftIn(q, i, l)
    <2>1. /\ i + 1 \in 1 .. n /\ Joins(p[i + 1]) /\ (i + 1) - 1 = i
          /\ l + 1 \in 1 .. n /\ Invites(p[l + 1]) /\ (l + 1) - 1 = l /\ l + 1 \in 1 .. n + 1
          /\ i + 1 < l + 1
        BY <1>3, <1>8
    <2>2. LeftIn(p, i + 1, l + 1)
        BY <1>1, <2>1 DEF Chain
    <2>3. LeftIn(q, (i + 1) - 1, (l + 1) - 1)
        BY <1>4, <2>1, <2>2
    <2> QED
        BY <2>1, <2>3
<1>9. Head(p).t # "own" => ~Joins(Head(p)) /\ ~Leaves(Head(p))
    BY DEF Joins, Leaves
<1>10. here2 /\ ~joined => MoveComes(q)
    <2>1. CASE Joins(Head(p)) /\ ~joined
        <3>1. LeftIn(p, 1, n + 1)
            BY <1>1, <1>3, <2>1 DEF Chain
        <3> QED
            BY <1>3, <1>5, <3>1
    <2>2. CASE here2 /\ ~joined /\ ~Joins(Head(p))
        BY <1>6, <1>9, <2>2 DEF Chain
    <2> QED
        BY <2>1, <2>2
<1>11. ASSUME here2, NEW l \in 1 .. Len(q), Invites(q[l]) PROVE MoveComes(q)
    <2>1. l + 1 \in 1 .. n /\ Invites(p[l + 1]) /\ 1 \in 1 .. n /\ 1 < l + 1 /\ l + 1 \in 1 .. n + 1
        BY <1>3, <1>11
    <2>2. CASE Joins(Head(p))
        <3>1. LeftIn(p, 1, l + 1)
            BY <1>1, <1>3, <2>1, <2>2 DEF Chain
        <3> QED
            BY <1>5, <2>1, <3>1
    <2>3. CASE ~Joins(Head(p))
        <3>1. MoveComes(p)
            BY <1>1, <1>11, <2>1, <2>3 DEF Chain
        <3> QED
            BY <1>6, <1>9, <1>11, <2>3, <3>1
    <2> QED
        BY <2>2, <2>3
<1>12. Chain(q, joined, here2)
    BY <1>7, <1>8, <1>10, <1>11 DEF Chain
<1> QED
    BY <1>2, <1>12

(* What Sync does to our membership and to the SDK's history of it.        *)
LEMMA SyncMember ==
    ASSUME NEW F, Types(F), Sync, NEW e, e = Head(pending)
    PROVE  /\ e \in Events(F) /\ pending # <<>> /\ pending' = Tail(pending) /\ server' = server
           /\ e.t # "own" => room'.member = room.member
           /\ e.t = "own" => e.m \in DOMAIN Moves /\ room'.member = Moves[e.m].to
<1>1. pending \in Seq(Events(F)) /\ pending # <<>> /\ RoomTypes(F)
    BY DEF Sync, Types, HomeTypes
<1>2. e \in Events(F)
    BY <1>1
<1>3. pending' = Tail(pending) /\ server' = server /\ room' = Applied(e)
    BY DEF Sync
<1>4. e.t \in {"field", "own", "message", "ephemeral", "read"} /\ (e.t = "own" => e.m \in DOMAIN Moves)
    BY <1>2, EventForms
<1>5. e.t = "own" => room' = Moved(Moves[e.m].to)
    BY <1>3 DEF Applied
<1>6. e.t = "own" => room'.member = Moves[e.m].to
    BY <1>1, <1>5 DEF Moved, RoomTypes
<1>7. e.t # "own" => \/ \E x : room' = [room EXCEPT !.val[e.f] = x]
                     \/ \E x : room' = [room EXCEPT !.unread = x]
                     \/ room' = room
    BY <1>3, <1>4 DEF Applied
<1>8. e.t # "own" => room'.member = room.member
    BY <1>1, <1>7 DEF RoomTypes
<1> QED
    BY <1>1, <1>2, <1>3, <1>4, <1>6, <1>8

(* Every step keeps the order of our moves.                                *)
LEMMA ChainStep ==
    ASSUME NEW F, Types(F), ChainInv, MemberStep(F)
    PROVE  ChainInv'
<1>1. pending \in Seq(Events(F))
    BY DEF Types, HomeTypes
<1>2. PICK j \in BOOLEAN : j = JoinedIn(server)
    BY DEF JoinedIn
<1>3. PICK h \in BOOLEAN : h = JoinedIn(room)
    BY DEF JoinedIn
<1>4. PICK j2 \in BOOLEAN : j2 = JoinedIn(server')
    BY DEF JoinedIn
<1>5. PICK h2 \in BOOLEAN : h2 = JoinedIn(room')
    BY DEF JoinedIn
<1>6. Chain(pending, j, h)
    BY <1>2, <1>3 DEF ChainInv
<1>7. SUFFICES Chain(pending', j2, h2)
    BY <1>4, <1>5 DEF ChainInv, JoinedIn
<1>8. CASE MemberStill
    <2>1. j2 = j /\ h2 = h /\ pending' = pending
        BY <1>2, <1>3, <1>4, <1>5, <1>8 DEF MemberStill, JoinedIn
    <2> QED
        BY <1>6, <2>1
<1>9. ASSUME NEW e \in Events(F), MemberAside(e) PROVE Chain(pending', j2, h2)
    <2>1. j2 = j /\ h2 = h /\ pending' = Append(pending, e) /\ e.t # "own"
        BY <1>2, <1>3, <1>4, <1>5, <1>9 DEF MemberAside, JoinedIn
    <2> QED
        BY <1>1, <1>6, <2>1, ChainAppend
<1>10. ASSUME NEW m \in DOMAIN Moves, MemberMoves(m) PROVE Chain(pending', j2, h2)
    <2>1. PICK e : e = [t |-> "own", m |-> m]
        OBVIOUS
    <2>2. e \in Events(F) /\ e.t = "own" /\ e.m = m
        BY <2>1 DEF Events, OwnEvents
    <2>3. /\ server.member \in Moves[m].from /\ server'.member = Moves[m].to
          /\ room'.member \in {room.member, Moves[m].to} /\ pending' = Append(pending, e)
        BY <1>10, <2>1 DEF MemberMoves
    <2>4. Joins(e) => j2
        BY <1>4, <2>2, <2>3, OwnKinds DEF JoinedIn
    <2>5. Leaves(e) => ~j2
        BY <1>4, <2>2, <2>3, OwnKinds DEF JoinedIn
    <2>6. Invites(e) => ~j /\ ~j2 /\ (h2 => h)
        BY <1>2, <1>3, <1>4, <1>5, <2>2, <2>3, OwnKinds DEF JoinedIn
    <2>7. Joins(e) \/ Leaves(e) \/ Invites(e)
        BY <2>2, OwnKinds
    <2> QED
        BY <1>1, <1>6, <2>2, <2>3, <2>4, <2>5, <2>6, <2>7, ChainAppend
<1>11. CASE Sync
    <2>1. PICK e : e = Head(pending)
        OBVIOUS
    <2>2. /\ e \in Events(F) /\ pending # <<>> /\ pending' = Tail(pending) /\ server' = server
          /\ e.t # "own" => room'.member = room.member
          /\ e.t = "own" => e.m \in DOMAIN Moves /\ room'.member = Moves[e.m].to
        BY <1>11, <2>1, SyncMember
    <2>3. j2 = j
        BY <1>2, <1>4, <2>2
    <2>4. e.t # "own" => h2 = h
        BY <1>3, <1>5, <2>2 DEF JoinedIn
    <2>5. e.t = "own" => Joins(e) \/ ~h2
        BY <1>5, <2>2, OwnKinds DEF JoinedIn
    <2> QED
        BY <1>1, <1>6, <2>1, <2>2, <2>3, <2>4, <2>5, ChainTail
<1> QED
    BY <1>8, <1>9, <1>10, <1>11 DEF MemberStep

(* What is on its way agrees with the room as long as we do not move, and  *)
(* when we do it is about an earlier move.                                 *)
Onward(k, joined, k2, joined2) == (k2 = k /\ joined2 = joined) \/ k2 = k + 1

(* What agrees with the room still does after a step onward.               *)
LEMMA AgreesStays ==
    ASSUME NEW F, NEW k \in Nat, NEW k2 \in Nat, NEW joined \in BOOLEAN, NEW joined2 \in BOOLEAN,
           Onward(k, joined, k2, joined2)
    PROVE  /\ \A m \in Messages(F) : Agrees(m, k, joined) => Agrees(m, k2, joined2)
           /\ \A a \in Actions(F) : ActionAgrees(a, k, joined) => ActionAgrees(a, k2, joined2)
<1>1. CASE k2 = k /\ joined2 = joined
    BY <1>1
<1>2. CASE k2 = k + 1
    <2>1. ASSUME NEW m \in Messages(F), Agrees(m, k, joined) PROVE Agrees(m, k2, joined2)
        <3>1. Says(m) => MoveOf(m) \in Nat
            BY MessageForms DEF Says, MoveOf, Snapshots
        <3>2. PICK n : n = MoveOf(m)
            OBVIOUS
        <3>3. Says(m) => n \in Nat /\ n <= k
            BY <2>1, <3>1, <3>2 DEF Agrees
        <3>4. Says(m) => n <= k2 /\ n # k2
            BY <1>2, <3>3
        <3> QED
            BY <3>2, <3>4 DEF Agrees
    <2>2. ASSUME NEW a \in Actions(F), ActionAgrees(a, k, joined) PROVE ActionAgrees(a, k2, joined2)
        <3>1. a.t = "own" => a.k \in Nat
            BY ActionForms
        <3>2. a.t = "own" => a.k <= k2 /\ a.k # k2
            BY <1>2, <2>2, <3>1 DEF ActionAgrees
        <3> QED
            BY <3>2 DEF ActionAgrees
    <2> QED
        BY <2>1, <2>2
<1> QED
    BY <1>1, <1>2 DEF Onward

(* The same of everything that is on its way.                              *)
LEMMA AllStay ==
    ASSUME NEW F, Types(F), AgreeInv, NEW k2 \in Nat, NEW joined2 \in BOOLEAN,
           Onward(hist.moves, JoinedIn(room), k2, joined2)
    PROVE  /\ AllAgree(out, k2, joined2) /\ RequestsAgree(request, k2, joined2)
           /\ ActionsAgree(handlers, k2, joined2) /\ ActionsAgree(channel, k2, joined2)
<1>1. PICK k \in Nat : k = hist.moves
    BY DEF Types, HistTypes, Hist
<1>2. PICK j \in BOOLEAN : j = JoinedIn(room)
    BY DEF JoinedIn
<1>3. /\ AllAgree(out, k, j) /\ RequestsAgree(request, k, j)
      /\ ActionsAgree(handlers, k, j) /\ ActionsAgree(channel, k, j)
    BY <1>1, <1>2 DEF AgreeInv
<1>4. /\ \A m \in Messages(F) : Agrees(m, k, j) => Agrees(m, k2, joined2)
      /\ \A a \in Actions(F) : ActionAgrees(a, k, j) => ActionAgrees(a, k2, joined2)
    <2>1. Onward(k, j, k2, joined2)
        BY <1>1, <1>2, Zenon
    <2> QED
        BY <2>1, AgreesStays
<1>5. /\ \A i \in 1 .. Len(out) : out[i] \in Messages(F)
      /\ \A i \in 1 .. Len(handlers) : handlers[i] \in Actions(F)
      /\ \A i \in 1 .. Len(channel) : channel[i] \in Actions(F)
    BY DEF Types, OutTypes, HandlerTypes, ChannelTypes
<1>6. \A r \in Requests : request[r].kind = "reply" => request[r].msg \in Messages(F)
    BY RequestForms, MessageTypes DEF Types, RequestTypes
<1>7. AllAgree(out, k2, joined2)
    BY <1>3, <1>4, <1>5 DEF AllAgree
<1>8. RequestsAgree(request, k2, joined2)
    BY <1>3, <1>4, <1>6 DEF RequestsAgree, RequestAgrees
<1>9. ActionsAgree(handlers, k2, joined2) /\ ActionsAgree(channel, k2, joined2)
    BY <1>3, <1>4, <1>5 DEF ActionsAgree
<1> QED
    BY <1>7, <1>8, <1>9

(* Steps that do not move us: whatever was to tell of the last move does,  *)
(* or hands it on.                                                         *)
SameWord ==
    /\ hist'.moves = hist.moves /\ (JoinedIn(room') <=> JoinedIn(room))
    /\ hist.late => hist'.late
    /\ hist.untold \subseteq hist'.untold
    /\ app'.room = "listed" <=> app.room = "listed"
    /\ MoveComes(pending) => MoveComes(pending')

HandlersTalk(k, joined) ==
    /\ ActionsAgree(handlers', k, joined)
    /\ SomeBrings(handlers, k) =>
         SomeBrings(handlers', k) \/ SomeBrings(channel', k) \/ k \in hist'.untold

ChannelTalks(k, joined) ==
    /\ ActionsAgree(channel', k, joined)
    /\ SomeBrings(channel, k) =>
         SomeBrings(channel', k) \/ SomeTells(out', k) \/ k \in hist'.untold

OutTalks(k, joined) ==
    /\ AllAgree(out', k, joined)
    /\ SomeTells(out, k) => SomeTells(out', k)

RequestsTalk(k, joined) ==
    /\ RequestsAgree(request', k, joined)
    /\ SomeTellsLater(request, k) =>
         SomeTellsLater(request', k) \/ SomeTells(out', k) \/ k \in hist'.untold

Talks ==
    /\ SameWord
    /\ HandlersTalk(hist.moves, JoinedIn(room)) /\ ChannelTalks(hist.moves, JoinedIn(room))
    /\ OutTalks(hist.moves, JoinedIn(room)) /\ RequestsTalk(hist.moves, JoinedIn(room))

(* What is on its way after a step.                                        *)
LEMMA AgreeAfter ==
    ASSUME NEW k, NEW j \in BOOLEAN, k = hist'.moves, j = JoinedIn(room'),
           AllAgree(out', k, j), RequestsAgree(request', k, j),
           ActionsAgree(handlers', k, j), ActionsAgree(channel', k, j)
    PROVE  AgreeInv'
BY DEF AgreeInv, AllAgree, RequestsAgree, ActionsAgree, RequestAgrees, Agrees, ActionAgrees, Says,
   MoveOf, SaysJoined, Leaves, JoinedIn

(* What tells of the last move after a step.                               *)
LEMMA SaidAfter ==
    ASSUME NEW k, NEW j \in BOOLEAN, k = hist'.moves, j = JoinedIn(room'),
           \/ k \in hist'.untold \/ hist'.late
           \/ app'.room = "listed" <=> j
           \/ MoveComes(pending')
           \/ SomeBrings(handlers', k) \/ SomeBrings(channel', k)
           \/ SomeTells(out', k) \/ SomeTellsLater(request', k)
    PROVE  SaidInv'
BY DEF SaidInv, MoveComes, SomeBrings, SomeTells, SomeTellsLater, Brings, Tells, TellsLater, Says,
   MoveOf, Joins, Leaves, JoinedIn

(* A step that does not move us and hands on what tells of the last move   *)
(* keeps the invariant.                                                    *)
LEMMA TalkStep ==
    ASSUME AgreeInv, SaidInv, Talks
    PROVE  AgreeInv' /\ SaidInv'
<1>1. PICK k : k = hist.moves
    OBVIOUS
<1>2. PICK j \in BOOLEAN : j = JoinedIn(room)
    BY DEF JoinedIn
<1>3. /\ k = hist'.moves /\ j = JoinedIn(room')
      /\ HandlersTalk(k, j) /\ ChannelTalks(k, j) /\ OutTalks(k, j) /\ RequestsTalk(k, j)
    <2>1. hist'.moves = k
        BY <1>1 DEF Talks, SameWord
    <2>2. j = JoinedIn(room')
        BY <1>2 DEF Talks, SameWord, JoinedIn
    <2> QED
        BY <1>1, <1>2, <2>1, <2>2 DEF Talks
<1>4. AgreeInv'
    <2>1. /\ AllAgree(out', k, j) /\ RequestsAgree(request', k, j)
          /\ ActionsAgree(handlers', k, j) /\ ActionsAgree(channel', k, j)
        BY <1>3 DEF HandlersTalk, ChannelTalks, OutTalks, RequestsTalk
    <2> QED
        BY <1>3, <2>1, AgreeAfter
<1>5. SaidInv'
    <2>1. \/ k \in hist.untold \/ hist.late
          \/ app.room = "listed" <=> j
          \/ MoveComes(pending)
          \/ SomeBrings(handlers, k) \/ SomeBrings(channel, k)
          \/ SomeTells(out, k) \/ SomeTellsLater(request, k)
        BY <1>1, <1>2 DEF SaidInv
    <2>2. \/ k \in hist'.untold \/ hist'.late
          \/ app'.room = "listed" <=> j
          \/ MoveComes(pending')
          \/ SomeBrings(handlers', k) \/ SomeBrings(channel', k)
          \/ SomeTells(out', k) \/ SomeTellsLater(request', k)
        BY <1>3, <2>1 DEF Talks, SameWord, HandlersTalk, ChannelTalks, OutTalks, RequestsTalk
    <2> QED
        BY <1>3, <2>2, SaidAfter
<1> QED
    BY <1>4, <1>5

(* Events that are recorded take none away.                                *)
LEMMA MoveStays ==
    ASSUME NEW F, Types(F), UNCHANGED pending \/ \E e : Record(e)
    PROVE  MoveComes(pending) => MoveComes(pending')
<1>1. CASE UNCHANGED pending
    BY <1>1
<1>2. ASSUME NEW e, Record(e), MoveComes(pending) PROVE MoveComes(pending')
    <2>1. pending' = Append(pending, e) /\ pending \in Seq(Events(F)) /\ Len(pending) \in Nat
        BY <1>2 DEF Record, Types, HomeTypes
    <2>2. Len(pending') = Len(pending) + 1 /\ \A i \in 1 .. Len(pending) : pending'[i] = pending[i]
        BY <2>1
    <2>3. \A i \in 1 .. Len(pending) : i \in 1 .. Len(pending')
        BY <2>1, <2>2
    <2> QED
        BY <1>2, <2>2, <2>3 DEF MoveComes
<1> QED
    BY <1>1, <1>2

(* Messages that are sent in addition.                                     *)
LEMMA OutTalk ==
    ASSUME NEW F, Types(F), NEW k, NEW j, AllAgree(out, k, j),
           NEW msgs \in Seq(Messages(F)), out' = out \o msgs, AllAgree(msgs, k, j)
    PROVE  OutTalks(k, j) /\ (SomeTells(msgs, k) => SomeTells(out', k))
<1>1. PICK n \in Nat : n = Len(out)
    BY DEF Types, OutTypes
<1>2. PICK l \in Nat : l = Len(msgs)
    OBVIOUS
<1>3. out \in Seq(Messages(F))
    BY DEF Types, OutTypes
<1>4. /\ Len(out') = n + l
      /\ \A i \in 1 .. n : i \in 1 .. n + l /\ out'[i] = out[i]
      /\ \A i \in 1 .. l : n + i \in 1 .. n + l /\ out'[n + i] = msgs[i]
    BY <1>1, <1>2, <1>3
<1>5. ASSUME NEW i \in 1 .. n + l PROVE i \in 1 .. n \/ \E x \in 1 .. l : i = n + x
    <2>1. i \in 1 .. n \/ (i - n \in 1 .. l /\ i = n + (i - n))
        BY <1>1, <1>2
    <2> QED
        BY <2>1
<1>6. AllAgree(out', k, j)
    BY <1>1, <1>2, <1>4, <1>5 DEF AllAgree
<1>7. SomeTells(out, k) => SomeTells(out', k)
    BY <1>1, <1>4 DEF SomeTells
<1>8. SomeTells(msgs, k) => SomeTells(out', k)
    BY <1>2, <1>4 DEF SomeTells
<1> QED
    BY <1>6, <1>7, <1>8 DEF OutTalks

(* No message or one message is sent.                                      *)
LEMMA OutSends ==
    ASSUME NEW F, Types(F), NEW k, NEW j, AllAgree(out, k, j)
    PROVE  /\ UNCHANGED out \/ Sends(<<>>) => OutTalks(k, j)
           /\ \A m \in Messages(F) :
                /\ Agrees(m, k, j)
                /\ out' = Append(out, m) \/ Sends(<<m>>)
                => OutTalks(k, j) /\ (Tells(m, k) => SomeTells(out', k))
<1>1. out \in Seq(Messages(F))
    BY DEF Types, OutTypes
<1>2. out \o <<>> = out
    BY <1>1
<1>3. UNCHANGED out \/ Sends(<<>>) => OutTalks(k, j)
    <2>1. SUFFICES ASSUME UNCHANGED out \/ Sends(<<>>) PROVE OutTalks(k, j)
        OBVIOUS
    <2>2. out' = out
        BY <1>2, <2>1 DEF Sends
    <2> QED
        BY <2>2 DEF OutTalks, AllAgree, SomeTells
<1>4. ASSUME NEW m \in Messages(F), Agrees(m, k, j), out' = Append(out, m) \/ Sends(<<m>>)
      PROVE  OutTalks(k, j) /\ (Tells(m, k) => SomeTells(out', k))
    <2>1. PICK msgs : msgs = <<m>>
        OBVIOUS
    <2>2. msgs \in Seq(Messages(F)) /\ Len(msgs) = 1 /\ msgs[1] = m /\ out' = out \o msgs
        BY <1>1, <1>4, <2>1 DEF Sends
    <2>3. 1 .. Len(msgs) = {1}
        BY <2>2
    <2>4. AllAgree(msgs, k, j) /\ (Tells(m, k) => SomeTells(msgs, k))
        BY <1>4, <2>2, <2>3 DEF AllAgree, SomeTells
    <2> QED
        BY <2>2, <2>4, OutTalk
<1> QED
    BY <1>3, <1>4

(* Messages that do not tell whether we are joined.                        *)
LEMMA PlainAgree ==
    ASSUME NEW m, m.t \notin {"left", "room", "list"}, NEW k, NEW j
    PROVE  Agrees(m, k, j)
BY DEF Agrees, Says

(* Sending changes and markers tells nothing of our membership and keeps   *)
(* what is on its way.                                                     *)
LEMMA PlainTalk ==
    ASSUME NEW F, Types(F), NEW k, NEW j, AllAgree(out, k, j),
           NEW msgs \in Seq(Changes \cup MarkerMessages), Sends(msgs)
    PROVE  OutTalks(k, j)
<1>1. msgs \in Seq(Messages(F))
    BY DEF Messages
<1>2. ASSUME NEW i \in 1 .. Len(msgs) PROVE Agrees(msgs[i], k, j)
    <2>1. msgs[i] \in Changes \cup MarkerMessages
        OBVIOUS
    <2>2. msgs[i].t \in {"unread", "ephemeral", "markers"}
        BY <2>1 DEF Changes, MarkerMessages, UnreadMessages, EphemeralMessages
    <2> QED
        BY <2>2, PlainAgree
<1>3. AllAgree(msgs, k, j)
    BY <1>2 DEF AllAgree
<1> QED
    BY <1>1, <1>3, OutTalk DEF Sends

(* A queue of actions after one is taken and after one is queued.          *)
LEMMA ActionsTail ==
    ASSUME NEW F, NEW s \in Seq(Actions(F)), s # <<>>, NEW k, NEW j, ActionsAgree(s, k, j)
    PROVE  /\ ActionsAgree(Tail(s), k, j) /\ ActionAgrees(Head(s), k, j)
           /\ SomeBrings(s, k) => Brings(Head(s), k) \/ SomeBrings(Tail(s), k)
<1>1. PICK n \in Nat : n = Len(s)
    OBVIOUS
<1>2. PICK p : p = Tail(s)
    OBVIOUS
<1>3. /\ n > 0 /\ 1 \in 1 .. n /\ Len(p) = n - 1 /\ Head(s) = s[1]
      /\ \A i \in 1 .. n - 1 : i + 1 \in 1 .. n /\ p[i] = s[i + 1]
    BY <1>1, <1>2
<1>4. ActionsAgree(p, k, j) /\ ActionAgrees(Head(s), k, j)
    BY <1>1, <1>3 DEF ActionsAgree
<1>5. ASSUME NEW i \in 1 .. n, Brings(s[i], k), ~Brings(Head(s), k) PROVE SomeBrings(p, k)
    <2>1. i - 1 \in 1 .. n - 1 /\ (i - 1) + 1 = i
        BY <1>3, <1>5
    <2>2. p[i - 1] = s[i]
        BY <1>3, <2>1
    <2> QED
        BY <1>3, <1>5, <2>1, <2>2 DEF SomeBrings
<1>6. SomeBrings(s, k) => Brings(Head(s), k) \/ SomeBrings(p, k)
    BY <1>1, <1>5 DEF SomeBrings
<1> QED
    BY <1>2, <1>4, <1>6

(* An action is added.                                                     *)
LEMMA ActionsAppend ==
    ASSUME NEW F, NEW s \in Seq(Actions(F)), NEW x, NEW k, NEW j, ActionsAgree(s, k, j),
           ActionAgrees(x, k, j)
    PROVE  /\ ActionsAgree(Append(s, x), k, j)
           /\ SomeBrings(s, k) \/ Brings(x, k) => SomeBrings(Append(s, x), k)
<1>1. PICK n \in Nat : n = Len(s)
    OBVIOUS
<1>2. PICK p : p = Append(s, x)
    OBVIOUS
<1>3. /\ Len(p) = n + 1 /\ p[n + 1] = x /\ n + 1 \in 1 .. n + 1
      /\ \A i \in 1 .. n : i \in 1 .. n + 1 /\ p[i] = s[i]
      /\ \A i \in 1 .. n + 1 : i \in 1 .. n \/ i = n + 1
    BY <1>1, <1>2
<1>4. ActionsAgree(p, k, j)
    BY <1>1, <1>3 DEF ActionsAgree
<1>5. SomeBrings(s, k) \/ Brings(x, k) => SomeBrings(p, k)
    BY <1>1, <1>3 DEF SomeBrings
<1> QED
    BY <1>2, <1>4, <1>5

(* The channel, when no action of our membership is queued or taken.       *)
OwnAside ==
    \/ UNCHANGED channel
    \/ \E x : x.t # "own" /\ channel' = Append(channel, x)
    \/ channel # <<>> /\ Head(channel).t # "own" /\ channel' = Tail(channel)

(* Such a step of the channel drops nothing that brings the last move.     *)
LEMMA ChannelAsideTalks ==
    ASSUME NEW F, Types(F), NEW k, NEW j, ActionsAgree(channel, k, j), OwnAside
    PROVE  ChannelTalks(k, j)
<1>1. channel \in Seq(Actions(F))
    BY DEF Types, ChannelTypes
<1>2. CASE UNCHANGED channel
    BY <1>2 DEF ChannelTalks, ActionsAgree, SomeBrings
<1>3. ASSUME NEW x, x.t # "own", channel' = Append(channel, x) PROVE ChannelTalks(k, j)
    <2>1. ActionAgrees(x, k, j)
        BY <1>3 DEF ActionAgrees
    <2> QED
        BY <1>1, <1>3, <2>1, ActionsAppend DEF ChannelTalks
<1>4. ASSUME channel # <<>>, Head(channel).t # "own", channel' = Tail(channel)
      PROVE  ChannelTalks(k, j)
    <2>1. ~Brings(Head(channel), k)
        BY <1>4 DEF Brings, Joins, Leaves
    <2> QED
        BY <1>1, <1>4, <2>1, ActionsTail DEF ChannelTalks
<1> QED
    BY <1>2, <1>3, <1>4 DEF OwnAside

(* A request begins or goes on.                                            *)
LEMMA RequestGoesOn ==
    ASSUME NEW F, Types(F), NEW k, NEW j, RequestsAgree(request, k, j),
           NEW r \in Requests, NEW q, request' = [request EXCEPT ![r] = q], RequestAgrees(q, k, j),
           TellsLater(request[r], k) =>
             TellsLater(q, k) \/ SomeTells(out', k) \/ k \in hist'.untold
    PROVE  RequestsTalk(k, j)
<1>1. request'[r] = q /\ \A s \in Requests : s # r => request'[s] = request[s]
    BY DEF Types, RequestTypes
<1>2. RequestsAgree(request', k, j)
    BY <1>1 DEF RequestsAgree
<1>3. ASSUME NEW s \in Requests, TellsLater(request[s], k)
      PROVE  SomeTellsLater(request', k) \/ SomeTells(out', k) \/ k \in hist'.untold
    BY <1>1, <1>3 DEF SomeTellsLater
<1> QED
    BY <1>2, <1>3 DEF RequestsTalk, SomeTellsLater

(* What stays as it was.                                                   *)
LEMMA UnchangedTalks ==
    ASSUME NEW k, NEW j
    PROVE  /\ ActionsAgree(handlers, k, j) /\ UNCHANGED handlers => HandlersTalk(k, j)
           /\ RequestsAgree(request, k, j) /\ UNCHANGED request => RequestsTalk(k, j)
<1>1. ASSUME ActionsAgree(handlers, k, j), UNCHANGED handlers PROVE HandlersTalk(k, j)
    BY <1>1 DEF HandlersTalk, ActionsAgree, SomeBrings
<1>2. ASSUME RequestsAgree(request, k, j), UNCHANGED request PROVE RequestsTalk(k, j)
    BY <1>2 DEF RequestsTalk, RequestsAgree, SomeTellsLater
<1> QED
    BY <1>1, <1>2

(* Steps that leave our membership alone.                                  *)
LEMMA SameWordStays ==
    ASSUME NEW F, Types(F), room'.member = room.member, UNCHANGED app,
           UNCHANGED pending \/ \E e : Record(e),
           hist'.moves = hist.moves, hist'.late = hist.late, hist.untold \subseteq hist'.untold
    PROVE  SameWord
<1>1. MoveComes(pending) => MoveComes(pending')
    BY MoveStays
<1> QED
    BY <1>1 DEF SameWord, JoinedIn

(* The homeserver, the clock, markers that are cached without a word and   *)
(* the streams.                                                            *)
LEMMA OutsideTalks ==
    ASSUME NEW F, Types(F), AgreeInv,
           Homeserver \/ Expire \/ CacheSilently \/ \E s \in {"updates", "generic"} : Forward(s)
    PROVE  Talks
<1>1. /\ UNCHANGED <<room, handlers, app, out, request>>
      /\ UNCHANGED hist \/ \E x : hist' = [hist EXCEPT !.silent = x]
    BY DEF Homeserver, Expire, CacheSilently, Forward
<1>2. hist'.moves = hist.moves /\ hist'.late = hist.late /\ hist'.untold = hist.untold
    BY <1>1 DEF Types, HistTypes, Hist
<1>3. UNCHANGED pending \/ \E e : Record(e)
    BY DEF Homeserver, OtherChanges, Change, Expire, CacheSilently, Forward
<1>4. OwnAside
    <2>1. ASSUME NEW s \in {"updates", "generic"}, Forward(s) PROVE OwnAside
        <3>1. PICK x : x = Head(stream[s].q)
            OBVIOUS
        <3>2. stream[s].q \in Seq(StreamActions) /\ stream[s].q # <<>>
            BY <2>1 DEF Forward, Types, HandlerTypes, Stream
        <3>3. x \in StreamActions
            BY <3>1, <3>2
        <3>4. x.t # "own"
            BY <3>3 DEF StreamActions, UpdateActions, GenericActions
        <3> QED
            BY <2>1, <3>1, <3>4 DEF Forward, OwnAside
    <2> QED
        BY <2>1 DEF Homeserver, Expire, CacheSilently, OwnAside
<1>5. SameWord
    BY <1>1, <1>2, <1>3, SameWordStays
<1> QED
    BY <1>1, <1>4, <1>5, ChannelAsideTalks, OutSends, UnchangedTalks DEF Talks, AgreeInv

(* What the executor leaves alone when it takes no action of our           *)
(* membership.                                                             *)
LEMMA TakesTalks ==
    ASSUME NEW F, Types(F), AgreeInv, NEW t, t # "own", Takes(t),
           OutTalks(hist.moves, JoinedIn(room)),
           hist'.moves = hist.moves, hist'.late = hist.late, hist'.untold = hist.untold
    PROVE  Talks
<1>1. UNCHANGED <<room, handlers, app, request, pending>>
    BY DEF Takes
<1>2. OwnAside
    BY DEF Takes, OwnAside
<1>3. SameWord
    BY <1>1, SameWordStays
<1> QED
    BY <1>1, <1>2, <1>3, ChannelAsideTalks, UnchangedTalks DEF Talks, AgreeInv

(* The executor, except for our membership.                                *)
LEMMA ExecTalks ==
    ASSUME NEW F, Types(F), AgreeInv,
           ExecField \/ ExecAny \/ ExecMessage \/ ExecCount \/ ExecUpdate \/ ExecDiscovered
    PROVE  Talks
<1>1. hist \in Hist(F) /\ queued \in Seq(Changes) /\ AllAgree(out, hist.moves, JoinedIn(room))
    BY DEF Types, HistTypes, QueueTypes, AgreeInv
<1>2. CASE ExecField
    <2>1. PICK a : a = Head(channel)
        OBVIOUS
    <2>2. Takes("field") /\ a.f \in F /\ a.v \in Nat
        BY <1>2, <2>1, TakesTypes, ActionForms DEF ExecField
    <2>3. PICK m : m = [t |-> "fields", from |-> "executor", val |-> Only(a.f, Value(a))]
        OBVIOUS
    <2>4. Value(a) \in Nat
        BY <2>2 DEF Value, Types, RoomTypes
    <2>5. m \in Messages(F) /\ m.t = "fields"
        BY <2>2, <2>3, <2>4, PartialTypes, MessageTypes
    <2>6. PICK m0 : m0 = [t |-> "fields", from |-> "executor", val |-> Only(a.f, 0)]
        OBVIOUS
    <2>7. m0 \in Messages(F) /\ m0.t = "fields"
        BY <2>2, <2>6, PartialTypes, MessageTypes
    <2>8. /\ Sends(<<m>>) \/ Sends(<<m0>>) \/ Sends(<<>>)
          /\ UNCHANGED hist \/ hist' = [hist EXCEPT !.skipped = @ \cup {a.f}]
        BY <1>2, <2>1, <2>3, <2>6 DEF ExecField
    <2>9. Agrees(m, hist.moves, JoinedIn(room)) /\ Agrees(m0, hist.moves, JoinedIn(room))
        BY <2>5, <2>7, PlainAgree
    <2>10. OutTalks(hist.moves, JoinedIn(room))
        BY <1>1, <2>5, <2>7, <2>8, <2>9, OutSends
    <2>11. hist'.moves = hist.moves /\ hist'.late = hist.late /\ hist'.untold = hist.untold
        BY <1>1, <2>8 DEF Hist
    <2> QED
        BY <2>2, <2>10, <2>11, TakesTalks
<1>3. CASE ExecAny
    <2>1. PICK a : a = Head(channel)
        OBVIOUS
    <2>2. Takes("any") /\ a.u \in Users /\ a.ts \in Times
        BY <1>3, <2>1, TakesTypes, ActionForms DEF ExecAny
    <2>3. PICK m : m = [t |-> "markers", markers |-> [NoMarkers EXCEPT ![a.u] = a.ts]]
        OBVIOUS
    <2>4. m \in MarkerMessages
        BY <2>2, <2>3, MarkerTypes DEF MarkerMessages
    <2>5. <<m>> \in Seq(Changes \cup MarkerMessages) /\ <<>> \in Seq(Changes \cup MarkerMessages)
        BY <2>4
    <2>6. Sends(<<m>>) \/ Sends(<<>>)
        BY <1>3, <2>1, <2>3 DEF ExecAny
    <2>7. OutTalks(hist.moves, JoinedIn(room))
        BY <1>1, <2>5, <2>6, PlainTalk
    <2>8. hist' = [hist EXCEPT !.silent = @ \ {a.u}] \/ hist' = [hist EXCEPT !.silent = @]
        BY <1>3, <2>1 DEF ExecAny
    <2>9. hist'.moves = hist.moves /\ hist'.late = hist.late /\ hist'.untold = hist.untold
        BY <1>1, <2>8 DEF Hist
    <2> QED
        BY <2>2, <2>7, <2>9, TakesTalks
<1>4. CASE ExecMessage
    <2>1. Takes("message") /\ UNCHANGED <<out, hist>>
        BY <1>4 DEF ExecMessage
    <2>2. OutTalks(hist.moves, JoinedIn(room))
        BY <1>1, <2>1, OutSends
    <2> QED
        BY <2>1, <2>2, TakesTalks
<1>5. CASE ExecCount
    <2>1. PICK u : u = update_room_unread_count(queued)
        OBVIOUS
    <2>2. /\ Takes("fully_read") \/ Takes("generic")
          /\ Sends(u.send) /\ \E z, v : hist' = [hist EXCEPT !.zeroed = z, !.overlap = v]
        BY <1>5, <2>1 DEF ExecCount
    <2>3. u.send \in Seq(Changes \cup MarkerMessages)
        BY <2>1, CountTypes
    <2>4. OutTalks(hist.moves, JoinedIn(room))
        BY <1>1, <2>2, <2>3, PlainTalk
    <2>5. hist'.moves = hist.moves /\ hist'.late = hist.late /\ hist'.untold = hist.untold
        BY <1>1, <2>2 DEF Hist
    <2> QED
        BY <2>2, <2>4, <2>5, TakesTalks
<1>6. CASE ExecUpdate
    <2>1. PICK a : a = Head(channel)
        OBVIOUS
    <2>2. PICK u : u = update_room_unread_count(queued)
        OBVIOUS
    <2>3. PICK c : c = UpdateChange(a)
        OBVIOUS
    <2>4. /\ Takes("update")
          /\ Sends(Append(u.send, c)) \/ Sends(u.send)
          /\ \E d, v, z, s :
               hist' = [hist EXCEPT !.drops = d, !.overlap = v, !.zeroed = z, !.silent = s]
        BY <1>6, <2>1, <2>2, <2>3 DEF ExecUpdate, UpdateChange, UpdateNewer
    <2>5. a.typing \in {TRUE, None} /\ a.u \in Users \cup {None} /\ a.ts \in Times
        BY <2>1, <2>4, TakesTypes, ActionForms
    <2>6. c \in Changes
        <3>1. UpdateNewer(a) => [NoMarkers EXCEPT ![a.u] = a.ts] \in Markers
            BY <2>5, MarkerTypes DEF UpdateNewer
        <3>2. (IF UpdateNewer(a) THEN [NoMarkers EXCEPT ![a.u] = a.ts] ELSE NoMarkers) \in Markers
            BY <3>1, MarkerTypes
        <3> QED
            BY <2>3, <2>5, <3>2, MessageTypes DEF UpdateChange
    <2>7. u.send \in Seq(Changes)
        BY <2>2, CountTypes
    <2>8. Append(u.send, c) \in Seq(Changes \cup MarkerMessages)
          /\ u.send \in Seq(Changes \cup MarkerMessages)
        BY <2>6, <2>7
    <2>9. OutTalks(hist.moves, JoinedIn(room))
        BY <1>1, <2>4, <2>8, PlainTalk
    <2>10. hist'.moves = hist.moves /\ hist'.late = hist.late /\ hist'.untold = hist.untold
        BY <1>1, <2>4 DEF Hist
    <2> QED
        BY <2>4, <2>9, <2>10, TakesTalks
<1>7. CASE ExecDiscovered
    <2>1. Takes("discovered") /\ Sends(queued) /\ hist' = [hist EXCEPT !.drops = @ + 1]
        BY <1>7 DEF ExecDiscovered
    <2>2. PICK q : q = queued
        OBVIOUS
    <2>3. q \in Seq(Changes \cup MarkerMessages)
        BY <1>1, <2>2
    <2>4. OutTalks(hist.moves, JoinedIn(room))
        BY <1>1, <2>1, <2>2, <2>3, PlainTalk
    <2>5. hist'.moves = hist.moves /\ hist'.late = hist.late /\ hist'.untold = hist.untold
        BY <1>1, <2>1 DEF Hist
    <2> QED
        BY <2>1, <2>4, <2>5, TakesTalks
<1> QED
    BY <1>2, <1>3, <1>4, <1>5, <1>6, <1>7

(* A snapshot agrees with the room it is taken of, and tells of it.        *)
LEMMA SnapshotAgrees ==
    ASSUME NEW F \in FieldSets, Types(F), NEW s, s = Snapshot, NEW t \in {"room", "list"}
    PROVE  /\ [t |-> t, snap |-> s] \in Replies(F) /\ [t |-> t, snap |-> s] \in Messages(F)
           /\ Agrees([t |-> t, snap |-> s], hist.moves, JoinedIn(room))
           /\ Tells([t |-> t, snap |-> s], hist.moves)
<1>1. s \in Snapshots(F) /\ s # None
    BY SnapshotTypes, RoomEventsAssumption DEF Snapshots
<1>2. s.moves = hist.moves /\ (s.joined <=> JoinedIn(room)) /\ hist.moves \in Nat
    BY DEF Snapshot, JoinedIn, Types, HistTypes, Hist
<1>3. PICK m : m = [t |-> t, snap |-> s]
    OBVIOUS
<1>4. m.t = t /\ m.snap = s /\ m.t # "left"
    BY <1>3
<1>5. MoveOf(m) = hist.moves /\ (SaysJoined(m) <=> JoinedIn(room))
    BY <1>2, <1>4 DEF MoveOf, SaysJoined
<1>6. Agrees(m, hist.moves, JoinedIn(room))
    BY <1>2, <1>5 DEF Agrees
<1>7. Tells(m, hist.moves)
    BY <1>1, <1>4, <1>5 DEF Tells, Says
<1> QED
    BY <1>1, <1>3, <1>6, <1>7, MessageTypes

(* The executor takes an action of our membership: the RoomLeftEvent and   *)
(* the new room tell of it, otherwise it remains untold.                   *)
LEMMA ExecOwnTalks ==
    ASSUME NEW F \in FieldSets, Types(F), AgreeInv, ExecOwn
    PROVE  Talks
<1>1. PICK k \in Nat : k = hist.moves
    BY DEF Types, HistTypes, Hist
<1>2. PICK j \in BOOLEAN : j = JoinedIn(room)
    BY DEF JoinedIn
<1>3. PICK a : a = Head(channel)
    OBVIOUS
<1>4. /\ Takes("own") /\ channel \in Seq(Actions(F)) /\ channel # <<>> /\ channel' = Tail(channel)
      /\ a.t = "own" /\ a.m \in DOMAIN Moves /\ a.k \in Nat
    BY <1>3, TakesTypes, ActionForms DEF ExecOwn, Takes, Types, ChannelTypes
<1>5. AllAgree(out, k, j) /\ ActionsAgree(channel, k, j)
    BY <1>1, <1>2 DEF AgreeInv
<1>6. /\ ActionAgrees(a, k, j) /\ ActionsAgree(channel', k, j)
      /\ SomeBrings(channel, k) => Brings(a, k) \/ SomeBrings(channel', k)
    BY <1>3, <1>4, <1>5, ActionsTail
<1>7. UNCHANGED hist \/ hist' = [hist EXCEPT !.untold = @ \cup {a.k}]
    BY <1>3 DEF ExecOwn
<1>8. hist'.moves = hist.moves /\ hist'.late = hist.late /\ hist.untold \subseteq hist'.untold
    BY <1>7 DEF Types, HistTypes, Hist
<1>9. hist' = [hist EXCEPT !.untold = @ \cup {a.k}] => a.k \in hist'.untold
    BY DEF Types, HistTypes, Hist
<1>10. OutTalks(k, j) /\ (Brings(a, k) => SomeTells(out', k) \/ k \in hist'.untold)
    <2>1. CASE a.m = "Invited" /\ Sends(<<[t |-> "invited"]>>)
        <3>1. PICK m : m = [t |-> "invited"]
            OBVIOUS
        <3>2. m \in Messages(F) /\ Agrees(m, k, j)
            BY <3>1, MessageTypes, PlainAgree
        <3>3. ~Brings(a, k)
            BY <2>1 DEF Brings, Joins, Leaves
        <3> QED
            BY <1>5, <2>1, <3>1, <3>2, <3>3, OutSends
    <2>2. CASE a.m = "Left" /\ Sends(<<[t |-> "left", moves |-> a.k]>>)
        <3>1. PICK m : m = [t |-> "left", moves |-> a.k]
            OBVIOUS
        <3>2. m \in Messages(F) /\ m.t = "left" /\ m.moves = a.k
            BY <1>4, <3>1, MessageTypes
        <3>3. Agrees(m, k, j)
            BY <1>4, <1>6, <2>2, <3>2 DEF Agrees, ActionAgrees, Leaves, Says, MoveOf, SaysJoined
        <3>4. Brings(a, k) => Tells(m, k)
            BY <3>2 DEF Brings, Tells, Says, MoveOf
        <3> QED
            BY <1>5, <2>2, <3>1, <3>2, <3>3, <3>4, OutSends
    <2>3. CASE a.m = "Joined" /\ Sends(<<[t |-> "room", snap |-> Snapshot]>>)
        <3>1. PICK s : s = Snapshot
            OBVIOUS
        <3>2. PICK m : m = [t |-> "room", snap |-> s]
            OBVIOUS
        <3>3. m \in Messages(F) /\ Agrees(m, k, j) /\ Tells(m, k)
            BY <1>1, <1>2, <3>1, <3>2, SnapshotAgrees
        <3> QED
            BY <1>5, <2>3, <3>1, <3>2, <3>3, OutSends
    <2>4. CASE Sends(<<>>) /\ hist' = [hist EXCEPT !.untold = @ \cup {a.k}]
        BY <1>5, <1>9, <2>4, OutSends DEF Brings
    <2>5. CASE a.m = "InvitationRejected" /\ Sends(<<>>)
        BY <1>5, <2>5, OutSends DEF Brings, Joins, Leaves
    <2>6. CASE /\ \/ a.m = "InvitationRejected"
                  \/ hist' = [hist EXCEPT !.untold = @ \cup {a.k}]
               /\ Sends(<<[t |-> "fields", from |-> "executor",
                            val |-> Restrict(room.val, Fields \cap {"members"})]>>)
        <3>1. PICK p : p = Restrict(room.val, Fields \cap {"members"})
            OBVIOUS
        <3>2. p \in Partial(F)
            <4>1. Fields = F /\ room.val \in [F -> Nat]
                BY FieldsAre DEF Types, RoomTypes
            <4> QED
                BY <3>1, <4>1, PartialTypes
        <3>3. PICK m : m = [t |-> "fields", from |-> "executor", val |-> p]
            OBVIOUS
        <3>4. m \in Messages(F) /\ Agrees(m, k, j)
            BY <3>2, <3>3, MessageTypes, PlainAgree
        <3>5. Brings(a, k) => k \in hist'.untold
            BY <1>9, <2>6 DEF Brings, Joins, Leaves
        <3> QED
            BY <1>5, <2>6, <3>1, <3>3, <3>4, <3>5, OutSends
    <2> QED
        BY <1>3, <2>1, <2>2, <2>3, <2>4, <2>5, <2>6 DEF ExecOwn
<1>11. ChannelTalks(k, j)
    BY <1>6, <1>10 DEF ChannelTalks
<1>12. UNCHANGED <<room, handlers, app, request, pending>>
    BY <1>4 DEF Takes
<1>13. SameWord
    BY <1>8, <1>12, SameWordStays
<1> QED
    BY <1>1, <1>2, <1>10, <1>11, <1>12, <1>13, UnchangedTalks DEF Talks, AgreeInv

(* A handler queues an action of our membership or leaves it untold.       *)
LEMMA HandleTalks ==
    ASSUME NEW F, Types(F), AgreeInv, Handle
    PROVE  Talks
<1>1. PICK k \in Nat : k = hist.moves
    BY DEF Types, HistTypes, Hist
<1>2. PICK j \in BOOLEAN : j = JoinedIn(room)
    BY DEF JoinedIn
<1>3. PICK a : a = Head(handlers)
    OBVIOUS
<1>4. /\ handlers \in Seq(Actions(F)) /\ handlers # <<>> /\ handlers' = Tail(handlers)
      /\ channel \in Seq(Actions(F)) /\ hist \in Hist(F)
      /\ UNCHANGED <<pending, room, request, out, app>>
    BY DEF Handle, Types, HandlerTypes, ChannelTypes, HistTypes
<1>5. /\ AllAgree(out, k, j) /\ ActionsAgree(channel, k, j) /\ ActionsAgree(handlers, k, j)
      /\ RequestsAgree(request, k, j)
    BY <1>1, <1>2 DEF AgreeInv
<1>6. /\ ActionAgrees(a, k, j) /\ ActionsAgree(handlers', k, j)
      /\ SomeBrings(handlers, k) => Brings(a, k) \/ SomeBrings(handlers', k)
    BY <1>3, <1>4, <1>5, ActionsTail
<1>7. OutTalks(k, j) /\ RequestsTalk(k, j)
    BY <1>4, <1>5, OutSends, UnchangedTalks
<1>8. CASE /\ channel' = Append(channel, a)
           /\ hist' = [hist EXCEPT !.skipped = IF a.t = "field" THEN @ \ {a.f} ELSE @]
    <2>1. hist'.moves = hist.moves /\ hist'.late = hist.late /\ hist'.untold = hist.untold
        BY <1>4, <1>8 DEF Hist
    <2>2. /\ ActionsAgree(channel', k, j)
          /\ SomeBrings(channel, k) \/ Brings(a, k) => SomeBrings(channel', k)
        BY <1>4, <1>5, <1>6, <1>8, ActionsAppend
    <2>3. ChannelTalks(k, j) /\ HandlersTalk(k, j)
        BY <1>6, <2>2 DEF ChannelTalks, HandlersTalk
    <2>4. SameWord
        BY <1>4, <2>1, SameWordStays
    <2> QED
        BY <1>1, <1>2, <1>7, <2>3, <2>4 DEF Talks
<1>9. CASE /\ hist' = [hist EXCEPT !.skipped = IF a.t = "field" THEN @ \cup {a.f} ELSE @,
                                   !.untold = IF a.t = "own" /\ a.m # "InvitationRejected"
                                                THEN @ \cup {a.k} ELSE @]
           /\ UNCHANGED channel
    <2>1. /\ hist'.moves = hist.moves /\ hist'.late = hist.late
          /\ hist'.untold = IF a.t = "own" /\ a.m # "InvitationRejected"
                              THEN hist.untold \cup {a.k} ELSE hist.untold
        BY <1>4, <1>9 DEF Hist
    <2>2. Brings(a, k) => k \in hist'.untold
        BY <2>1 DEF Brings, Joins, Leaves
    <2>3. ChannelTalks(k, j) /\ HandlersTalk(k, j)
        <3>1. OwnAside
            BY <1>9 DEF OwnAside
        <3> QED
            BY <1>5, <1>6, <2>2, <3>1, ChannelAsideTalks DEF HandlersTalk
    <2>4. hist.untold \subseteq hist'.untold
        BY <2>1
    <2>5. SameWord
        BY <1>4, <2>1, <2>4, SameWordStays
    <2> QED
        BY <1>1, <1>2, <1>7, <2>3, <2>5 DEF Talks
<1> QED
    BY <1>3, <1>8, <1>9 DEF Handle

(* A request that does not move us begins or goes on.                      *)
LEMMA RequestTalks ==
    ASSUME NEW F, Types(F), AgreeInv, NEW r \in Requests, NEW q, Begin(r, q) \/ GoesOn(r, q),
           room'.member = room.member, UNCHANGED pending \/ \E e : Record(e),
           hist'.moves = hist.moves, hist'.late = hist.late, hist.untold \subseteq hist'.untold,
           OutTalks(hist.moves, JoinedIn(room)),
           RequestAgrees(q, hist.moves, JoinedIn(room)),
           TellsLater(request[r], hist.moves) =>
             \/ TellsLater(q, hist.moves) \/ SomeTells(out', hist.moves)
             \/ hist.moves \in hist'.untold
    PROVE  Talks
<1>1. UNCHANGED <<handlers, channel, app>> /\ request' = [request EXCEPT ![r] = q]
    BY DEF Begin, GoesOn
<1>2. SameWord
    BY <1>1, SameWordStays
<1>3. RequestsTalk(hist.moves, JoinedIn(room))
    BY <1>1, RequestGoesOn DEF AgreeInv
<1>4. OwnAside
    BY <1>1 DEF OwnAside
<1> QED
    BY <1>1, <1>2, <1>3, <1>4, ChannelAsideTalks, UnchangedTalks DEF Talks, AgreeInv

(* A request that begins, unless it joins or leaves the room.              *)
LEMMA AsksTalk ==
    ASSUME NEW F \in FieldSets, Types(F), AgreeInv, NEW r \in Requests,
           GetRooms(r) \/ ChangeRoom(r) \/ PinOrInvite(r) \/ MarkAsRead(r) \/ FetchPage(r)
    PROVE  Talks
<1>1. /\ UNCHANGED <<room, out, hist>> /\ request[r] = Idle
      /\ UNCHANGED pending \/ \E e : Record(e)
    BY DEF GetRooms, ChangeRoom, PinOrInvite, MarkAsRead, FetchPage, Begin, Change
<1>2. ~TellsLater(request[r], hist.moves)
    BY <1>1 DEF TellsLater, Idle
<1>3. OutTalks(hist.moves, JoinedIn(room))
    BY <1>1, OutSends DEF AgreeInv
<1>4. PICK q : Begin(r, q) /\ RequestAgrees(q, hist.moves, JoinedIn(room))
    <2>1. CASE GetRooms(r)
        <3>1. PICK s : s = Snapshot
            OBVIOUS
        <3>2. \/ Begin(r, Answer([t |-> "list", snap |-> s]))
              \/ Begin(r, Answer([t |-> "list", snap |-> None]))
            BY <2>1, <3>1 DEF GetRooms
        <3>3. Agrees([t |-> "list", snap |-> s], hist.moves, JoinedIn(room))
            BY <3>1, SnapshotAgrees
        <3>4. Agrees([t |-> "list", snap |-> None], hist.moves, JoinedIn(room))
            BY DEF Agrees, Says
        <3>5. /\ RequestAgrees(Answer([t |-> "list", snap |-> s]), hist.moves, JoinedIn(room))
              /\ RequestAgrees(Answer([t |-> "list", snap |-> None]), hist.moves, JoinedIn(room))
            BY <3>3, <3>4 DEF RequestAgrees, Answer
        <3> QED
            BY <3>2, <3>5
    <2>2. CASE ~GetRooms(r)
        <3>1. PICK p : Begin(r, p) /\ p.kind # "reply"
            <4>1. CASE ChangeRoom(r)
                <5>1. PICK fs : Begin(r, [kind |-> "change", todo |-> fs, val |-> <<>>])
                    BY <4>1 DEF ChangeRoom
                <5>2. [kind |-> "change", todo |-> fs, val |-> <<>>].kind # "reply"
                    OBVIOUS
                <5> QED
                    BY <5>1, <5>2
            <4>2. CASE PinOrInvite(r)
                <5>1. PICK f : Begin(r, [kind |-> "load", f |-> f])
                    BY <4>2 DEF PinOrInvite
                <5>2. [kind |-> "load", f |-> f].kind # "reply"
                    OBVIOUS
                <5> QED
                    BY <5>1, <5>2
            <4>3. CASE MarkAsRead(r)
                BY <4>3 DEF MarkAsRead
            <4>4. CASE FetchPage(r)
                BY <4>4 DEF FetchPage
            <4> QED
                BY <2>2, <4>1, <4>2, <4>3, <4>4
        <3> QED
            BY <3>1 DEF RequestAgrees
    <2> QED
        BY <2>1, <2>2
<1> QED
    BY <1>1, <1>2, <1>3, <1>4, RequestTalks

(* The later steps of a request.                                           *)
LEMMA ProcessesTalk ==
    ASSUME NEW F \in FieldSets, Types(F), AgreeInv, NEW r \in Requests, Processes(r)
    PROVE  Talks
<1>1. /\ hist \in Hist(F) /\ AllAgree(out, hist.moves, JoinedIn(room))
      /\ request[r] \in RequestStates(F) /\ RequestsAgree(request, hist.moves, JoinedIn(room))
    BY DEF Types, HistTypes, RequestTypes, AgreeInv
<1>2. UNCHANGED pending \/ \E e : Record(e)
    BY DEF Processes, UploadAvatar, Assemble, ChangeField, VisibilityFails, NothingToRemove, Change,
       ChangeDone, LoadReply, MarkCached, load_and_cache_event_read_markers, update_read_markers,
       PageFails, Reply
<1>3. ASSUME NEW m \in Messages(F), m.t \notin {"left", "room", "list"}, out' = Append(out, m)
      PROVE  OutTalks(hist.moves, JoinedIn(room))
    <2>1. Agrees(m, hist.moves, JoinedIn(room))
        BY <1>3, PlainAgree
    <2> QED
        BY <1>1, <1>3, <2>1, OutSends
<1>4. UNCHANGED out => OutTalks(hist.moves, JoinedIn(room))
    BY <1>1, OutSends
<1>5. ASSUME NEW q, GoesOn(r, q), q.kind # "reply", request[r].kind \notin {"join", "joined", "reply"},
             UNCHANGED room, OutTalks(hist.moves, JoinedIn(room)),
             hist'.moves = hist.moves, hist'.late = hist.late, hist'.untold = hist.untold
      PROVE  Talks
    <2>1. ~TellsLater(request[r], hist.moves) /\ RequestAgrees(q, hist.moves, JoinedIn(room))
        BY <1>5 DEF TellsLater, RequestAgrees
    <2> QED
        BY <1>2, <1>5, <2>1, RequestTalks
<1>6. Idle.kind # "reply"
    BY DEF Idle
<1>7. CASE UploadAvatar(r)
    <2>1. PICK q : q = [kind |-> "joined"]
        OBVIOUS
    <2>2. GoesOn(r, q) /\ UNCHANGED <<room, out, hist>>
        BY <1>7, <2>1 DEF UploadAvatar
    <2>3. TellsLater(q, hist.moves) /\ RequestAgrees(q, hist.moves, JoinedIn(room))
        BY <2>1 DEF TellsLater, RequestAgrees
    <2> QED
        BY <1>2, <1>4, <2>2, <2>3, RequestTalks
<1>8. CASE Assemble(r)
    <2>1. UNCHANGED <<room, out>> /\ OutTalks(hist.moves, JoinedIn(room))
        BY <1>4, <1>8 DEF Assemble
    <2>2. PICK s : s = Snapshot
        OBVIOUS
    <2>3. PICK m : m = [t |-> "room", snap |-> s]
        OBVIOUS
    <2>4. Agrees(m, hist.moves, JoinedIn(room)) /\ Tells(m, hist.moves)
        BY <2>2, <2>3, SnapshotAgrees
    <2>5. TellsLater(Answer(m), hist.moves) /\ RequestAgrees(Answer(m), hist.moves, JoinedIn(room))
        BY <2>4 DEF TellsLater, RequestAgrees, Answer
    <2>6. CASE GoesOn(r, Answer(m)) /\ UNCHANGED hist
        BY <1>2, <2>1, <2>5, <2>6, RequestTalks
    <2>7. CASE GoesOn(r, Idle) /\ hist' = [hist EXCEPT !.untold = @ \cup {hist.moves}]
        <3>1. /\ hist'.moves = hist.moves /\ hist'.late = hist.late
              /\ hist.untold \subseteq hist'.untold /\ hist.moves \in hist'.untold
            BY <1>1, <2>7 DEF Hist
        <3>2. RequestAgrees(Idle, hist.moves, JoinedIn(room))
            BY <1>6 DEF RequestAgrees
        <3> QED
            BY <1>2, <2>1, <2>7, <3>1, <3>2, RequestTalks
    <2> QED
        BY <1>8, <2>2, <2>3, <2>6, <2>7 DEF Assemble
<1>9. CASE ChangeField(r)
    <2>1. PICK f \in F :
             /\ request[r].kind = "change"
             /\ UNCHANGED <<room, cache, out, hist>>
             /\ \/ GoesOn(r, ChangedField(request[r], f))
                \/ GoesOn(r, PassedField(request[r], f))
                \/ GoesOn(r, Idle)
        BY <1>9, ChangeFieldSteps
    <2>2. request[r] \in ChangeRequests(F)
        BY <1>1, <2>1, RequestForms
    <2>3. ChangedField(request[r], f).kind # "reply" /\ PassedField(request[r], f).kind # "reply"
        BY <2>2 DEF ChangedField, PassedField, ChangeRequests
    <2> QED
        BY <1>4, <1>5, <1>6, <2>1, <2>3
<1>10. CASE ChangeDone(r)
    <2>1. PICK p : p = request[r].val
        OBVIOUS
    <2>2. /\ request[r].kind = "change" /\ GoesOn(r, Idle) /\ UNCHANGED <<room, hist>>
          /\ out' = Append(out, [t |-> "fields", from |-> "request", val |-> p])
        BY <1>10, <2>1 DEF ChangeDone
    <2>3. p \in Partial(F)
        BY <1>1, <2>1, <2>2, RequestForms
    <2>4. PICK m : m = [t |-> "fields", from |-> "request", val |-> p]
        OBVIOUS
    <2>5. m \in Messages(F) /\ m.t = "fields"
        BY <2>3, <2>4, MessageTypes
    <2> QED
        BY <1>3, <1>5, <1>6, <2>2, <2>4, <2>5
<1>11. CASE LoadReply(r)
    <2>1. PICK f : f = request[r].f
        OBVIOUS
    <2>2. request[r].kind = "load" /\ GoesOn(r, Idle) /\ UNCHANGED <<room, server, hist>>
        BY <1>11 DEF LoadReply
    <2>3. f \in F /\ room.val[f] \in Nat /\ server.val[f] \in Nat
        BY <1>1, <2>1, <2>2, RequestForms DEF Types, RoomTypes, HomeTypes
    <2>4. \/ \E v \in Nat : out' = Append(out, [t |-> "fields", from |-> "request", val |-> Only(f, v)])
          \/ UNCHANGED out
        BY <1>11, <2>1, <2>3 DEF LoadReply
    <2>5. ASSUME NEW v \in Nat, out' = Append(out, [t |-> "fields", from |-> "request", val |-> Only(f, v)])
          PROVE  OutTalks(hist.moves, JoinedIn(room))
        <3>1. PICK m : m = [t |-> "fields", from |-> "request", val |-> Only(f, v)]
            OBVIOUS
        <3>2. m \in Messages(F) /\ m.t = "fields"
            BY <2>3, <3>1, PartialTypes, MessageTypes
        <3> QED
            BY <1>3, <2>5, <3>1, <3>2
    <2> QED
        BY <1>4, <1>5, <1>6, <2>2, <2>4, <2>5
<1>12. CASE MarkCached(r)
    <2>1. /\ out' = Append(out, [t |-> "unread", n |-> 0]) /\ GoesOn(r, Idle)
          /\ UNCHANGED room /\ hist' = [hist EXCEPT !.zeroed = TRUE] /\ request[r].kind = "mark"
        BY <1>12 DEF MarkCached
    <2>2. PICK m : m = [t |-> "unread", n |-> 0]
        OBVIOUS
    <2>3. m \in Messages(F) /\ m.t = "unread"
        BY <2>2, MessageTypes
    <2>4. hist'.moves = hist.moves /\ hist'.late = hist.late /\ hist'.untold = hist.untold
        BY <1>1, <2>1 DEF Hist
    <2> QED
        BY <1>3, <1>5, <1>6, <2>1, <2>2, <2>3, <2>4
<1>13. CASE load_and_cache_event_read_markers(r)
    <2>1. PICK q : q = [request[r] EXCEPT !.kind = "loaded"]
        OBVIOUS
    <2>2. request[r].kind = "page" /\ GoesOn(r, q) /\ UNCHANGED <<room, out, hist>>
        BY <1>13, <2>1 DEF load_and_cache_event_read_markers
    <2>3. q.kind = "loaded"
        BY <1>1, <2>1, <2>2, RequestForms DEF PageRequests
    <2> QED
        BY <1>4, <1>5, <2>2, <2>3
<1>14. CASE update_read_markers(r)
    <2>1. GoesOn(r, Idle) /\ UNCHANGED room /\ request[r].kind = "loaded"
        BY <1>14 DEF update_read_markers
    <2>2. \/ UNCHANGED <<out, hist>>
          \/ /\ out' = Append(out, [t |-> "markers", markers |-> cache.markers])
             /\ hist' = [hist EXCEPT !.silent = {}]
        BY <1>14 DEF update_read_markers
    <2>3. hist'.moves = hist.moves /\ hist'.late = hist.late /\ hist'.untold = hist.untold
        BY <1>1, <2>2 DEF Hist
    <2>4. PICK m : m = [t |-> "markers", markers |-> cache.markers]
        OBVIOUS
    <2>5. m \in Messages(F) /\ m.t = "markers"
        BY <2>4, MessageTypes DEF Types, CacheTypes
    <2> QED
        BY <1>3, <1>4, <1>5, <1>6, <2>1, <2>2, <2>3, <2>4, <2>5
<1>15. CASE PageFails(r)
    <2>1. /\ GoesOn(r, Idle) /\ UNCHANGED <<room, out>> /\ request[r].kind \in {"page", "loaded"}
          /\ \E x : hist' = [hist EXCEPT !.silent = x]
        BY <1>15 DEF PageFails
    <2>2. hist'.moves = hist.moves /\ hist'.late = hist.late /\ hist'.untold = hist.untold
        BY <1>1, <2>1 DEF Hist
    <2> QED
        BY <1>4, <1>5, <1>6, <2>1, <2>2
<1>16. CASE Reply(r)
    <2>1. PICK m : m = request[r].msg
        OBVIOUS
    <2>2. /\ request[r].kind = "reply" /\ GoesOn(r, Idle) /\ out' = Append(out, m)
          /\ UNCHANGED <<room, hist>>
        BY <1>16, <2>1 DEF Reply
    <2>3. m \in Messages(F) /\ Agrees(m, hist.moves, JoinedIn(room))
        BY <1>1, <2>1, <2>2, RequestForms, MessageTypes DEF RequestsAgree, RequestAgrees
    <2>4. /\ OutTalks(hist.moves, JoinedIn(room))
          /\ Tells(m, hist.moves) => SomeTells(out', hist.moves)
        BY <1>1, <2>2, <2>3, OutSends
    <2>5. TellsLater(request[r], hist.moves) => SomeTells(out', hist.moves)
        BY <2>1, <2>2, <2>4 DEF TellsLater
    <2>6. RequestAgrees(Idle, hist.moves, JoinedIn(room))
        BY <1>6 DEF RequestAgrees
    <2> QED
        BY <1>2, <2>2, <2>4, <2>5, <2>6, RequestTalks
<1> QED
    BY <1>7, <1>8, <1>9, <1>10, <1>11, <1>12, <1>13, <1>14, <1>15, <1>16 DEF Processes

(* What a message that tells of a move makes the application show.         *)
LEMMA ToldRoom ==
    ASSUME NEW F, Types(F), NEW m \in Messages(F)
    PROVE  /\ ~Says(m) => (Told(m).room = "listed" <=> app.room = "listed")
           /\ Says(m) => (Told(m).room = "listed" <=> SaysJoined(m))
<1>1. /\ DOMAIN app = {"room", "fields", "unread", "markers"}
      /\ app = [x \in DOMAIN app |-> app[x]]
    BY DEF Types, OutTypes, Apps
<1>2. m.t \in {"unread", "ephemeral", "fields", "markers", "invited", "left", "room", "list"}
    BY MessageForms
<1>3. CASE m.t \in {"fields", "unread", "ephemeral", "markers"}
    <2>1. \/ \E x : Told(m) = [app EXCEPT !.fields = x]
          \/ \E x : Told(m) = [app EXCEPT !.unread = x]
          \/ \E x : Told(m) = [app EXCEPT !.markers = x]
        BY <1>3 DEF Told
    <2>2. Told(m).room = app.room
        BY <1>1, <2>1
    <2> QED
        BY <1>3, <2>2 DEF Says
<1>4. CASE m.t = "left"
    <2>1. Told(m) = [app EXCEPT !.room = "none", !.unread = 0]
        BY <1>4 DEF Told
    <2> QED
        BY <1>1, <1>4, <2>1 DEF Says, SaysJoined
<1>5. CASE m.t = "invited"
    <2>1. Told(m) = [app EXCEPT !.room = IF @ = "none" THEN "invited" ELSE @]
        BY <1>5 DEF Told
    <2> QED
        BY <1>1, <1>5, <2>1 DEF Says
<1>6. CASE m.t \in {"room", "list"}
    <2>1. Told(m) = IF m.snap = None THEN app
                    ELSE [app EXCEPT !.room = IF m.snap.joined THEN "listed" ELSE "none",
                                     !.unread = IF m.snap.joined THEN m.snap.unread ELSE 0,
                                     !.fields = ToldFields(m.snap.val, TRUE, TRUE)]
        BY <1>6 DEF Told
    <2>2. CASE m.snap = None
        BY <1>6, <2>1, <2>2 DEF Says
    <2>3. CASE m.snap # None
        <3>1. Told(m).room = IF m.snap.joined THEN "listed" ELSE "none"
            BY <1>1, <2>1, <2>3
        <3> QED
            BY <1>6, <2>3, <3>1 DEF Says, SaysJoined
    <2> QED
        BY <2>2, <2>3
<1> QED
    BY <1>2, <1>3, <1>4, <1>5, <1>6

(* The messages after the first one.                                       *)
LEMMA OutTail ==
    ASSUME NEW F, NEW o \in Seq(Messages(F)), o # <<>>, NEW k, NEW j, AllAgree(o, k, j)
    PROVE  /\ AllAgree(Tail(o), k, j) /\ Agrees(Head(o), k, j)
           /\ SomeTells(o, k) => Tells(Head(o), k) \/ SomeTells(Tail(o), k)
<1>1. PICK n \in Nat : n = Len(o)
    OBVIOUS
<1>2. PICK p : p = Tail(o)
    OBVIOUS
<1>3. /\ n > 0 /\ 1 \in 1 .. n /\ Len(p) = n - 1 /\ Head(o) = o[1]
      /\ \A i \in 1 .. n - 1 : i + 1 \in 1 .. n /\ p[i] = o[i + 1]
    BY <1>1, <1>2
<1>4. AllAgree(p, k, j) /\ Agrees(Head(o), k, j)
    BY <1>1, <1>3 DEF AllAgree
<1>5. ASSUME NEW i \in 1 .. n, Tells(o[i], k), ~Tells(Head(o), k) PROVE SomeTells(p, k)
    <2>1. i - 1 \in 1 .. n - 1 /\ (i - 1) + 1 = i
        BY <1>3, <1>5
    <2>2. p[i - 1] = o[i]
        BY <1>3, <2>1
    <2> QED
        BY <1>3, <1>5, <2>1, <2>2 DEF SomeTells
<1>6. SomeTells(o, k) => Tells(Head(o), k) \/ SomeTells(p, k)
    BY <1>1, <1>5 DEF SomeTells
<1> QED
    BY <1>2, <1>4, <1>6

(* A message that tells of the last move makes the application show it,    *)
(* one that tells of an earlier one is late.                               *)
LEMMA DeliverListed ==
    ASSUME NEW F, Types(F), AgreeInv, SaidInv, Deliver
    PROVE  AgreeInv' /\ SaidInv'
<1>1. PICK k \in Nat : k = hist.moves
    BY DEF Types, HistTypes, Hist
<1>2. PICK j \in BOOLEAN : j = JoinedIn(room)
    BY DEF JoinedIn
<1>3. PICK m : m = Head(out)
    OBVIOUS
<1>4. /\ out \in Seq(Messages(F)) /\ out # <<>> /\ out' = Tail(out) /\ hist \in Hist(F)
      /\ app' = Told(m) /\ UNCHANGED <<room, pending, handlers, request>>
    BY <1>3 DEF Deliver, Types, OutTypes, HistTypes
<1>5. m \in Messages(F)
    BY <1>3, <1>4
<1>6. /\ AllAgree(out, k, j) /\ ActionsAgree(channel, k, j) /\ ActionsAgree(handlers, k, j)
      /\ RequestsAgree(request, k, j)
    BY <1>1, <1>2 DEF AgreeInv
<1>7. /\ AllAgree(out', k, j) /\ Agrees(m, k, j)
      /\ SomeTells(out, k) => Tells(m, k) \/ SomeTells(out', k)
    BY <1>3, <1>4, <1>6, OutTail
<1>8. OwnAside
    <2>1. UNCHANGED channel \/ channel' = Append(channel, [t |-> "discovered"])
        BY DEF Deliver
    <2>2. [t |-> "discovered"].t # "own"
        OBVIOUS
    <2> QED
        BY <2>1, <2>2 DEF OwnAside
<1>9. ChannelTalks(k, j) /\ HandlersTalk(k, j) /\ RequestsTalk(k, j)
    BY <1>4, <1>6, <1>8, ChannelAsideTalks, UnchangedTalks
<1>10. /\ ~Says(m) => (app'.room = "listed" <=> app.room = "listed")
       /\ Says(m) => (app'.room = "listed" <=> SaysJoined(m))
    BY <1>4, <1>5, ToldRoom
<1>11. CASE ~Says(m)
    <2>1. ~IsSnapshot(m) /\ m.t # "left" /\ ~Tells(m, k)
        BY <1>11 DEF Says, IsSnapshot, Tells
    <2>2. hist' = [hist EXCEPT !.late = @]
        BY <1>3, <2>1 DEF Deliver
    <2>3. hist'.moves = hist.moves /\ hist'.late = hist.late /\ hist'.untold = hist.untold
        BY <1>4, <2>2 DEF Hist
    <2>4. SameWord
        BY <1>4, <1>10, <1>11, <2>3 DEF SameWord
    <2>5. OutTalks(k, j)
        BY <1>7, <2>1 DEF OutTalks
    <2>6. Talks
        BY <1>1, <1>2, <1>9, <2>4, <2>5 DEF Talks
    <2> QED
        BY <2>6, TalkStep
<1>12. CASE Says(m)
    <2>1. hist'.moves = k /\ hist'.late = (MoveOf(m) # k)
        <3>1. CASE m.t = "left"
            <4>1. ~IsSnapshot(m)
                BY <3>1 DEF IsSnapshot
            <4>2. hist' = [hist EXCEPT !.late = (m.moves # hist.moves)]
                BY <1>3, <3>1, <4>1 DEF Deliver
            <4>3. hist'.moves = hist.moves /\ hist'.late = (m.moves # hist.moves)
                BY <1>4, <4>2 DEF Hist
            <4> QED
                BY <1>1, <3>1, <4>3 DEF MoveOf
        <3>2. CASE m.t # "left"
            <4>1. IsSnapshot(m)
                BY <1>12, <3>2 DEF IsSnapshot, Says
            <4>2. hist' = [hist EXCEPT !.overlap = m.snap.drops # hist.drops,
                                       !.late = m.snap.moves # hist.moves,
                                       !.untold = @ \ {m.snap.moves}]
                BY <1>3, <4>1 DEF Deliver
            <4>3. hist'.moves = hist.moves /\ hist'.late = (m.snap.moves # hist.moves)
                BY <1>4, <4>2 DEF Hist
            <4> QED
                BY <1>1, <3>2, <4>3 DEF MoveOf
        <3> QED
            BY <3>1, <3>2
    <2>2. j = JoinedIn(room')
        BY <1>2, <1>4
    <2>3. AgreeInv'
        BY <1>7, <1>9, <2>1, <2>2, AgreeAfter DEF ChannelTalks, HandlersTalk, RequestsTalk
    <2>4. MoveOf(m) = k => (app'.room = "listed" <=> j)
        BY <1>7, <1>10, <1>12 DEF Agrees
    <2>5. SaidInv'
        <3>1. MoveOf(m) # k => hist'.late
            BY <2>1
        <3> QED
            BY <2>1, <2>2, <2>4, <3>1, SaidAfter
    <2> QED
        BY <2>3, <2>5
<1> QED
    BY <1>11, <1>12

(* Actions the handlers of an event queue.                                 *)
LEMMA HandlersAgree ==
    ASSUME NEW F, NEW e \in Events(F), NEW k \in Nat, NEW j \in BOOLEAN,
           e.t = "own" /\ Leaves(e) => ~j
    PROVE  /\ ActionsAgree(HandlersOf(e, k), k, j)
           /\ Joins(e) \/ Leaves(e) => SomeBrings(HandlersOf(e, k), k)
<1>1. PICK hs : hs = HandlersOf(e, k)
    OBVIOUS
<1>2. CASE e.t = "own"
    <2>1. PICK a : a = [t |-> "own", m |-> e.m, k |-> k]
        OBVIOUS
    <2>2. hs = <<a>>
        BY <1>1, <1>2, <2>1 DEF HandlersOf
    <2>3. Len(hs) = 1 /\ hs[1] = a /\ 1 .. 1 = {1}
        BY <2>2
    <2>4. a.t = "own" /\ a.m = e.m /\ a.k = k
        BY <2>1
    <2>5. ActionAgrees(a, k, j)
        BY <1>2, <2>4 DEF ActionAgrees, Leaves
    <2>6. Joins(e) \/ Leaves(e) => Brings(a, k)
        BY <2>4 DEF Brings, Joins, Leaves
    <2> QED
        BY <1>1, <2>3, <2>5, <2>6 DEF ActionsAgree, SomeBrings
<1>3. CASE e.t # "own"
    <2>1. e.t \in {"field", "message", "ephemeral", "read"}
        BY <1>3, EventForms
    <2>2. \A i \in 1 .. Len(hs) : hs[i].t # "own"
        <3>1. CASE e.t = "field"
            BY <1>1, <1>3, <3>1 DEF HandlersOf
        <3>2. CASE e.t = "message"
            BY <1>1, <3>2 DEF HandlersOf
        <3>3. CASE e.t = "ephemeral"
            BY <1>1, <3>3 DEF HandlersOf
        <3>4. CASE e.t = "read"
            BY <1>1, <3>4 DEF HandlersOf
        <3> QED
            BY <2>1, <3>1, <3>2, <3>3, <3>4
    <2>3. ActionsAgree(hs, k, j)
        BY <2>2 DEF ActionsAgree, ActionAgrees
    <2> QED
        BY <1>1, <1>3, <2>3 DEF Joins, Leaves
<1> QED
    BY <1>2, <1>3

(* The sync loop receives an event of our membership: its handler brings   *)
(* the news, or an invitation takes us out of a room that we joined after  *)
(* it, and the event of that join is still to come.                        *)
LEMMA SyncListed ==
    ASSUME NEW F, Types(F), Types(F)', ChainInv, AgreeInv, SaidInv, Sync
    PROVE  AgreeInv' /\ SaidInv'
<1>1. PICK k \in Nat : k = hist.moves
    BY DEF Types, HistTypes, Hist
<1>2. PICK j \in BOOLEAN : j = JoinedIn(room)
    BY DEF JoinedIn
<1>3. PICK k2 \in Nat : k2 = hist'.moves
    BY DEF Types, HistTypes, Hist
<1>4. PICK j2 \in BOOLEAN : j2 = JoinedIn(room')
    BY DEF JoinedIn
<1>5. PICK e : e = Head(pending)
    OBVIOUS
<1>6. /\ e \in Events(F) /\ pending # <<>> /\ pending' = Tail(pending)
      /\ e.t # "own" => room'.member = room.member
      /\ e.t = "own" => e.m \in DOMAIN Moves /\ room'.member = Moves[e.m].to
    BY <1>5, SyncMember
<1>7. /\ hist' = [hist EXCEPT !.moves = IF JoinedIn(room') # JoinedIn(room) THEN @ + 1 ELSE @]
      /\ handlers = <<>> /\ handlers' = HandlersOf(e, hist'.moves)
      /\ UNCHANGED <<channel, request, out, app>>
    BY <1>5 DEF Sync
<1>8. /\ hist'.late = hist.late /\ hist'.untold = hist.untold
      /\ k2 = IF j2 # j THEN k + 1 ELSE k
    BY <1>1, <1>2, <1>3, <1>4, <1>7 DEF Types, HistTypes, Hist
<1>9. Onward(k, j, k2, j2)
    BY <1>8 DEF Onward
<1>10. /\ AllAgree(out', k2, j2) /\ RequestsAgree(request', k2, j2) /\ ActionsAgree(channel', k2, j2)
    <2>1. AllAgree(out, k2, j2) /\ RequestsAgree(request, k2, j2) /\ ActionsAgree(channel, k2, j2)
        <3>1. Onward(hist.moves, JoinedIn(room), k2, j2)
            BY <1>1, <1>2, <1>9, Zenon
        <3> QED
            BY <3>1, AllStay
    <2> QED
        BY <1>7, <2>1
<1>11. e.t = "own" => /\ Joins(e) \/ Leaves(e) \/ Invites(e)
                      /\ Leaves(e) \/ Invites(e) => ~j2
    BY <1>4, <1>6, OwnKinds DEF JoinedIn
<1>12. /\ ActionsAgree(handlers', k2, j2)
       /\ Joins(e) \/ Leaves(e) => SomeBrings(handlers', k2)
    BY <1>3, <1>6, <1>7, <1>11, HandlersAgree
<1>13. AgreeInv'
    BY <1>3, <1>4, <1>10, <1>12, AgreeAfter
<1>14. CASE Joins(e) \/ Leaves(e)
    BY <1>3, <1>4, <1>12, <1>13, <1>14, SaidAfter
<1>15. CASE ~Joins(e) /\ ~Leaves(e)
    <2>1. MoveComes(pending) => MoveComes(pending')
        BY <1>5, <1>6, <1>15, MoveTail DEF Types, HomeTypes
    <2>2. CASE j2 = j
        <3>1. ~SomeBrings(handlers, k)
            BY <1>7 DEF SomeBrings
        <3>2. \/ k \in hist.untold \/ hist.late
              \/ app.room = "listed" <=> j
              \/ MoveComes(pending)
              \/ SomeBrings(channel, k)
              \/ SomeTells(out, k) \/ SomeTellsLater(request, k)
            BY <1>1, <1>2, <3>1 DEF SaidInv
        <3>3. \/ k2 \in hist'.untold \/ hist'.late
              \/ app'.room = "listed" <=> j2
              \/ MoveComes(pending')
              \/ SomeBrings(channel', k2)
              \/ SomeTells(out', k2) \/ SomeTellsLater(request', k2)
            BY <1>7, <1>8, <2>1, <2>2, <3>2
        <3> QED
            BY <1>3, <1>4, <1>13, <3>3, SaidAfter
    <2>3. CASE j2 # j
        <3>1. e.t = "own"
            BY <1>2, <1>4, <1>6, <2>3 DEF JoinedIn
        <3>2. Invites(e) /\ j
            BY <1>11, <1>15, <2>3, <3>1
        <3>3. 1 \in 1 .. Len(pending) /\ pending[1] = e
            BY <1>5, <1>6 DEF Types, HomeTypes
        <3>4. MoveComes(pending)
            BY <1>2, <3>2, <3>3 DEF ChainInv, Chain
        <3> QED
            BY <1>3, <1>4, <1>13, <2>1, <3>4, SaidAfter
    <2> QED
        BY <2>2, <2>3
<1> QED
    BY <1>13, <1>14, <1>15

(* A request moves us.                                                     *)
LEMMA MoveMoves ==
    ASSUME NEW F, Types(F), Types(F)', NEW m \in DOMAIN Moves, Move(m),
           NEW k2, k2 = hist'.moves, NEW j2 \in BOOLEAN, j2 = JoinedIn(room')
    PROVE  /\ k2 \in Nat /\ Onward(hist.moves, JoinedIn(room), k2, j2)
           /\ j2 = (Moves[m].to = "joined")
           /\ hist'.late = hist.late /\ hist'.untold = hist.untold
           /\ j2 = JoinedIn(room) => k2 = hist.moves
<1>1. hist' = [hist EXCEPT !.moves = IF JoinedIn(room') # JoinedIn(room) THEN @ + 1 ELSE @]
      /\ room' = Moved(Moves[m].to)
    BY DEF Move
<1>2. PICK j \in BOOLEAN : j = JoinedIn(room)
    BY DEF JoinedIn
<1>3. /\ hist'.late = hist.late /\ hist'.untold = hist.untold
      /\ k2 = IF j2 # j THEN hist.moves + 1 ELSE hist.moves
    BY <1>1, <1>2 DEF Types, HistTypes, Hist
<1>4. k2 \in Nat
    BY DEF Types, HistTypes, Hist
<1>5. room'.member = Moves[m].to
    BY <1>1 DEF Moved, Types, RoomTypes
<1>6. j2 = (Moves[m].to = "joined")
    BY <1>5 DEF JoinedIn
<1>7. Onward(hist.moves, j, k2, j2)
    BY <1>3 DEF Onward
<1>8. Onward(hist.moves, JoinedIn(room), k2, j2)
    BY <1>2, <1>7, Zenon
<1>9. j2 = JoinedIn(room) => k2 = hist.moves
    BY <1>2, <1>3
<1> QED
    BY <1>3, <1>4, <1>6, <1>8, <1>9

(* A request joins the room, and will tell, or leaves it, and the event of *)
(* that will.                                                              *)
LEMMA MoveListed ==
    ASSUME NEW F, Types(F), Types(F)', AgreeInv, SaidInv, NEW r \in Requests,
           JoinRoom(r) \/ LeaveRoom(r)
    PROVE  AgreeInv' /\ SaidInv'
<1>1. PICK k2 : k2 = hist'.moves
    OBVIOUS
<1>2. PICK j2 \in BOOLEAN : j2 = JoinedIn(room')
    BY DEF JoinedIn
<1>3. PICK m, q :
         /\ m \in DOMAIN Moves /\ Move(m) /\ Begin(r, q)
         /\ \/ m \in {"Joined", "InvitationAccepted"} /\ q = [kind |-> "join"]
            \/ /\ m = "Left" \/ (m = "InvitationRejected" /\ room.member = "invited")
               /\ q = Idle \/ q = Answer([t |-> "left", moves |-> k2])
    <2>1. CASE JoinRoom(r)
        BY <2>1, MoveTypes DEF JoinRoom
    <2>2. CASE LeaveRoom(r)
        BY <1>1, <2>2, MoveTypes DEF LeaveRoom
    <2> QED
        BY <2>1, <2>2
<1>4. /\ k2 \in Nat /\ Onward(hist.moves, JoinedIn(room), k2, j2)
      /\ j2 = (Moves[m].to = "joined")
      /\ hist'.late = hist.late /\ hist'.untold = hist.untold
      /\ j2 = JoinedIn(room) => k2 = hist.moves
    BY <1>1, <1>2, <1>3, MoveMoves
<1>5. /\ UNCHANGED <<handlers, channel, out, app>> /\ request[r] = Idle
      /\ request' = [request EXCEPT ![r] = q]
    BY <1>3 DEF Begin
<1>6. /\ AllAgree(out, k2, j2) /\ RequestsAgree(request, k2, j2)
      /\ ActionsAgree(handlers, k2, j2) /\ ActionsAgree(channel, k2, j2)
    BY <1>4, AllStay
<1>7. m \in {"Left", "InvitationRejected"} => ~j2
    <2>1. Moves["Left"].to = "left" /\ Moves["InvitationRejected"].to = "left"
        BY DEF Moves
    <2>2. m \in {"Left", "InvitationRejected"} => Moves[m].to # "joined"
        BY <2>1
    <2> QED
        BY <1>4, <2>2
<1>8. RequestAgrees(q, k2, j2)
    <2>1. CASE q.kind # "reply"
        BY <2>1 DEF RequestAgrees
    <2>2. CASE q = Answer([t |-> "left", moves |-> k2]) /\ ~j2
        <3>1. q.msg.t = "left" /\ q.msg.moves = k2
            BY <2>2 DEF Answer
        <3> QED
            BY <1>4, <2>2, <3>1 DEF RequestAgrees, Agrees, Says, MoveOf, SaysJoined
    <2> QED
        BY <1>3, <1>7, <2>1, <2>2 DEF Idle
<1>9. request'[r] = q /\ \A s \in Requests : s # r => request'[s] = request[s]
    BY <1>5 DEF Types, RequestTypes
<1>10. AgreeInv'
    <2>1. RequestsAgree(request', k2, j2)
        BY <1>6, <1>8, <1>9 DEF RequestsAgree
    <2> QED
        BY <1>1, <1>2, <1>5, <1>6, <2>1, AgreeAfter
<1>11. CASE q = [kind |-> "join"]
    <2>1. SomeTellsLater(request', k2)
        BY <1>9, <1>11 DEF SomeTellsLater, TellsLater
    <2> QED
        BY <1>1, <1>2, <1>10, <2>1, SaidAfter
<1>12. CASE m = "Left"
    <2>1. PICK e : e = [t |-> "own", m |-> "Left"]
        OBVIOUS
    <2>2. pending' = Append(pending, e) /\ Leaves(e) /\ e \in Events(F) /\ pending \in Seq(Events(F))
        BY <1>3, <1>12, <2>1, MoveTypes
        DEF Move, Record, Leaves, Events, OwnEvents, Types, HomeTypes
    <2>3. /\ Len(pending) \in Nat /\ Len(pending') = Len(pending) + 1
          /\ pending'[Len(pending) + 1] = e
        BY <2>2
    <2>4. MoveComes(pending')
        <3>1. Len(pending) + 1 \in 1 .. Len(pending')
            BY <2>3
        <3> QED
            BY <2>2, <2>3, <3>1 DEF MoveComes
    <2> QED
        BY <1>1, <1>2, <1>10, <2>4, SaidAfter
<1>13. CASE m = "InvitationRejected" /\ room.member = "invited"
    <2>1. ~j2 /\ ~JoinedIn(room) /\ k2 = hist.moves
        <3>1. ~j2 /\ ~JoinedIn(room)
            BY <1>7, <1>13 DEF JoinedIn
        <3>2. j2 = JoinedIn(room)
            BY <3>1 DEF JoinedIn
        <3> QED
            BY <1>4, <3>1, <3>2
    <2>2. MoveComes(pending) => MoveComes(pending')
        BY <1>3, MoveStays DEF Move
    <2>3. SomeTellsLater(request, k2) => SomeTellsLater(request', k2)
        BY <1>5, <1>9 DEF SomeTellsLater, TellsLater, Idle
    <2>4. \/ k2 \in hist'.untold \/ hist'.late
          \/ app'.room = "listed" <=> j2
          \/ MoveComes(pending')
          \/ SomeBrings(handlers', k2) \/ SomeBrings(channel', k2)
          \/ SomeTells(out', k2) \/ SomeTellsLater(request', k2)
        <3>1. \/ k2 \in hist.untold \/ hist.late
              \/ app.room = "listed" <=> j2
              \/ MoveComes(pending)
              \/ SomeBrings(handlers, k2) \/ SomeBrings(channel, k2)
              \/ SomeTells(out, k2) \/ SomeTellsLater(request, k2)
            BY <2>1 DEF SaidInv
        <3> QED
            BY <1>4, <1>5, <2>2, <2>3, <3>1
    <2> QED
        BY <1>1, <1>2, <1>10, <2>4, SaidAfter
<1> QED
    BY <1>3, <1>11, <1>12, <1>13

(* The invariant of our membership holds initially ...                     *)
LEMMA ListedInit == RoomInit => ListedInv
<1> SUFFICES ASSUME RoomInit PROVE ListedInv
    OBVIOUS
<1>1. Len(pending) = 0 /\ Len(handlers) = 0 /\ Len(channel) = 0 /\ Len(out) = 0
    BY DEF RoomInit
<1>2. JoinedIn(room) <=> JoinedIn(server)
    BY DEF RoomInit, JoinedIn
<1>3. \A r \in Requests : request[r].kind # "reply"
    BY DEF RoomInit, Idle
<1>4. hist.moves \in hist.untold
    BY DEF RoomInit, HistInit
<1>5. ChainInv
    BY <1>1, <1>2 DEF ChainInv, Chain
<1>6. AgreeInv
    BY <1>1, <1>3 DEF AgreeInv, AllAgree, ActionsAgree, RequestsAgree, RequestAgrees
<1> QED
    BY <1>4, <1>5, <1>6 DEF ListedInv, SaidInv

(* ... and after every step.                                               *)
LEMMA ListedStep ==
    ASSUME TypeInv, Fields \in FieldSets, ListedInv, [RoomNext]_roomVars
    PROVE  ListedInv' /\ (Fields \in FieldSets)'
<1>1. PICK F \in FieldSets : F = Fields
    OBVIOUS
<1>2. Types(F) /\ Types(F)' /\ ChainInv /\ AgreeInv /\ SaidInv
    BY <1>1, TypesStep DEF TypeInv, ListedInv
<1>3. (Fields \in FieldSets)'
    BY <1>2 DEF Types, HomeTypes, Fields
<1>4. CASE UNCHANGED roomVars
    <2>1. ChainInv'
        BY <1>2, <1>4 DEF roomVars, ChainInv, Chain, MoveComes, LeftIn, Joins, Leaves, Invites,
           JoinedIn
    <2>2. AgreeInv'
        BY <1>2, <1>4 DEF roomVars, AgreeInv, AllAgree, ActionsAgree, RequestsAgree, RequestAgrees,
           Agrees, ActionAgrees, Says, MoveOf, SaysJoined, Leaves, JoinedIn
    <2>3. SaidInv'
        BY <1>2, <1>4 DEF roomVars, SaidInv, MoveComes, SomeBrings, SomeTells, SomeTellsLater,
           Brings, Tells, TellsLater, Says, MoveOf, Joins, Leaves, JoinedIn
    <2> QED
        BY <1>3, <2>1, <2>2, <2>3 DEF ListedInv
<1>5. CASE RoomNext
    <2>1. ChainInv'
        BY <1>2, <1>5, MemberSteps, ChainStep
    <2> SUFFICES AgreeInv' /\ SaidInv'
        BY <1>3, <2>1 DEF ListedInv
    <2>2. ASSUME Talks PROVE AgreeInv' /\ SaidInv'
        BY <1>2, <2>2, TalkStep
    <2>3. CASE Homeserver \/ Expire \/ CacheSilently
        BY <1>2, <2>2, <2>3, OutsideTalks
    <2>4. ASSUME NEW s \in {"updates", "generic"}, Forward(s) PROVE AgreeInv' /\ SaidInv'
        BY <1>2, <2>2, <2>4, OutsideTalks
    <2>5. CASE Handle
        BY <1>2, <2>2, <2>5, HandleTalks
    <2>6. CASE ExecOwn
        BY <1>2, <2>2, <2>6, ExecOwnTalks
    <2>7. CASE ExecField \/ ExecAny \/ ExecMessage \/ ExecCount \/ ExecUpdate \/ ExecDiscovered
        BY <1>2, <2>2, <2>7, ExecTalks
    <2>8. CASE Sync
        BY <1>2, <2>8, SyncListed
    <2>9. CASE Deliver
        BY <1>2, <2>9, DeliverListed
    <2>10. ASSUME NEW r \in Requests, Asks(r) PROVE AgreeInv' /\ SaidInv'
        <3>1. CASE JoinRoom(r) \/ LeaveRoom(r)
            BY <1>2, <3>1, MoveListed
        <3>2. CASE GetRooms(r) \/ ChangeRoom(r) \/ PinOrInvite(r) \/ MarkAsRead(r) \/ FetchPage(r)
            BY <1>2, <2>2, <3>2, AsksTalk
        <3> QED
            BY <2>10, <3>1, <3>2 DEF Asks
    <2>11. ASSUME NEW r \in Requests, Processes(r) PROVE AgreeInv' /\ SaidInv'
        BY <1>2, <2>2, <2>11, ProcessesTalk
    <2> QED
        BY <1>5, <2>3, <2>4, <2>5, <2>6, <2>7, <2>8, <2>9, <2>10, <2>11
        DEF RoomNext, Works, Executor
<1> QED
    BY <1>4, <1>5

(***************************************************************************)
(* Once nothing is on its way, the room is shown as joined exactly when it *)
(* is (process_own_membership_change, leave_room and the snapshots),       *)
(* unless the last move is one the application is not told of or an older  *)
(* one was told after it: for any number of moves, here and on other       *)
(* devices, of requests at the same time, and any sizes of the channels.   *)
(***************************************************************************)
THEOREM JoinedIsListedCorrect == Spec => []JoinedIsListed
<1>1. RoomInit => Fields \in FieldSets
    <2> SUFFICES ASSUME RoomInit PROVE Fields \in FieldSets
        OBVIOUS
    <2>1. PICK F \in FieldSets : server.val = [f \in F |-> 0]
        BY DEF RoomInit
    <2> QED
        BY <2>1 DEF Fields
<1>2. ListedInv => JoinedIsListed
    <2> SUFFICES ASSUME ListedInv, Quiet, hist.moves \notin hist.untold, ~hist.late
                 PROVE  app.room = "listed" <=> room.member = "joined"
        BY DEF JoinedIsListed
    <2>1. Len(pending) = 0 /\ Len(handlers) = 0 /\ Len(channel) = 0 /\ Len(out) = 0
        BY DEF Quiet
    <2>2. ~SomeTellsLater(request, hist.moves)
        BY DEF Quiet, Idle, SomeTellsLater, TellsLater
    <2>3. ~MoveComes(pending) /\ ~SomeTells(out, hist.moves)
        BY <2>1 DEF MoveComes, SomeTells
    <2>4. ~SomeBrings(handlers, hist.moves) /\ ~SomeBrings(channel, hist.moves)
        BY <2>1 DEF SomeBrings
    <2>5. app.room = "listed" <=> JoinedIn(room)
        BY <2>2, <2>3, <2>4 DEF ListedInv, SaidInv
    <2> QED
        BY <2>5 DEF JoinedIn
<1>3. TypeInv /\ Fields \in FieldSets /\ ListedInv /\ [RoomNext]_roomVars
        => ListedInv' /\ (Fields \in FieldSets)'
    BY ListedStep
<1> QED
    BY <1>1, <1>2, <1>3, TypesInit, TypeInvStep, ListedInit, PTL DEF Spec

-----------------------------------------------------------------------------
(***************************************************************************)
(* The unread count.  What bears it: a count, a snapshot, and leaving,     *)
(* after which none is shown.                                              *)
(***************************************************************************)
Bears(m) == m.t \in {"unread", "left"} \/ IsSnapshot(m)

NoneBears(o) == \A i \in 1 .. Len(o) : ~Bears(o[i])
LastBears(o, i) == Bears(o[i]) /\ \A k \in 1 .. Len(o) : i < k => ~Bears(o[k])

(* The newest count in queue q is n.                                       *)
HasCount(q) == \E i \in 1 .. Len(q) : q[i].t = "unread"
CountIs(q, n) ==
    \E i \in 1 .. Len(q) : /\ q[i].t = "unread" /\ q[i].n = n
                           /\ \A k \in 1 .. Len(q) : i < k => q[k].t # "unread"

(* Snapshot s has count n, or counts as overtaken by a replay when it is   *)
(* delivered (d is the number of those), or is followed by a replay of the *)
(* queue, which ends with n.                                               *)
SnapShows(s, d, q, n) == s.joined => s.unread = n \/ s.drops < d \/ CountIs(q, n)

MessageShows(m, d, q, n) ==
    /\ m.t = "unread" => m.n = n
    /\ IsSnapshot(m) => SnapShows(m.snap, d, q, n)

(* The application will show n, if it shows the room, after what is on its *)
(* way and the replay that may be due.                                     *)
OutShows(o, d, q, n) == \A i \in 1 .. Len(o) : LastBears(o, i) => MessageShows(o[i], d, q, n)

AppShows(a, overlap, q, c, n) ==
    a.room = "listed" => a.unread = n \/ overlap \/ (Replays(c) /\ CountIs(q, n))

Shows(o, a, h, q, c, n) ==
    /\ OutShows(o, h.drops, q, n)
    /\ NoneBears(o) => AppShows(a, h.overlap, q, c, n)

ReplyShows(rq, d, q, n) == rq.kind = "reply" => MessageShows(rq.msg, d, q, n)

(* The executor will look at the count: an update of the joined room is on *)
(* its way, or the event of a join, which brings one.  It may never do so  *)
(* if the stream lagged.                                                   *)
JoinComes(p) == \E i \in 1 .. Len(p) : Joins(p[i])
UpdateComes(c) == \E i \in 1 .. Len(c) : c[i].t = "update"

Due ==
    \/ JoinComes(pending)
    \/ stream["updates"].q # <<>> \/ stream["updates"].lagged
    \/ UpdateComes(channel)

(***************************************************************************)
(* What makes UnreadShown inductive.  Whatever count the queue ends with   *)
(* is the one that will be shown (QueuedInv), so that a count equal to it  *)
(* need not be sent; and unless the executor has still to look at it, that *)
(* is the count of the SDK, also for the requests that will be answered    *)
(* with a snapshot (CurrentInv).                                           *)
(***************************************************************************)
DropsBelow(m, d) == IsSnapshot(m) => m.snap.drops <= d

DropsInv ==
    /\ \A i \in 1 .. Len(out) : DropsBelow(out[i], hist.drops)
    /\ \A r \in Requests : request[r].kind = "reply" => DropsBelow(request[r].msg, hist.drops)

StreamInv ==
    /\ stream["updates"].open \/ stream["updates"].lagged
    /\ \A i \in 1 .. Len(stream["updates"].q) : stream["updates"].q[i].t = "update"

QueuedInv ==
    \A n \in Nat : CountIs(queued, n) /\ ~hist.zeroed =>
                     Shows(out, app, hist, queued, channel, n)

Current(n) ==
    /\ Shows(out, app, hist, queued, channel, n)
    /\ HasCount(queued) => CountIs(queued, n)
    /\ \A r \in Requests : ReplyShows(request[r], hist.drops, queued, n)

CurrentInv == JoinedIn(room) /\ ~hist.zeroed /\ ~Due => Current(room.unread)

CountInv == DropsInv /\ StreamInv /\ QueuedInv /\ CurrentInv

(* Messages p follow o.                                                    *)
LEMMA FollowShows ==
    ASSUME NEW S, NEW o \in Seq(S), NEW p \in Seq(S), NEW d, NEW q, NEW n
    PROVE  /\ NoneBears(p) => /\ NoneBears(o \o p) <=> NoneBears(o)
                              /\ OutShows(o, d, q, n) => OutShows(o \o p, d, q, n)
           /\ ~NoneBears(p) => /\ ~NoneBears(o \o p)
                               /\ OutShows(p, d, q, n) => OutShows(o \o p, d, q, n)
<1>1. PICK k \in Nat, l \in Nat : k = Len(o) /\ l = Len(p)
    OBVIOUS
<1>2. PICK w : w = o \o p
    OBVIOUS
<1>3. /\ Len(w) = k + l
      /\ \A i \in 1 .. k : i \in 1 .. k + l /\ w[i] = o[i]
      /\ \A i \in 1 .. l : k + i \in 1 .. k + l /\ w[k + i] = p[i]
      /\ \A i \in 1 .. k + l : i \in 1 .. k \/ (i - k \in 1 .. l /\ w[i] = p[i - k])
    BY <1>1, <1>2
<1>4. CASE NoneBears(p)
    <2>1. \A i \in 1 .. k + l : i \in 1 .. k \/ ~Bears(w[i])
        BY <1>1, <1>3, <1>4 DEF NoneBears
    <2>2. NoneBears(w) <=> NoneBears(o)
        BY <1>1, <1>3, <2>1 DEF NoneBears
    <2>3. ASSUME OutShows(o, d, q, n), NEW i \in 1 .. k + l, LastBears(w, i)
          PROVE  MessageShows(w[i], d, q, n)
        <3>1. i \in 1 .. k /\ w[i] = o[i] /\ Bears(o[i])
            BY <1>3, <2>1, <2>3 DEF LastBears
        <3>2. \A x \in 1 .. k : i < x => ~Bears(o[x])
            BY <1>3, <2>3 DEF LastBears
        <3> QED
            BY <1>1, <2>3, <3>1, <3>2 DEF OutShows, LastBears
    <2> QED
        BY <1>2, <1>3, <1>4, <2>2, <2>3 DEF OutShows
<1>5. CASE ~NoneBears(p)
    <2>1. PICK j \in 1 .. l : Bears(p[j])
        BY <1>1, <1>5 DEF NoneBears
    <2>2. k + j \in 1 .. k + l /\ Bears(w[k + j])
        BY <1>3, <2>1
    <2>3. ASSUME OutShows(p, d, q, n), NEW i \in 1 .. k + l, LastBears(w, i)
          PROVE  MessageShows(w[i], d, q, n)
        <3>1. ~(i < k + j)
            BY <1>3, <2>2, <2>3 DEF LastBears
        <3>2. i - k \in 1 .. l /\ w[i] = p[i - k]
            BY <1>3, <2>1, <3>1
        <3>3. ASSUME NEW x \in 1 .. l, i - k < x PROVE ~Bears(p[x])
            <4>1. k + x \in 1 .. k + l /\ i < k + x /\ w[k + x] = p[x]
                BY <1>3, <3>2, <3>3
            <4> QED
                BY <1>3, <2>3, <4>1 DEF LastBears
        <3> QED
            BY <1>1, <2>3, <3>2, <3>3 DEF OutShows, LastBears
    <2> QED
        BY <1>2, <1>3, <1>5, <2>2, <2>3 DEF OutShows, NoneBears
<1> QED
    BY <1>4, <1>5

(* One message is added.                                                   *)
LEMMA AppendShows ==
    ASSUME NEW S, NEW o \in Seq(S), NEW m \in S, NEW d, NEW q, NEW n
    PROVE  /\ ~Bears(m) => /\ NoneBears(Append(o, m)) <=> NoneBears(o)
                           /\ OutShows(o, d, q, n) => OutShows(Append(o, m), d, q, n)
           /\ Bears(m) => /\ ~NoneBears(Append(o, m))
                          /\ MessageShows(m, d, q, n) => OutShows(Append(o, m), d, q, n)
<1>1. PICK p : p = <<m>>
    OBVIOUS
<1>2. p \in Seq(S) /\ Len(p) = 1 /\ p[1] = m /\ 1 .. 1 = {1}
    BY <1>1
<1>3. Append(o, m) = o \o p
    BY <1>1
<1>4. NoneBears(p) <=> ~Bears(m)
    BY <1>2 DEF NoneBears
<1>5. MessageShows(m, d, q, n) => OutShows(p, d, q, n)
    BY <1>2 DEF OutShows
<1> QED
    BY <1>2, <1>3, <1>4, <1>5, FollowShows

(* The first message is taken.                                             *)
LEMMA TailShows ==
    ASSUME NEW S, NEW o \in Seq(S), o # <<>>, NEW d, NEW q, NEW n, OutShows(o, d, q, n)
    PROVE  /\ OutShows(Tail(o), d, q, n)
           /\ NoneBears(Tail(o)) /\ Bears(Head(o)) => MessageShows(Head(o), d, q, n)
           /\ NoneBears(Tail(o)) /\ ~Bears(Head(o)) => NoneBears(o)
<1>1. PICK k \in Nat : k = Len(o)
    OBVIOUS
<1>2. PICK p : p = Tail(o)
    OBVIOUS
<1>3. /\ k > 0 /\ 1 \in 1 .. k /\ Len(p) = k - 1 /\ Head(o) = o[1]
      /\ \A i \in 1 .. k - 1 : i + 1 \in 1 .. k /\ p[i] = o[i + 1]
      /\ \A i \in 1 .. k : i = 1 \/ (i - 1 \in 1 .. k - 1 /\ p[i - 1] = o[i])
    BY <1>1, <1>2
<1>4. ASSUME NEW i \in 1 .. k - 1, LastBears(p, i) PROVE MessageShows(p[i], d, q, n)
    <2>1. ASSUME NEW x \in 1 .. k, i + 1 < x PROVE ~Bears(o[x])
        <3>1. x - 1 \in 1 .. k - 1 /\ p[x - 1] = o[x] /\ i < x - 1
            BY <1>3, <2>1
        <3> QED
            BY <1>3, <1>4, <3>1 DEF LastBears
    <2>2. LastBears(o, i + 1)
        BY <1>1, <1>3, <1>4, <2>1 DEF LastBears
    <2> QED
        BY <1>1, <1>3, <2>2 DEF OutShows
<1>5. OutShows(p, d, q, n)
    BY <1>3, <1>4 DEF OutShows
<1>6. ASSUME NoneBears(p), NEW x \in 1 .. k, x # 1 PROVE ~Bears(o[x])
    BY <1>3, <1>6 DEF NoneBears
<1>7. NoneBears(p) /\ Bears(o[1]) => MessageShows(o[1], d, q, n)
    <2> SUFFICES ASSUME NoneBears(p), Bears(o[1]) PROVE MessageShows(o[1], d, q, n)
        OBVIOUS
    <2>1. LastBears(o, 1)
        BY <1>1, <1>6 DEF LastBears
    <2> QED
        BY <1>1, <1>3, <2>1 DEF OutShows
<1>8. NoneBears(p) /\ ~Bears(o[1]) => NoneBears(o)
    BY <1>1, <1>6 DEF NoneBears
<1> QED
    BY <1>2, <1>3, <1>5, <1>7, <1>8

(* A queue ends with at most one count.                                    *)
LEMMA CountOne ==
    ASSUME NEW S, NEW q \in Seq(S), NEW n, NEW k, CountIs(q, n), CountIs(q, k)
    PROVE  n = k
<1>1. PICK l \in Nat : l = Len(q)
    OBVIOUS
<1>2. PICK i \in 1 .. l : /\ q[i].t = "unread" /\ q[i].n = n
                          /\ \A x \in 1 .. l : i < x => q[x].t # "unread"
    BY <1>1 DEF CountIs
<1>3. PICK j \in 1 .. l : /\ q[j].t = "unread" /\ q[j].n = k
                          /\ \A x \in 1 .. l : j < x => q[x].t # "unread"
    BY <1>1 DEF CountIs
<1>4. i = j
    BY <1>2, <1>3
<1> QED
    BY <1>2, <1>3, <1>4

(* A queue whose last change is a count.                                   *)
LEMMA LastCount ==
    ASSUME NEW S, NEW q \in Seq(S), q # <<>>, q[Len(q)].t = "unread"
    PROVE  CountIs(q, q[Len(q)].n)
<1>1. PICK l \in Nat : l = Len(q)
    OBVIOUS
<1>2. l \in 1 .. l /\ \A x \in 1 .. l : ~(l < x)
    BY <1>1
<1> QED
    BY <1>1, <1>2 DEF CountIs

(* To track a change that is no count keeps the count, or evicts it.       *)
LEMMA TrackCount ==
    ASSUME NEW q \in Seq(Changes), Len(q) <= MaxQueued, NEW c \in Changes, c.t # "unread", NEW n,
           NEW p, p = track_room_change(q, c), CountIs(q, n)
    PROVE  CountIs(p, n) \/ (Evicts(q, c) /\ ~HasCount(p))
<1>1. PICK l \in Nat : l = Len(q)
    OBVIOUS
<1>2. PICK i \in 1 .. l : /\ q[i].t = "unread" /\ q[i].n = n
                          /\ \A x \in 1 .. l : i < x => q[x].t # "unread"
    BY <1>1 DEF CountIs
<1>3. CASE l < MaxQueued
    <2>1. p = Append(q, c)
        BY <1>1, <1>3, Bounds DEF track_room_change
    <2>2. /\ Len(p) = l + 1 /\ p[l + 1] = c
          /\ \A x \in 1 .. l : x \in 1 .. l + 1 /\ p[x] = q[x]
          /\ \A x \in 1 .. l + 1 : x \in 1 .. l \/ x = l + 1
        BY <1>1, <2>1
    <2>3. \A x \in 1 .. l + 1 : i < x => p[x].t # "unread"
        BY <1>2, <2>2
    <2> QED
        BY <1>2, <2>2, <2>3 DEF CountIs
<1>4. CASE ~(l < MaxQueued)
    <2>1. PICK w : w = Tail(q)
        OBVIOUS
    <2>2. p = Append(w, c) /\ q # <<>>
        BY <1>1, <1>4, <2>1, Bounds DEF track_room_change
    <2>3. /\ w \in Seq(Changes) /\ Len(w) = l - 1 /\ l \in Nat \ {0}
          /\ \A x \in 1 .. l - 1 : w[x] = q[x + 1]
        BY <1>1, <2>1, <2>2
    <2>4. /\ p \in Seq(Changes) /\ Len(p) = l /\ p[l] = c
          /\ \A x \in 1 .. l - 1 : x \in 1 .. l /\ x + 1 \in 1 .. l /\ p[x] = q[x + 1]
          /\ \A x \in 1 .. l : x \in 1 .. l - 1 \/ x = l
        BY <2>2, <2>3
    <2>5. CASE i = 1
        <3>1. \A x \in 1 .. l : p[x].t # "unread"
            BY <1>2, <2>4, <2>5
        <3>2. ~HasCount(p)
            BY <2>4, <3>1 DEF HasCount
        <3>3. Head(q).t = "unread"
            BY <1>2, <2>2, <2>5
        <3>4. \A y \in ToSet(Append(Tail(q), c)) : y.t # "unread"
            BY <2>1, <2>2, <2>4, <3>1 DEF ToSet
        <3>5. Evicts(q, c)
            BY <1>1, <1>4, <3>3, <3>4, Bounds DEF Evicts
        <3> QED
            BY <3>2, <3>5
    <2>6. CASE i # 1
        <3>1. i - 1 \in 1 .. l - 1 /\ i - 1 \in 1 .. l /\ p[i - 1] = q[i]
            BY <1>2, <2>4, <2>6
        <3>2. \A x \in 1 .. l : i - 1 < x => p[x].t # "unread"
            BY <1>2, <2>4, <2>6
        <3> QED
            BY <1>2, <2>4, <3>1, <3>2 DEF CountIs
    <2> QED
        BY <2>5, <2>6
<1> QED
    BY <1>3, <1>4

(* A message goes on to show n while the queue keeps n, or counts as       *)
(* replayed.                                                               *)
LEMMA MessageStaysShown ==
    ASSUME NEW m, NEW d \in Nat, NEW d2 \in Nat, NEW q, NEW q2, NEW n, d <= d2,
           IsSnapshot(m) => m.snap.drops \in Nat, DropsBelow(m, d),
           CountIs(q, n) => CountIs(q2, n) \/ d < d2,
           MessageShows(m, d, q, n)
    PROVE  MessageShows(m, d2, q2, n)
BY DEF MessageShows, SnapShows, DropsBelow

(* The messages on their way and those of the requests.                    *)
LEMMA SnapshotDrops ==
    ASSUME NEW F, Types(F)
    PROVE  /\ \A m \in Messages(F) : IsSnapshot(m) => m.snap.drops \in Nat
           /\ \A r \in Requests : request[r].kind = "reply" =>
                request[r].msg \in Messages(F) /\ request[r].msg.t # "unread"
           /\ out \in Seq(Messages(F)) /\ queued \in Seq(Changes) /\ queued \in Seq(Messages(F))
           /\ Len(queued) <= MaxQueued /\ hist.drops \in Nat /\ room.unread \in Nat
<1>1. \A m \in Messages(F) : IsSnapshot(m) => m.snap.drops \in Nat
    BY MessageForms DEF IsSnapshot, Snapshots
<1>2. ASSUME NEW r \in Requests, request[r].kind = "reply"
      PROVE  request[r].msg \in Messages(F) /\ request[r].msg.t # "unread"
    <2>1. request[r].msg \in Replies(F)
        BY <1>2, RequestForms DEF Types, RequestTypes
    <2> QED
        BY <2>1, MessageTypes DEF Replies, LeftMessages, RoomMessages, ListMessages
<1>3. queued \in Seq(Changes) /\ Len(queued) <= MaxQueued
    BY DEF Types, QueueTypes
<1>4. queued \in Seq(Messages(F))
    BY <1>3, MessageTypes
<1> QED
    BY <1>1, <1>2, <1>3, <1>4 DEF Types, OutTypes, HistTypes, Hist, RoomTypes

(* What the queue and the channel keep for n in a step of the executor.    *)
CountKept(n) ==
    CountIs(queued, n) =>
      \/ CountIs(queued', n) /\ (Replays(channel) => Replays(channel'))
      \/ hist.drops < hist'.drops /\ (Replays(channel) => hist'.overlap)

(* Messages that do not bear a count follow.                               *)
LEMMA ShownStays ==
    ASSUME NEW F, Types(F), DropsInv, NEW msgs \in Seq(Messages(F)), NoneBears(msgs),
           out' = out \o msgs, UNCHANGED app, hist'.drops \in Nat, hist.drops <= hist'.drops,
           hist.overlap => hist'.overlap, NEW n, CountKept(n),
           Shows(out, app, hist, queued, channel, n)
    PROVE  Shows(out', app', hist', queued', channel', n)
<1>1. PICK d \in Nat, d2 \in Nat : d = hist.drops /\ d2 = hist'.drops
    BY SnapshotDrops
<1>2. PICK l \in Nat : l = Len(out)
    BY SnapshotDrops
<1>3. ASSUME NEW i \in 1 .. l, LastBears(out, i) PROVE MessageShows(out[i], d2, queued', n)
    <2>1. MessageShows(out[i], d, queued, n) /\ DropsBelow(out[i], d)
        BY <1>1, <1>2, <1>3 DEF Shows, OutShows, DropsInv
    <2>2. IsSnapshot(out[i]) => out[i].snap.drops \in Nat
        BY <1>2, SnapshotDrops
    <2>3. CountIs(queued, n) => CountIs(queued', n) \/ d < d2
        BY <1>1 DEF CountKept
    <2> QED
        BY <1>1, <2>1, <2>2, <2>3, MessageStaysShown
<1>4. OutShows(out, d2, queued', n)
    BY <1>2, <1>3 DEF OutShows
<1>5. OutShows(out', d2, queued', n) /\ (NoneBears(out') <=> NoneBears(out))
    BY <1>4, SnapshotDrops, FollowShows
<1>6. ASSUME NoneBears(out) PROVE AppShows(app', hist'.overlap, queued', channel', n)
    BY <1>6 DEF Shows, AppShows, CountKept
<1> QED
    BY <1>1, <1>5, <1>6 DEF Shows

(***************************************************************************)
(* Steps that leave the queue and what the application shows alone: a      *)
(* snapshot they send has the count of the room, and either the count      *)
(* stays or the executor will look at it.                                  *)
(***************************************************************************)
OwnWord(m) ==
    /\ m.t # "unread"
    /\ IsSnapshot(m) => m.snap.unread = room.unread /\ m.snap.drops = hist.drops

SameCount ==
    /\ hist'.drops = hist.drops /\ hist'.overlap = hist.overlap /\ hist'.zeroed = hist.zeroed

OutOwn(F) ==
    \/ UNCHANGED out
    \/ \E m \in Messages(F) : out' = Append(out, m) /\ OwnWord(m)
    \/ \E r \in Requests : request[r].kind = "reply" /\ out' = Append(out, request[r].msg)

RequestsOwn ==
    \A r \in Requests : \/ request'[r] = request[r]
                        \/ request'[r].kind # "reply"
                        \/ OwnWord(request'[r].msg)

CountStays ==
    JoinedIn(room') /\ ~Due' => JoinedIn(room) /\ ~Due /\ room'.unread = room.unread

CountAside(F) ==
    /\ UNCHANGED <<app, queued>> /\ SameCount
    /\ Replays(channel) => Replays(channel')
    /\ OutOwn(F) /\ RequestsOwn /\ StreamInv' /\ CountStays

(* The snapshots stay below the number of replays.                         *)
LEMMA DropsAppend ==
    ASSUME NEW F, NEW o \in Seq(Messages(F)), NEW m \in Messages(F), NEW d, DropsBelow(m, d),
           \A i \in 1 .. Len(o) : DropsBelow(o[i], d)
    PROVE  \A i \in 1 .. Len(Append(o, m)) : DropsBelow(Append(o, m)[i], d)
<1>1. /\ Append(o, m) \in Seq(Messages(F)) /\ Len(Append(o, m)) = Len(o) + 1 /\ Len(o) \in Nat
      /\ \A i \in 1 .. Len(o) + 1 :
           (i \in 1 .. Len(o) /\ Append(o, m)[i] = o[i]) \/ Append(o, m)[i] = m
    OBVIOUS
<1> QED
    BY <1>1

(* Such a step keeps the snapshots below the number of replays ...         *)
LEMMA AsideDrops ==
    ASSUME NEW F, Types(F), CountAside(F), DropsInv
    PROVE  DropsInv'
<1>1. hist'.drops = hist.drops /\ hist.drops \in Nat /\ out \in Seq(Messages(F))
    BY SnapshotDrops DEF CountAside, SameCount
<1>2. ASSUME NEW m, OwnWord(m) PROVE DropsBelow(m, hist.drops)
    BY <1>1, <1>2 DEF OwnWord, DropsBelow
<1>3. ASSUME NEW m \in Messages(F), out' = Append(out, m), DropsBelow(m, hist.drops)
      PROVE  \A i \in 1 .. Len(out') : DropsBelow(out'[i], hist.drops)
    BY <1>1, <1>3, DropsAppend DEF DropsInv
<1>4. \A i \in 1 .. Len(out') : DropsBelow(out'[i], hist.drops)
    <2>1. CASE UNCHANGED out
        BY <2>1 DEF DropsInv
    <2>2. ASSUME NEW m \in Messages(F), out' = Append(out, m), OwnWord(m)
          PROVE  \A i \in 1 .. Len(out') : DropsBelow(out'[i], hist.drops)
        BY <1>2, <1>3, <2>2
    <2>3. ASSUME NEW r \in Requests, request[r].kind = "reply", out' = Append(out, request[r].msg)
          PROVE  \A i \in 1 .. Len(out') : DropsBelow(out'[i], hist.drops)
        BY <1>3, <2>3, SnapshotDrops DEF DropsInv
    <2> QED
        BY <2>1, <2>2, <2>3 DEF CountAside, OutOwn
<1>5. ASSUME NEW r \in Requests, request'[r].kind = "reply"
      PROVE  DropsBelow(request'[r].msg, hist.drops)
    BY <1>2, <1>5 DEF CountAside, RequestsOwn, DropsInv
<1> QED
    BY <1>1, <1>4, <1>5 DEF DropsInv

(* ... and what will be shown, if the message it sends shows it.           *)
LEMMA AsideShows ==
    ASSUME NEW F, Types(F), CountAside(F), NEW n, Shows(out, app, hist, queued, channel, n),
           NEW m \in Messages(F), MessageShows(m, hist.drops, queued, n),
           UNCHANGED out \/ out' = Append(out, m)
    PROVE  Shows(out', app', hist', queued', channel', n)
<1>1. /\ UNCHANGED <<app, queued>> /\ hist'.drops = hist.drops /\ hist'.overlap = hist.overlap
      /\ Replays(channel) => Replays(channel')
    BY DEF CountAside, SameCount
<1>2. out \in Seq(Messages(F))
    BY SnapshotDrops
<1>3. OutShows(out', hist.drops, queued, n) /\ (NoneBears(out') => NoneBears(out))
    <2>1. PICK d, q : d = hist.drops /\ q = queued
        OBVIOUS
    <2>2. OutShows(out, d, q, n) /\ MessageShows(m, d, q, n)
        BY <2>1 DEF Shows
    <2>3. OutShows(Append(out, m), d, q, n) /\ (NoneBears(Append(out, m)) => NoneBears(out))
        BY <1>2, <2>2, AppendShows
    <2>4. CASE UNCHANGED out
        BY <2>1, <2>2, <2>4
    <2>5. CASE out' = Append(out, m)
        BY <2>1, <2>3, <2>5
    <2> QED
        BY <2>4, <2>5
<1>4. NoneBears(out) => AppShows(app, hist.overlap, queued, channel', n)
    BY <1>1 DEF Shows, AppShows
<1>5. NoneBears(out') => AppShows(app', hist'.overlap, queued', channel', n)
    BY <1>1, <1>3, <1>4
<1> QED
    BY <1>1, <1>3, <1>5 DEF Shows

(* What the message of such a step shows: the count of the queue, and the  *)
(* count of the room.                                                      *)
LEMMA OwnShows ==
    ASSUME NEW F, Types(F), NEW m, m.t # "unread", NEW n
    PROVE  /\ CountIs(queued, n) => MessageShows(m, hist.drops, queued, n)
           /\ OwnWord(m) => MessageShows(m, hist.drops, queued, room.unread)
BY DEF MessageShows, SnapShows, OwnWord

(* Steps aside keep the invariant of the count.                            *)
LEMMA AsideCount ==
    ASSUME NEW F, Types(F), CountAside(F), CountInv
    PROVE  CountInv'
<1>1. /\ UNCHANGED <<app, queued>> /\ hist'.drops = hist.drops /\ hist'.overlap = hist.overlap
      /\ hist'.zeroed = hist.zeroed /\ OutOwn(F) /\ RequestsOwn /\ StreamInv' /\ CountStays
    BY DEF CountAside, SameCount
<1>2. DropsInv /\ QueuedInv /\ CurrentInv
    BY DEF CountInv
<1>3. PICK m \in Messages(F) :
         /\ UNCHANGED out \/ out' = Append(out, m)
         /\ m.t # "unread"
         /\ OwnWord(m) \/ \E r \in Requests : request[r].kind = "reply" /\ m = request[r].msg
    <2>1. CASE UNCHANGED out
        <3>1. PICK m : m = [t |-> "invited"]
            OBVIOUS
        <3>2. m \in Messages(F) /\ OwnWord(m)
            BY <3>1, MessageTypes DEF OwnWord, IsSnapshot
        <3> QED
            BY <2>1, <3>2 DEF OwnWord
    <2>2. ASSUME NEW m \in Messages(F), out' = Append(out, m), OwnWord(m)
          PROVE  \E x \in Messages(F) : 
                   /\ UNCHANGED out \/ out' = Append(out, x)
                   /\ x.t # "unread"
                   /\ OwnWord(x) \/ \E r \in Requests : request[r].kind = "reply" /\ x = request[r].msg
        BY <2>2 DEF OwnWord
    <2>3. ASSUME NEW r \in Requests, request[r].kind = "reply", out' = Append(out, request[r].msg)
          PROVE  \E x \in Messages(F) : 
                   /\ UNCHANGED out \/ out' = Append(out, x)
                   /\ x.t # "unread"
                   /\ OwnWord(x) \/ \E s \in Requests : request[s].kind = "reply" /\ x = request[s].msg
        BY <2>3, SnapshotDrops
    <2> QED
        BY <1>1, <2>1, <2>2, <2>3 DEF OutOwn
<1>4. QueuedInv'
    <2> SUFFICES ASSUME NEW n \in Nat, CountIs(queued', n), ~hist'.zeroed
                 PROVE  Shows(out', app', hist', queued', channel', n)
        BY DEF QueuedInv
    <2>1. CountIs(queued, n) /\ Shows(out, app, hist, queued, channel, n)
        BY <1>1, <1>2 DEF QueuedInv
    <2>2. MessageShows(m, hist.drops, queued, n)
        BY <1>3, <2>1, OwnShows
    <2> QED
        BY <1>3, <2>1, <2>2, AsideShows
<1>5. CurrentInv'
    <2> SUFFICES ASSUME JoinedIn(room'), ~hist'.zeroed, ~Due' PROVE Current(room.unread)'
        BY DEF CurrentInv
    <2>1. Current(room.unread) /\ room'.unread = room.unread
        BY <1>1, <1>2 DEF CountStays, CurrentInv
    <2>2. PICK n : n = room.unread
        OBVIOUS
    <2>3. /\ Shows(out, app, hist, queued, channel, n) /\ (HasCount(queued) => CountIs(queued, n))
          /\ \A r \in Requests : ReplyShows(request[r], hist.drops, queued, n)
        BY <2>1, <2>2 DEF Current
    <2>4. MessageShows(m, hist.drops, queued, n)
        BY <1>3, <2>2, <2>3, OwnShows DEF ReplyShows
    <2>5. Shows(out', app', hist', queued', channel', n)
        BY <1>3, <2>3, <2>4, AsideShows
    <2>6. ASSUME NEW r \in Requests PROVE ReplyShows(request'[r], hist'.drops, queued', n)
        <3>1. CASE request'[r] = request[r]
            BY <1>1, <2>3, <3>1
        <3>2. CASE request'[r].kind # "reply"
            BY <3>2 DEF ReplyShows
        <3>3. CASE OwnWord(request'[r].msg)
            <4>1. MessageShows(request'[r].msg, hist.drops, queued, n)
                BY <2>2, <3>3, OwnShows DEF OwnWord
            <4> QED
                BY <1>1, <4>1 DEF ReplyShows
        <3> QED
            BY <1>1, <3>1, <3>2, <3>3 DEF RequestsOwn
    <2>7. HasCount(queued') => CountIs(queued', n)
        BY <1>1, <2>3
    <2>8. n = room'.unread
        BY <2>1, <2>2
    <2> QED
        BY <2>5, <2>6, <2>7, <2>8 DEF Current
<1> QED
    BY <1>1, <1>2, <1>4, <1>5, AsideDrops DEF CountInv

(* A sequence that one element is added to or taken from.                  *)
LEMMA ComesAppend ==
    ASSUME NEW S, NEW s \in Seq(S), NEW x
    PROVE  /\ Replays(s) \/ x.t = "discovered" => Replays(Append(s, x))
           /\ UpdateComes(s) \/ x.t = "update" => UpdateComes(Append(s, x))
           /\ JoinComes(s) \/ Joins(x) => JoinComes(Append(s, x))
<1>1. PICK n \in Nat : n = Len(s)
    OBVIOUS
<1>2. PICK p : p = Append(s, x)
    OBVIOUS
<1>3. /\ Len(p) = n + 1 /\ p[n + 1] = x /\ n + 1 \in 1 .. n + 1
      /\ \A i \in 1 .. n : i \in 1 .. n + 1 /\ p[i] = s[i]
    BY <1>1, <1>2
<1>4. Replays(s) \/ x.t = "discovered" => Replays(p)
    BY <1>1, <1>3 DEF Replays
<1>5. UpdateComes(s) \/ x.t = "update" => UpdateComes(p)
    BY <1>1, <1>3 DEF UpdateComes
<1>6. JoinComes(s) \/ Joins(x) => JoinComes(p)
    BY <1>1, <1>3 DEF JoinComes
<1> QED
    BY <1>2, <1>4, <1>5, <1>6

(* The first action is taken.                                              *)
LEMMA ComesTail ==
    ASSUME NEW S, NEW s \in Seq(S), s # <<>>
    PROVE  /\ Replays(s) => Head(s).t = "discovered" \/ Replays(Tail(s))
           /\ UpdateComes(s) => Head(s).t = "update" \/ UpdateComes(Tail(s))
<1>1. PICK n \in Nat : n = Len(s)
    OBVIOUS
<1>2. PICK p : p = Tail(s)
    OBVIOUS
<1>3. /\ n > 0 /\ Len(p) = n - 1 /\ Head(s) = s[1]
      /\ \A i \in 1 .. n : i = 1 \/ (i - 1 \in 1 .. n - 1 /\ p[i - 1] = s[i])
    BY <1>1, <1>2
<1>4. Replays(s) => Head(s).t = "discovered" \/ Replays(p)
    BY <1>1, <1>3 DEF Replays
<1>5. UpdateComes(s) => Head(s).t = "update" \/ UpdateComes(p)
    BY <1>1, <1>3 DEF UpdateComes
<1> QED
    BY <1>2, <1>4, <1>5

(* The channel, when no update and no replay is taken.                     *)
ChannelGoesOn ==
    \/ UNCHANGED channel
    \/ \E x : channel' = Append(channel, x)
    \/ /\ channel # <<>> /\ Head(channel).t \notin {"update", "discovered"}
       /\ channel' = Tail(channel)

(* Such a step leaves what is due.                                         *)
LEMMA DueStays ==
    ASSUME NEW F, Types(F), UNCHANGED pending \/ \E e : Record(e), UNCHANGED stream, ChannelGoesOn
    PROVE  /\ Replays(channel) => Replays(channel')
           /\ Due => Due'
<1>1. channel \in Seq(Actions(F)) /\ pending \in Seq(Events(F))
    BY DEF Types, ChannelTypes, HomeTypes
<1>2. /\ Replays(channel) => Replays(channel')
      /\ UpdateComes(channel) => UpdateComes(channel')
    <2>1. CASE UNCHANGED channel
        BY <2>1
    <2>2. ASSUME NEW x, channel' = Append(channel, x)
          PROVE  /\ Replays(channel) => Replays(channel')
                 /\ UpdateComes(channel) => UpdateComes(channel')
        BY <1>1, <2>2, ComesAppend
    <2>3. CASE /\ channel # <<>> /\ Head(channel).t \notin {"update", "discovered"}
               /\ channel' = Tail(channel)
        BY <1>1, <2>3, ComesTail
    <2> QED
        BY <2>1, <2>2, <2>3 DEF ChannelGoesOn
<1>3. JoinComes(pending) => JoinComes(pending')
    <2>1. ASSUME NEW e, Record(e) PROVE JoinComes(pending) => JoinComes(pending')
        BY <1>1, <2>1, ComesAppend DEF Record
    <2> QED
        BY <2>1
<1> QED
    BY <1>2, <1>3 DEF Due

(* Most steps aside.                                                       *)
LEMMA AsideMade ==
    ASSUME NEW F, Types(F), StreamInv, UNCHANGED <<app, queued, room, stream>>, SameCount,
           UNCHANGED pending \/ \E e : Record(e), ChannelGoesOn, OutOwn(F), RequestsOwn
    PROVE  CountAside(F)
<1>1. StreamInv'
    BY DEF StreamInv
<1>2. (Replays(channel) => Replays(channel')) /\ (Due => Due')
    BY DueStays
<1>3. CountStays
    BY <1>2 DEF CountStays, JoinedIn
<1> QED
    BY <1>1, <1>2, <1>3 DEF CountAside

(* The homeserver, the clock, markers that are cached without a word and   *)
(* the handlers.                                                           *)
LEMMA OutsideAside ==
    ASSUME NEW F, Types(F), StreamInv, Homeserver \/ Expire \/ CacheSilently \/ Handle
    PROVE  CountAside(F)
<1>1. /\ UNCHANGED <<room, app, out, request, queued, stream>>
      /\ \/ UNCHANGED hist
         \/ \E x : hist' = [hist EXCEPT !.silent = x]
         \/ \E y : hist' = [hist EXCEPT !.skipped = y]
         \/ \E y, z : hist' = [hist EXCEPT !.skipped = y, !.untold = z]
    BY DEF Homeserver, Expire, CacheSilently, Handle
<1>2. SameCount
    BY <1>1 DEF SameCount, Types, HistTypes, Hist
<1>3. UNCHANGED pending \/ \E e : Record(e)
    BY DEF Homeserver, OtherChanges, Change, Expire, CacheSilently, Handle
<1>4. ChannelGoesOn
    BY DEF Homeserver, Expire, CacheSilently, Handle, ChannelGoesOn
<1>5. OutOwn(F) /\ RequestsOwn
    BY <1>1 DEF OutOwn, RequestsOwn
<1> QED
    BY <1>1, <1>2, <1>3, <1>4, <1>5, AsideMade

(* The task of a stream: an update goes into the channel.                  *)
LEMMA ForwardAside ==
    ASSUME NEW F, Types(F), StreamInv, NEW s \in {"updates", "generic"}, Forward(s)
    PROVE  CountAside(F)
<1>1. /\ UNCHANGED <<room, app, out, request, queued, hist, pending>>
      /\ stream \in [{"updates", "generic"} -> Stream] /\ channel \in Seq(Actions(F))
      /\ stream[s].q # <<>>
    BY DEF Forward, Types, HandlerTypes, ChannelTypes
<1>2. SameCount /\ OutOwn(F) /\ RequestsOwn
    BY <1>1 DEF SameCount, OutOwn, RequestsOwn
<1>3. PICK w, w2 : w = stream["updates"] /\ w2 = stream'["updates"]
    OBVIOUS
<1>4. /\ w \in Stream /\ w.q \in Seq(StreamActions) /\ (w.open \/ w.lagged)
      /\ \A i \in 1 .. Len(w.q) : w.q[i].t = "update"
    BY <1>1, <1>3 DEF StreamInv, Stream
<1>5. Replays(channel) => Replays(channel')
    <2>1. UNCHANGED channel \/ \E x : channel' = Append(channel, x)
        BY DEF Forward
    <2> QED
        BY <1>1, <2>1, ComesAppend
<1>6. UpdateComes(channel) => UpdateComes(channel')
    <2>1. UNCHANGED channel \/ \E x : channel' = Append(channel, x)
        BY DEF Forward
    <2> QED
        BY <1>1, <2>1, ComesAppend
<1>7. /\ w2.open \/ w2.lagged
      /\ \A i \in 1 .. Len(w2.q) : w2.q[i].t = "update"
      /\ w.lagged => w2.lagged
      /\ w.q # <<>> => w2.q # <<>> \/ w2.lagged \/ UpdateComes(channel')
    <2>1. CASE s = "generic"
        <3>1. w2 = w
            BY <1>1, <1>3, <2>1 DEF Forward
        <3> QED
            BY <1>4, <3>1
    <2>2. CASE s = "updates" /\ w.lagged
        <3>1. w2 = [w EXCEPT !.open = FALSE, !.q = <<>>]
            BY <1>1, <1>3, <2>2 DEF Forward
        <3>2. w2.lagged /\ w2.q = <<>> /\ Len(w2.q) = 0
            BY <1>4, <2>2, <3>1 DEF Stream
        <3> QED
            BY <3>2
    <2>3. CASE s = "updates" /\ ~w.lagged
        <3>1. w2 = [w EXCEPT !.q = Tail(@)] /\ channel' = Append(channel, Head(w.q)) /\ w.q # <<>>
            BY <1>1, <1>3, <2>3 DEF Forward
        <3>2. w2.open = w.open /\ w2.lagged = w.lagged /\ w2.q = Tail(w.q)
            BY <1>4, <3>1 DEF Stream
        <3>3. PICK q, p, n : q = w.q /\ p = Tail(q) /\ n = Len(q)
            OBVIOUS
        <3>4. /\ n \in Nat /\ n > 0 /\ 1 \in 1 .. n /\ Head(q) = q[1] /\ Len(p) = n - 1
              /\ \A i \in 1 .. n - 1 : i + 1 \in 1 .. n /\ p[i] = q[i + 1]
            BY <1>4, <3>1, <3>3
        <3>5. Head(q).t = "update" /\ \A i \in 1 .. n - 1 : p[i].t = "update"
            BY <1>4, <3>3, <3>4
        <3>6. UpdateComes(channel')
            BY <1>1, <3>1, <3>3, <3>5, ComesAppend
        <3> QED
            BY <1>4, <3>2, <3>3, <3>4, <3>5, <3>6
    <2> QED
        BY <2>1, <2>2, <2>3
<1>8. StreamInv'
    BY <1>3, <1>7 DEF StreamInv
<1>9. CountStays
    <2>1. Due => Due'
        BY <1>1, <1>3, <1>6, <1>7 DEF Due
    <2> QED
        BY <1>1, <2>1 DEF CountStays
<1> QED
    BY <1>1, <1>2, <1>5, <1>8, <1>9 DEF CountAside

(* Messages without a count, and the snapshot that is taken.               *)
LEMMA OwnWords ==
    ASSUME NEW F \in FieldSets, Types(F)
    PROVE  /\ \A m : m.t \notin {"unread", "room", "list"} => OwnWord(m)
           /\ OwnWord([t |-> "list", snap |-> None])
           /\ \A s : s = Snapshot => /\ [t |-> "room", snap |-> s] \in Messages(F)
                                     /\ OwnWord([t |-> "room", snap |-> s])
                                     /\ OwnWord([t |-> "list", snap |-> s])
<1>1. \A m : m.t \notin {"unread", "room", "list"} => OwnWord(m)
    BY DEF OwnWord, IsSnapshot
<1>2. OwnWord([t |-> "list", snap |-> None])
    BY DEF OwnWord, IsSnapshot
<1>3. ASSUME NEW s, s = Snapshot, NEW t \in {"room", "list"} PROVE OwnWord([t |-> t, snap |-> s])
    <2>1. s.unread = room.unread /\ s.drops = hist.drops
        BY <1>3 DEF Snapshot
    <2>2. PICK m : m = [t |-> t, snap |-> s]
        OBVIOUS
    <2>3. m.t # "unread" /\ m.snap = s
        BY <2>2
    <2> QED
        BY <2>1, <2>2, <2>3 DEF OwnWord
<1>4. ASSUME NEW s, s = Snapshot PROVE [t |-> "room", snap |-> s] \in Messages(F)
    BY <1>4, SnapshotTypes, MessageTypes
<1> QED
    BY <1>1, <1>2, <1>3, <1>4

(* What the executor or a request sends.                                   *)
LEMMA OwnSends ==
    ASSUME NEW F, Types(F)
    PROVE  /\ UNCHANGED out \/ Sends(<<>>) => OutOwn(F)
           /\ \A m \in Messages(F) :
                OwnWord(m) /\ (Sends(<<m>>) \/ out' = Append(out, m)) => OutOwn(F)
<1>1. out \in Seq(Messages(F))
    BY SnapshotDrops
<1>2. Sends(<<>>) => UNCHANGED out
    BY <1>1 DEF Sends
<1>3. \A m \in Messages(F) : Sends(<<m>>) => out' = Append(out, m)
    BY <1>1 DEF Sends
<1> QED
    BY <1>2, <1>3 DEF OutOwn

(* What the executor leaves alone.                                         *)
LEMMA TakesAside ==
    ASSUME NEW F, Types(F), StreamInv, NEW t, t \notin {"update", "discovered"}, Takes(t),
           OutOwn(F), SameCount, UNCHANGED queued
    PROVE  CountAside(F)
<1>1. UNCHANGED <<room, app, request, pending, stream>> /\ ChannelGoesOn
    BY DEF Takes, ChannelGoesOn
<1>2. RequestsOwn
    BY <1>1 DEF RequestsOwn
<1> QED
    BY <1>1, <1>2, AsideMade

(* The executor, when it takes an action that is not about the count.      *)
LEMMA ExecCountAside ==
    ASSUME NEW F \in FieldSets, Types(F), StreamInv,
           ExecField \/ ExecOwn \/ ExecAny \/ ExecMessage
    PROVE  CountAside(F)
<1>1. hist \in Hist(F)
    BY DEF Types, HistTypes
<1>2. PICK a : a = Head(channel)
    OBVIOUS
<1>3. UNCHANGED queued
    BY DEF ExecField, ExecOwn, ExecAny, ExecMessage
<1>4. ASSUME NEW p \in Partial(F), Sends(<<[t |-> "fields", from |-> "executor", val |-> p]>>)
      PROVE  OutOwn(F)
    <2>1. PICK m : m = [t |-> "fields", from |-> "executor", val |-> p]
        OBVIOUS
    <2>2. m \in Messages(F) /\ OwnWord(m)
        BY <2>1, MessageTypes, OwnWords
    <2> QED
        BY <1>4, <2>1, <2>2, OwnSends
<1>5. CASE ExecField
    <2>1. Takes("field") /\ a.f \in F /\ a.v \in Nat
        BY <1>2, <1>5, TakesTypes, ActionForms DEF ExecField
    <2>2. PICK p : p = Only(a.f, Value(a))
        OBVIOUS
    <2>3. Value(a) \in Nat
        BY <2>1 DEF Value, Types, RoomTypes
    <2>4. p \in Partial(F)
        BY <2>1, <2>2, <2>3, PartialTypes
    <2>5. PICK p0 : p0 = Only(a.f, 0)
        OBVIOUS
    <2>6. p0 \in Partial(F)
        BY <2>1, <2>5, PartialTypes
    <2>7. /\ \/ Sends(<<[t |-> "fields", from |-> "executor", val |-> p]>>)
             \/ Sends(<<[t |-> "fields", from |-> "executor", val |-> p0]>>)
             \/ Sends(<<>>)
          /\ UNCHANGED hist \/ hist' = [hist EXCEPT !.skipped = @ \cup {a.f}]
        BY <1>2, <1>5, <2>2, <2>5 DEF ExecField
    <2>8. SameCount
        BY <1>1, <2>7 DEF SameCount, Hist
    <2>9. OutOwn(F)
        BY <1>4, <2>4, <2>6, <2>7, OwnSends
    <2> QED
        BY <1>3, <2>1, <2>8, <2>9, TakesAside
<1>6. CASE ExecOwn
    <2>1. /\ Takes("own") /\ a.k \in Nat
          /\ UNCHANGED hist \/ hist' = [hist EXCEPT !.untold = @ \cup {a.k}]
        BY <1>2, <1>6, TakesTypes, ActionForms DEF ExecOwn
    <2>2. SameCount
        BY <1>1, <2>1 DEF SameCount, Hist
    <2>3. PICK s, p : s = Snapshot /\ p = Restrict(room.val, Fields \cap {"members"})
        OBVIOUS
    <2>4. p \in Partial(F)
        <3>1. Fields = F /\ room.val \in [F -> Nat]
            BY FieldsAre DEF Types, RoomTypes
        <3> QED
            BY <2>3, <3>1, PartialTypes
    <2>5. \/ Sends(<<[t |-> "invited"]>>) \/ Sends(<<[t |-> "left", moves |-> a.k]>>)
          \/ Sends(<<[t |-> "room", snap |-> s]>>) \/ Sends(<<>>)
          \/ Sends(<<[t |-> "fields", from |-> "executor", val |-> p]>>)
        BY <1>2, <1>6, <2>3 DEF ExecOwn
    <2>6. OutOwn(F)
        <3>1. [t |-> "invited"] \in Messages(F) /\ OwnWord([t |-> "invited"])
            BY MessageTypes, OwnWords
        <3>2. PICK m : m = [t |-> "left", moves |-> a.k]
            OBVIOUS
        <3>3. m \in Messages(F) /\ OwnWord(m)
            BY <2>1, <3>2, MessageTypes, OwnWords
        <3>4. [t |-> "room", snap |-> s] \in Messages(F) /\ OwnWord([t |-> "room", snap |-> s])
            BY <2>3, OwnWords
        <3> QED
            BY <1>4, <2>4, <2>5, <3>1, <3>2, <3>3, <3>4, OwnSends
    <2> QED
        BY <1>3, <2>1, <2>2, <2>6, TakesAside
<1>7. CASE ExecAny
    <2>1. Takes("any") /\ a.u \in Users /\ a.ts \in Times
        BY <1>2, <1>7, TakesTypes, ActionForms DEF ExecAny
    <2>2. PICK m : m = [t |-> "markers", markers |-> [NoMarkers EXCEPT ![a.u] = a.ts]]
        OBVIOUS
    <2>3. m \in Messages(F) /\ m.t = "markers"
        BY <2>1, <2>2, MarkerTypes, MessageTypes
    <2>4. /\ Sends(<<m>>) \/ Sends(<<>>)
          /\ hist' = [hist EXCEPT !.silent = @ \ {a.u}] \/ hist' = [hist EXCEPT !.silent = @]
        BY <1>2, <1>7, <2>2 DEF ExecAny
    <2>5. SameCount
        BY <1>1, <2>4 DEF SameCount, Hist
    <2>6. OutOwn(F)
        BY <2>3, <2>4, OwnWords, OwnSends
    <2> QED
        BY <1>3, <2>1, <2>5, <2>6, TakesAside
<1>8. CASE ExecMessage
    <2>1. Takes("message") /\ UNCHANGED <<out, hist>>
        BY <1>8 DEF ExecMessage
    <2> QED
        BY <1>3, <2>1, OwnSends, TakesAside DEF SameCount
<1> QED
    BY <1>5, <1>6, <1>7, <1>8

(* What a request leaves alone when it begins or goes on as q.             *)
LEMMA RequestCountAside ==
    ASSUME NEW F, Types(F), StreamInv, NEW r \in Requests, NEW q, Begin(r, q) \/ GoesOn(r, q),
           q.kind = "reply" => OwnWord(q.msg), UNCHANGED room,
           UNCHANGED pending \/ \E e : Record(e), SameCount, OutOwn(F)
    PROVE  CountAside(F)
<1>1. UNCHANGED <<stream, channel, queued, app>> /\ request' = [request EXCEPT ![r] = q]
    BY DEF Begin, GoesOn
<1>2. request'[r] = q /\ \A s \in Requests : s # r => request'[s] = request[s]
    BY <1>1 DEF Types, RequestTypes
<1>3. RequestsOwn
    BY <1>2 DEF RequestsOwn
<1> QED
    BY <1>1, <1>3, AsideMade DEF ChannelGoesOn

(* A request that begins, unless it joins or leaves the room.              *)
LEMMA AsksCountAside ==
    ASSUME NEW F \in FieldSets, Types(F), StreamInv, NEW r \in Requests,
           GetRooms(r) \/ ChangeRoom(r) \/ PinOrInvite(r) \/ MarkAsRead(r) \/ FetchPage(r)
    PROVE  CountAside(F)
<1>1. /\ UNCHANGED <<room, out, hist>> /\ (UNCHANGED pending \/ \E e : Record(e))
    BY DEF GetRooms, ChangeRoom, PinOrInvite, MarkAsRead, FetchPage, Begin, Change
<1>2. OutOwn(F) /\ SameCount
    BY <1>1 DEF OutOwn, SameCount
<1>3. PICK q : Begin(r, q) /\ (q.kind = "reply" => OwnWord(q.msg))
    <2>1. CASE GetRooms(r)
        <3>1. PICK s : s = Snapshot
            OBVIOUS
        <3>2. \/ Begin(r, Answer([t |-> "list", snap |-> s]))
              \/ Begin(r, Answer([t |-> "list", snap |-> None]))
            BY <2>1, <3>1 DEF GetRooms
        <3>3. OwnWord([t |-> "list", snap |-> s]) /\ OwnWord([t |-> "list", snap |-> None])
            BY <3>1, OwnWords
        <3>4. \A m : Answer(m).msg = m
            BY DEF Answer
        <3> QED
            BY <3>2, <3>3, <3>4
    <2>2. CASE ChangeRoom(r)
        <3>1. PICK fs : Begin(r, [kind |-> "change", todo |-> fs, val |-> <<>>])
            BY <2>2 DEF ChangeRoom
        <3>2. [kind |-> "change", todo |-> fs, val |-> <<>>].kind # "reply"
            OBVIOUS
        <3> QED
            BY <3>1, <3>2
    <2>3. CASE PinOrInvite(r)
        <3>1. PICK f : Begin(r, [kind |-> "load", f |-> f])
            BY <2>3 DEF PinOrInvite
        <3>2. [kind |-> "load", f |-> f].kind # "reply"
            OBVIOUS
        <3> QED
            BY <3>1, <3>2
    <2>4. CASE MarkAsRead(r)
        BY <2>4 DEF MarkAsRead
    <2>5. CASE FetchPage(r)
        BY <2>5 DEF FetchPage
    <2> QED
        BY <2>1, <2>2, <2>3, <2>4, <2>5
<1> QED
    BY <1>1, <1>2, <1>3, RequestCountAside

(* The later steps of a request, except for mark_as_read.                  *)
LEMMA ProcessesCountAside ==
    ASSUME NEW F \in FieldSets, Types(F), StreamInv, NEW r \in Requests, Processes(r),
           ~MarkCached(r)
    PROVE  CountAside(F)
<1>1. hist \in Hist(F) /\ request[r] \in RequestStates(F)
    BY DEF Types, HistTypes, RequestTypes
<1>2. UNCHANGED room /\ (UNCHANGED pending \/ \E e : Record(e))
    BY DEF Processes, UploadAvatar, Assemble, ChangeField, VisibilityFails, NothingToRemove, Change,
       ChangeDone, LoadReply, load_and_cache_event_read_markers, update_read_markers,
       PageFails, Reply
<1>3. ASSUME NEW m \in Messages(F), m.t \in {"fields", "markers"}, out' = Append(out, m)
      PROVE  OutOwn(F)
    BY <1>3, OwnWords, OwnSends
<1>4. UNCHANGED out => OutOwn(F)
    BY DEF OutOwn
<1>5. ASSUME NEW q, GoesOn(r, q), q.kind # "reply", OutOwn(F), SameCount
      PROVE  CountAside(F)
    BY <1>2, <1>5, RequestCountAside
<1>6. Idle.kind # "reply" /\ (UNCHANGED hist => SameCount)
    BY DEF Idle, SameCount
<1>7. CASE UploadAvatar(r)
    <2>1. GoesOn(r, [kind |-> "joined"]) /\ UNCHANGED <<out, hist>>
        BY <1>7 DEF UploadAvatar
    <2>2. [kind |-> "joined"].kind # "reply"
        OBVIOUS
    <2> QED
        BY <1>4, <1>5, <1>6, <2>1, <2>2
<1>8. CASE Assemble(r)
    <2>1. OutOwn(F)
        BY <1>4, <1>8 DEF Assemble
    <2>2. PICK s : s = Snapshot
        OBVIOUS
    <2>3. PICK m : m = [t |-> "room", snap |-> s]
        OBVIOUS
    <2>4. OwnWord(m) /\ Answer(m).msg = m
        BY <2>2, <2>3, OwnWords DEF Answer
    <2>5. CASE GoesOn(r, Answer(m)) /\ UNCHANGED hist
        BY <1>2, <1>6, <2>1, <2>4, <2>5, RequestCountAside
    <2>6. CASE GoesOn(r, Idle) /\ hist' = [hist EXCEPT !.untold = @ \cup {hist.moves}]
        <3>1. SameCount
            BY <1>1, <2>6 DEF SameCount, Hist
        <3> QED
            BY <1>5, <1>6, <2>1, <2>6, <3>1
    <2> QED
        BY <1>8, <2>2, <2>3, <2>5, <2>6 DEF Assemble
<1>9. CASE ChangeField(r)
    <2>1. PICK f \in F :
             /\ request[r].kind = "change"
             /\ UNCHANGED <<room, cache, out, hist>>
             /\ \/ GoesOn(r, ChangedField(request[r], f))
                \/ GoesOn(r, PassedField(request[r], f))
                \/ GoesOn(r, Idle)
        BY <1>9, ChangeFieldSteps
    <2>2. request[r] \in ChangeRequests(F)
        BY <1>1, <2>1, RequestForms
    <2>3. ChangedField(request[r], f).kind # "reply" /\ PassedField(request[r], f).kind # "reply"
        BY <2>2 DEF ChangedField, PassedField, ChangeRequests
    <2> QED
        BY <1>4, <1>5, <1>6, <2>1, <2>3
<1>10. CASE ChangeDone(r)
    <2>1. PICK p : p = request[r].val
        OBVIOUS
    <2>2. /\ request[r].kind = "change" /\ GoesOn(r, Idle) /\ UNCHANGED hist
          /\ out' = Append(out, [t |-> "fields", from |-> "request", val |-> p])
        BY <1>10, <2>1 DEF ChangeDone
    <2>3. p \in Partial(F)
        BY <1>1, <2>1, <2>2, RequestForms
    <2>4. PICK m : m = [t |-> "fields", from |-> "request", val |-> p]
        OBVIOUS
    <2>5. m \in Messages(F) /\ m.t = "fields"
        BY <2>3, <2>4, MessageTypes
    <2> QED
        BY <1>3, <1>5, <1>6, <2>2, <2>4, <2>5
<1>11. CASE LoadReply(r)
    <2>1. PICK f : f = request[r].f
        OBVIOUS
    <2>2. request[r].kind = "load" /\ GoesOn(r, Idle) /\ UNCHANGED hist
        BY <1>11 DEF LoadReply
    <2>3. f \in F /\ room.val[f] \in Nat /\ server.val[f] \in Nat
        BY <1>1, <2>1, <2>2, RequestForms DEF Types, RoomTypes, HomeTypes
    <2>4. \/ \E v \in Nat : out' = Append(out, [t |-> "fields", from |-> "request", val |-> Only(f, v)])
          \/ UNCHANGED out
        BY <1>11, <2>1, <2>3 DEF LoadReply
    <2>5. ASSUME NEW v \in Nat, out' = Append(out, [t |-> "fields", from |-> "request", val |-> Only(f, v)])
          PROVE  OutOwn(F)
        <3>1. PICK m : m = [t |-> "fields", from |-> "request", val |-> Only(f, v)]
            OBVIOUS
        <3>2. m \in Messages(F) /\ m.t = "fields"
            BY <2>3, <3>1, PartialTypes, MessageTypes
        <3> QED
            BY <1>3, <2>5, <3>1, <3>2
    <2> QED
        BY <1>4, <1>5, <1>6, <2>2, <2>4, <2>5
<1>12. CASE load_and_cache_event_read_markers(r)
    <2>1. PICK q : q = [request[r] EXCEPT !.kind = "loaded"]
        OBVIOUS
    <2>2. request[r].kind = "page" /\ GoesOn(r, q) /\ UNCHANGED <<out, hist>>
        BY <1>12, <2>1 DEF load_and_cache_event_read_markers
    <2>3. q.kind = "loaded"
        BY <1>1, <2>1, <2>2, RequestForms DEF PageRequests
    <2> QED
        BY <1>4, <1>5, <1>6, <2>2, <2>3
<1>13. CASE update_read_markers(r)
    <2>1. /\ GoesOn(r, Idle)
          /\ \/ UNCHANGED <<out, hist>>
             \/ /\ out' = Append(out, [t |-> "markers", markers |-> cache.markers])
                /\ hist' = [hist EXCEPT !.silent = {}]
        BY <1>13 DEF update_read_markers
    <2>2. SameCount
        BY <1>1, <2>1 DEF SameCount, Hist
    <2>3. PICK m : m = [t |-> "markers", markers |-> cache.markers]
        OBVIOUS
    <2>4. m \in Messages(F) /\ m.t = "markers"
        BY <2>3, MessageTypes DEF Types, CacheTypes
    <2> QED
        BY <1>3, <1>4, <1>5, <1>6, <2>1, <2>2, <2>3, <2>4
<1>14. CASE PageFails(r)
    <2>1. GoesOn(r, Idle) /\ UNCHANGED out /\ \E x : hist' = [hist EXCEPT !.silent = x]
        BY <1>14 DEF PageFails
    <2>2. SameCount
        BY <1>1, <2>1 DEF SameCount, Hist
    <2> QED
        BY <1>4, <1>5, <1>6, <2>1, <2>2
<1>15. CASE Reply(r)
    <2>1. /\ request[r].kind = "reply" /\ GoesOn(r, Idle) /\ out' = Append(out, request[r].msg)
          /\ UNCHANGED hist
        BY <1>15 DEF Reply
    <2>2. OutOwn(F)
        BY <2>1 DEF OutOwn
    <2> QED
        BY <1>5, <1>6, <2>1, <2>2
<1> QED
    BY <1>7, <1>8, <1>9, <1>10, <1>11, <1>12, <1>13, <1>14, <1>15 DEF Processes

(* mark_as_read: the count it sends is excepted.                           *)
LEMMA MarkCachedCount ==
    ASSUME NEW F, Types(F), CountInv, NEW r \in Requests, MarkCached(r)
    PROVE  CountInv'
<1>1. /\ out' = Append(out, [t |-> "unread", n |-> 0]) /\ GoesOn(r, Idle)
      /\ hist' = [hist EXCEPT !.zeroed = TRUE]
    BY DEF MarkCached
<1>2. hist'.zeroed /\ hist'.drops = hist.drops
    BY <1>1 DEF Types, HistTypes, Hist
<1>3. /\ UNCHANGED stream
      /\ \A s \in Requests : request'[s] = request[s] \/ request'[s].kind # "reply"
    BY <1>1 DEF GoesOn, Types, RequestTypes, Idle
<1>4. DropsInv'
    <2>1. PICK m : m = [t |-> "unread", n |-> 0]
        OBVIOUS
    <2>2. m \in Messages(F) /\ DropsBelow(m, hist.drops)
        BY <2>1, MessageTypes DEF DropsBelow, IsSnapshot
    <2>3. \A i \in 1 .. Len(out) : DropsBelow(out[i], hist.drops)
        BY DEF CountInv, DropsInv
    <2>4. out' = Append(out, m)
        BY <1>1, <2>1
    <2>5. \A i \in 1 .. Len(out') : DropsBelow(out'[i], hist.drops)
        BY <2>2, <2>3, <2>4, DropsAppend, SnapshotDrops
    <2> QED
        BY <1>2, <1>3, <2>5 DEF CountInv, DropsInv
<1>5. StreamInv'
    BY <1>3 DEF CountInv, StreamInv
<1> QED
    BY <1>2, <1>4, <1>5 DEF CountInv, QueuedInv, CurrentInv

(* A request joins the room, which an update will follow, or leaves it.    *)
LEMMA MoveCountAside ==
    ASSUME NEW F, Types(F), StreamInv, NEW r \in Requests, JoinRoom(r) \/ LeaveRoom(r)
    PROVE  CountAside(F)
<1>1. PICK m, q :
         /\ m \in DOMAIN Moves /\ Move(m) /\ Begin(r, q)
         /\ q.kind = "reply" => q.msg.t = "left"
         /\ m \in {"Joined", "InvitationAccepted", "Left", "InvitationRejected"}
    <2>1. CASE JoinRoom(r)
        <3>1. [kind |-> "join"].kind # "reply"
            OBVIOUS
        <3> QED
            BY <2>1, <3>1, MoveTypes DEF JoinRoom
    <2>2. CASE LeaveRoom(r)
        <3>1. \E m \in DOMAIN Moves : Move(m) /\ m \in {"Left", "InvitationRejected"}
            BY <2>2, MoveTypes DEF LeaveRoom
        <3>2. \E q : Begin(r, q) /\ (q.kind = "reply" => q.msg.t = "left")
            <4>1. PICK k : Begin(r, Answer([t |-> "left", moves |-> k])) \/ Begin(r, Idle)
                BY <2>2 DEF LeaveRoom
            <4>2. Answer([t |-> "left", moves |-> k]).msg.t = "left" /\ Idle.kind # "reply"
                BY DEF Answer, Idle
            <4> QED
                BY <4>1, <4>2
        <3> QED
            BY <3>1, <3>2
    <2> QED
        BY <2>1, <2>2
<1>2. /\ UNCHANGED <<stream, channel, queued, out, app>> /\ request' = [request EXCEPT ![r] = q]
    BY <1>1 DEF Begin
<1>3. RequestsOwn
    <2>1. request'[r] = q /\ \A s \in Requests : s # r => request'[s] = request[s]
        BY <1>2 DEF Types, RequestTypes
    <2>2. q.kind = "reply" => OwnWord(q.msg)
        BY <1>1 DEF OwnWord, IsSnapshot
    <2> QED
        BY <2>1, <2>2 DEF RequestsOwn
<1>4. SameCount
    <2>1. \E k : hist' = [hist EXCEPT !.moves = k]
        BY <1>1 DEF Move
    <2> QED
        BY <2>1 DEF SameCount, Types, HistTypes, Hist
<1>5. CountStays
    <2>1. room' = Moved(Moves[m].to) /\ Record([t |-> "own", m |-> m])
        BY <1>1 DEF Move
    <2>2. room'.member = Moves[m].to
        BY <2>1 DEF Moved, Types, RoomTypes
    <2>3. CASE m \in {"Left", "InvitationRejected"}
        <3>1. Moves[m].to = "left"
            BY <2>3 DEF Moves
        <3> QED
            BY <2>2, <3>1 DEF CountStays, JoinedIn
    <2>4. CASE m \in {"Joined", "InvitationAccepted"}
        <3>1. PICK e : e = [t |-> "own", m |-> m]
            OBVIOUS
        <3>2. Joins(e) /\ pending' = Append(pending, e) /\ pending \in Seq(Events(F))
            BY <2>1, <2>4, <3>1 DEF Joins, Record, Types, HomeTypes
        <3>3. JoinComes(pending')
            BY <3>2, ComesAppend
        <3> QED
            BY <3>3 DEF CountStays, Due
    <2> QED
        BY <1>1, <2>3, <2>4
<1>6. StreamInv' /\ OutOwn(F)
    BY <1>2 DEF StreamInv, OutOwn
<1> QED
    BY <1>2, <1>3, <1>4, <1>5, <1>6 DEF CountAside

(* What the stream keeps.                                                  *)
LEMMA PushCount ==
    ASSUME NEW s \in Stream, NEW x \in StreamActions, x.t = "update", s.open \/ s.lagged,
           \A i \in 1 .. Len(s.q) : s.q[i].t = "update", NEW w, w = Push(s, x)
    PROVE  /\ w.open \/ w.lagged
           /\ \A i \in 1 .. Len(w.q) : w.q[i].t = "update"
           /\ w.q # <<>> \/ w.lagged
<1>1. s.q \in Seq(StreamActions) /\ Len(s.q) \in Nat
    BY DEF Stream
<1>2. ASSUME NEW q \in Seq(StreamActions), \A i \in 1 .. Len(q) : q[i].t = "update"
      PROVE  Append(q, x) # <<>> /\ \A i \in 1 .. Len(Append(q, x)) : Append(q, x)[i].t = "update"
    <2>1. PICK p, n : p = Append(q, x) /\ n = Len(q)
        OBVIOUS
    <2>2. /\ n \in Nat /\ Len(p) = n + 1 /\ p[n + 1] = x /\ p # <<>>
          /\ \A i \in 1 .. n : p[i] = q[i]
          /\ \A i \in 1 .. n + 1 : i \in 1 .. n \/ i = n + 1
        BY <2>1
    <2>3. \A i \in 1 .. n + 1 : p[i].t = "update"
        BY <1>2, <2>1, <2>2
    <2> QED
        BY <2>1, <2>2, <2>3
<1>3. CASE ~s.open
    BY <1>3 DEF Push
<1>4. CASE s.open /\ Len(s.q) = StreamCapacity
    <2>1. PICK p : p = Tail(s.q)
        OBVIOUS
    <2>2. /\ p \in Seq(StreamActions) /\ Len(p) = Len(s.q) - 1
          /\ \A i \in 1 .. Len(s.q) - 1 : i + 1 \in 1 .. Len(s.q) /\ p[i] = s.q[i + 1]
        BY <1>1, <1>4, <2>1, Bounds
    <2>3. \A i \in 1 .. Len(p) : p[i].t = "update"
        BY <2>2
    <2>4. w = [s EXCEPT !.lagged = TRUE, !.q = Append(p, x)]
        BY <1>4, <2>1 DEF Push
    <2>5. w.lagged /\ w.q = Append(p, x)
        BY <2>4 DEF Stream
    <2> QED
        BY <1>2, <2>2, <2>3, <2>5
<1>5. CASE s.open /\ Len(s.q) # StreamCapacity
    <2>1. w = [s EXCEPT !.q = Append(@, x)]
        BY <1>5 DEF Push
    <2>2. w.open = s.open /\ w.q = Append(s.q, x)
        BY <2>1 DEF Stream
    <2> QED
        BY <1>1, <1>2, <1>5, <2>2
<1> QED
    BY <1>3, <1>4, <1>5

(* The sync loop receives an event: an update of the joined room follows.  *)
LEMMA SyncCountAside ==
    ASSUME NEW F, Types(F), StreamInv, Sync
    PROVE  CountAside(F)
<1>1. PICK e : e = Head(pending)
    OBVIOUS
<1>2. /\ UNCHANGED <<channel, queued, request, out, app>> /\ e \in Events(F)
      /\ \E k : hist' = [hist EXCEPT !.moves = k]
    <2>1. pending \in Seq(Events(F)) /\ pending # <<>>
        BY DEF Sync, Types, HomeTypes
    <2>2. UNCHANGED <<channel, queued, request, out, app>>
          /\ \E k : hist' = [hist EXCEPT !.moves = k]
        BY DEF Sync
    <2>3. e \in Events(F)
        BY <1>1, <2>1
    <2> QED
        BY <2>2, <2>3, Zenon
<1>3. SameCount /\ OutOwn(F) /\ RequestsOwn
    BY <1>2 DEF SameCount, Types, HistTypes, Hist, OutOwn, RequestsOwn
<1>4. PICK x : x = UpdateOf(e)
    OBVIOUS
<1>5. x \in StreamActions /\ x.t = "update"
    <2>1. x \in StreamActions
        BY <1>2, <1>4, SyncedTypes DEF Types
    <2> QED
        BY <1>4, <2>1 DEF UpdateOf
<1>6. PICK w, w2 : w = stream["updates"] /\ w2 = stream'["updates"]
    OBVIOUS
<1>7. /\ w \in Stream /\ (w.open \/ w.lagged) /\ \A i \in 1 .. Len(w.q) : w.q[i].t = "update"
      /\ stream \in [{"updates", "generic"} -> Stream]
    BY <1>6 DEF StreamInv, Types, HandlerTypes
<1>8. w2 = IF room'.member # "joined" THEN w ELSE Push(w, x)
    <2>1. DOMAIN stream = {"updates", "generic"}
        BY <1>7
    <2> QED
        BY <1>1, <1>4, <1>6, <2>1 DEF Sync
<1>9. StreamInv'
    BY <1>5, <1>6, <1>7, <1>8, PushCount DEF StreamInv
<1>10. CountStays
    <2>1. JoinedIn(room') => w2.q # <<>> \/ w2.lagged
        BY <1>5, <1>7, <1>8, PushCount DEF JoinedIn
    <2> QED
        BY <1>6, <2>1 DEF CountStays, Due
<1> QED
    BY <1>2, <1>3, <1>9, <1>10 DEF CountAside

(* Changes that are sent are no snapshots.                                 *)
LEMMA SendsDrops ==
    ASSUME NEW F, Types(F), DropsInv, NEW msgs \in Seq(Changes), Sends(msgs), UNCHANGED request,
           hist'.drops \in Nat, hist.drops <= hist'.drops
    PROVE  DropsInv'
<1>1. PICK d, d2 : d = hist.drops /\ d2 = hist'.drops
    OBVIOUS
<1>2. d \in Nat /\ d2 \in Nat /\ d <= d2 /\ out \in Seq(Messages(F))
    BY <1>1, SnapshotDrops
<1>3. \A m \in Messages(F) : DropsBelow(m, d) => DropsBelow(m, d2)
    BY <1>2, SnapshotDrops DEF DropsBelow
<1>4. \A m \in Changes : DropsBelow(m, d2)
    BY DEF DropsBelow, IsSnapshot, Changes, UnreadMessages, EphemeralMessages
<1>5. PICK k, l, w : k = Len(out) /\ l = Len(msgs) /\ w = out \o msgs
    OBVIOUS
<1>6. /\ k \in Nat /\ l \in Nat /\ Len(w) = k + l
      /\ \A i \in 1 .. k + l : \/ i \in 1 .. k /\ w[i] = out[i]
                               \/ i - k \in 1 .. l /\ w[i] = msgs[i - k]
    BY <1>2, <1>5
<1>7. ASSUME NEW i \in 1 .. k + l PROVE DropsBelow(w[i], d2)
    <2>1. CASE i \in 1 .. k /\ w[i] = out[i]
        BY <1>1, <1>2, <1>3, <1>5, <2>1 DEF DropsInv
    <2>2. CASE i - k \in 1 .. l /\ w[i] = msgs[i - k]
        BY <1>4, <1>5, <2>2
    <2> QED
        BY <1>6, <2>1, <2>2
<1>8. ASSUME NEW r \in Requests, request'[r].kind = "reply" PROVE DropsBelow(request'[r].msg, d2)
    BY <1>1, <1>3, <1>8, SnapshotDrops DEF DropsInv
<1>9. \A i \in 1 .. Len(out') : DropsBelow(out'[i], d2)
    BY <1>5, <1>6, <1>7 DEF Sends
<1> QED
    BY <1>1, <1>8, <1>9 DEF DropsInv

(* The executor has looked at the count: the queue has it, or lost it, in  *)
(* which case the snapshots of the requests count as overtaken.            *)
LEMMA LookedCount ==
    ASSUME NEW F, Types(F), Types(F)', DropsInv, StreamInv, UNCHANGED <<room, request, stream>>,
           NEW msgs \in Seq(Changes), Sends(msgs), hist.drops <= hist'.drops, NEW k, k = room.unread,
           \/ hist'.zeroed
           \/ /\ Shows(out', app', hist', queued', channel', k)
              /\ CountIs(queued', k) \/ (~HasCount(queued') /\ hist.drops < hist'.drops)
    PROVE  CountInv'
<1>1. PICK d, d2 : d = hist.drops /\ d2 = hist'.drops
    OBVIOUS
<1>2. d \in Nat /\ d2 \in Nat /\ k \in Nat /\ queued' \in Seq(Changes)
    BY <1>1, SnapshotDrops DEF Types, HistTypes, Hist, QueueTypes
<1>3. DropsInv' /\ StreamInv'
    BY <1>1, <1>2, SendsDrops DEF StreamInv
<1>4. CASE hist'.zeroed
    BY <1>3, <1>4 DEF CountInv, QueuedInv, CurrentInv
<1>5. CASE /\ Shows(out', app', hist', queued', channel', k)
           /\ CountIs(queued', k) \/ (~HasCount(queued') /\ d < d2)
    <2>1. QueuedInv'
        <3> SUFFICES ASSUME NEW n \in Nat, CountIs(queued', n)
                     PROVE  Shows(out', app', hist', queued', channel', n)
            BY DEF QueuedInv
        <3>1. HasCount(queued')
            BY DEF CountIs, HasCount
        <3>2. n = k
            BY <1>2, <1>5, <3>1, CountOne
        <3> QED
            BY <1>5, <3>2
    <2>2. ASSUME NEW r \in Requests PROVE ReplyShows(request'[r], d2, queued', k)
        <3> SUFFICES ASSUME request[r].kind = "reply"
                     PROVE  MessageShows(request[r].msg, d2, queued', k)
            BY DEF ReplyShows
        <3>1. PICK m : m = request[r].msg
            OBVIOUS
        <3>2. m \in Messages(F) /\ m.t # "unread" /\ DropsBelow(m, d)
            BY <1>1, <3>1, SnapshotDrops DEF DropsInv
        <3>3. IsSnapshot(m) => m.snap.drops \in Nat /\ m.snap.drops <= d
            BY <3>2, SnapshotDrops DEF DropsBelow
        <3> QED
            BY <1>2, <1>5, <3>1, <3>2, <3>3 DEF MessageShows, SnapShows
    <2>3. CurrentInv'
        <3>1. HasCount(queued') => CountIs(queued', k)
            BY <1>5
        <3>2. k = room'.unread
            OBVIOUS
        <3> QED
            BY <1>1, <1>5, <2>2, <3>1, <3>2 DEF CurrentInv, Current
    <2> QED
        BY <1>3, <2>1, <2>3 DEF CountInv
<1> QED
    BY <1>1, <1>4, <1>5

(* update_room_unread_count sends the count and tracks it, or the queue    *)
(* ends with it, unless it is withheld.                                    *)
LEMMA CountForms ==
    ASSUME NEW F, Types(F), NEW u, u = update_room_unread_count(queued), NEW k, k = room.unread
    PROVE  \/ /\ ~Withheld /\ CountIs(u.q, k)
              /\ \E c \in Changes : c.t = "unread" /\ c.n = k /\ u.send = <<c>>
           \/ u.send = <<>> /\ u.q = queued /\ (Withheld \/ CountIs(queued, k))
<1>1. PICK c : c = UnreadChange
    OBVIOUS
<1>2. c \in Changes /\ c.t = "unread" /\ c.n = k
    BY <1>1, MessageTypes, SnapshotDrops DEF UnreadChange
<1>3. queued \in Seq(Changes) /\ Len(queued) <= MaxQueued
    BY SnapshotDrops
<1>4. CASE ~Withheld /\ is_new_room_change(queued, c)
    <2>1. u.q = track_room_change(queued, c) /\ u.send = <<c>>
        BY <1>1, <1>4 DEF update_room_unread_count
    <2>2. PICK p : p = IF Len(queued) >= MaxQueued THEN Tail(queued) ELSE queued
        OBVIOUS
    <2>3. p \in Seq(Changes) /\ u.q = Append(p, c)
        BY <1>3, <2>1, <2>2, Bounds DEF track_room_change
    <2>4. u.q \in Seq(Changes) /\ u.q # <<>> /\ u.q[Len(u.q)] = c
        BY <1>2, <2>3
    <2> QED
        BY <1>2, <1>4, <2>1, <2>4, LastCount
<1>5. CASE ~(~Withheld /\ is_new_room_change(queued, c))
    <2>1. u.send = <<>> /\ u.q = queued
        BY <1>1, <1>5 DEF update_room_unread_count
    <2>2. ~Withheld => CountIs(queued, k)
        <3> SUFFICES ASSUME ~Withheld PROVE CountIs(queued, k)
            OBVIOUS
        <3>1. queued # <<>> /\ Last(queued) = c
            BY <1>5 DEF is_new_room_change
        <3>2. queued[Len(queued)] = c
            BY <3>1 DEF Last
        <3> QED
            BY <1>2, <1>3, <3>1, <3>2, LastCount
    <2> QED
        BY <2>1, <2>2
<1> QED
    BY <1>4, <1>5

(* The executor looks at the count, and tracks and sends c after it if it  *)
(* is new.                                                                 *)
LEMMA LookCount ==
    ASSUME NEW F, Types(F), Types(F)', CountInv, NEW u, u = update_room_unread_count(queued),
           NEW new \in BOOLEAN, NEW c \in EphemeralMessages,
           NEW t, t # "discovered", Takes(t),
           queued' = IF new THEN track_room_change(u.q, c) ELSE u.q,
           Sends(IF new THEN Append(u.send, c) ELSE u.send),
           hist'.drops = IF new /\ Evicts(u.q, c) THEN hist.drops + 1 ELSE hist.drops,
           u.send = <<>> /\ (hist.overlap \/ (new /\ Evicts(u.q, c) /\ Replays(channel)))
             => hist'.overlap,
           StillZeroed(u.send) => hist'.zeroed
    PROVE  CountInv'
<1>1. PICK k, d, d2 : k = room.unread /\ d = hist.drops /\ d2 = hist'.drops
    OBVIOUS
<1>2. /\ k \in Nat /\ d \in Nat /\ d2 \in Nat /\ d <= d2 /\ out \in Seq(Messages(F))
      /\ queued \in Seq(Changes) /\ Len(queued) <= MaxQueued
    BY <1>1, SnapshotDrops
<1>3. c \in Changes /\ c.t = "ephemeral" /\ ~Bears(c) /\ Changes \subseteq Messages(F)
    BY MessageTypes DEF EphemeralMessages, Changes, Bears, IsSnapshot
<1>4. /\ u.q \in Seq(Changes) /\ Len(u.q) <= MaxQueued /\ u.send \in Seq(Changes)
    BY CountTypes
<1>5. PICK msgs : msgs = IF new THEN Append(u.send, c) ELSE u.send
    OBVIOUS
<1>6. /\ msgs \in Seq(Changes) /\ msgs \in Seq(Messages(F)) /\ Sends(msgs)
      /\ out' = out \o msgs /\ UNCHANGED <<room, request, stream, app>>
    BY <1>3, <1>4, <1>5 DEF Sends, Takes
<1>7. CountIs(u.q, k) => \/ CountIs(queued', k)
                         \/ new /\ Evicts(u.q, c) /\ ~HasCount(queued') /\ d < d2
    BY <1>1, <1>2, <1>3, <1>4, TrackCount
<1>8. Replays(channel) => Replays(channel')
    <2>1. channel \in Seq(Actions(F)) /\ channel # <<>> /\ Head(channel).t = t
          /\ channel' = Tail(channel)
        BY DEF Takes, Types, ChannelTypes
    <2> QED
        BY <2>1, ComesTail
<1>9. DropsInv /\ StreamInv /\ QueuedInv
    BY DEF CountInv
<1>10. ASSUME NEW e \in Changes, e.t = "unread", e.n = k, u.send = <<e>>, CountIs(u.q, k)
       PROVE  CountInv'
    <2>1. Bears(e) /\ MessageShows(e, d2, queued', k) /\ e \in Messages(F)
        BY <1>3, <1>10 DEF Bears, MessageShows, IsSnapshot
    <2>2. PICK o : o = <<>>
        OBVIOUS
    <2>3. o \in Seq(Messages(F)) /\ <<e>> = Append(o, e)
        BY <2>2
    <2>4. ~NoneBears(<<e>>) /\ OutShows(<<e>>, d2, queued', k)
        <3>1. PICK q, p : q = queued' /\ p = Append(o, e)
            OBVIOUS
        <3>2. MessageShows(e, d2, q, k)
            BY <2>1, <3>1
        <3>3. ~NoneBears(p) /\ OutShows(p, d2, q, k)
            BY <2>1, <2>3, <3>1, <3>2, AppendShows
        <3> QED
            BY <2>3, <3>1, <3>3
    <2>5. ~NoneBears(msgs) /\ OutShows(msgs, d2, queued', k)
        <3>1. u.send \in Seq(Messages(F)) /\ c \in Messages(F)
            BY <1>3, <1>4
        <3>2. ~NoneBears(u.send) /\ OutShows(u.send, d2, queued', k)
            BY <1>10, <2>4
        <3>3. /\ ~NoneBears(Append(u.send, c)) /\ OutShows(Append(u.send, c), d2, queued', k)
            BY <1>3, <3>1, <3>2, AppendShows
        <3> QED
            BY <1>5, <3>2, <3>3
    <2>6. ~NoneBears(out') /\ OutShows(out', d2, queued', k)
        BY <1>2, <1>6, <2>5, FollowShows
    <2>7. Shows(out', app', hist', queued', channel', k)
        BY <1>1, <2>6 DEF Shows
    <2> QED
        BY <1>1, <1>2, <1>6, <1>7, <1>9, <1>10, <2>7, LookedCount
<1>11. ASSUME u.send = <<>>, u.q = queued, Withheld \/ CountIs(queued, k)
       PROVE  CountInv'
    <2>1. CASE hist'.zeroed
        BY <1>1, <1>2, <1>6, <1>9, <2>1, LookedCount
    <2>2. CASE ~hist'.zeroed
        <3>1. ~Withheld /\ ~hist.zeroed
            BY <1>11, <2>2 DEF StillZeroed
        <3>2. CountIs(queued, k) /\ Shows(out, app, hist, queued, channel, k)
            BY <1>2, <1>9, <1>11, <3>1 DEF QueuedInv
        <3>3. NoneBears(msgs)
            <4>1. \A i \in 1 .. Len(msgs) : msgs[i] = c
                BY <1>5, <1>11
            <4> QED
                BY <1>3, <4>1 DEF NoneBears
        <3>4. CountKept(k)
            BY <1>1, <1>7, <1>8, <1>11, <3>2 DEF CountKept
        <3>5. Shows(out', app', hist', queued', channel', k)
            BY <1>1, <1>2, <1>6, <1>9, <1>11, <3>2, <3>3, <3>4, ShownStays
        <3> QED
            BY <1>1, <1>2, <1>6, <1>7, <1>9, <1>11, <3>2, <3>5, LookedCount
    <2> QED
        BY <2>1, <2>2
<1> QED
    BY <1>1, <1>10, <1>11, CountForms

(* exec_fully_read_event, exec_event_cache_generic_update and              *)
(* exec_joined_room_update keep the invariant.                             *)
LEMMA ExecLookCount ==
    ASSUME NEW F, Types(F), Types(F)', CountInv, ExecCount \/ ExecUpdate
    PROVE  CountInv'
<1>1. PICK u : u = update_room_unread_count(queued)
    OBVIOUS
<1>2. hist \in Hist(F)
    BY DEF Types, HistTypes
<1>3. CASE ExecCount
    <2>1. PICK t : t # "discovered" /\ Takes(t)
        BY <1>3 DEF ExecCount
    <2>2. PICK c : c = [t |-> "ephemeral", typing |-> None, markers |-> NoMarkers]
        OBVIOUS
    <2>3. c \in EphemeralMessages
        BY <2>2, MarkerTypes DEF EphemeralMessages
    <2>4. PICK new \in BOOLEAN : ~new
        OBVIOUS
    <2>5. /\ queued' = u.q /\ Sends(u.send)
          /\ hist' = [hist EXCEPT !.zeroed = StillZeroed(u.send), !.overlap = @ /\ u.send = <<>>]
        BY <1>1, <1>3 DEF ExecCount
    <2>6. /\ hist'.drops = hist.drops /\ hist'.zeroed = StillZeroed(u.send)
          /\ hist'.overlap = (hist.overlap /\ u.send = <<>>)
        BY <1>2, <2>5 DEF Hist
    <2> QED
        BY <1>1, <2>1, <2>3, <2>4, <2>5, <2>6, LookCount
<1>4. CASE ExecUpdate
    <2>1. PICK a : a = Head(channel)
        OBVIOUS
    <2>2. PICK c : c = UpdateChange(a)
        OBVIOUS
    <2>3. PICK new \in BOOLEAN : new = UpdateSent(a, u.q)
        BY DEF UpdateSent
    <2>4. PICK newer : newer = UpdateNewer(a)
        OBVIOUS
    <2>5. /\ Takes("update")
          /\ queued' = IF new THEN track_room_change(u.q, c) ELSE u.q
          /\ Sends(IF new THEN Append(u.send, c) ELSE u.send)
          /\ hist' = [hist EXCEPT
               !.drops = IF new /\ Evicts(u.q, c) THEN @ + 1 ELSE @,
               !.overlap = u.send = <<>> /\ (@ \/ (new /\ Evicts(u.q, c) /\ Replays(channel))),
               !.zeroed = StillZeroed(u.send),
               !.silent = IF newer THEN @ \ {a.u} ELSE @]
        BY <1>1, <1>4, <2>1, <2>2, <2>3, <2>4 DEF ExecUpdate, UpdateChange, UpdateSent, UpdateNewer
    <2>6. /\ hist'.drops = IF new /\ Evicts(u.q, c) THEN hist.drops + 1 ELSE hist.drops
          /\ hist'.overlap =
               (u.send = <<>> /\ (hist.overlap \/ (new /\ Evicts(u.q, c) /\ Replays(channel))))
          /\ hist'.zeroed = StillZeroed(u.send)
        BY <1>2, <2>5 DEF Hist
    <2>7. a.typing \in {TRUE, None} /\ a.u \in Users \cup {None} /\ a.ts \in Times
        BY <2>1, <2>5, TakesTypes, ActionForms
    <2>8. c \in EphemeralMessages
        <3>1. UpdateNewer(a) => [NoMarkers EXCEPT ![a.u] = a.ts] \in Markers
            BY <2>7, MarkerTypes DEF UpdateNewer
        <3>2. (IF UpdateNewer(a) THEN [NoMarkers EXCEPT ![a.u] = a.ts] ELSE NoMarkers) \in Markers
            BY <3>1, MarkerTypes
        <3> QED
            BY <2>2, <2>7, <3>2 DEF UpdateChange, EphemeralMessages
    <2> QED
        BY <1>1, <2>5, <2>6, <2>8, LookCount
<1> QED
    BY <1>3, <1>4

(* A replay ends with the count of the queue.                              *)
LEMMA ReplayShows ==
    ASSUME NEW q \in Seq(Changes), NEW d, NEW q2, NEW n
    PROVE  /\ ~HasCount(q) => NoneBears(q)
           /\ CountIs(q, n) => ~NoneBears(q) /\ OutShows(q, d, q2, n)
<1>1. \A m \in Changes : ~IsSnapshot(m) /\ (Bears(m) <=> m.t = "unread")
    BY DEF Bears, IsSnapshot, Changes, UnreadMessages, EphemeralMessages
<1>2. PICK l : l = Len(q)
    OBVIOUS
<1>3. l \in Nat /\ \A i \in 1 .. l : q[i] \in Changes
    BY <1>2
<1>4. ~HasCount(q) => NoneBears(q)
    BY <1>1, <1>2, <1>3 DEF HasCount, NoneBears
<1>5. ASSUME CountIs(q, n) PROVE ~NoneBears(q) /\ OutShows(q, d, q2, n)
    <2>1. PICK i \in 1 .. l : /\ q[i].t = "unread" /\ q[i].n = n
                              /\ \A x \in 1 .. l : i < x => q[x].t # "unread"
        BY <1>2, <1>5 DEF CountIs
    <2>2. ~NoneBears(q)
        BY <1>1, <1>2, <1>3, <2>1 DEF NoneBears
    <2>3. ASSUME NEW x \in 1 .. l, LastBears(q, x) PROVE MessageShows(q[x], d, q2, n)
        <3>1. Bears(q[x]) /\ ~(x < i) /\ ~(i < x)
            BY <1>1, <1>2, <1>3, <2>1, <2>3 DEF LastBears
        <3>2. x = i
            BY <1>3, <3>1
        <3> QED
            BY <1>1, <1>3, <2>1, <3>2 DEF MessageShows
    <2> QED
        BY <1>2, <2>2, <2>3 DEF OutShows
<1> QED
    BY <1>4, <1>5

(* exec_queued_room_changes keeps the invariant.                           *)
LEMMA ReplayCount ==
    ASSUME NEW F, Types(F), Types(F)', CountInv, ExecDiscovered
    PROVE  CountInv'
<1>1. /\ Takes("discovered") /\ Sends(queued) /\ queued' = <<>>
      /\ hist' = [hist EXCEPT !.drops = @ + 1]
    BY DEF ExecDiscovered
<1>2. PICK k, d, q : k = room.unread /\ d = hist.drops /\ q = queued
    OBVIOUS
<1>3. /\ d \in Nat /\ out \in Seq(Messages(F)) /\ q \in Seq(Changes) /\ q \in Seq(Messages(F))
    BY <1>2, SnapshotDrops
<1>4. /\ hist'.drops = d + 1 /\ hist'.overlap = hist.overlap /\ hist'.zeroed = hist.zeroed
    BY <1>1, <1>2 DEF Types, HistTypes, Hist
<1>5. /\ UNCHANGED <<room, request, stream, app, pending>> /\ Head(channel).t = "discovered"
      /\ channel # <<>> /\ channel' = Tail(channel) /\ channel \in Seq(Actions(F))
    BY <1>1 DEF Takes, Types, ChannelTypes
<1>6. DropsInv /\ StreamInv /\ CurrentInv
    BY DEF CountInv
<1>7. DropsInv' /\ StreamInv'
    <2>1. hist'.drops \in Nat /\ hist.drops <= hist'.drops
        BY <1>2, <1>3, <1>4
    <2> QED
        BY <1>1, <1>2, <1>3, <1>5, <1>6, <2>1, SendsDrops DEF StreamInv
<1>8. ~HasCount(queued') /\ \A n : ~CountIs(queued', n)
    BY <1>1 DEF HasCount, CountIs
<1>9. QueuedInv'
    BY <1>8 DEF QueuedInv
<1>10. CurrentInv'
    <2> SUFFICES ASSUME JoinedIn(room'), ~hist'.zeroed, ~Due' PROVE Current(room.unread)'
        BY DEF CurrentInv
    <2>1. ~Due
        <3>1. UpdateComes(channel) => UpdateComes(channel')
            BY <1>5, ComesTail
        <3> QED
            BY <1>5, <3>1 DEF Due
    <2>2. /\ Shows(out, app, hist, queued, channel, k) /\ (HasCount(queued) => CountIs(queued, k))
          /\ \A r \in Requests : ReplyShows(request[r], hist.drops, queued, k)
        BY <1>2, <1>4, <1>5, <1>6, <2>1 DEF CurrentInv, Current
    <2>3. Shows(out', app', hist', queued', channel', k)
        <3>1. PICK q2 : q2 = queued'
            OBVIOUS
        <3>2. CASE HasCount(q)
            <4>1. ~NoneBears(q) /\ OutShows(q, d + 1, q2, k)
                BY <1>2, <1>3, <2>2, <3>2, ReplayShows
            <4>2. out' = out \o q
                BY <1>1, <1>2 DEF Sends
            <4>3. ~NoneBears(out') /\ OutShows(out', d + 1, q2, k)
                BY <1>3, <4>1, <4>2, FollowShows
            <4> QED
                BY <1>4, <3>1, <4>3 DEF Shows
        <3>3. CASE ~HasCount(q)
            <4>1. NoneBears(q) /\ ~CountIs(q, k)
                BY <1>3, <3>3, ReplayShows DEF CountIs, HasCount
            <4>2. CountKept(k)
                BY <1>2, <4>1 DEF CountKept
            <4>3. hist'.drops \in Nat /\ hist.drops <= hist'.drops
                BY <1>2, <1>3, <1>4
            <4>4. out' = out \o q
                BY <1>1, <1>2 DEF Sends
            <4> QED
                BY <1>3, <1>4, <1>5, <1>6, <2>2, <4>1, <4>2, <4>3, <4>4, ShownStays
        <3> QED
            BY <3>2, <3>3
    <2>4. ASSUME NEW r \in Requests PROVE ReplyShows(request'[r], hist'.drops, queued', k)
        <3> SUFFICES ASSUME request[r].kind = "reply"
                     PROVE  MessageShows(request[r].msg, d + 1, queued', k)
            BY <1>4, <1>5 DEF ReplyShows
        <3>1. PICK m, q2 : m = request[r].msg /\ q2 = queued'
            OBVIOUS
        <3>2. m \in Messages(F) /\ DropsBelow(m, d) /\ MessageShows(m, d, q, k)
            BY <1>2, <1>6, <2>2, <3>1, SnapshotDrops DEF DropsInv, ReplyShows
        <3>3. IsSnapshot(m) => m.snap.drops \in Nat
            BY <3>2, SnapshotDrops
        <3>4. d + 1 \in Nat /\ d <= d + 1 /\ d < d + 1
            BY <1>3
        <3>5. MessageShows(m, d + 1, q2, k)
            BY <1>3, <3>2, <3>3, <3>4, MessageStaysShown
        <3> QED
            BY <3>1, <3>5
    <2>5. k = room'.unread
        BY <1>2, <1>5
    <2> QED
        BY <1>8, <2>3, <2>4, <2>5 DEF Current
<1> QED
    BY <1>7, <1>9, <1>10 DEF CountInv

(* What a message makes the application show.                              *)
LEMMA ToldCount ==
    ASSUME NEW F, Types(F), NEW m \in Messages(F), NEW a, a = Told(m)
    PROVE  /\ ~Bears(m) => a.unread = app.unread /\ (a.room = "listed" => app.room = "listed")
           /\ m.t = "unread" => (a.room = "listed" => a.unread = m.n)
           /\ m.t = "left" => a.room # "listed"
           /\ IsSnapshot(m) => (a.room = "listed" => m.snap.joined /\ a.unread = m.snap.unread)
<1>1. /\ DOMAIN app = {"room", "fields", "unread", "markers"}
      /\ app = [x \in DOMAIN app |-> app[x]]
    BY DEF Types, OutTypes, Apps
<1>2. m.t \in {"unread", "ephemeral", "fields", "markers", "invited", "left", "room", "list"}
    BY MessageForms
<1>3. CASE m.t \in {"fields", "ephemeral", "markers"}
    <2>1. \/ \E x : a = [app EXCEPT !.fields = x]
          \/ \E x : a = [app EXCEPT !.markers = x]
        BY <1>3 DEF Told
    <2>2. a.room = app.room /\ a.unread = app.unread
        BY <1>1, <2>1
    <2> QED
        BY <1>3, <2>2 DEF Bears, IsSnapshot
<1>4. CASE m.t = "unread"
    <2>1. a = [app EXCEPT !.unread = IF app.room = "listed" THEN m.n ELSE @]
        BY <1>4 DEF Told
    <2>2. a.room = app.room /\ (app.room = "listed" => a.unread = m.n)
        BY <1>1, <2>1
    <2> QED
        BY <1>4, <2>2 DEF Bears, IsSnapshot
<1>5. CASE m.t = "left"
    <2>1. a = [app EXCEPT !.room = "none", !.unread = 0]
        BY <1>5 DEF Told
    <2> QED
        BY <1>1, <1>5, <2>1 DEF Bears, IsSnapshot
<1>6. CASE m.t = "invited"
    <2>1. a = [app EXCEPT !.room = IF @ = "none" THEN "invited" ELSE @]
        BY <1>6 DEF Told
    <2>2. a.unread = app.unread /\ (a.room = "listed" => app.room = "listed")
        BY <1>1, <2>1
    <2> QED
        BY <1>6, <2>2 DEF IsSnapshot
<1>7. CASE m.t \in {"room", "list"}
    <2>1. a = IF m.snap = None THEN app
              ELSE [app EXCEPT !.room = IF m.snap.joined THEN "listed" ELSE "none",
                               !.unread = IF m.snap.joined THEN m.snap.unread ELSE 0,
                               !.fields = ToldFields(m.snap.val, TRUE, TRUE)]
        BY <1>7 DEF Told
    <2>2. CASE m.snap = None
        BY <1>7, <2>1, <2>2 DEF IsSnapshot
    <2>3. CASE m.snap # None
        <3>1. IsSnapshot(m) /\ Bears(m)
            BY <1>7, <2>3 DEF IsSnapshot, Bears
        <3>2. /\ a.room = IF m.snap.joined THEN "listed" ELSE "none"
              /\ a.unread = IF m.snap.joined THEN m.snap.unread ELSE 0
            BY <1>1, <2>1, <2>3
        <3> QED
            BY <1>7, <3>1, <3>2
    <2> QED
        BY <2>2, <2>3
<1> QED
    BY <1>2, <1>3, <1>4, <1>5, <1>6, <1>7

(* A message reaches the application: what will be shown stays.            *)
LEMMA DeliverShows ==
    ASSUME NEW F, Types(F), Deliver, NEW n, Shows(out, app, hist, queued, channel, n)
    PROVE  Shows(out', app', hist', queued', channel', n)
<1>1. PICK m, d, q : m = Head(out) /\ d = hist.drops /\ q = queued
    OBVIOUS
<1>2. /\ out \in Seq(Messages(F)) /\ out # <<>> /\ out' = Tail(out) /\ app' = Told(m)
      /\ UNCHANGED queued /\ d \in Nat /\ hist \in Hist(F) /\ channel \in Seq(Actions(F))
    BY <1>1, SnapshotDrops DEF Deliver, Types, HistTypes, ChannelTypes
<1>3. m \in Messages(F)
    BY <1>1, <1>2
<1>4. /\ IsSnapshot(m) => /\ channel' = Append(channel, [t |-> "discovered"])
                          /\ hist' = [hist EXCEPT !.overlap = m.snap.drops # hist.drops,
                                                  !.late = m.snap.moves # hist.moves,
                                                  !.untold = @ \ {m.snap.moves}]
      /\ ~IsSnapshot(m) => UNCHANGED channel /\ \E l : hist' = [hist EXCEPT !.late = l]
    BY <1>1 DEF Deliver
<1>5. /\ hist'.drops = d
      /\ ~IsSnapshot(m) => UNCHANGED channel /\ hist'.overlap = hist.overlap
      /\ IsSnapshot(m) => Replays(channel') /\ (m.snap.drops # d => hist'.overlap)
    <2>1. PICK x : x = [t |-> "discovered"]
        OBVIOUS
    <2>2. IsSnapshot(m) => Replays(channel')
        <3>1. x.t = "discovered"
            BY <2>1
        <3>2. Replays(Append(channel, x))
            BY <1>2, <3>1, ComesAppend
        <3> QED
            BY <1>4, <2>1, <3>2
    <2>3. CASE IsSnapshot(m)
        <3>1. hist'.drops = hist.drops /\ hist'.overlap = (m.snap.drops # hist.drops)
            BY <1>2, <1>4, <2>3 DEF Hist
        <3> QED
            BY <1>1, <2>2, <2>3, <3>1
    <2>4. CASE ~IsSnapshot(m)
        <3>1. hist'.drops = hist.drops /\ hist'.overlap = hist.overlap
            BY <1>2, <1>4, <2>4 DEF Hist
        <3> QED
            BY <1>1, <1>4, <2>4, <3>1
    <2> QED
        BY <2>3, <2>4
<1>6. OutShows(out, d, q, n) /\ (NoneBears(out) => AppShows(app, hist.overlap, q, channel, n))
    BY <1>1 DEF Shows
<1>7. /\ OutShows(out', d, q, n)
      /\ NoneBears(out') /\ Bears(m) => MessageShows(m, d, q, n)
      /\ NoneBears(out') /\ ~Bears(m) => NoneBears(out)
    BY <1>1, <1>2, <1>6, TailShows
<1>8. PICK a : a = app'
    OBVIOUS
<1>9. /\ ~Bears(m) => a.unread = app.unread /\ (a.room = "listed" => app.room = "listed")
      /\ m.t = "unread" => (a.room = "listed" => a.unread = m.n)
      /\ m.t = "left" => a.room # "listed"
      /\ IsSnapshot(m) => (a.room = "listed" => m.snap.joined /\ a.unread = m.snap.unread)
    BY <1>2, <1>3, <1>8, ToldCount
<1>10. ASSUME NoneBears(out') PROVE AppShows(a, hist'.overlap, q, channel', n)
    <2>1. CASE ~Bears(m)
        <3>1. ~IsSnapshot(m) /\ AppShows(app, hist.overlap, q, channel, n)
            BY <1>6, <1>7, <1>10, <2>1 DEF Bears
        <3>2. UNCHANGED channel /\ hist'.overlap = hist.overlap
            BY <1>5, <3>1
        <3> QED
            BY <1>9, <2>1, <3>1, <3>2 DEF AppShows
    <2>2. CASE m.t = "unread"
        BY <1>7, <1>9, <1>10, <2>2 DEF Bears, MessageShows, AppShows
    <2>3. CASE m.t = "left"
        BY <1>9, <2>3 DEF AppShows
    <2>4. CASE IsSnapshot(m)
        <3>1. SnapShows(m.snap, d, q, n)
            BY <1>7, <1>10, <2>4 DEF Bears, MessageShows
        <3>2. m.snap.drops < d => hist'.overlap
            <4>1. m.snap.drops \in Nat
                BY <1>3, <2>4, SnapshotDrops
            <4> QED
                BY <1>2, <1>5, <2>4, <4>1
        <3> QED
            BY <1>5, <1>9, <2>4, <3>1, <3>2 DEF SnapShows, AppShows
    <2> QED
        BY <2>1, <2>2, <2>3, <2>4 DEF Bears
<1> QED
    BY <1>1, <1>2, <1>5, <1>7, <1>8, <1>10 DEF Shows

(* Deliver keeps the invariant.                                            *)
LEMMA DeliverCount ==
    ASSUME NEW F, Types(F), CountInv, Deliver
    PROVE  CountInv'
<1>1. /\ UNCHANGED <<room, request, stream, queued, pending>> /\ out # <<>> /\ out' = Tail(out)
      /\ UNCHANGED channel \/ \E x : channel' = Append(channel, x)
    BY DEF Deliver
<1>2. hist'.drops = hist.drops /\ hist'.zeroed = hist.zeroed
    <2>1. PICK m : m = Head(out)
        OBVIOUS
    <2>2. CASE IsSnapshot(m)
        <3>1. hist' = [hist EXCEPT !.overlap = m.snap.drops # hist.drops,
                                   !.late = m.snap.moves # hist.moves,
                                   !.untold = @ \ {m.snap.moves}]
            BY <2>1, <2>2 DEF Deliver
        <3> QED
            BY <3>1 DEF Types, HistTypes, Hist
    <2>3. CASE ~IsSnapshot(m)
        <3>1. hist' = [hist EXCEPT !.late = IF m.t = "left" THEN m.moves # hist.moves ELSE @]
            BY <2>1, <2>3 DEF Deliver
        <3> QED
            BY <3>1 DEF Types, HistTypes, Hist
    <2> QED
        BY <2>2, <2>3
<1>3. Due => Due'
    BY <1>1, DueStays DEF ChannelGoesOn
<1>4. DropsInv'
    <2>1. PICK o, p, l, d : o = out /\ p = Tail(out) /\ l = Len(out) /\ d = hist.drops
        OBVIOUS
    <2>2. /\ l \in Nat /\ Len(p) = l - 1
          /\ \A i \in 1 .. l - 1 : i + 1 \in 1 .. l /\ p[i] = o[i + 1]
        BY <1>1, <2>1, SnapshotDrops
    <2>3. \A i \in 1 .. l : DropsBelow(o[i], d)
        BY <2>1 DEF CountInv, DropsInv
    <2>4. \A i \in 1 .. Len(out') : DropsBelow(out'[i], d)
        BY <1>1, <2>1, <2>2, <2>3
    <2>5. \A r \in Requests : request'[r].kind = "reply" => DropsBelow(request'[r].msg, d)
        BY <1>1, <2>1 DEF CountInv, DropsInv
    <2> QED
        BY <1>2, <2>1, <2>4, <2>5 DEF DropsInv
<1>5. StreamInv'
    BY <1>1 DEF CountInv, StreamInv
<1>6. QueuedInv'
    BY <1>1, <1>2, DeliverShows DEF CountInv, QueuedInv
<1>7. CurrentInv'
    <2>1. CASE JoinedIn(room) /\ ~hist.zeroed /\ ~Due
        <3>1. Current(room.unread)
            BY <2>1 DEF CountInv, CurrentInv
        <3>2. Shows(out', app', hist', queued', channel', room.unread)
            BY <3>1, DeliverShows DEF Current
        <3> QED
            BY <1>1, <1>2, <3>1, <3>2 DEF CurrentInv, Current
    <2>2. CASE ~(JoinedIn(room) /\ ~hist.zeroed /\ ~Due)
        BY <1>1, <1>2, <1>3, <2>2 DEF CurrentInv
    <2> QED
        BY <2>1, <2>2
<1> QED
    BY <1>4, <1>5, <1>6, <1>7 DEF CountInv

(* The invariant of the count holds initially ...                          *)
LEMMA CountInit == RoomInit => CountInv
<1> SUFFICES ASSUME RoomInit PROVE CountInv
    OBVIOUS
<1>1. /\ Len(out) = 0 /\ Len(queued) = 0 /\ out = <<>> /\ queued = <<>>
      /\ \A r \in Requests : request[r].kind # "reply"
    BY DEF RoomInit, Idle
<1>2. stream["updates"].open /\ stream["updates"].q = <<>> /\ Len(stream["updates"].q) = 0
    BY DEF RoomInit
<1>3. ~HasCount(queued) /\ \A n : ~CountIs(queued, n)
    BY <1>1 DEF HasCount, CountIs
<1>4. app.room # "listed"
    BY DEF RoomInit
<1>5. Current(room.unread)
    BY <1>1, <1>3, <1>4 DEF Current, Shows, OutShows, AppShows, ReplyShows
<1> QED
    BY <1>1, <1>2, <1>3, <1>5 DEF CountInv, DropsInv, StreamInv, QueuedInv, CurrentInv

(* ... and after every step.                                               *)
LEMMA CountStep ==
    ASSUME TypeInv, Fields \in FieldSets, CountInv, [RoomNext]_roomVars
    PROVE  CountInv'
<1>1. PICK F \in FieldSets : F = Fields
    OBVIOUS
<1>2. Types(F) /\ Types(F)' /\ StreamInv
    BY <1>1, TypesStep DEF TypeInv, CountInv
<1>3. CASE UNCHANGED roomVars
    <2>1. SameCount /\ OutOwn(F) /\ RequestsOwn /\ ChannelGoesOn
        BY <1>3 DEF roomVars, SameCount, OutOwn, RequestsOwn, ChannelGoesOn
    <2>2. UNCHANGED <<app, queued, room, stream, pending>>
        BY <1>3 DEF roomVars
    <2> QED
        BY <1>2, <2>1, <2>2, AsideMade, AsideCount
<1>4. CASE RoomNext
    <2>1. ASSUME CountAside(F) PROVE CountInv'
        BY <1>2, <2>1, AsideCount
    <2>2. CASE Homeserver \/ Expire \/ CacheSilently \/ Handle
        BY <1>2, <2>1, <2>2, OutsideAside
    <2>3. ASSUME NEW s \in {"updates", "generic"}, Forward(s) PROVE CountInv'
        BY <1>2, <2>1, <2>3, ForwardAside
    <2>4. CASE Sync
        BY <1>2, <2>1, <2>4, SyncCountAside
    <2>5. CASE ExecField \/ ExecOwn \/ ExecAny \/ ExecMessage
        BY <1>2, <2>1, <2>5, ExecCountAside
    <2>6. CASE ExecCount \/ ExecUpdate
        BY <1>2, <2>6, ExecLookCount
    <2>7. CASE ExecDiscovered
        BY <1>2, <2>7, ReplayCount
    <2>8. CASE Deliver
        BY <1>2, <2>8, DeliverCount
    <2>9. ASSUME NEW r \in Requests, Asks(r) PROVE CountInv'
        <3>1. CASE JoinRoom(r) \/ LeaveRoom(r)
            BY <1>2, <2>1, <3>1, MoveCountAside
        <3>2. CASE GetRooms(r) \/ ChangeRoom(r) \/ PinOrInvite(r) \/ MarkAsRead(r) \/ FetchPage(r)
            BY <1>2, <2>1, <3>2, AsksCountAside
        <3> QED
            BY <2>9, <3>1, <3>2 DEF Asks
    <2>10. ASSUME NEW r \in Requests, Processes(r) PROVE CountInv'
        <3>1. CASE MarkCached(r)
            BY <1>2, <3>1, MarkCachedCount
        <3>2. CASE ~MarkCached(r)
            BY <1>2, <2>1, <2>10, <3>2, ProcessesCountAside
        <3> QED
            BY <3>1, <3>2
    <2> QED
        BY <1>4, <2>2, <2>3, <2>4, <2>5, <2>6, <2>7, <2>8, <2>9, <2>10
        DEF RoomNext, Works, Executor
<1> QED
    BY <1>3, <1>4

(***************************************************************************)
(* Once nothing is on its way, the application shows the unread count of   *)
(* the SDK for a joined room (update_room_unread_count, track_room_change, *)
(* exec_queued_room_changes), unless mark_as_read or a replay between the  *)
(* assembly and the delivery of a snapshot interfered: for any number of   *)
(* messages, of requests at the same time, and any sizes of the channel,   *)
(* the streams and the queue of changes.                                   *)
(***************************************************************************)
THEOREM UnreadShownCorrect == Spec => []UnreadShown
<1>1. RoomInit => Fields \in FieldSets
    <2> SUFFICES ASSUME RoomInit PROVE Fields \in FieldSets
        OBVIOUS
    <2>1. PICK F \in FieldSets : server.val = [f \in F |-> 0]
        BY DEF RoomInit
    <2> QED
        BY <2>1 DEF Fields
<1>2. TypeInv /\ CountInv => UnreadShown
    <2> SUFFICES ASSUME TypeInv, CountInv, Quiet, app.room = "listed", room.member = "joined",
                        ~hist.zeroed, ~hist.overlap, ~stream["updates"].lagged
                 PROVE  app.unread = room.unread
        BY DEF UnreadShown
    <2>1. DOMAIN stream = {"updates", "generic"}
        BY DEF TypeInv, Types, HandlerTypes
    <2>2. stream["updates"].q = <<>>
        BY <2>1 DEF Quiet
    <2>3. Len(pending) = 0 /\ Len(channel) = 0 /\ Len(out) = 0
        BY DEF Quiet
    <2>4. ~Due /\ NoneBears(out) /\ ~Replays(channel)
        BY <2>2, <2>3 DEF Due, JoinComes, UpdateComes, NoneBears, Replays
    <2>5. Shows(out, app, hist, queued, channel, room.unread)
        BY <2>4 DEF CountInv, CurrentInv, Current, JoinedIn
    <2> QED
        BY <2>4, <2>5 DEF Shows, AppShows
<1>3. TypeInv /\ Fields \in FieldSets /\ CountInv /\ [RoomNext]_roomVars
        => CountInv' /\ (Fields \in FieldSets)'
    <2> SUFFICES ASSUME TypeInv, Fields \in FieldSets, CountInv, [RoomNext]_roomVars
                 PROVE  CountInv' /\ (Fields \in FieldSets)'
        OBVIOUS
    <2>1. PICK F \in FieldSets : F = Fields
        OBVIOUS
    <2>2. Types(F)'
        BY <2>1, TypesStep DEF TypeInv
    <2>3. Fields' = F
        BY <2>2 DEF Types, HomeTypes, Fields
    <2> QED
        BY <2>1, <2>3, CountStep
<1> QED
    BY <1>1, <1>2, <1>3, TypesInit, TypeInvStep, CountInit, PTL DEF Spec

=============================================================================
