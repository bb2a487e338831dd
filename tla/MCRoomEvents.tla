---------------------------- MODULE MCRoomEvents ----------------------------
(* RoomEvents and Notifications.  In the program the two run side by side  *)
(* and share no state, so a behaviour of one says nothing about the other, *)
(* and a behaviour of this module is about one of them.  Those of          *)
(* RoomEvents have one of the sizes below.                                 *)
EXTENDS RoomEvents, Notifications

Size(f, c, r) == [fields |-> f, changes |-> c, requests |-> r]

(* The fields, the changes and the requests of a behaviour.  With a single *)
(* request it does not matter which one it is.  Three changes begin in a   *)
(* joined room.  Two changes beside a request are either of a field of a   *)
(* joined room, or of anything else.                                       *)
Sizes == {Size({}, 3, 0),
          Size({}, 2, 1),
          Size({"avatar"}, 2, 1),
          Size({"avatar", "join_rule"}, 1, 1),
          Size({"members", "pinned"}, 1, 2),
          Size({"name", "conference"}, 1, 1),
          Size({"name"}, 2, 1),
          Size({"permissions"}, 2, 0)}

MCFieldSets == {size.fields : size \in Sizes}

OnlyFields ==
    /\ room'.member = "joined"
    /\ \A e \in ToSet(pending') : e.t = "field"
    /\ \A r \in Requests : request'[r].kind \in {"none", "change", "reply"}

VARIABLE part  \* what the behaviour is about: a size, or the settings

vars == <<part, roomVars, settingsVars>>

Init == /\ part \in Sizes \cup {[settings |-> TRUE]}
        /\ RoomInit
        /\ IF "fields" \in DOMAIN part
           THEN Fields = part.fields /\ (part.changes > 2 => server.member = "joined")
           ELSE Fields = {} /\ server.member = "none"
        /\ SettingsInit

Next == /\ \/ /\ "fields" \in DOMAIN part
              /\ RoomNext
              /\ changes' <= part.changes
              /\ requests' <= part.requests
              /\ \A r \in Requests : r > part.requests => request'[r] = Idle
              /\ part.changes = 2 /\ part.requests = 1 /\ Fields # {} => OnlyFields
              /\ UNCHANGED settingsVars
           \/ part = [settings |-> TRUE] /\ SettingsNext /\ UNCHANGED roomVars
        /\ UNCHANGED part

MCSpec == Init /\ [][Next]_vars /\ Fairness
=============================================================================
