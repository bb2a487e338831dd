-------------------- MODULE NotificationsAndPollsProofs ---------------------
(***************************************************************************)
(* Proofs about Notifications, for any rooms, any capacity of the channel  *)
(* and any number of changes: the settings the application has been told   *)
(* of are the rules, once no announcement is left; and about Polls, for    *)
(* any options, users and events: the newest responses are shown.          *)
(***************************************************************************)
EXTENDS Notifications, Polls, FiniteSetTheorems, WellFoundedInduction, TLAPS

(* The loudest of the defaults of the first n kinds of rooms.              *)
Loudest(default, n) ==
    IF \E k \in 1 .. n : default[k] = "AllMessages" THEN "AllMessages"
    ELSE IF \E k \in 1 .. n : default[k] = "MentionsAndKeywordsOnly"
      THEN "MentionsAndKeywordsOnly" ELSE "Mute"

(* No rule has changed since the load in progress began.                   *)
Undisturbed == signals.pending = 0 /\ (manager.first => ~missed)

(***************************************************************************)
(* What makes SettingsTold inductive: the events amount to what is cached, *)
(* and a load that was not disturbed has found the rules as they are, as   *)
(* far as it has come.                                                     *)
(***************************************************************************)
LoadInv ==
    /\ manager.pc = "kinds" => manager.kind \in Kinds
    /\ manager.pc = "kinds" /\ Undisturbed =>
         manager.global = Loudest(rules.default, manager.kind - 1)
    /\ manager.pc \in {"list", "rooms"} /\ Undisturbed => manager.global = Actual.global
    /\ manager.pc \in {"kinds", "list"} => manager.room = Unloaded
    /\ manager.pc = "rooms" /\ Undisturbed =>
         \A r \in RuleRooms \ manager.todo : manager.room[r] = rules.room[r]

ToldInv ==
    /\ told = cached
    /\ manager.pc \in {"subscribe", "idle"} => cached \in Settings
    /\ manager.pc = "idle" => ~manager.first
    /\ manager.pc = "subscribe" => manager.first
    /\ ~manager.first => cached \in Settings
    /\ manager.pc \in {"subscribe", "idle"} /\ signals.pending = 0 /\ ~missed =>
         cached = Actual

SettingsInv == SettingsTypeOK /\ LoadInv /\ ToldInv

-----------------------------------------------------------------------------
(* Operators.                                                              *)

(* There are four kinds of rooms.                                          *)
LEMMA FourKinds == Cardinality(Kinds) = 4
<1>1. 1 \in Int /\ 4 \in Int
    OBVIOUS
<1>2. Cardinality(1 .. 4) = IF 1 > 4 THEN 0 ELSE 4 - 1 + 1
    BY <1>1, FS_Interval
<1> QED
    BY <1>2 DEF Kinds

(***************************************************************************)
(* apply_notification_mode, kind after kind and starting with Mute,        *)
(* computes the loudest mode: the order of the kinds does not matter.      *)
(***************************************************************************)
LEMMA LoudestGrows ==
    ASSUME NEW default \in [Kinds -> Modes], NEW n \in Kinds
    PROVE  apply_notification_mode(Loudest(default, n - 1), default[n]) = Loudest(default, n)
<1>1. default[n] \in Modes
    OBVIOUS
<1>2. \A k : k \in 1 .. n <=> (k \in 1 .. n - 1 \/ k = n)
    BY DEF Kinds
<1>3. ASSUME NEW m
      PROVE  (\E k \in 1 .. n : default[k] = m) <=>
                (default[n] = m \/ \E k \in 1 .. n - 1 : default[k] = m)
    BY <1>2
<1> QED
    BY <1>1, <1>3 DEF apply_notification_mode, Loudest, Modes

(* What the rules amount to is the loudest default of all kinds.           *)
LEMMA ActualGlobal == Actual.global = Loudest(rules.default, 4)
BY DEF Actual, Loudest, Kinds

(* Before the first kind it is Mute.                                       *)
LEMMA LoudestOfNone == ASSUME NEW default PROVE Loudest(default, 0) = "Mute"
BY DEF Loudest

(***************************************************************************)
(* compare_lists, compare_room_changes and send_global_update_event: an    *)
(* application that has the old settings has the new ones after the events *)
(* that are sent.                                                          *)
(***************************************************************************)
LEMMA TellAll ==
    ASSUME NEW old \in Settings, NEW new \in Settings
    PROVE  Tell(old, old, new) = new
<1>1. old.room \in [RuleRooms -> Modes \cup {NoRule}] /\ new.room \in [RuleRooms -> Modes \cup {NoRule}]
    BY DEF Settings
<1> DEFINE diff == compare_lists(old.room, new.room)
           room == [r \in RuleRooms |->
                      IF r \in diff.new \cup diff.updated THEN new.room[r]
                      ELSE IF r \in diff.deleted THEN NoRule
                      ELSE old.room[r]]
           global == IF old.global # new.global THEN new.global ELSE old.global
<1>2. ASSUME NEW r \in RuleRooms PROVE room[r] = new.room[r]
    BY DEF compare_lists
<1>3. room = new.room
    BY <1>1, <1>2
<1>4. global = new.global
    OBVIOUS
<1>5. Tell(old, old, new) = [global |-> global, room |-> room]
    BY DEF Tell
<1>6. new = [global |-> new.global, room |-> new.room]
    BY DEF Settings
<1> QED
    BY <1>3, <1>4, <1>5, <1>6

(* A manager that begins to load is well typed.                            *)
LEMMA LoadingTypes ==
    ASSUME NEW b \in BOOLEAN
    PROVE  /\ Loading(b) \in ManagerState
           /\ Unloaded \in [RuleRooms -> Modes \cup {NoRule}]
<1>1. Unloaded \in [RuleRooms -> Modes \cup {NoRule}]
    BY DEF Unloaded
<1> QED
    BY <1>1 DEF Loading, ManagerState, Modes

-----------------------------------------------------------------------------
(* The invariant.                                                          *)

(* It holds initially: nothing has been loaded or told yet.               *)
LEMMA SettingsStart == SettingsInit => SettingsInv
<1> SUFFICES ASSUME SettingsInit PROVE SettingsInv
    OBVIOUS
<1>1. SettingsTypeOK
    <2>1. rules \in [default : [Kinds -> Modes], room : [RuleRooms -> Modes \cup {NoRule}]]
        BY LoadingTypes DEF SettingsInit, Modes
    <2>2. manager \in ManagerState
        BY LoadingTypes DEF SettingsInit
    <2>3. signals \in [pending : 0 .. SignalCapacity, lagged : BOOLEAN]
        BY NotificationsAssumption DEF SettingsInit
    <2>4. changed \in 0 .. MaxRuleChanges
        BY NotificationsAssumption DEF SettingsInit
    <2> QED
        BY <2>1, <2>2, <2>3, <2>4 DEF SettingsInit, SettingsTypeOK
<1>2. /\ manager.pc = "kinds" /\ manager.kind = 1 /\ manager.global = "Mute"
      /\ manager.room = Unloaded /\ manager.first = TRUE
    BY DEF SettingsInit, Loading
<1>3. LoadInv
    BY <1>2, LoudestOfNone DEF LoadInv, Kinds
<1>4. ToldInv
    BY <1>2 DEF ToldInv, SettingsInit
<1> QED
    BY <1>1, <1>3, <1>4 DEF SettingsInv

(* Changed rules disturb the load in progress and are announced.           *)
LEMMA ChangeKeeps == ASSUME SettingsInv, ChangeRules PROVE SettingsInv'
<1> USE DEF SettingsInv
<1>1. rules' \in [default : [Kinds -> Modes], room : [RuleRooms -> Modes \cup {NoRule}]]
    BY DEF ChangeRules, SettingsTypeOK
<1>2. UNCHANGED <<manager, cached, told>> /\ changed' \in 0 .. MaxRuleChanges
    BY NotificationsAssumption DEF ChangeRules, SettingsTypeOK
<1>3. CASE manager.first
    <2>1. missed' = TRUE /\ signals' = signals
        BY <1>3 DEF ChangeRules
    <2>2. SettingsTypeOK'
        BY <1>1, <1>2, <2>1 DEF SettingsTypeOK
    <2>3. LoadInv'
        BY <1>2, <1>3, <2>1 DEF LoadInv, Undisturbed
    <2>4. ToldInv'
        BY <1>2, <1>3, <2>1 DEF ToldInv
    <2> QED
        BY <2>2, <2>3, <2>4
<1>4. CASE ~manager.first
    <2>1. /\ missed' = missed
          /\ signals' = IF signals.pending = SignalCapacity
                          THEN [signals EXCEPT !.lagged = TRUE]
                          ELSE [signals EXCEPT !.pending = @ + 1]
        BY <1>4 DEF ChangeRules
    <2>2. /\ signals' \in [pending : 0 .. SignalCapacity, lagged : BOOLEAN]
          /\ signals'.pending # 0
        <3>1. /\ signals \in [pending : 0 .. SignalCapacity, lagged : BOOLEAN]
              /\ signals.pending \in 0 .. SignalCapacity
            BY DEF SettingsTypeOK
        <3>2. CASE signals.pending = SignalCapacity
            <4>1. signals' = [signals EXCEPT !.lagged = TRUE]
                BY <2>1, <3>2
            <4>2. signals' \in [pending : 0 .. SignalCapacity, lagged : BOOLEAN]
                BY <3>1, <4>1
            <4>3. signals'.pending = SignalCapacity
                BY <3>1, <3>2, <4>1
            <4> QED
                BY <4>2, <4>3, NotificationsAssumption
        <3>3. CASE signals.pending # SignalCapacity
            <4>1. signals' = [signals EXCEPT !.pending = signals.pending + 1]
                BY <2>1, <3>3
            <4>2. signals.pending + 1 \in 0 .. SignalCapacity /\ signals.pending + 1 # 0
                BY <3>1, <3>3, NotificationsAssumption
            <4> QED
                BY <3>1, <4>1, <4>2
        <3> QED
            BY <3>2, <3>3
    <2>3. SettingsTypeOK'
        BY <1>1, <1>2, <2>1, <2>2 DEF SettingsTypeOK
    <2>4. LoadInv'
        BY <1>2, <2>2 DEF LoadInv, Undisturbed
    <2>5. ToldInv'
        BY <1>2, <2>2 DEF ToldInv
    <2> QED
        BY <2>3, <2>4, <2>5
<1> QED
    BY <1>3, <1>4

(* The calls of compose_global_notification_settings.                      *)
LEMMA LoadDefaultKeeps == ASSUME SettingsInv, LoadDefault PROVE SettingsInv'
<1> USE DEF SettingsInv
<1> DEFINE k == manager.kind
           g == apply_notification_mode(manager.global, rules.default[k])
<1>1. k \in Kinds /\ rules.default \in [Kinds -> Modes]
    BY DEF LoadDefault, LoadInv, SettingsTypeOK
<1>2. manager.global \in Modes /\ rules.default[k] \in Modes
    BY <1>1 DEF SettingsTypeOK, ManagerState
<1>3. g \in Modes
    BY <1>2 DEF apply_notification_mode
<1>4. /\ manager.pc = "kinds"
      /\ manager' = [manager EXCEPT !.global = g, !.kind = k + 1,
                                    !.pc = IF k = 4 THEN "list" ELSE "kinds"]
      /\ UNCHANGED <<rules, signals, cached, told, missed, changed>>
    BY FourKinds DEF LoadDefault
<1>5. k + 1 \in 1 .. 5
    BY <1>1 DEF Kinds
<1> HIDE DEF g, k
<1>6. manager' \in ManagerState
    BY <1>3, <1>4, <1>5 DEF SettingsTypeOK, ManagerState
<1>7. /\ manager'.pc = IF k = 4 THEN "list" ELSE "kinds"
      /\ manager'.kind = k + 1 /\ manager'.global = g
      /\ manager'.first = manager.first /\ manager'.room = manager.room
    BY <1>4 DEF SettingsTypeOK, ManagerState
<1>8. SettingsTypeOK'
    BY <1>4, <1>6 DEF SettingsTypeOK
<1>9. Undisturbed => g = Loudest(rules.default, k)
    BY <1>1, <1>4, LoudestGrows DEF LoadInv, g, k
<1>10. Undisturbed' <=> Undisturbed
    BY <1>4, <1>7 DEF Undisturbed
<1>11. k # 4 => k + 1 \in Kinds /\ (k + 1) - 1 = k
    BY <1>1 DEF Kinds
<1>12. Actual' = Actual
    BY <1>4 DEF Actual
<1>13. LoadInv'
    BY <1>4, <1>7, <1>9, <1>10, <1>11, <1>12, ActualGlobal DEF LoadInv
<1>14. ToldInv'
    BY <1>4, <1>7 DEF ToldInv
<1> QED
    BY <1>8, <1>13, <1>14

(* The rooms that have a rule: for the others the load is complete.        *)
LEMMA LoadRoomsKeeps == ASSUME SettingsInv, LoadRooms PROVE SettingsInv'
<1> USE DEF SettingsInv
<1> DEFINE todo == {r \in RuleRooms : rules.room[r] # NoRule}
<1>1. /\ manager.pc = "list"
      /\ manager' = [manager EXCEPT !.pc = "rooms", !.todo = todo]
      /\ UNCHANGED <<rules, signals, cached, told, missed, changed>>
    BY DEF LoadRooms
<1>2. todo \in SUBSET RuleRooms
    OBVIOUS
<1>3. \A r \in RuleRooms \ todo : Unloaded[r] = rules.room[r]
    BY DEF Unloaded
<1> HIDE DEF todo
<1>4. manager' \in ManagerState
    BY <1>1, <1>2 DEF SettingsTypeOK, ManagerState
<1>5. /\ manager'.pc = "rooms" /\ manager'.todo = todo
      /\ manager'.first = manager.first /\ manager'.room = manager.room
      /\ manager'.global = manager.global
    BY <1>1 DEF SettingsTypeOK, ManagerState
<1>6. (Undisturbed' <=> Undisturbed) /\ Actual' = Actual
    BY <1>1, <1>5 DEF Undisturbed, Actual
<1>7. LoadInv'
    BY <1>1, <1>3, <1>5, <1>6 DEF LoadInv
<1>8. SettingsTypeOK' /\ ToldInv'
    BY <1>1, <1>4, <1>5 DEF SettingsTypeOK, ToldInv
<1> QED
    BY <1>7, <1>8

(* The rule of one room.                                                   *)
LEMMA LoadRoomKeeps == ASSUME SettingsInv, LoadRoom PROVE SettingsInv'
<1> USE DEF SettingsInv
<1>1. PICK r \in manager.todo :
         manager' = [manager EXCEPT !.todo = @ \ {r}, !.room[r] = rules.room[r]]
    BY DEF LoadRoom
<1>2. manager.pc = "rooms" /\ UNCHANGED <<rules, signals, cached, told, missed, changed>>
    BY DEF LoadRoom
<1> DEFINE room == [manager.room EXCEPT ![r] = rules.room[r]]
<1>3. manager' = [manager EXCEPT !.todo = manager.todo \ {r}, !.room = room]
    BY <1>1
<1>4. r \in RuleRooms /\ manager.room \in [RuleRooms -> Modes \cup {NoRule}]
    BY DEF SettingsTypeOK, ManagerState
<1>5. rules.room[r] \in Modes \cup {NoRule}
    BY <1>4 DEF SettingsTypeOK
<1>6. room \in [RuleRooms -> Modes \cup {NoRule}]
    BY <1>4, <1>5
<1>7. room[r] = rules.room[r] /\ \A q \in RuleRooms : q # r => room[q] = manager.room[q]
    BY <1>4
<1> HIDE DEF room
<1>8. manager' \in ManagerState
    BY <1>3, <1>6 DEF SettingsTypeOK, ManagerState
<1>9. /\ manager'.pc = "rooms" /\ manager'.todo = manager.todo \ {r}
      /\ manager'.first = manager.first /\ manager'.room = room
      /\ manager'.global = manager.global
    BY <1>2, <1>3 DEF SettingsTypeOK, ManagerState
<1>10. (Undisturbed' <=> Undisturbed) /\ Actual' = Actual
    BY <1>2, <1>9 DEF Undisturbed, Actual
<1>11. LoadInv'
    BY <1>2, <1>7, <1>9, <1>10 DEF LoadInv
<1>12. SettingsTypeOK' /\ ToldInv'
    BY <1>2, <1>8, <1>9 DEF SettingsTypeOK, ToldInv
<1> QED
    BY <1>11, <1>12

(***************************************************************************)
(* The end of a load: what it has found is cached and told.  If it was not *)
(* disturbed, that is what the rules amount to.                            *)
(***************************************************************************)
LEMMA EndLoadKeeps == ASSUME SettingsInv, EndLoad PROVE SettingsInv'
<1> USE DEF SettingsInv
<1> DEFINE new == [global |-> manager.global, room |-> manager.room]
<1>1. /\ manager.pc = "rooms" /\ manager.todo = {}
      /\ cached' = new
      /\ told' = IF manager.first THEN new ELSE Tell(told, cached, new)
      /\ manager' = [Loading(manager.first) EXCEPT
                       !.pc = IF manager.first THEN "subscribe" ELSE "idle"]
      /\ missed' = (missed /\ manager.first)
      /\ UNCHANGED <<rules, signals, changed>>
    BY DEF EndLoad
<1>2. manager.first \in BOOLEAN /\ missed \in BOOLEAN
    BY DEF SettingsTypeOK, ManagerState
<1>3. new \in Settings
    BY DEF SettingsTypeOK, ManagerState, Settings
<1>4. Undisturbed => new = Actual
    <2>1. SUFFICES ASSUME Undisturbed PROVE new = Actual
        OBVIOUS
    <2>2. manager.global = Actual.global
        BY <1>1, <2>1 DEF LoadInv
    <2>3. \A r \in RuleRooms : manager.room[r] = rules.room[r]
        BY <1>1, <2>1 DEF LoadInv
    <2>4. manager.room = rules.room
        BY <2>3 DEF SettingsTypeOK, ManagerState
    <2> QED
        BY <2>2, <2>4 DEF Actual
<1> HIDE DEF new
<1>5. told' = new
    <2>1. ~manager.first => told = cached /\ cached \in Settings
        BY DEF ToldInv
    <2> QED
        BY <1>1, <1>3, <2>1, TellAll
<1>6. Loading(manager.first) \in ManagerState
    BY <1>2, LoadingTypes
<1>7. manager' \in ManagerState
    BY <1>1, <1>6 DEF ManagerState
<1>8. /\ manager'.pc = IF manager.first THEN "subscribe" ELSE "idle"
      /\ manager'.first = manager.first
    BY <1>1 DEF Loading
<1>9. SettingsTypeOK'
    BY <1>1, <1>2, <1>3, <1>5, <1>7 DEF SettingsTypeOK
<1>10. LoadInv'
    BY <1>8 DEF LoadInv
<1>11. Actual' = Actual
    BY <1>1 DEF Actual
<1>12. (signals'.pending = 0 /\ ~missed') => Undisturbed
    BY <1>1, <1>2 DEF Undisturbed
<1>13. ToldInv'
    BY <1>1, <1>3, <1>4, <1>5, <1>8, <1>11, <1>12 DEF ToldInv
<1> QED
    BY <1>9, <1>10, <1>13

(* The subscription and the announcements.                                 *)
LEMMA ReceiveKeeps == ASSUME SettingsInv, Subscribe \/ Receive PROVE SettingsInv'
<1> USE DEF SettingsInv
<1>0. UNCHANGED <<rules, cached, told, missed, changed>> /\ Actual' = Actual
    BY DEF Subscribe, Receive, Actual
<1>1. CASE Subscribe
    <2>1. /\ manager.pc = "subscribe" /\ signals' = signals
          /\ manager' = [manager EXCEPT !.pc = "idle", !.first = FALSE]
        BY <1>1 DEF Subscribe
    <2>2. manager' \in ManagerState
        BY <2>1 DEF SettingsTypeOK, ManagerState
    <2>3. manager'.pc = "idle" /\ manager'.first = FALSE
        BY <2>1 DEF SettingsTypeOK, ManagerState
    <2>4. SettingsTypeOK' /\ LoadInv'
        BY <1>0, <2>1, <2>2, <2>3 DEF SettingsTypeOK, LoadInv
    <2>5. ToldInv'
        BY <1>0, <2>1, <2>3 DEF ToldInv
    <2> QED
        BY <2>4, <2>5
<1>2. CASE Receive /\ signals.lagged
    <2>1. /\ manager.pc = "idle" /\ signals' = signals
          /\ manager' = [manager EXCEPT !.pc = "ended"]
        BY <1>2 DEF Receive
    <2>2. manager' \in ManagerState
        BY <2>1 DEF SettingsTypeOK, ManagerState
    <2>3. manager'.pc = "ended" /\ manager'.first = manager.first
        BY <2>1 DEF SettingsTypeOK, ManagerState
    <2>4. SettingsTypeOK' /\ LoadInv'
        BY <1>0, <2>1, <2>2, <2>3 DEF SettingsTypeOK, LoadInv
    <2>5. ToldInv'
        BY <1>0, <2>1, <2>3 DEF ToldInv
    <2> QED
        BY <2>4, <2>5
<1>3. CASE Receive /\ ~signals.lagged
    <2>1. /\ manager.pc = "idle" /\ signals.pending > 0
          /\ manager' = Loading(FALSE)
          /\ signals' = [signals EXCEPT !.pending = @ - 1]
        BY <1>3 DEF Receive
    <2>2. manager' \in ManagerState
        BY <2>1, LoadingTypes
    <2>3. signals' \in [pending : 0 .. SignalCapacity, lagged : BOOLEAN]
        BY <2>1, NotificationsAssumption DEF SettingsTypeOK
    <2>4. /\ manager'.pc = "kinds" /\ manager'.kind = 1 /\ manager'.global = "Mute"
          /\ manager'.room = Unloaded /\ manager'.first = FALSE
        BY <2>1 DEF Loading
    <2>5. SettingsTypeOK'
        BY <1>0, <2>2, <2>3 DEF SettingsTypeOK
    <2>6. LoadInv'
        BY <2>4, LoudestOfNone DEF LoadInv, Kinds
    <2>7. ToldInv'
        BY <1>0, <2>1, <2>4 DEF ToldInv
    <2> QED
        BY <2>5, <2>6, <2>7
<1> QED
    BY <1>1, <1>2, <1>3

(* Every step keeps the invariant.                                         *)
LEMMA SettingsStep == SettingsInv /\ [SettingsNext]_settingsVars => SettingsInv'
<1> SUFFICES ASSUME SettingsInv, [SettingsNext]_settingsVars PROVE SettingsInv'
    OBVIOUS
<1>1. CASE UNCHANGED settingsVars
    BY <1>1
    DEF settingsVars, SettingsInv, SettingsTypeOK, LoadInv, ToldInv, Undisturbed, Actual
<1>2. CASE SettingsNext
    BY <1>2, ChangeKeeps, LoadDefaultKeeps, LoadRoomsKeeps, LoadRoomKeeps, EndLoadKeeps,
       ReceiveKeeps
    DEF SettingsNext, ManagerNext
<1> QED
    BY <1>1, <1>2

(***************************************************************************)
(* Whenever the manager waits and no announcement is left, the application *)
(* has been told the rules as they are, however the changes fall between   *)
(* the calls of the loads.                                                 *)
(***************************************************************************)
THEOREM SettingsToldCorrect == SettingsSpec => []SettingsTold
<1>1. SettingsInv => SettingsTold
    BY DEF SettingsInv, ToldInv, SettingsTold
<1> QED
    BY <1>1, SettingsStart, SettingsStep, PTL DEF SettingsSpec

-----------------------------------------------------------------------------
(* Polls: positions.                                                       *)

(* A nonempty set of naturals has a least element.                         *)
LEMMA LeastNatural ==
    ASSUME NEW S \in SUBSET Nat, S # {}
    PROVE  \E x \in S : \A y \in S : x <= y
<1> DEFINE R == OpToRel(<, Nat)
<1>1. IsWellFoundedOn(R, Nat)
    BY NatLessThanWellFounded, Zenon
<1>2. \A x, y \in Nat : x < y => <<x, y>> \in R
    BY Zenon DEF OpToRel
<1> HIDE DEF R
<1>3. PICK x \in S : \A y \in S : <<y, x>> \notin R
    BY <1>1, WFMin
<1>4. ASSUME NEW y \in S PROVE x <= y
    <2>1. x \in Nat /\ y \in Nat
        OBVIOUS
    <2>2. ~ (y < x)
        BY <1>2, <1>3, <2>1
    <2> QED
        BY <2>1, <2>2
<1> QED
    BY <1>4

(* A nonempty set of positions up to p has a last one.                     *)
LEMMA LastPosition ==
    ASSUME NEW p \in Nat, NEW S \in SUBSET (1 .. p), S # {}
    PROVE  \E i \in S : \A j \in S : j <= i
<1> DEFINE T == {x \in 0 .. p : p - x \in S}
<1>1. PICK s \in S : TRUE
    OBVIOUS
<1>2. p - s \in T
    BY <1>1
<1>3. T \in SUBSET Nat
    OBVIOUS
<1>4. PICK x \in T : \A y \in T : x <= y
    BY <1>2, <1>3, LeastNatural
<1>5. ASSUME NEW j \in S PROVE j <= p - x
    <2>1. p - j \in T
        OBVIOUS
    <2>2. x <= p - j
        BY <1>4, <2>1
    <2> QED
        BY <2>2
<1> QED
    BY <1>4, <1>5

AllTypes == {"edit", "response", "end"}

(* The first n of the events amount to this, if the poll starts with       *)
(* content s and events of the given types are applied: the last edit is   *)
(* in effect, and so is the newest response of each user if it is not      *)
(* from before that edit.                                                  *)
Edits(es, n, types) == {i \in 1 .. n : es[i].t = "edit" /\ "edit" \in types}
Responses(es, n, u) == {i \in 1 .. n : es[i].t = "response" /\ es[i].u = u}
InEffect(s, es, edit) == IF edit = 0 THEN s ELSE es[edit].start
Chosen(e, max, o) == \E i \in DOMAIN e.answers : i <= max /\ e.answers[i] = o

VotersOf(es, n, edit, max, o) ==
    {u \in Voters : /\ LastOf(Responses(es, n, u)) > edit
                    /\ Chosen(es[LastOf(Responses(es, n, u))], max, o)}

Poll(max, ended, votes) == [max |-> max, completed |-> ended, votes |-> votes]

Amount(new, ended, es, n, edit) ==
    Poll(new.max, ended, [o \in new.options |-> VotersOf(es, n, edit, new.max, o)])

Ends(es, n, types) == {i \in 1 .. n : es[i].t = "end" /\ "end" \in types}

Summary(s, es, n, types) ==
    Amount(InEffect(s, es, LastOf(Edits(es, n, types))), Ends(es, n, types) # {}, es, n,
           LastOf(Edits(es, n, types)))

(***************************************************************************)
(* What makes VotesCounted inductive: a fetch has cached the events it has *)
(* come past, so what it builds knows all from where it began; and once    *)
(* the executor has taken all events, what is shown with knowledge of all  *)
(* of them is what was assembled or built from all of them.                *)
(***************************************************************************)
CallStates == [at : {"idle", "fetch", "built", "answer"}, from : Nat, next : Nat, known : SUBSET Nat]

CallInv(c) ==
    /\ call[c].from \in 0 .. Len(events) /\ call[c].next \in 0 .. call[c].from
    /\ call[c].known \subseteq DOMAIN events
    /\ call[c].at = "fetch" => \A i \in 1 .. call[c].from : i > call[c].next => i \in relations
    /\ call[c].at \in {"built", "answer"} => 1 .. call[c].from \subseteq call[c].known
    /\ call[c].at = "answer" => call[c].known = 1 .. call[c].from

ShownInv ==
    /\ shown.from \in 0 .. Len(events)
    /\ 1 .. shown.from \subseteq shown.known /\ shown.known \subseteq DOMAIN events
    /\ synced = Len(events) /\ Assembles(events) /\ shown.known = DOMAIN events =>
         shown.content = IF shown.fetched THEN build_poll(events, DOMAIN events)
                         ELSE assemble_poll(events)

PollInv ==
    /\ start \in Starts
    /\ events \in Seq(PollEvents)
    /\ synced \in 0 .. Len(events)
    /\ exec.assembled => synced < Len(events) /\ exec.from \in synced .. Len(events)
    /\ relations \subseteq DOMAIN events
    /\ call \in [Calls -> CallStates]
    /\ \A c \in Calls : CallInv(c)
    /\ ShownInv

(* The last of a set of positions.                                         *)
LEMMA LastOfFacts ==
    ASSUME NEW n \in Nat, NEW S \in SUBSET (1 .. n)
    PROVE  /\ LastOf(S) \in 0 .. n
           /\ S = {} => LastOf(S) = 0
           /\ S # {} => LastOf(S) \in S
           /\ \A i \in S : i <= LastOf(S)
<1>1. \E x \in {0} \cup S : \A y \in {0} \cup S : x >= y
    <2>1. CASE S = {}
        BY <2>1
    <2>2. CASE S # {}
        <3>1. PICK i \in S : \A j \in S : j <= i
            BY <2>2, LastPosition
        <3> QED
            BY <3>1
    <2> QED
        BY <2>1, <2>2
<1>2. LastOf(S) \in {0} \cup S /\ \A y \in {0} \cup S : LastOf(S) >= y
    BY <1>1, Zenon DEF LastOf, Max
<1>3. PICK k : k = LastOf(S)
    OBVIOUS
<1>4. k \in {0} \cup S /\ \A y \in S : k >= y
    BY <1>2, <1>3
<1>5. \A i \in S : i \in 1 .. n /\ i # 0
    OBVIOUS
<1>6. k \in 0 .. n /\ \A i \in S : i <= k
    BY <1>4, <1>5
<1>7. ASSUME NEW i \in S PROVE k # 0
    BY <1>5, <1>6
<1> QED
    BY <1>3, <1>4, <1>6, <1>7

(* A position after all others is the last one.                            *)
LEMMA LastOfTop ==
    ASSUME NEW n \in Nat, NEW S \in SUBSET (1 .. n), n \in S
    PROVE  LastOf(S) = n
BY LastOfFacts

(* What an event is made of.                                               *)
LEMMA PollEventFacts ==
    ASSUME NEW e \in PollEvents
    PROVE  /\ e.t \in AllTypes
           /\ e.t = "edit" => e.start \in Starts
           /\ e.t = "response" => e.u \in Voters
BY DEF PollEvents, AllTypes

(* The voters of an option after one more event.                           *)
LEMMA VotersAfter ==
    ASSUME NEW es \in Seq(PollEvents), NEW n \in 1 .. Len(es), NEW edit \in 0 .. n - 1, NEW max,
           NEW o
    PROVE  VotersOf(es, n, edit, max, o) =
             IF es[n].t = "response"
             THEN (VotersOf(es, n - 1, edit, max, o) \ {es[n].u})
                    \cup (IF Chosen(es[n], max, o) THEN {es[n].u} ELSE {})
             ELSE VotersOf(es, n - 1, edit, max, o)
<1>0. es[n] \in PollEvents /\ n \in Nat /\ n - 1 \in Nat
    OBVIOUS
<1>1. ASSUME NEW u PROVE Responses(es, n, u) \in SUBSET (1 .. n)
    BY DEF Responses
<1>2. ASSUME NEW u, es[n].t = "response", es[n].u = u
      PROVE  LastOf(Responses(es, n, u)) = n
    <2>1. n \in Responses(es, n, u)
        BY <1>0, <1>2 DEF Responses
    <2> QED
        BY <1>0, <1>1, <2>1, LastOfTop
<1>3. ASSUME NEW u, ~(es[n].t = "response" /\ es[n].u = u)
      PROVE  Responses(es, n, u) = Responses(es, n - 1, u)
    BY <1>0, <1>3 DEF Responses
<1>4. CASE es[n].t = "response"
    <2>1. es[n].u \in Voters
        BY <1>0, <1>4, PollEventFacts
    <2>2. ASSUME NEW u \in Voters
          PROVE  u \in VotersOf(es, n, edit, max, o) <=>
                   IF u = es[n].u THEN Chosen(es[n], max, o)
                   ELSE u \in VotersOf(es, n - 1, edit, max, o)
        <3>1. CASE u = es[n].u
            <4>1. LastOf(Responses(es, n, u)) = n
                BY <1>2, <1>4, <3>1
            <4> QED
                BY <1>0, <3>1, <4>1 DEF VotersOf
        <3>2. CASE u # es[n].u
            <4>1. Responses(es, n, u) = Responses(es, n - 1, u)
                BY <1>3, <3>2
            <4> QED
                BY <3>2, <4>1, Zenon DEF VotersOf
        <3> QED
            BY <3>1, <3>2
    <2>3. /\ VotersOf(es, n, edit, max, o) \subseteq Voters
          /\ VotersOf(es, n - 1, edit, max, o) \subseteq Voters
        BY DEF VotersOf
    <2> QED
        BY <1>4, <2>1, <2>2, <2>3
<1>5. CASE es[n].t # "response"
    <2>1. \A u : Responses(es, n, u) = Responses(es, n - 1, u)
        BY <1>3, <1>5
    <2>2. VotersOf(es, n, edit, max, o) = VotersOf(es, n - 1, edit, max, o)
        BY <2>1 DEF VotersOf
    <2> QED
        BY <1>5, <2>2
<1> QED
    BY <1>4, <1>5

(* Fields of a poll.                                                       *)
LEMMA PollFields ==
    ASSUME NEW max, NEW ended, NEW votes
    PROVE  Poll(max, ended, votes).votes = votes /\ Poll(max, ended, votes).max = max
BY DEF Poll

(* A poll with another content.                                            *)
LEMMA PollReplaced ==
    ASSUME NEW max, NEW ended, NEW votes, NEW new
    PROVE  replace_content(Poll(max, ended, votes), new) =
             Poll(new.max, ended, [o \in new.options |-> {}])
<1>1. PICK m, none : none = [o \in new.options |-> {}] /\ m = new.max
    OBVIOUS
<1>2. replace_content(Poll(max, ended, votes), new) =
        [Poll(max, ended, votes) EXCEPT !.max = m, !.votes = none]
    BY <1>1, Zenon DEF replace_content
<1>3. [Poll(max, ended, votes) EXCEPT !.max = m, !.votes = none] =
        [[Poll(max, ended, votes) EXCEPT !.max = m] EXCEPT !.votes = none]
    OBVIOUS
<1>4. [Poll(max, ended, votes) EXCEPT !.max = m] = Poll(m, ended, votes)
    BY DEF Poll
<1>5. [Poll(m, ended, votes) EXCEPT !.votes = none] = Poll(m, ended, none)
    BY DEF Poll
<1> QED
    BY <1>1, <1>2, <1>3, <1>4, <1>5, Zenon

(* What an edit does to a poll.                                            *)
LEMMA EditApplied ==
    ASSUME NEW max, NEW ended, NEW votes, NEW e, e.t = "edit"
    PROVE  ApplyEvent(Poll(max, ended, votes), e) =
             Poll(e.start.max, ended, [o \in e.start.options |-> {}])
BY PollReplaced DEF ApplyEvent

(* The voters of an option after the user of response e chose its options. *)
Revoted(votes, e, max, o) == (votes[o] \ {e.u}) \cup (IF Chosen(e, max, o) THEN {e.u} ELSE {})

(* What a response does.                                                   *)
LEMMA ResponseApplied ==
    ASSUME NEW max, NEW ended, NEW votes, NEW e, e.t = "response"
    PROVE  ApplyEvent(Poll(max, ended, votes), e) =
             Poll(max, ended, [o \in DOMAIN votes |-> Revoted(votes, e, max, o)])
<1>1. ApplyEvent(Poll(max, ended, votes), e) = add_answer(Poll(max, ended, votes), e.u, e.answers)
    BY DEF ApplyEvent
<1>2. PICK left : left = [o \in DOMAIN votes |-> votes[o] \ {e.u}]
    OBVIOUS
<1>3. clear_user_answers(Poll(max, ended, votes), e.u) = Poll(max, ended, left)
    <2>1. Poll(max, ended, votes).votes = votes
        BY PollFields
    <2>2. clear_user_answers(Poll(max, ended, votes), e.u) =
            [Poll(max, ended, votes) EXCEPT !.votes = left]
        BY <1>2, <2>1, Zenon DEF clear_user_answers
    <2>3. [Poll(max, ended, votes) EXCEPT !.votes = left] = Poll(max, ended, left)
        BY DEF Poll
    <2> QED
        BY <2>2, <2>3, Zenon
<1>4. PICK revoted :
         revoted = [o \in DOMAIN left |->
                      IF \E i \in DOMAIN e.answers : i <= max /\ e.answers[i] = o
                      THEN left[o] \cup {e.u} ELSE left[o]]
    OBVIOUS
<1>5. Poll(max, ended, left).votes = left /\ Poll(max, ended, votes).max = max
    BY PollFields
<1>6. add_answer(Poll(max, ended, votes), e.u, e.answers) = Poll(max, ended, revoted)
    <2>1. add_answer(Poll(max, ended, votes), e.u, e.answers) =
            [Poll(max, ended, left) EXCEPT !.votes = revoted]
        BY <1>3, <1>4, <1>5, Zenon DEF add_answer
    <2>2. [Poll(max, ended, left) EXCEPT !.votes = revoted] = Poll(max, ended, revoted)
        BY DEF Poll
    <2> QED
        BY <2>1, <2>2, Zenon
<1>7. revoted = [o \in DOMAIN votes |-> Revoted(votes, e, max, o)]
    BY <1>2, <1>4 DEF Revoted, Chosen
<1> QED
    BY <1>1, <1>6, <1>7, Zenon

(* What the end does.                                                      *)
LEMMA EndApplied ==
    ASSUME NEW max, NEW ended, NEW votes, NEW e, e.t = "end"
    PROVE  ApplyEvent(Poll(max, ended, votes), e) = Poll(max, TRUE, votes)
BY DEF ApplyEvent, Poll

(* One more event of a type that is applied changes the summary as         *)
(* ApplyEvent changes a content, and one of another type does not.         *)
LEMMA SummaryAfter ==
    ASSUME NEW s, NEW es \in Seq(PollEvents), NEW n \in 1 .. Len(es),
           NEW types, types = AllTypes \/ types = {"response"}
    PROVE  Summary(s, es, n, types) =
             IF es[n].t \in types THEN ApplyEvent(Summary(s, es, n - 1, types), es[n])
             ELSE Summary(s, es, n - 1, types)
<1>0. /\ es[n] \in PollEvents /\ n \in Nat /\ n - 1 \in Nat /\ n # 0
      /\ Edits(es, n, types) \in SUBSET (1 .. n)
      /\ Edits(es, n - 1, types) \in SUBSET (1 .. n - 1)
    BY DEF Edits
<1>1. PICK edit \in 0 .. n - 1 : edit = LastOf(Edits(es, n - 1, types))
    BY <1>0, LastOfFacts
<1>2. PICK max, options :
         max = InEffect(s, es, edit).max /\ options = InEffect(s, es, edit).options
    OBVIOUS
<1>3. PICK votes : votes = [o \in options |-> VotersOf(es, n - 1, edit, max, o)]
    OBVIOUS
<1>4. PICK ended : ended = (Ends(es, n - 1, types) # {})
    OBVIOUS
<1>5. Summary(s, es, n - 1, types) = Poll(max, ended, votes)
    BY <1>1, <1>2, <1>3, <1>4 DEF Summary, Amount
<1>6. es[n].t = "end" /\ "end" \in types => (Ends(es, n, types) # {}) = TRUE
    BY <1>0 DEF Ends
<1>7. ~(es[n].t = "end" /\ "end" \in types) => (Ends(es, n, types) # {}) = ended
    <2>1. ASSUME ~(es[n].t = "end" /\ "end" \in types)
          PROVE  Ends(es, n, types) = Ends(es, n - 1, types)
        BY <1>0, <2>1 DEF Ends
    <2> QED
        BY <1>4, <2>1
<1>8. CASE es[n].t = "edit" /\ "edit" \in types
    <2>1. LastOf(Edits(es, n, types)) = n
        BY <1>0, <1>8, LastOfTop DEF Edits
    <2>2. InEffect(s, es, n) = es[n].start
        BY <1>0 DEF InEffect
    <2>3. (Ends(es, n, types) # {}) = ended
        BY <1>7, <1>8
    <2>4. ASSUME NEW m, NEW o PROVE VotersOf(es, n, n, m, o) = {}
        <3>1. ASSUME NEW u PROVE LastOf(Responses(es, n, u)) \in 0 .. n
            BY <1>0, LastOfFacts DEF Responses
        <3>2. ASSUME NEW u PROVE ~(LastOf(Responses(es, n, u)) > n)
            BY <1>0, <3>1
        <3> QED
            BY <3>2 DEF VotersOf
    <2>5. Summary(s, es, n, types) =
            Poll(es[n].start.max, ended, [o \in es[n].start.options |-> {}])
        BY <2>1, <2>2, <2>3, <2>4 DEF Summary, Amount
    <2>6. ApplyEvent(Poll(max, ended, votes), es[n]) =
            Poll(es[n].start.max, ended, [o \in es[n].start.options |-> {}])
        BY <1>8, EditApplied
    <2> QED
        BY <1>5, <1>8, <2>5, <2>6, Zenon
<1>9. CASE ~(es[n].t = "edit" /\ "edit" \in types)
    <2>1. Edits(es, n, types) = Edits(es, n - 1, types)
        BY <1>0, <1>9 DEF Edits
    <2>2. PICK after : after = [o \in options |-> VotersOf(es, n, edit, max, o)]
        OBVIOUS
    <2>3. Summary(s, es, n, types) = Poll(max, Ends(es, n, types) # {}, after)
        BY <1>1, <1>2, <2>1, <2>2 DEF Summary, Amount
    <2>4. CASE es[n].t = "response"
        <3>1. es[n].t \in types
            BY <2>4 DEF AllTypes
        <3>2. ASSUME NEW o \in options
              PROVE  VotersOf(es, n, edit, max, o) = Revoted(votes, es[n], max, o)
            <4>1. votes[o] = VotersOf(es, n - 1, edit, max, o)
                BY <1>3
            <4>2. VotersOf(es, n, edit, max, o) =
                    (VotersOf(es, n - 1, edit, max, o) \ {es[n].u})
                      \cup (IF Chosen(es[n], max, o) THEN {es[n].u} ELSE {})
                BY <2>4, VotersAfter
            <4> QED
                BY <4>1, <4>2 DEF Revoted
        <3>3. after = [o \in DOMAIN votes |-> Revoted(votes, es[n], max, o)]
            BY <1>3, <2>2, <3>2
        <3>4. (Ends(es, n, types) # {}) = ended
            BY <1>7, <2>4
        <3>5. ApplyEvent(Poll(max, ended, votes), es[n]) =
                Poll(max, ended, [o \in DOMAIN votes |-> Revoted(votes, es[n], max, o)])
            BY <2>4, ResponseApplied
        <3>6. Summary(s, es, n, types) = ApplyEvent(Poll(max, ended, votes), es[n])
            BY <2>3, <3>3, <3>4, <3>5, Zenon
        <3> QED
            BY <1>5, <3>1, <3>6, Zenon
    <2>5. CASE es[n].t # "response"
        <3>1. ASSUME NEW o PROVE VotersOf(es, n, edit, max, o) = VotersOf(es, n - 1, edit, max, o)
            BY <2>5, VotersAfter
        <3>2. after = votes
            BY <1>3, <2>2, <3>1
        <3>3. CASE es[n].t \in types
            <4>1. es[n].t = "end"
                BY <1>0, <1>9, <2>5, <3>3, PollEventFacts DEF AllTypes
            <4>2. (Ends(es, n, types) # {}) = TRUE
                BY <1>6, <3>3, <4>1
            <4>3. ApplyEvent(Poll(max, ended, votes), es[n]) = Poll(max, TRUE, votes)
                BY <4>1, EndApplied
            <4>4. Summary(s, es, n, types) = ApplyEvent(Poll(max, ended, votes), es[n])
                BY <2>3, <3>2, <4>2, <4>3, Zenon
            <4> QED
                BY <1>5, <3>3, <4>4, Zenon
        <3>4. CASE es[n].t \notin types
            <4>1. (Ends(es, n, types) # {}) = ended
                BY <1>7, <3>4
            <4> QED
                BY <1>5, <2>3, <3>2, <3>4, <4>1, Zenon
        <3> QED
            BY <3>3, <3>4
    <2> QED
        BY <2>4, <2>5
<1> QED
    BY <1>8, <1>9

(* Before any event.                                                       *)
LEMMA SummaryOfNone ==
    ASSUME NEW s, NEW es, NEW types
    PROVE  Summary(s, es, 0, types) = assemble_poll_start(s)
<1>1. Edits(es, 0, types) = {} /\ \A u : Responses(es, 0, u) = {}
    BY DEF Edits, Responses
<1>2. LastOf({}) = 0
    BY LastOfFacts
<1>3. ASSUME NEW max, NEW o PROVE VotersOf(es, 0, 0, max, o) = {}
    BY <1>1, <1>2 DEF VotersOf
<1>4. (Ends(es, 0, types) # {}) = FALSE
    BY DEF Ends
<1>5. Summary(s, es, 0, types) = Amount(s, FALSE, es, 0, 0)
    BY <1>1, <1>2, <1>4 DEF Summary, InEffect
<1>6. Amount(s, FALSE, es, 0, 0) = Poll(s.max, FALSE, [o \in s.options |-> {}])
    BY <1>3 DEF Amount
<1> QED
    BY <1>5, <1>6 DEF Poll, assemble_poll_start

(* The positions of the events of the given types.                         *)
OfTypes(es, types) == {i \in DOMAIN es : es[i].t \in types}

(* The fold of ApplyAll.                                                   *)
After(f, n, content, es, S) ==
    IF n = 0 THEN content
    ELSE IF n \in S THEN ApplyEvent(f[n - 1], es[n]) ELSE f[n - 1]

(***************************************************************************)
(* Applying the events one after the other gives the summary: the function *)
(* of the summaries satisfies the recursive definition, and no other does  *)
(* (least counterexample).                                                 *)
(***************************************************************************)
LEMMA ApplyAllSummary ==
    ASSUME NEW s, NEW es \in Seq(PollEvents),
           NEW types, types = AllTypes \/ types = {"response"}
    PROVE  ApplyAll(assemble_poll_start(s), es, OfTypes(es, types)) = Summary(s, es, Len(es), types)
<1> DEFINE c == assemble_poll_start(s)
           at == OfTypes(es, types)
           F == CHOOSE f : f = [n \in 0 .. Len(es) |-> After(f, n, c, es, at)]
<1>0. Len(es) \in Nat
    OBVIOUS
<1>00. \A n \in 1 .. Len(es) : n \in at <=> es[n].t \in types
    BY DEF OfTypes
<1>1. ApplyAll(c, es, at) = F[Len(es)]
    BY DEF ApplyAll, After
<1> HIDE DEF c, at
<1>2. F = [n \in 0 .. Len(es) |-> After(F, n, c, es, at)]
    <2> DEFINE g == [n \in 0 .. Len(es) |-> Summary(s, es, n, types)]
    <2>1. ASSUME NEW n \in 0 .. Len(es) PROVE g[n] = After(g, n, c, es, at)
        <3>1. CASE n = 0
            BY <3>1, SummaryOfNone DEF After, c
        <3>2. CASE n # 0
            <4>1. n \in 1 .. Len(es) /\ n - 1 \in 0 .. Len(es)
                BY <1>0, <3>2
            <4>2. g[n] = Summary(s, es, n, types) /\ g[n - 1] = Summary(s, es, n - 1, types)
                BY <4>1
            <4> HIDE DEF g
            <4> QED
                BY <1>00, <3>2, <4>1, <4>2, SummaryAfter DEF After
        <3> QED
            BY <3>1, <3>2
    <2>2. g = [n \in 0 .. Len(es) |-> g[n]]
        OBVIOUS
    <2> HIDE DEF g
    <2>3. g = [n \in 0 .. Len(es) |-> After(g, n, c, es, at)]
        BY <2>1, <2>2
    <2> QED
        BY <2>3
<1> HIDE DEF F
<1>3. ASSUME NEW n \in 0 .. Len(es)
      PROVE  F[n] = After(F, n, c, es, at)
    BY <1>2
<1> DEFINE S == {k \in 0 .. Len(es) : F[k] # Summary(s, es, k, types)}
<1>4. S = {}
    <2> SUFFICES ASSUME S # {} PROVE FALSE
        OBVIOUS
    <2>0. S \in SUBSET Nat
        BY <1>0
    <2>1. PICK k \in S : \A l \in S : k <= l
        BY <2>0, LeastNatural
    <2>2. k \in 0 .. Len(es) /\ F[k] # Summary(s, es, k, types)
        OBVIOUS
    <2>3. CASE k = 0
        BY <1>3, <2>2, <2>3, SummaryOfNone DEF After, c
    <2>4. CASE k # 0
        <3>1. k \in 1 .. Len(es) /\ k - 1 \in 0 .. Len(es)
            BY <1>0, <2>2, <2>4
        <3>2. k - 1 \notin S
            BY <2>1, <3>1
        <3>3. F[k - 1] = Summary(s, es, k - 1, types)
            BY <3>1, <3>2
        <3>4. F[k] = After(F, k, c, es, at)
            BY <1>3, <2>2
        <3>5. F[k] = Summary(s, es, k, types)
            BY <1>00, <2>4, <3>1, <3>3, <3>4, SummaryAfter DEF After
        <3> QED
            BY <2>2, <3>5
    <2> QED
        BY <2>3, <2>4
<1>5. F[Len(es)] = Summary(s, es, Len(es), types)
    BY <1>0, <1>4
<1> QED
    BY <1>1, <1>5 DEF c, at

(* What is assembled from all events.                                      *)
LEMMA AssembledAll ==
    ASSUME NEW es \in Seq(PollEvents)
    PROVE  assemble_poll(es) = Summary(start, es, Len(es), AllTypes)
<1>1. OfTypes(es, AllTypes) = DOMAIN es
    <2>1. ASSUME NEW i \in DOMAIN es PROVE es[i].t \in AllTypes
        <3>1. es[i] \in PollEvents
            OBVIOUS
        <3> QED
            BY <3>1, PollEventFacts
    <2> QED
        BY <2>1 DEF OfTypes
<1>2. assemble_poll(es) = ApplyAll(assemble_poll_start(start), es, OfTypes(es, AllTypes))
    BY <1>1, Zenon DEF assemble_poll
<1> QED
    BY <1>2, ApplyAllSummary

(* The executor applies an event to a poll that already has it, or to one  *)
(* without it: the result has it once.                                     *)
LEMMA AppliedTwice ==
    ASSUME NEW s, NEW es \in Seq(PollEvents), NEW n \in 1 .. Len(es)
    PROVE  ApplyEvent(Summary(s, es, n, AllTypes), es[n]) = Summary(s, es, n, AllTypes)
<1>0. es[n] \in PollEvents /\ es[n].t \in AllTypes
    BY PollEventFacts
<1>1. PICK max, ended, votes : Summary(s, es, n - 1, AllTypes) = Poll(max, ended, votes)
    BY DEF Summary, Amount
<1>2. Summary(s, es, n, AllTypes) = ApplyEvent(Poll(max, ended, votes), es[n])
    BY <1>0, <1>1, SummaryAfter
<1>3. CASE es[n].t = "edit"
    <2>1. PICK m, none : m = es[n].start.max /\ none = [o \in es[n].start.options |-> {}]
        OBVIOUS
    <2>2. Summary(s, es, n, AllTypes) = Poll(m, ended, none)
        BY <1>2, <1>3, <2>1, EditApplied
    <2>3. ApplyEvent(Poll(m, ended, none), es[n]) = Poll(m, ended, none)
        BY <1>3, <2>1, EditApplied
    <2> QED
        BY <2>2, <2>3, Zenon
<1>4. CASE es[n].t = "response"
    <2>1. PICK revoted : revoted = [o \in DOMAIN votes |-> Revoted(votes, es[n], max, o)]
        OBVIOUS
    <2>2. Summary(s, es, n, AllTypes) = Poll(max, ended, revoted)
        BY <1>2, <1>4, <2>1, ResponseApplied
    <2>3. ApplyEvent(Poll(max, ended, revoted), es[n]) =
            Poll(max, ended, [o \in DOMAIN revoted |-> Revoted(revoted, es[n], max, o)])
        BY <1>4, ResponseApplied
    <2>4. [o \in DOMAIN revoted |-> Revoted(revoted, es[n], max, o)] = revoted
        BY <2>1 DEF Revoted
    <2> QED
        BY <2>2, <2>3, <2>4, Zenon
<1>5. CASE es[n].t = "end"
    <2>1. Summary(s, es, n, AllTypes) = Poll(max, TRUE, votes)
        BY <1>2, <1>5, EndApplied
    <2>2. ApplyEvent(Poll(max, TRUE, votes), es[n]) = Poll(max, TRUE, votes)
        BY <1>5, EndApplied
    <2> QED
        BY <2>1, <2>2, Zenon
<1> QED
    BY <1>0, <1>3, <1>4, <1>5 DEF AllTypes

(* What the SDK has of the events, and what is assembled from it.          *)
LEMMA AssembledPart ==
    ASSUME NEW es \in Seq(PollEvents), NEW n \in 0 .. Len(es)
    PROVE  assemble_poll(SubSeq(es, 1, n)) = Summary(start, es, n, AllTypes)
<1> DEFINE part == SubSeq(es, 1, n)
<1>1. Len(es) \in Nat /\ part \in Seq(PollEvents) /\ Len(part) = n
      /\ \A i \in 1 .. n : part[i] = es[i]
    OBVIOUS
<1> HIDE DEF part
<1>2. assemble_poll(part) = Summary(start, part, n, AllTypes)
    BY <1>1, AssembledAll
<1>3. Edits(part, n, AllTypes) = Edits(es, n, AllTypes)
    BY <1>1 DEF Edits
<1>4. Ends(part, n, AllTypes) = Ends(es, n, AllTypes)
    BY <1>1 DEF Ends
<1>5. \A u : Responses(part, n, u) = Responses(es, n, u)
    BY <1>1 DEF Responses
<1>6. PICK edit \in 0 .. n : edit = LastOf(Edits(es, n, AllTypes))
    <2>1. n \in Nat /\ Edits(es, n, AllTypes) \in SUBSET (1 .. n)
        BY <1>1 DEF Edits
    <2> QED
        BY <2>1, LastOfFacts
<1>7. InEffect(start, part, edit) = InEffect(start, es, edit)
    BY <1>1, <1>6 DEF InEffect
<1>8. ASSUME NEW max, NEW o
      PROVE  VotersOf(part, n, edit, max, o) = VotersOf(es, n, edit, max, o)
    <2>1. ASSUME NEW u, LastOf(Responses(es, n, u)) > edit
          PROVE  part[LastOf(Responses(es, n, u))] = es[LastOf(Responses(es, n, u))]
        <3>0. n \in Nat /\ Responses(es, n, u) \in SUBSET (1 .. n)
            BY <1>1 DEF Responses
        <3>1. PICK k \in 0 .. n : k = LastOf(Responses(es, n, u))
            BY <3>0, LastOfFacts
        <3>2. k \in 1 .. n
            BY <1>1, <1>6, <2>1, <3>1
        <3> QED
            BY <1>1, <3>1, <3>2
    <2> QED
        BY <1>5, <2>1 DEF VotersOf
<1>9. Summary(start, part, n, AllTypes) = Summary(start, es, n, AllTypes)
    BY <1>3, <1>4, <1>6, <1>7, <1>8 DEF Summary, Amount
<1> QED
    BY <1>2, <1>9 DEF part

(* A step of one request leaves the others as they are.                    *)
LEMMA OtherCalls ==
    ASSUME PollInv, NEW c \in Calls, NEW new, call' = [call EXCEPT ![c] = new],
           new \in CallStates, events' = events, relations \subseteq relations'
    PROVE  /\ call' \in [Calls -> CallStates]
           /\ call'[c] = new
           /\ \A d \in Calls : d # c => CallInv(d)'
<1>1. call \in [Calls -> CallStates] /\ \A d \in Calls : CallInv(d)
    BY DEF PollInv
<1>3. call'[c] = new /\ \A d \in Calls : d # c => call'[d] = call[d]
    BY <1>1
<1>4. ASSUME NEW d \in Calls, d # c PROVE CallInv(d)'
    <2>1. CallInv(d) /\ call'[d] = call[d]
        BY <1>1, <1>3, <1>4
    <2> QED
        BY <2>1 DEF CallInv
<1> QED
    BY <1>1, <1>3, <1>4

(* What is shown does not depend on the state of the requests.             *)
LEMMA ShownKept ==
    ASSUME ShownInv, UNCHANGED <<start, events, synced, shown>>
    PROVE  ShownInv'
BY DEF ShownInv, build_poll, assemble_poll

(* What is shown after a delivery while all events have been taken.        *)
LEMMA ShownNew ==
    ASSUME NEW from \in 0 .. Len(events), NEW known \in SUBSET DOMAIN events, NEW content,
           NEW fetched, 1 .. from \subseteq known,
           shown' = [content |-> content, fetched |-> fetched, from |-> from, known |-> known],
           UNCHANGED <<start, events>>,
           synced' = Len(events) /\ Assembles(events) /\ known = DOMAIN events =>
             content = IF fetched THEN build_poll(events, DOMAIN events) ELSE assemble_poll(events)
    PROVE  ShownInv'
<1>1. /\ shown'.content = content /\ shown'.fetched = fetched
      /\ shown'.from = from /\ shown'.known = known
    OBVIOUS
<1>2. /\ build_poll(events, DOMAIN events)' = build_poll(events, DOMAIN events)
      /\ assemble_poll(events)' = assemble_poll(events) /\ Assembles(events)' = Assembles(events)
    BY DEF build_poll, assemble_poll
<1> QED
    BY <1>1, <1>2 DEF ShownInv

(* The executor sends the poll with one more event applied.                *)
LEMMA ChangeSent ==
    ASSUME PollInv, SendPollChange
    PROVE  PollInv'
<1>0. /\ start \in Starts /\ events \in Seq(PollEvents) /\ Len(events) \in Nat
      /\ DOMAIN events = 1 .. Len(events)
      /\ synced \in 0 .. Len(events) /\ synced < Len(events) /\ exec.from \in synced .. Len(events)
    BY DEF PollInv, SendPollChange
<1>1. /\ synced' = synced + 1 /\ exec' = [assembled |-> FALSE, from |-> 0]
      /\ UNCHANGED <<start, events, relations, call>>
    BY DEF SendPollChange
<1>2. PICK n \in synced .. Len(events) : n = exec.from
    BY <1>0
<1>3. PICK k \in 1 .. Len(events) : k = synced + 1
    <2>1. synced + 1 \in 1 .. Len(events)
        BY <1>0
    <2> QED
        BY <2>1
<1>4. PICK upto \in 1 .. Len(events) :
         upto = Max({exec.from, synced + 1}) /\ upto = (IF n > k THEN n ELSE k)
    <2>1. \E x \in {n, k} : x = (IF n > k THEN n ELSE k) /\ \A y \in {n, k} : x >= y
        BY <1>0
    <2>2. Max({n, k}) \in {n, k} /\ \A y \in {n, k} : Max({n, k}) >= y
        BY <2>1, Zenon DEF Max
    <2>3. PICK m : m = Max({n, k})
        OBVIOUS
    <2>4. m = (IF n > k THEN n ELSE k)
        BY <1>0, <2>2, <2>3
    <2> QED
        <3>1. m \in 1 .. Len(events)
            BY <1>0, <2>4
        <3> QED
            BY <1>2, <1>3, <2>3, <2>4, <3>1
<1>5. PICK content : content = ApplyEvent(assemble_poll(SubSeq(events, 1, n)), events[k])
    OBVIOUS
<1>6. shown' = [content |-> content, fetched |-> FALSE, from |-> upto, known |-> 1 .. upto]
    BY <1>2, <1>3, <1>4, <1>5 DEF SendPollChange
<1>7. ASSUME synced' = Len(events) PROVE content = assemble_poll(events)
    <2>0. k = Len(events)
        BY <1>1, <1>3, <1>7
    <2>00. n \in synced .. k /\ k = synced + 1 /\ synced \in Nat
        BY <1>0, <1>3, <2>0
    <2>1. n \in 0 .. Len(events) /\ (n = k \/ n = k - 1) /\ k = Len(events)
        BY <2>0, <2>00
    <2>2. content = ApplyEvent(Summary(start, events, n, AllTypes), events[k])
        BY <1>0, <1>5, <2>1, AssembledPart
    <2>3. ApplyEvent(Summary(start, events, n, AllTypes), events[k]) =
            Summary(start, events, k, AllTypes)
        <3>1. CASE n = k
            BY <1>0, <3>1, AppliedTwice
        <3>2. CASE n = k - 1
            <4>1. events[k].t \in AllTypes
                BY <1>0, PollEventFacts
            <4> QED
                BY <1>0, <3>2, <4>1, SummaryAfter
        <3> QED
            BY <2>1, <3>1, <3>2
    <2> QED
        BY <1>0, <2>1, <2>2, <2>3, AssembledAll
<1>8. ShownInv'
    <2>1. upto \in 0 .. Len(events) /\ 1 .. upto \in SUBSET DOMAIN events
        BY <1>0
    <2> QED
        BY <1>1, <1>6, <1>7, <2>1, ShownNew
<1>9. \A c \in Calls : CallInv(c)'
    <2>1. \A c \in Calls : CallInv(c)
        BY DEF PollInv
    <2> QED
        BY <1>1, <2>1 DEF CallInv
<1>10. /\ start' \in Starts /\ events' \in Seq(PollEvents) /\ synced' \in 0 .. Len(events')
       /\ ~exec'.assembled /\ relations' \subseteq DOMAIN events'
       /\ call' \in [Calls -> CallStates]
    BY <1>0, <1>1 DEF PollInv
<1> QED
    BY <1>8, <1>9, <1>10 DEF PollInv

(* A request delivers a poll.                                              *)
LEMMA CallDelivers ==
    ASSUME PollInv, NEW c \in Calls, DeliverFetched(c) \/ DeliverAnswer(c)
    PROVE  ShownInv'
<1>0. /\ events \in Seq(PollEvents) /\ Len(events) \in Nat /\ DOMAIN events = 1 .. Len(events)
      /\ CallInv(c)
    BY DEF PollInv
<1>1. PICK from, known : from = call[c].from /\ known = call[c].known
    OBVIOUS
<1>2. /\ from \in 0 .. Len(events) /\ known \in SUBSET DOMAIN events
      /\ 1 .. from \subseteq known /\ UNCHANGED <<start, events, synced>>
      /\ call[c].at = "answer" => known = 1 .. from
    BY <1>0, <1>1 DEF CallInv, DeliverFetched, DeliverAnswer
<1>3. CASE DeliverFetched(c)
    <2>1. shown' = [content |-> build_poll(events, known), fetched |-> TRUE,
                    from |-> from, known |-> known]
        BY <1>1, <1>3 DEF DeliverFetched
    <2> QED
        BY <1>2, <2>1, ShownNew
<1>4. CASE DeliverAnswer(c)
    <2>1. PICK content : content = assemble_poll(SubSeq(events, 1, from))
        OBVIOUS
    <2>2. shown' = [content |-> content, fetched |-> FALSE, from |-> from, known |-> known]
        BY <1>1, <1>4, <2>1 DEF DeliverAnswer
    <2>3. ASSUME known = DOMAIN events PROVE content = assemble_poll(events)
        <3>1. 1 .. from = 1 .. Len(events)
            BY <1>0, <1>2, <1>4, <2>3 DEF DeliverAnswer
        <3>2. from = Len(events)
            <4>1. PICK N \in Nat : N = Len(events)
                BY <1>0
            <4>2. 1 .. from = 1 .. N /\ from \in 0 .. N
                BY <1>2, <3>1, <4>1
            <4>3. CASE N = 0
                BY <4>1, <4>2, <4>3
            <4>4. CASE N # 0
                <5>1. N \in 1 .. N
                    BY <4>4
                <5>2. N \in 1 .. from
                    BY <4>2, <5>1
                <5> QED
                    BY <4>1, <4>2, <5>2
            <4> QED
                BY <4>3, <4>4
        <3>3. content = Summary(start, events, from, AllTypes)
            BY <1>0, <1>2, <2>1, AssembledPart
        <3> QED
            BY <1>0, <3>2, <3>3, AssembledAll
    <2> QED
        BY <1>2, <2>2, <2>3, ShownNew
<1> QED
    BY <1>3, <1>4

(* A request takes a step.                                                 *)
LEMMA CallStep ==
    ASSUME PollInv, NEW c \in Calls,
           \/ BeginFetch(c) \/ CacheRelation(c) \/ BuildPoll(c) \/ EndFetch(c)
           \/ DeliverFetched(c) \/ AnswerPoll(c) \/ DeliverAnswer(c)
    PROVE  PollInv'
<1>0. /\ start \in Starts /\ events \in Seq(PollEvents) /\ Len(events) \in Nat
      /\ DOMAIN events = 1 .. Len(events) /\ synced \in 0 .. Len(events)
      /\ relations \subseteq DOMAIN events /\ ShownInv
      /\ CallInv(c) /\ call \in [Calls -> CallStates] /\ call[c] \in CallStates
      /\ exec.assembled => synced < Len(events) /\ exec.from \in synced .. Len(events)
    BY DEF PollInv
<1>1. UNCHANGED <<start, events, synced, exec>>
    BY DEF BeginFetch, CacheRelation, BuildPoll, EndFetch, DeliverFetched, AnswerPoll,
           DeliverAnswer
<1>2. SUFFICES /\ relations' \subseteq DOMAIN events /\ relations \subseteq relations'
               /\ \E new \in CallStates : call' = [call EXCEPT ![c] = new]
               /\ CallInv(c)'
               /\ ShownInv'
    <2>1. PICK new \in CallStates : call' = [call EXCEPT ![c] = new]
        BY <1>2
    <2>2. /\ call' \in [Calls -> CallStates]
          /\ \A d \in Calls : d # c => CallInv(d)'
        BY <1>1, <1>2, <2>1, OtherCalls
    <2>3. \A d \in Calls : CallInv(d)'
        BY <1>2, <2>2
    <2> QED
        BY <1>0, <1>1, <1>2, <2>2, <2>3 DEF PollInv
<1>3. PICK at, from, next, known :
         /\ call[c] = [at |-> at, from |-> from, next |-> next, known |-> known]
         /\ at \in {"idle", "fetch", "built", "answer"}
         /\ from \in 0 .. Len(events) /\ next \in 0 .. from /\ known \in SUBSET DOMAIN events
         /\ at = "fetch" => \A i \in 1 .. from : i > next => i \in relations
    <2>1. call[c] = [at |-> call[c].at, from |-> call[c].from, next |-> call[c].next,
                     known |-> call[c].known]
        BY <1>0 DEF CallStates
    <2> QED
        BY <1>0, <2>1 DEF CallInv, CallStates
<1>4. ASSUME NEW new \in CallStates, call' = [call EXCEPT ![c] = new]
      PROVE  call'[c] = new
    BY <1>0, <1>4
<1>5. NoCall \in CallStates /\ (call' = [call EXCEPT ![c] = NoCall] => CallInv(c)')
    <2>1. NoCall \in CallStates
        BY DEF NoCall, CallStates
    <2>2. ASSUME call'[c] = NoCall PROVE CallInv(c)'
        BY <1>0, <1>1, <2>2 DEF CallInv, NoCall
    <2> QED
        BY <1>4, <2>1, <2>2
<1>6. CASE BeginFetch(c)
    <2>0. PICK n \in 0 .. Len(events) :
             call' = [call EXCEPT ![c] = [at |-> "fetch", from |-> n, next |-> n, known |-> {}]]
        BY <1>6 DEF BeginFetch
    <2>1. PICK new : /\ new = [at |-> "fetch", from |-> n, next |-> n, known |-> {}]
                     /\ call' = [call EXCEPT ![c] = new]
        BY <2>0
    <2>2. new \in CallStates
        BY <1>0, <2>1 DEF CallStates
    <2>3. call'[c] = new /\ relations' = relations /\ shown' = shown
        BY <1>4, <1>6, <2>1, <2>2 DEF BeginFetch
    <2>4. CallInv(c)'
        BY <1>0, <1>1, <2>1, <2>3 DEF CallInv
    <2> QED
        BY <1>0, <1>1, <2>1, <2>2, <2>3, <2>4, ShownKept
<1>7. CASE CacheRelation(c)
    <2>1. /\ at = "fetch" /\ next > 0 /\ shown' = shown
          /\ relations' = relations \cup {next}
          /\ call' = [call EXCEPT ![c] = [call[c] EXCEPT !.next = next - 1]]
        BY <1>3, <1>7 DEF CacheRelation
    <2>2. PICK new : new = [at |-> "fetch", from |-> from, next |-> next - 1, known |-> known]
        OBVIOUS
    <2>3. [call[c] EXCEPT !.next = next - 1] = new
        BY <1>3, <2>1, <2>2
    <2>4. new \in CallStates /\ call' = [call EXCEPT ![c] = new]
        <3>1. from \in Nat /\ next - 1 \in Nat /\ known \in SUBSET Nat
            BY <1>0, <1>3, <2>1
        <3>2. new \in CallStates
            BY <2>2, <3>1 DEF CallStates
        <3> QED
            BY <2>1, <2>3, <3>2
    <2>5. relations' \subseteq DOMAIN events /\ \A i \in 1 .. from : i > next - 1 => i \in relations'
        BY <1>0, <1>3, <2>1
    <2>6. call'[c] = new
        BY <1>4, <2>4
    <2>7. CallInv(c)'
        BY <1>0, <1>1, <1>3, <2>1, <2>2, <2>5, <2>6 DEF CallInv
    <2> QED
        BY <1>0, <1>1, <2>1, <2>4, <2>5, <2>7, ShownKept
<1>8. CASE BuildPoll(c)
    <2>1. PICK new : new = [at |-> "built", from |-> from, next |-> 0, known |-> relations]
        OBVIOUS
    <2>2. /\ at = "fetch" /\ next = 0 /\ shown' = shown /\ relations' = relations
          /\ call' = [call EXCEPT ![c] = new]
        BY <1>0, <1>3, <1>8, <2>1 DEF BuildPoll
    <2>4. new \in CallStates
        <3>1. from \in Nat /\ relations \in SUBSET Nat
            BY <1>0, <1>3
        <3> QED
            BY <2>1, <3>1 DEF CallStates
    <2>5. call'[c] = new
        BY <1>4, <2>2, <2>4
    <2>6. 1 .. from \subseteq relations
        BY <1>3, <2>2
    <2>7. CallInv(c)'
        BY <1>0, <1>1, <1>3, <2>1, <2>2, <2>5, <2>6 DEF CallInv
    <2> QED
        BY <1>0, <1>1, <2>2, <2>4, <2>7, ShownKept
<1>9. CASE EndFetch(c)
    <2>1. relations' = relations /\ shown' = shown /\ call' = [call EXCEPT ![c] = NoCall]
        BY <1>9 DEF EndFetch
    <2> QED
        BY <1>0, <1>1, <1>5, <2>1, ShownKept
<1>10. CASE DeliverFetched(c) \/ DeliverAnswer(c)
    <2>1. relations' = relations /\ call' = [call EXCEPT ![c] = NoCall]
        BY <1>10 DEF DeliverFetched, DeliverAnswer
    <2> QED
        BY <1>0, <1>5, <1>10, <2>1, CallDelivers
<1>11. CASE AnswerPoll(c)
    <2>0. PICK n \in 0 .. Len(events) :
             call' = [call EXCEPT ![c] = [at |-> "answer", from |-> n, next |-> 0,
                                         known |-> 1 .. n]]
        <3>1. PICK n \in synced .. Len(events) :
                 call' = [call EXCEPT ![c] = [at |-> "answer", from |-> n, next |-> 0,
                                             known |-> 1 .. n]]
            BY <1>11 DEF AnswerPoll
        <3>2. n \in 0 .. Len(events)
            BY <1>0
        <3> QED
            BY <3>1, <3>2
    <2>1. PICK new : /\ new = [at |-> "answer", from |-> n, next |-> 0, known |-> 1 .. n]
                     /\ call' = [call EXCEPT ![c] = new]
        BY <2>0
    <2>2. new \in CallStates
        BY <1>0, <2>1 DEF CallStates
    <2>3. call'[c] = new /\ relations' = relations /\ shown' = shown
        BY <1>4, <1>11, <2>1, <2>2 DEF AnswerPoll
    <2>4. CallInv(c)'
        BY <1>0, <1>1, <2>1, <2>3 DEF CallInv
    <2> QED
        BY <1>0, <1>1, <2>1, <2>2, <2>3, <2>4, ShownKept
<1> QED
    BY <1>6, <1>7, <1>8, <1>9, <1>10, <1>11

(* Every step of a poll keeps the invariant.                               *)
LEMMA PollStep == PollInv /\ [PollNext]_pollVars => PollInv'
<1> SUFFICES ASSUME PollInv, [PollNext]_pollVars PROVE PollInv'
    OBVIOUS
<1>0. /\ start \in Starts /\ events \in Seq(PollEvents) /\ Len(events) \in Nat
      /\ DOMAIN events = 1 .. Len(events) /\ synced \in 0 .. Len(events)
      /\ relations \subseteq DOMAIN events /\ ShownInv
      /\ call \in [Calls -> CallStates] /\ (\A c \in Calls : CallInv(c))
      /\ exec.assembled => synced < Len(events) /\ exec.from \in synced .. Len(events)
    BY DEF PollInv
<1>1. CASE UNCHANGED pollVars
    <2>1. UNCHANGED <<start, events, synced, exec, relations, call, shown>>
        BY <1>1 DEF pollVars
    <2>2. ShownInv' /\ \A c \in Calls : CallInv(c)'
        BY <1>0, <2>1, ShownKept DEF CallInv
    <2> QED
        BY <1>0, <2>1, <2>2 DEF PollInv
<1>2. CASE SendPollEvent
    <2>1. PICK e \in PollEvents : events' = Append(events, e)
        BY <1>2 DEF SendPollEvent
    <2>2. /\ events' \in Seq(PollEvents) /\ Len(events') = Len(events) + 1
          /\ DOMAIN events' = 1 .. Len(events) + 1
          /\ UNCHANGED <<start, synced, exec, relations, call, shown>>
        BY <1>0, <1>2, <2>1 DEF SendPollEvent
    <2>3. ShownInv'
        <3>1. synced' # Len(events')
            BY <1>0, <2>2
        <3>2. /\ shown'.from \in 0 .. Len(events')
              /\ 1 .. shown'.from \subseteq shown'.known
              /\ shown'.known \subseteq DOMAIN events'
            <4>1. /\ shown.from \in 0 .. Len(events)
                  /\ 1 .. shown.from \subseteq shown.known
                  /\ shown.known \subseteq DOMAIN events
                BY <1>0 DEF ShownInv
            <4> QED
                BY <1>0, <2>2, <4>1
        <3> QED
            BY <3>1, <3>2 DEF ShownInv
    <2>4. \A c \in Calls : CallInv(c)'
        BY <1>0, <2>2 DEF CallInv
    <2> QED
        BY <1>0, <2>2, <2>3, <2>4 DEF PollInv
<1>3. CASE AssemblePoll
    <2>1. /\ ~exec.assembled /\ synced < Len(events)
          /\ UNCHANGED <<start, events, relations, call, shown>>
        BY <1>3 DEF AssemblePoll
    <2>2. \A c \in Calls : CallInv(c)'
        BY <1>0, <2>1 DEF CallInv
    <2>3. PICK n \in synced .. Len(events) :
            IF Assembles(SubSeq(events, 1, n))
            THEN exec' = [assembled |-> TRUE, from |-> n] /\ UNCHANGED synced
            ELSE synced' = synced + 1 /\ UNCHANGED exec
        BY <1>3 DEF AssemblePoll
    <2>4. CASE Assembles(SubSeq(events, 1, n))
        <3>1. exec' = [assembled |-> TRUE, from |-> n] /\ synced' = synced
            BY <2>3, <2>4
        <3>2. ShownInv'
            BY <1>0, <2>1, <3>1, ShownKept
        <3> QED
            BY <1>0, <2>1, <2>2, <3>1, <3>2 DEF PollInv
    <2>5. CASE ~Assembles(SubSeq(events, 1, n))
        <3>1. exec' = exec /\ synced' = synced + 1
            BY <2>3, <2>5
        <3>2. ~Assembles(events)
            BY <1>0, <2>5 DEF Assembles
        <3>3. ShownInv'
            BY <1>0, <2>1, <3>2 DEF ShownInv, Assembles
        <3> QED
            BY <1>0, <2>1, <2>2, <3>1, <3>3 DEF PollInv
    <2> QED
        BY <2>4, <2>5
<1>4. CASE SendPollChange
    BY <1>4, ChangeSent
<1>5. CASE \E c \in Calls : \/ BeginFetch(c) \/ CacheRelation(c) \/ BuildPoll(c) \/ EndFetch(c)
                            \/ DeliverFetched(c) \/ AnswerPoll(c) \/ DeliverAnswer(c)
    BY <1>5, CallStep
<1> QED
    BY <1>1, <1>2, <1>3, <1>4, <1>5 DEF PollNext

(* The invariant holds at the start.                                       *)
LEMMA PollStart == PollInit => PollInv
<1> SUFFICES ASSUME PollInit PROVE PollInv
    OBVIOUS
<1>1. /\ start \in Starts /\ events = <<>> /\ synced = 0
      /\ exec = [assembled |-> FALSE, from |-> 0] /\ relations = {}
      /\ call = [c \in Calls |-> NoCall]
      /\ shown = [content |-> assemble_poll_start(start), fetched |-> FALSE,
                  from |-> 0, known |-> {}]
    BY DEF PollInit
<1>2. <<>> \in Seq(PollEvents) /\ Len(<<>>) = 0 /\ DOMAIN <<>> = {}
    OBVIOUS
<1>3. assemble_poll(<<>>) = Summary(start, <<>>, 0, AllTypes)
    BY <1>2, AssembledAll
<1>4. Summary(start, <<>>, 0, AllTypes) = assemble_poll_start(start)
    BY SummaryOfNone
<1>5. PICK content : content = assemble_poll_start(start)
    OBVIOUS
<1>6. shown.content = content /\ shown.fetched = FALSE /\ shown.from = 0 /\ shown.known = {}
    BY <1>1, <1>5
<1>7. ShownInv
    BY <1>1, <1>2, <1>3, <1>4, <1>5, <1>6 DEF ShownInv
<1>8. NoCall \in CallStates
    BY DEF NoCall, CallStates
<1>9. \A c \in Calls : CallInv(c)
    <2>1. \A c \in Calls : call[c] = NoCall
        BY <1>1
    <2> QED
        BY <1>1, <1>2, <2>1 DEF CallInv, NoCall
<1> QED
    BY <1>1, <1>2, <1>7, <1>8, <1>9 DEF PollInv

(* A page shows the last edit and the newest response of each user.        *)
LEMMA BuiltPoll ==
    ASSUME NEW es \in Seq(PollEvents)
    PROVE  LET edit == LastOf(Edits(es, Len(es), AllTypes))
           IN  build_poll(es, DOMAIN es) = Amount(InEffect(start, es, edit),
                                       \E i \in DOMAIN es : es[i].t = "end", es, Len(es), 0)
<1> DEFINE N == Len(es)
<1>0. N \in Nat /\ DOMAIN es = 1 .. N
    OBVIOUS
<1>1. Edits(es, N, AllTypes) = {i \in DOMAIN es : es[i].t = "edit"}
    BY <1>0 DEF Edits, AllTypes
<1>2. PICK edit : edit = LastOf(Edits(es, N, AllTypes))
    OBVIOUS
<1>3. PICK new : new = InEffect(start, es, edit)
    OBVIOUS
<1>4. PICK types : types = {"response"}
    OBVIOUS
<1>5. PICK ended : ended = \E i \in DOMAIN es : es[i].t = "end"
    OBVIOUS
<1> HIDE DEF N
<1>6. (IF edit = 0 THEN assemble_poll_start(start)
       ELSE replace_content(assemble_poll_start(start), es[edit].start)) = assemble_poll_start(new)
    <2>1. replace_content(assemble_poll_start(start), es[edit].start) =
            assemble_poll_start(es[edit].start)
        <3>1. \A s : assemble_poll_start(s) = Poll(s.max, FALSE, [o \in s.options |-> {}])
            BY DEF assemble_poll_start, Poll
        <3>2. PICK other, max, no, votes :
                 /\ other = es[edit].start /\ max = start.max /\ no = FALSE
                 /\ votes = [o \in start.options |-> {}]
            OBVIOUS
        <3>3. replace_content(Poll(max, no, votes), other) =
                Poll(other.max, no, [o \in other.options |-> {}])
            BY PollReplaced
        <3>4. assemble_poll_start(start) = Poll(max, no, votes)
            BY <3>1, <3>2
        <3>5. assemble_poll_start(other) = Poll(other.max, no, [o \in other.options |-> {}])
            BY <3>1, <3>2
        <3> QED
            BY <3>2, <3>3, <3>4, <3>5, Zenon
    <2> QED
        BY <1>3, <2>1 DEF InEffect
<1>61. {i \in DOMAIN es : es[i].t = "response"} = OfTypes(es, types)
    BY <1>4 DEF OfTypes
<1>7. build_poll(es, DOMAIN es) =
        [ApplyAll(assemble_poll_start(new), es, OfTypes(es, types)) EXCEPT !.completed = ended]
    BY <1>1, <1>2, <1>5, <1>6, <1>61, Zenon DEF build_poll
<1>8. ApplyAll(assemble_poll_start(new), es, OfTypes(es, types)) = Summary(new, es, N, types)
    BY <1>4, ApplyAllSummary DEF N
<1>9. Edits(es, N, types) = {}
    BY <1>4 DEF Edits
<1>10. LastOf(Edits(es, N, types)) = 0
    BY <1>9, LastOfFacts
<1>11. PICK none : none = (Ends(es, N, types) # {})
    OBVIOUS
<1>12. Summary(new, es, N, types) = Amount(new, none, es, N, 0)
    BY <1>10, <1>11 DEF Summary, InEffect
<1>13. [Amount(new, none, es, N, 0) EXCEPT !.completed = ended] = Amount(new, ended, es, N, 0)
    <2>1. PICK max, votes :
             max = new.max /\ votes = [o \in new.options |-> VotersOf(es, N, 0, new.max, o)]
        OBVIOUS
    <2>2. \A e : Amount(new, e, es, N, 0) = Poll(max, e, votes)
        BY <2>1 DEF Amount
    <2>3. [Poll(max, none, votes) EXCEPT !.completed = ended] = Poll(max, ended, votes)
        BY DEF Poll
    <2> QED
        BY <2>2, <2>3
<1> QED
    BY <1>2, <1>3, <1>5, <1>7, <1>8, <1>12, <1>13, Zenon DEF N

(***************************************************************************)
(* Once the executor has taken all events of a poll and can assemble it,   *)
(* the application shows the newest response of every user, as the newest  *)
(* edit has it, for any options, responses and orders of the events.       *)
(***************************************************************************)
THEOREM VotesCountedCorrect == PollSpec => []VotesCounted
<1>1. PollInv => VotesCounted
    <2> SUFFICES ASSUME PollInv, synced = Len(events), Assembles(events), UpToDate
                 PROVE  /\ DOMAIN shown.content.votes = EditedStart.options
                        /\ \A o \in EditedStart.options : shown.content.votes[o] = VotesFor(o)
                        /\ shown.content.completed = \E i \in DOMAIN events : events[i].t = "end"
        BY DEF VotesCounted
    <2> DEFINE N == Len(events)
               ended == \E i \in DOMAIN events : events[i].t = "end"
               since == IF shown.fetched THEN 0 ELSE LastEdit
    <2>0. events \in Seq(PollEvents) /\ N \in Nat /\ DOMAIN events = 1 .. N
        BY DEF PollInv
    <2>1. LastOf(Edits(events, N, AllTypes)) = LastEdit
        <3>1. Edits(events, N, AllTypes) = {i \in DOMAIN events : events[i].t = "edit"}
            BY <2>0 DEF Edits, AllTypes
        <3> QED
            BY <3>1 DEF LastEdit
    <2>2. InEffect(start, events, LastEdit) = EditedStart
        BY DEF InEffect, EditedStart
    <2>3. LastEdit \in 0 .. N
        <3>1. Edits(events, N, AllTypes) \in SUBSET (1 .. N)
            BY <2>0 DEF Edits
        <3> QED
            BY <2>0, <2>1, <3>1, LastOfFacts
    <2>4. ASSUME NEW u
          PROVE  /\ LastOf(Responses(events, N, u)) = NewestResponse(u)
                 /\ NewestResponse(u) \in 0 .. N
        <3>1. /\ Responses(events, N, u) \in SUBSET (1 .. N)
              /\ Responses(events, N, u) =
                   {i \in DOMAIN events : events[i].t = "response" /\ events[i].u = u}
            BY <2>0 DEF Responses
        <3>2. LastOf(Responses(events, N, u)) = NewestResponse(u)
            BY <3>1 DEF NewestResponse
        <3> QED
            BY <2>0, <3>1, <3>2, LastOfFacts
    <2>41. shown.known = DOMAIN events
        BY <2>0 DEF PollInv, ShownInv, UpToDate
    <2>5. shown.content = Amount(EditedStart, ended, events, N, since)
        <3>1. CASE shown.fetched
            BY <2>0, <2>1, <2>2, <2>41, <3>1, BuiltPoll DEF PollInv, ShownInv
        <3>2. CASE ~shown.fetched
            <4>1. shown.content = Summary(start, events, N, AllTypes)
                BY <2>0, <2>41, <3>2, AssembledAll DEF PollInv, ShownInv
            <4>2. Ends(events, N, AllTypes) = {i \in DOMAIN events : events[i].t = "end"}
                BY <2>0 DEF Ends, AllTypes
            <4>3. (Ends(events, N, AllTypes) # {}) = ended
                BY <4>2
            <4> QED
                BY <2>1, <2>2, <3>2, <4>1, <4>3 DEF Summary
        <3> QED
            BY <3>1, <3>2
    <2> HIDE DEF ended
    <2>6. /\ shown.content.votes =
                [o \in EditedStart.options |-> VotersOf(events, N, since, EditedStart.max, o)]
          /\ shown.content.completed = ended
        BY <2>5 DEF Amount, Poll
    <2>7. ASSUME NEW u PROVE NewestResponse(u) > since <=> ResponseCounts(u)
        BY <2>3, <2>4 DEF ResponseCounts
    <2> HIDE DEF N, since
    <2>8. ASSUME NEW o PROVE VotersOf(events, N, since, EditedStart.max, o) = VotesFor(o)
        BY <2>4, <2>7 DEF VotersOf, VotesFor, Chosen
    <2> QED
        BY <2>6, <2>8 DEF ended
<1> QED
    BY <1>1, PollStart, PollStep, PTL DEF PollSpec

=============================================================================
