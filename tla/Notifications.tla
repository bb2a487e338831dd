--------------------------- MODULE Notifications ---------------------------
(***************************************************************************)
(* The notification settings (src/src/notifications.rs).  The SDK keeps    *)
(* the push rules of the account and announces every change on a broadcast *)
(* channel.  The NotificationManager of a session loads the settings, which *)
(* takes one call per rule, keeps them in the memory cache and tells the   *)
(* application what differs from the settings it had cached before.        *)
(***************************************************************************)
EXTENDS Integers, FiniteSets

CONSTANTS
    RuleRooms,       \* rooms that may have a rule of their own
    SignalCapacity,  \* announcements the SDK's broadcast channel keeps
    MaxRuleChanges,  \* bound: changes of the rules
    NoRule           \* a room without a rule of its own, settings that are not there

ASSUME NotificationsAssumption ==
    /\ SignalCapacity \in Nat \ {0}
    /\ MaxRuleChanges \in Nat

VARIABLES
    rules,    \* the push rules as the SDK knows them
    signals,  \* [pending, lagged]: the manager's end of the broadcast channel
    manager,  \* where the NotificationManager is, and what it has loaded so far
    cached,   \* cached_notification_settings of the memory cache
    told,     \* the initial settings with all events sent since applied
    missed,   \* history: a change before the subscription nobody has noticed yet
    changed   \* number of changes of the rules

settingsVars == <<rules, signals, manager, cached, told, missed, changed>>

Modes == {"AllMessages", "MentionsAndKeywordsOnly", "Mute"}

(* The kinds of rooms compose_global_notification_settings asks for, in    *)
(* its order: encrypted group, group, encrypted direct and direct rooms.   *)
Kinds == 1 .. 4

(* CachedNotificationSettings; NoRule is a room that is not in the map.      *)
Settings == [global : Modes, room : [RuleRooms -> Modes \cup {NoRule}]]

Unloaded == [r \in RuleRooms |-> NoRule]

Loading(first) ==
    [pc |-> "kinds", first |-> first, kind |-> 1, global |-> "Mute",
     todo |-> {}, room |-> Unloaded]

ManagerState ==
    [pc : {"kinds", "list", "rooms", "subscribe", "idle", "ended"}, first : BOOLEAN,
     kind : 1 .. 5, global : Modes, todo : SUBSET RuleRooms,
     room : [RuleRooms -> Modes \cup {NoRule}]]

SettingsInit ==
    /\ rules = [default |-> [k \in Kinds |-> "MentionsAndKeywordsOnly"], room |-> Unloaded]
    /\ signals = [pending |-> 0, lagged |-> FALSE]
    /\ manager = Loading(TRUE)
    /\ cached = NoRule
    /\ told = NoRule
    /\ missed = FALSE
    /\ changed = 0

-----------------------------------------------------------------------------
(* The SDK *)

(* New push rules arrive.  A receiver that has not read SignalCapacity     *)
(* announcements loses the oldest and gets an error at its next read.      *)
ChangeRules ==
    /\ changed < MaxRuleChanges
    /\ changed' = changed + 1
    /\ \E m \in Modes :
         \/ \E k \in Kinds : /\ rules.default[k] # m
                             /\ rules' = [rules EXCEPT !.default[k] = m]
         \/ \E r \in RuleRooms : rules' = [rules EXCEPT !.room[r] = IF @ = m THEN NoRule ELSE m]
    /\ IF manager.first
         THEN missed' = TRUE /\ UNCHANGED signals
         ELSE /\ signals' = IF signals.pending = SignalCapacity
                              THEN [signals EXCEPT !.lagged = TRUE]
                              ELSE [signals EXCEPT !.pending = @ + 1]
              /\ UNCHANGED missed
    /\ UNCHANGED <<manager, cached, told>>

-----------------------------------------------------------------------------
(* NotificationManager *)

(* AllMessages is final, and Mute never replaces a setting.                *)
apply_notification_mode(setting, mode) ==
    IF setting = "AllMessages" \/ mode = "Mute" THEN setting ELSE mode

(* compose_global_notification_settings, one call per kind of room.        *)
LoadDefault ==
    /\ manager.pc = "kinds"
    /\ manager' = [manager EXCEPT
         !.global = apply_notification_mode(@, rules.default[manager.kind]),
         !.kind = @ + 1,
         !.pc = IF manager.kind = Cardinality(Kinds) THEN "list" ELSE @]
    /\ UNCHANGED <<rules, signals, cached, told, missed, changed>>

(* The rooms that have a rule.                                             *)
LoadRooms ==
    /\ manager.pc = "list"
    /\ manager' = [manager EXCEPT !.pc = "rooms",
                                  !.todo = {r \in RuleRooms : rules.room[r] # NoRule}]
    /\ UNCHANGED <<rules, signals, cached, told, missed, changed>>

(* The rule of one of them; it may have gone meanwhile.                    *)
LoadRoom ==
    /\ manager.pc = "rooms"
    /\ \E r \in manager.todo :
         manager' = [manager EXCEPT !.todo = @ \ {r}, !.room[r] = rules.room[r]]
    /\ UNCHANGED <<rules, signals, cached, told, missed, changed>>

(* Fault: a room whose rule was removed is not announced.                  *)
compare_lists_keeps(old, new) ==
    [new     |-> {r \in RuleRooms : old[r] = NoRule /\ new[r] # NoRule},
     deleted |-> {},
     updated |-> {r \in RuleRooms : NoRule \notin {old[r], new[r]} /\ old[r] # new[r]}]

(* utils::compare_lists for the settings of two moments.                   *)
compare_lists(old, new) ==
    [new     |-> {r \in RuleRooms : old[r] = NoRule /\ new[r] # NoRule},
     deleted |-> {r \in RuleRooms : old[r] # NoRule /\ new[r] = NoRule},
     updated |-> {r \in RuleRooms : NoRule \notin {old[r], new[r]} /\ old[r] # new[r]}]

(* Settings s after the events compare_room_changes and                    *)
(* send_global_update_event send for a change from old to new.             *)
Tell(s, old, new) ==
    LET diff == compare_lists(old.room, new.room)
    IN  [global |-> IF old.global # new.global THEN new.global ELSE s.global,
         room   |-> [r \in RuleRooms |->
                       IF r \in diff.new \cup diff.updated THEN new.room[r]
                       ELSE IF r \in diff.deleted THEN NoRule
                       ELSE s.room[r]]]

(* The settings are complete: they are cached and, unless they are the     *)
(* initial ones, the differences are sent.  Nobody else writes the cached  *)
(* settings, so they are still the old ones of                             *)
(* handle_notification_settings_change.                                    *)
EndLoad ==
    /\ manager.pc = "rooms"
    /\ manager.todo = {}
    /\ LET new == [global |-> manager.global, room |-> manager.room]
       IN  /\ cached' = new
           /\ told' = IF manager.first THEN new ELSE Tell(told, cached, new)
    /\ manager' = [Loading(manager.first) EXCEPT
                     !.pc = IF manager.first THEN "subscribe" ELSE "idle"]
    /\ missed' = (missed /\ manager.first)
    /\ UNCHANGED <<rules, signals, changed>>

(* The spawned task subscribes; what was announced before is not seen.     *)
Subscribe ==
    /\ manager.pc = "subscribe"
    /\ manager' = [manager EXCEPT !.pc = "idle", !.first = FALSE]
    /\ UNCHANGED <<rules, signals, cached, told, missed, changed>>

(* The loop of the task reads an announcement, or ends with an error.      *)
Receive ==
    /\ manager.pc = "idle"
    /\ signals.pending > 0
    /\ IF signals.lagged
         THEN /\ manager' = [manager EXCEPT !.pc = "ended"]
              /\ UNCHANGED signals
         ELSE /\ manager' = Loading(FALSE)
              /\ signals' = [signals EXCEPT !.pending = @ - 1]
    /\ UNCHANGED <<rules, cached, told, missed, changed>>

ManagerNext == LoadDefault \/ LoadRooms \/ LoadRoom \/ EndLoad \/ Subscribe \/ Receive

SettingsNext == ChangeRules \/ ManagerNext

SettingsSpec == SettingsInit /\ [][SettingsNext]_settingsVars

-----------------------------------------------------------------------------

SettingsTypeOK ==
    /\ rules \in [default : [Kinds -> Modes], room : [RuleRooms -> Modes \cup {NoRule}]]
    /\ signals \in [pending : 0 .. SignalCapacity, lagged : BOOLEAN]
    /\ manager \in ManagerState
    /\ {cached, told} \subseteq Settings \cup {NoRule}
    /\ missed \in BOOLEAN
    /\ changed \in 0 .. MaxRuleChanges

(* What the rules amount to: the loudest default, and the room's rules.    *)
Actual ==
    [global |-> IF \E k \in Kinds : rules.default[k] = "AllMessages" THEN "AllMessages"
                ELSE IF \E k \in Kinds : rules.default[k] = "MentionsAndKeywordsOnly"
                  THEN "MentionsAndKeywordsOnly" ELSE "Mute",
     room   |-> rules.room]

(* handle_notification_settings_change: when the manager waits and no      *)
(* announcement is left, the events sent so far amount to the rules as     *)
(* they are, although the settings are loaded in many calls between which  *)
(* the rules may change.  A change that came before the subscription is    *)
(* noticed only with the next one (missed), and a receiver that lagged     *)
(* behind has ended.                                                       *)
SettingsTold ==
    manager.pc = "idle" /\ signals.pending = 0 /\ ~missed => told = Actual

=============================================================================
