--------------------------- MODULE MCSyncSession ----------------------------
(* Instances of SyncSession for TLC.                                       *)
EXTENDS SyncSession

Size(s, r, o, e) == [sessions |-> s, refreshes |-> r, outages |-> o, errors |-> e]

(* Two contexts with outages, refreshes and a disk error; and three: a     *)
(* login beside the loop or the single sign-on of an earlier one, or a     *)
(* login, a crash and a restart.                                           *)
Sizes == {Size(2, 2, 2, 1), Size(3, 1, 0, 0)}

(* Every state is of one of the sizes.  A step that would leave them is    *)
(* one that need not happen, or one of several outcomes of a request.      *)
InSize ==
    \E size \in Sizes :
        /\ created <= size.sessions
        /\ \A l \in Sessions : server[l].gen <= size.refreshes
        /\ outages <= size.outages
        /\ diskErrors <= size.errors

MCSpec == Init /\ [][Next /\ InSize']_vars /\ Fairness
=============================================================================
