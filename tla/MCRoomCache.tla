---------------------------- MODULE MCRoomCache -----------------------------
(* Instances of RoomCache for TLC: which events may be sent.               *)
EXTENDS RoomCache, TLC

CONSTANTS
    m,            \* a message
    edit, edit2,  \* edits of m
    react,        \* a reaction to m
    redact,       \* the redaction of react
    poll, vote,   \* a poll and a response to it
    odd           \* a poll of a kind that is not known

EveryType ==
    (m :> "message") @@ (edit :> "edit") @@ (edit2 :> "edit")
      @@ (react :> "reaction") @@ (redact :> "redaction") @@ (poll :> "poll")
      @@ (vote :> "response") @@ (odd :> "odd_poll")

EveryTarget ==
    [e \in {m, edit, edit2, react, redact, poll, vote, odd} |->
       CASE e \in {edit, edit2, react} -> m
         [] e = redact -> react
         [] e = vote -> poll
         [] OTHER -> None]

TypeOfEvents == [e \in Events |-> EveryType[e]]
TargetOfEvents == [e \in Events |-> EveryTarget[e]]

(* What is sent in one behaviour: messages with their relations, beside an *)
(* application that removes a reaction, or encrypted polls whose keys come *)
(* at any time.                                                            *)
Timelines == {{m, edit, edit2, react}, {m, edit, react, redact}, {poll, vote, odd}}

MCSpec ==
    Init /\ [][Next /\ \E t \in Timelines : Sent' \subseteq t]_vars /\ Fairness
=============================================================================
