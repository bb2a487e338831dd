------------------------- MODULE VerificationProofs -------------------------
(***************************************************************************)
(* Proofs about Verification, for any number of flows and queued actions.  *)
(***************************************************************************)
EXTENDS Verification, TLAPS

-----------------------------------------------------------------------------
(* Types.                                                                  *)

(* The initial state is well typed.                                        *)
LEMMA TypeInit == Init => TypeOK
BY DEF Init, TypeOK, TaskState, Action, Event, End, ReqState, SasState

(* Sending an event, and ending with one, keep the types.                  *)
LEMMA EmitTypes ==
    ASSUME TypeOK, NEW f \in Flows, NEW e \in Event
    PROVE  /\ Emit(f, e) => events' \in [Flows -> Seq(Event)]
           /\ Finish(f, e) => /\ events' \in [Flows -> Seq(Event)]
                              /\ task' \in [Flows -> TaskState]
<1>1. events[f] \in Seq(Event) /\ Append(events[f], e) \in Seq(Event)
    BY DEF TypeOK
<1>2. [events EXCEPT ![f] = Append(events[f], e)] \in [Flows -> Seq(Event)]
    BY <1>1 DEF TypeOK
<1>3. [task EXCEPT ![f] = "done"] \in [Flows -> TaskState]
    BY DEF TypeOK, TaskState
<1> QED
    BY <1>2, <1>3 DEF Emit, Finish

(* So does cancelling the request.                                         *)
LEMMA CancelTypes ==
    ASSUME TypeOK, NEW f \in Flows
    PROVE  ReqCancelled(f) \in [Flows -> [state : ReqState, fresh : BOOLEAN]]
BY DEF TypeOK, ReqCancelled, ReqState

(* Cancelling with an error keeps the types.                               *)
LEMMA CancelErrTypes ==
    ASSUME TypeOK, NEW f \in Flows, CancelErr(f)
    PROVE  /\ req' \in [Flows -> [state : ReqState, fresh : BOOLEAN]]
           /\ events' \in [Flows -> Seq(Event)]
           /\ task' \in [Flows -> TaskState]
<1>1. "end_error" \in Event
    BY DEF Event, End
<1> QED
    BY <1>1, EmitTypes, CancelTypes DEF CancelErr, TypeOK

(* The handlers keep the types.                                            *)
LEMMA HandlerTypes ==
    ASSUME TypeOK, Handler
    PROVE  TypeOK'
<1>1. CASE HandlerFails
    BY <1>1 DEF HandlerFails, TypeOK, Cleaned
<1>2. ASSUME NEW f \in Flows, cross_signing_start(f)
      PROVE  TypeOK'
    BY <1>2 DEF cross_signing_start, TypeOK, Cleaned, TaskState
<1>3. ASSUME NEW f \in Flows, NEW a \in Action, Send(f, a)
      PROVE  TypeOK'
    BY <1>3 DEF Send, TypeOK, Cleaned
<1>4. ASSUME NEW f \in Flows, abort_verification(f)
      PROVE  TypeOK'
    <2>1. "Cancel" \in Action
        BY DEF Action
    <2> QED
        BY <1>4, <2>1 DEF abort_verification, TypeOK, Cleaned
<1>5. {"SelectMethod", "Confirm"} \subseteq Action
    BY DEF Action
<1> QED
    BY <1>1, <1>2, <1>3, <1>4, <1>5
    DEF Handler, cross_signing_select_method, cross_signing_confirm

(* Publishing a state keeps the types.                                     *)
LEMMA SasMovedTypes ==
    ASSUME TypeOK, NEW f \in Flows, NEW s \in SasState
    PROVE  /\ SasMoved(f, s) \in [Flows -> [state : SasState, fresh : BOOLEAN]]
           /\ SasMoved(f, s)[f].state = s
           /\ \A g \in Flows \ {f} : SasMoved(f, s)[g] = sas[g]
BY DEF TypeOK, SasMoved

(* What a step of the SAS loop publishes.                                  *)
LEMMA SasMoves ==
    ASSUME TypeOK, NEW f \in Flows, SasAction(f)
    PROVE  /\ sas' \in [Flows -> [state : SasState, fresh : BOOLEAN]]
           /\ sas'[f].state \in {sas[f].state, "Cancelled", "Confirmed", "Done"}
           /\ \A g \in Flows \ {f} : sas'[g] = sas[g]
<1>1. sas' = sas \/ \E s \in {"Cancelled", "Confirmed", "Done"} : sas' = SasMoved(f, s)
    BY DEF SasAction, Confirmed, ConfirmFails, Confirmations, SasCancelled
<1>2. CASE sas' = sas
    BY <1>2 DEF TypeOK
<1>3. ASSUME NEW s \in {"Cancelled", "Confirmed", "Done"}, sas' = SasMoved(f, s)
      PROVE  /\ sas' \in [Flows -> [state : SasState, fresh : BOOLEAN]]
             /\ sas'[f].state = s
             /\ \A g \in Flows \ {f} : sas'[g] = sas[g]
    <2>1. s \in SasState
        BY DEF SasState
    <2> QED
        BY <1>3, <2>1, SasMovedTypes
<1> QED
    BY <1>1, <1>2, <1>3

(* The task of a flow keeps the types.                                     *)
LEMMA TaskTypes ==
    ASSUME TypeOK, NEW f \in Flows, TaskStep(f) \/ StreamClosed(f)
    PROVE  TypeOK'
<1> USE DEF TypeOK
<1>1. CASE SubscribeRequest(f)
    BY <1>1 DEF SubscribeRequest, TaskState
<1>2. CASE SubscribeSas(f)
    BY <1>2 DEF SubscribeSas, TaskState
<1>3. CASE StreamClosed(f)
    BY <1>3 DEF StreamClosed, TaskState
<1>4. {"start", "code", "end_true", "end_false", "end_error"} \subseteq Event
    BY DEF Event, End
<1>5. CASE RequestChange(f)
    <2>1. req' \in [Flows -> [state : ReqState, fresh : BOOLEAN]]
        BY <1>5, CancelErrTypes DEF RequestChange
    <2>2. sas' \in [Flows -> [state : SasState, fresh : BOOLEAN]]
        <3>1. SasMoved(f, "Accepted") \in [Flows -> [state : SasState, fresh : BOOLEAN]]
            BY SasMovedTypes DEF SasState
        <3> QED
            BY <1>5, <3>1 DEF RequestChange
    <2>3. events' \in [Flows -> Seq(Event)]
        BY <1>4, <1>5, CancelErrTypes, EmitTypes DEF RequestChange
    <2>4. task' \in [Flows -> TaskState]
        BY <1>4, <1>5, CancelErrTypes, EmitTypes DEF RequestChange, TaskState
    <2> QED
        BY <1>5, <2>1, <2>2, <2>3, <2>4 DEF RequestChange
<1>6. actions[f] # <<>> => Tail(actions[f]) \in Seq(Action)
    OBVIOUS
<1>7. CASE RequestAction(f)
    <2>1. req' \in [Flows -> [state : ReqState, fresh : BOOLEAN]]
        <3>1. \A s \in {"Transitioned", "Cancelled"} :
                 [req EXCEPT ![f] = [state |-> s, fresh |-> TRUE]]
                    \in [Flows -> [state : ReqState, fresh : BOOLEAN]]
            BY DEF ReqState
        <3>2. \/ req' = req
              \/ req' = ReqCancelled(f)
              \/ \E s \in {"Transitioned", "Cancelled"} :
                    req' = [req EXCEPT ![f] = [state |-> s, fresh |-> TRUE]]
              \/ CancelErr(f)
            BY <1>7 DEF RequestAction, StartedSasFails
        <3>3. CASE req' = req
            BY <3>3
        <3>4. CASE req' = ReqCancelled(f)
            BY <3>4, CancelTypes
        <3>5. CASE \E s \in {"Transitioned", "Cancelled"} :
                     req' = [req EXCEPT ![f] = [state |-> s, fresh |-> TRUE]]
            BY <3>1, <3>5
        <3>6. CASE CancelErr(f)
            BY <3>6, CancelErrTypes
        <3> QED
            BY <3>2, <3>3, <3>4, <3>5, <3>6
    <2>2. sas' \in [Flows -> [state : SasState, fresh : BOOLEAN]]
        <3>1. SasMoved(f, "Created") \in [Flows -> [state : SasState, fresh : BOOLEAN]]
            BY SasMovedTypes DEF SasState
        <3> QED
            BY <1>7, <3>1 DEF RequestAction, StartedSasFails
    <2>3. events' \in [Flows -> Seq(Event)]
        BY <1>4, <1>7, CancelErrTypes, EmitTypes DEF RequestAction, StartedSasFails
    <2>4. task' \in [Flows -> TaskState]
        BY <1>4, <1>7, CancelErrTypes, EmitTypes DEF RequestAction, StartedSasFails, TaskState
    <2> QED
        BY <1>6, <1>7, <2>1, <2>2, <2>3, <2>4 DEF RequestAction
<1>8. CASE SasChange(f)
    <2>1. events' \in [Flows -> Seq(Event)] /\ task' \in [Flows -> TaskState]
        BY <1>4, <1>8, EmitTypes DEF SasChange
    <2> QED
        BY <1>8, <2>1 DEF SasChange
<1>9. CASE SasAction(f)
    <2>1. events' \in [Flows -> Seq(Event)] /\ task' \in [Flows -> TaskState]
        BY <1>4, <1>9, EmitTypes DEF SasAction, Confirmed, ConfirmFails
    <2>2. sas' \in [Flows -> [state : SasState, fresh : BOOLEAN]]
        BY <1>9, SasMoves
    <2>3. unsent' \in SUBSET Flows
        BY <1>9 DEF SasAction, Confirmed, ConfirmFails
    <2> QED
        BY <1>6, <1>9, <2>1, <2>2, <2>3 DEF SasAction
<1> QED
    BY <1>1, <1>2, <1>3, <1>5, <1>7, <1>8, <1>9 DEF TaskStep

(* Every step keeps the types.                                             *)
LEMMA TypeStep == TypeOK /\ [Next]_vars => TypeOK'
<1> SUFFICES ASSUME TypeOK, [Next]_vars
             PROVE  TypeOK'
    OBVIOUS
<1>1. ASSUME NEW f \in Flows, RequestProgress(f)
      PROVE  TypeOK'
    BY <1>1 DEF RequestProgress, TypeOK, SasState
<1>2. ASSUME NEW f \in Flows, SasProgress(f)
      PROVE  TypeOK'
    BY <1>2 DEF SasProgress, TypeOK
<1>3. CASE UNCHANGED vars
    BY <1>3 DEF vars, TypeOK
<1> QED
    BY <1>1, <1>2, <1>3, HandlerTypes, TaskTypes DEF Next

(***************************************************************************)
(* Type correctness of Verification.                                       *)
(***************************************************************************)
THEOREM TypeCorrect == Spec => []TypeOK
BY TypeInit, TypeStep, PTL DEF Spec

-----------------------------------------------------------------------------
(* The end of a flow.                                                      *)

(* A flow that has not ended has sent no VerificationEndEvent.             *)
NoEnd(f) == \A i \in 1 .. Len(events[f]) : events[f][i] \notin End

(* What a step of flow f does to the events: nothing, a new event that     *)
(* does not end the flow, or the event with which the task ends.           *)
EventStep(f) ==
    /\ task[f] # "done"
    /\ \A g \in Flows \ {f} : events'[g] = events[g] /\ task'[g] = task[g]
    /\ \/ events'[f] = events[f]
       \/ \E e \in Event :
            /\ events'[f] = Append(events[f], e)
            /\ e \in End => task'[f] = "done"

(* Such a step keeps the end of every flow last.                           *)
LEMMA EventStepEnd ==
    ASSUME TypeOK, EndIsLast, NEW f \in Flows, EventStep(f)
    PROVE  EndIsLast'
<1>1. NoEnd(f)
    BY DEF EndIsLast, NoEnd, EventStep
<1>2. ASSUME NEW g \in Flows, g # f, NEW i \in 1 .. Len(events'[g]), events'[g][i] \in End
      PROVE  i = Len(events'[g]) /\ task'[g] = "done"
    BY <1>2 DEF EndIsLast, EventStep
<1>3. ASSUME NEW i \in 1 .. Len(events'[f]), events'[f][i] \in End
      PROVE  i = Len(events'[f]) /\ task'[f] = "done"
    <2>1. CASE events'[f] = events[f]
        BY <1>1, <1>3, <2>1 DEF NoEnd
    <2>2. CASE events'[f] # events[f]
        <3>1. PICK e \in Event : /\ events'[f] = Append(events[f], e)
                                 /\ e \in End => task'[f] = "done"
            BY <2>2 DEF EventStep
        <3>2. events[f] \in Seq(Event)
            BY DEF TypeOK
        <3>3. /\ Len(events'[f]) = Len(events[f]) + 1
              /\ \A j \in 1 .. Len(events[f]) : events'[f][j] = events[f][j]
              /\ events'[f][Len(events[f]) + 1] = e
            BY <3>1, <3>2
        <3>4. i \notin 1 .. Len(events[f])
            BY <1>1, <1>3, <3>3 DEF NoEnd
        <3>5. i = Len(events[f]) + 1
            BY <3>2, <3>3, <3>4
        <3> QED
            BY <1>3, <3>1, <3>3, <3>5
    <2> QED
        BY <2>1, <2>2
<1> QED
    BY <1>2, <1>3 DEF EndIsLast

(* Every step of the task of a flow is of this kind.                       *)
LEMMA TaskEventStep ==
    ASSUME TypeOK, NEW f \in Flows, TaskStep(f) \/ StreamClosed(f)
    PROVE  EventStep(f)
<1>1. /\ {"start", "code", "end_true", "end_false", "end_error"} \subseteq Event
      /\ {"start", "code"} \cap End = {}
    BY DEF Event, End
<1>2. ASSUME NEW e \in Event, Finish(f, e), task[f] # "done"
      PROVE  EventStep(f)
    BY <1>2 DEF Finish, Emit, EventStep, TypeOK
<1>3. ASSUME NEW e \in {"start", "code"}, Emit(f, e), UNCHANGED task, task[f] # "done"
      PROVE  EventStep(f)
    BY <1>1, <1>3 DEF Emit, EventStep, TypeOK
<1>4. ASSUME UNCHANGED events, task[f] # "done",
             \A g \in Flows \ {f} : task'[g] = task[g]
      PROVE  EventStep(f)
    BY <1>4 DEF EventStep
<1>5. CASE SubscribeRequest(f) \/ SubscribeSas(f) \/ StreamClosed(f)
    BY <1>4, <1>5 DEF SubscribeRequest, SubscribeSas, StreamClosed, TypeOK
<1>6. CASE RequestChange(f)
    BY <1>1, <1>2, <1>3, <1>4, <1>6 DEF RequestChange, CancelErr, TypeOK
<1>7. CASE RequestAction(f)
    BY <1>1, <1>2, <1>4, <1>7 DEF RequestAction, StartedSasFails, CancelErr, TypeOK
<1>8. CASE SasChange(f)
    BY <1>1, <1>2, <1>3, <1>4, <1>8 DEF SasChange
<1>9. CASE SasAction(f)
    BY <1>1, <1>2, <1>4, <1>9 DEF SasAction, Confirmed, ConfirmFails
<1> QED
    BY <1>5, <1>6, <1>7, <1>8, <1>9 DEF TaskStep

(* A handler sends nothing and restarts no flow that has ended.            *)
LEMMA HandlerEvents ==
    ASSUME TypeOK, Handler
    PROVE  /\ UNCHANGED events
           /\ \A g \in Flows : task[g] = "done" => task'[g] = "done"
BY DEF Handler, HandlerFails, cross_signing_start, cross_signing_select_method,
       cross_signing_confirm, Send, abort_verification, TypeOK

(***************************************************************************)
(* A flow sends at most one VerificationEndEvent, nothing after it, and    *)
(* only when its task ends, in whichever of the two loops that happens.    *)
(***************************************************************************)
THEOREM EndCorrect == Spec => []EndIsLast
<1>1. Init => EndIsLast
    BY DEF Init, EndIsLast
<1>2. TypeOK /\ EndIsLast /\ [Next]_vars => EndIsLast'
    <2> SUFFICES ASSUME TypeOK, EndIsLast, [Next]_vars
                 PROVE  EndIsLast'
        OBVIOUS
    <2>1. CASE Handler
        BY <2>1, HandlerEvents DEF EndIsLast
    <2>2. ASSUME NEW f \in Flows, RequestProgress(f) \/ SasProgress(f)
          PROVE  EndIsLast'
        BY <2>2 DEF RequestProgress, SasProgress, EndIsLast
    <2>3. CASE UNCHANGED vars
        BY <2>3 DEF vars, EndIsLast
    <2> QED
        BY <2>1, <2>2, <2>3, TaskEventStep, EventStepEnd DEF Next
<1> QED
    BY <1>1, <1>2, TypeCorrect, PTL DEF Spec

-----------------------------------------------------------------------------
(* Control over a flow.                                                    *)

CancelQueued(f) == \E i \in 1 .. Len(actions[f]) : actions[f][i] = "Cancel"

(* An action that is queued leaves a queued Cancel where it is.            *)
LEMMA AppendKeepsCancel ==
    ASSUME TypeOK, NEW f \in Flows, NEW a \in Action, CancelQueued(f) \/ a = "Cancel",
           actions'[f] = Append(actions[f], a)
    PROVE  CancelQueued(f)'
<1>1. /\ Len(actions'[f]) = Len(actions[f]) + 1
      /\ Len(actions[f]) \in Nat
      /\ \A i \in 1 .. Len(actions[f]) : actions'[f][i] = actions[f][i]
      /\ actions'[f][Len(actions[f]) + 1] = a
    BY DEF TypeOK
<1>2. CASE CancelQueued(f)
    BY <1>1, <1>2 DEF CancelQueued
<1>3. CASE a = "Cancel"
    <2>1. Len(actions[f]) + 1 \in 1 .. Len(actions'[f])
        BY <1>1
    <2> QED
        BY <1>1, <1>3, <2>1 DEF CancelQueued
<1> QED
    BY <1>2, <1>3

(* Reading another action leaves a queued Cancel in the queue.             *)
LEMMA TailKeepsCancel ==
    ASSUME TypeOK, NEW f \in Flows, CancelQueued(f), actions[f] # <<>>,
           Head(actions[f]) # "Cancel", actions'[f] = Tail(actions[f])
    PROVE  CancelQueued(f)'
<1>1. PICK i \in 1 .. Len(actions[f]) : actions[f][i] = "Cancel"
    BY DEF CancelQueued
<1>2. actions[f] \in Seq(Action)
    BY DEF TypeOK
<1>3. i # 1
    BY <1>1, <1>2
<1>4. i - 1 \in 1 .. Len(actions'[f]) /\ actions'[f][i - 1] = "Cancel"
    BY <1>1, <1>2, <1>3
<1> QED
    BY <1>4 DEF CancelQueued

(* The handlers keep control of every running flow: cleaning up does not   *)
(* drop its manager, and an abort queues the Cancel.                       *)
LEMMA HandlerControl ==
    ASSUME TypeOK, RunningFlowIsControlled, Handler
    PROVE  RunningFlowIsControlled'
<1> USE DEF RunningFlowIsControlled, Active, Cleaned
<1>1. CASE HandlerFails
    BY <1>1 DEF HandlerFails
<1>2. ASSUME NEW f \in Flows, cross_signing_start(f)
      PROVE  RunningFlowIsControlled'
    BY <1>2 DEF cross_signing_start, TypeOK
<1>3. ASSUME NEW f \in Flows, NEW a \in Action, Send(f, a)
      PROVE  RunningFlowIsControlled'
    <2>1. \A g \in Flows : Active(g)' => Active(g)
        BY <1>3 DEF Send
    <2>2. \A g \in Flows : g \in managers /\ Active(g) => g \in managers'
        BY <1>3 DEF Send
    <2>3. \A g \in Flows : CancelQueued(g) => CancelQueued(g)'
        <3>1. actions' = actions \/ actions' = [actions EXCEPT ![f] = Append(@, a)]
            BY <1>3 DEF Send
        <3>2. \A g \in Flows \ {f} : actions'[g] = actions[g]
            BY <3>1 DEF TypeOK
        <3>3. actions'[f] = actions[f] \/ actions'[f] = Append(actions[f], a)
            BY <3>1 DEF TypeOK
        <3>4. ASSUME NEW g \in Flows, actions'[g] = actions[g], CancelQueued(g)
              PROVE  CancelQueued(g)'
            BY <3>4 DEF CancelQueued
        <3> QED
            BY <3>2, <3>3, <3>4, AppendKeepsCancel
    <2>4. UNCHANGED aborted
        BY <1>3 DEF Send
    <2> QED
        BY <2>1, <2>2, <2>3, <2>4 DEF CancelQueued
<1>4. ASSUME NEW f \in Flows, abort_verification(f)
      PROVE  RunningFlowIsControlled'
    <2>1. \A g \in Flows : Active(g)' => Active(g)
        BY <1>4 DEF abort_verification
    <2>2. \A g \in Flows \ {f} : g \in managers /\ Active(g) => g \in managers'
        BY <1>4 DEF abort_verification
    <2>3. \A g \in Flows \ {f} : actions'[g] = actions[g]
        BY <1>4 DEF abort_verification, TypeOK
    <2>4. Active(f) => CancelQueued(f)'
        <3>1. Active(f) => actions'[f] = Append(actions[f], "Cancel")
            BY <1>4 DEF abort_verification, TypeOK
        <3>2. "Cancel" \in Action
            BY DEF Action
        <3> QED
            BY <3>1, <3>2, AppendKeepsCancel
    <2>5. aborted' = aborted \cup {f}
        BY <1>4 DEF abort_verification
    <2> QED
        BY <2>1, <2>2, <2>3, <2>4, <2>5 DEF CancelQueued
<1>5. {"SelectMethod", "Confirm"} \subseteq Action
    BY DEF Action
<1> QED
    BY <1>1, <1>2, <1>3, <1>4, <1>5
    DEF Handler, cross_signing_select_method, cross_signing_confirm

(* A task that reads a Cancel ends; every other action leaves it queued.   *)
LEMMA TaskControl ==
    ASSUME TypeOK, RunningFlowIsControlled, NEW f \in Flows,
           TaskStep(f) \/ StreamClosed(f)
    PROVE  RunningFlowIsControlled'
<1>1. UNCHANGED <<managers, aborted>>
    BY DEF TaskStep, StreamClosed, SubscribeRequest, SubscribeSas, RequestChange,
           RequestAction, SasChange, SasAction
<1>2. \A g \in Flows : Active(g)' => Active(g)
    BY TaskEventStep DEF TaskStep, StreamClosed, SubscribeRequest, SubscribeSas,
           RequestChange, RequestAction, SasChange, SasAction, EventStep, Active
<1>3. \A g \in Flows \ {f} : actions'[g] = actions[g]
    BY DEF TaskStep, StreamClosed, SubscribeRequest, SubscribeSas, RequestChange,
           RequestAction, SasChange, SasAction, TypeOK
<1>4. \/ actions'[f] = actions[f]
      \/ actions[f] # <<>> /\ Head(actions[f]) # "Cancel" /\ actions'[f] = Tail(actions[f])
      \/ ~Active(f)'
    <2>1. CASE RequestAction(f) \/ SasAction(f)
        BY <2>1 DEF RequestAction, StartedSasFails, CancelErr, SasAction, Confirmed, ConfirmFails,
           Finish, TypeOK, Active
    <2>2. CASE ~(RequestAction(f) \/ SasAction(f))
        BY <2>2 DEF TaskStep, StreamClosed, SubscribeRequest, SubscribeSas,
                    RequestChange, SasChange
    <2> QED
        BY <2>1, <2>2
<1>5. Active(f)' /\ CancelQueued(f) => CancelQueued(f)'
    <2>1. CASE actions'[f] = actions[f]
        BY <2>1 DEF CancelQueued
    <2> QED
        BY <1>4, <2>1, TailKeepsCancel
<1>6. \A g \in Flows : Active(g)' /\ CancelQueued(g) => CancelQueued(g)'
    BY <1>3, <1>5 DEF CancelQueued
<1> QED
    BY <1>1, <1>2, <1>6 DEF RunningFlowIsControlled, CancelQueued

(***************************************************************************)
(* Every running flow has its manager in the list or a Cancel in its       *)
(* queue, for any number of flows and of actions.                          *)
(***************************************************************************)
THEOREM ControlCorrect == Spec => []RunningFlowIsControlled
<1>1. Init => RunningFlowIsControlled
    BY DEF Init, RunningFlowIsControlled, Active
<1>2. TypeOK /\ RunningFlowIsControlled /\ [Next]_vars => RunningFlowIsControlled'
    <2> SUFFICES ASSUME TypeOK, RunningFlowIsControlled, [Next]_vars
                 PROVE  RunningFlowIsControlled'
        OBVIOUS
    <2>1. ASSUME NEW f \in Flows, RequestProgress(f) \/ SasProgress(f)
          PROVE  RunningFlowIsControlled'
        BY <2>1 DEF RequestProgress, SasProgress, RunningFlowIsControlled, Active
    <2>2. CASE UNCHANGED vars
        BY <2>2 DEF vars, RunningFlowIsControlled, Active
    <2> QED
        BY <2>1, <2>2, HandlerControl, TaskControl DEF Next
<1> QED
    BY <1>1, <1>2, TypeCorrect, PTL DEF Spec

-----------------------------------------------------------------------------
(* The outcome of a flow.                                                  *)

(* States of a SAS that this device has not taken up: it will not be done. *)
Idle == {"none", "Started", "Cancelled"}

Unconfirmed == {"none", "Created", "Started", "Accepted", "KeysExchanged", "Cancelled"}

Failure == {"end_false", "end_error"}

(* The application has caused the failure, or knows less than the SDK.     *)
Excused(f) == f \in aborted \cup unsent

(***************************************************************************)
(* What makes EndMatchesOutcome inductive: a request has a SAS from when   *)
(* it has come to it, a SAS gets further than Started only once its loop   *)
(* has been entered, and only the application's abort queues a Cancel.     *)
(* After a failure that nobody asked for, and that is not the one of a     *)
(* confirmation, the SAS is not confirmed; only a running loop could do    *)
(* that.                                                                   *)
(***************************************************************************)
OutcomeInv(f) ==
    /\ req[f].state \in {"Created", "Ready", "Other"} => sas[f].state = "none"
    /\ req[f].state = "Transitioned" => sas[f].state # "none"
    /\ task[f] \in {"none", "spawned", "request"} => sas[f].state \in Idle
    /\ task[f] \in {"sas_entered", "sas"} => sas[f].state # "none"
    /\ CancelQueued(f) => f \in aborted
    /\ \A i \in 1 .. Len(events[f]) :
         /\ events[f][i] = "end_true" => sas[f].state = "Done"
         /\ events[f][i] \in Failure /\ ~Excused(f) => sas[f].state \in Unconfirmed

(* A flow that the step is not about keeps it.                             *)
LEMMA OtherOutcome ==
    ASSUME NEW g, OutcomeInv(g), task'[g] = task[g], actions'[g] = actions[g],
           events'[g] = events[g], req'[g] = req[g], sas'[g] = sas[g],
           g \in aborted => g \in aborted', g \in unsent => g \in unsent'
    PROVE  OutcomeInv(g)'
BY DEF OutcomeInv, CancelQueued, Excused

(* The actions of a queue after one is read or queued.                     *)
LEMMA QueueCancel ==
    ASSUME TypeOK, NEW f \in Flows, OutcomeInv(f), aborted \subseteq aborted',
           \/ actions'[f] = actions[f]
           \/ actions[f] # <<>> /\ actions'[f] = Tail(actions[f])
           \/ \E a \in Action : /\ actions'[f] = Append(actions[f], a)
                                /\ a = "Cancel" => f \in aborted'
    PROVE  CancelQueued(f)' => f \in aborted'
<1>0. actions[f] \in Seq(Action) /\ Len(actions[f]) \in Nat
    BY DEF TypeOK
<1>1. CASE actions'[f] = actions[f]
    BY <1>1 DEF OutcomeInv, CancelQueued
<1>2. CASE actions[f] # <<>> /\ actions'[f] = Tail(actions[f])
    <2>1. \A i \in 1 .. Len(actions'[f]) :
             i + 1 \in 1 .. Len(actions[f]) /\ actions'[f][i] = actions[f][i + 1]
        BY <1>0, <1>2
    <2> QED
        BY <2>1 DEF OutcomeInv, CancelQueued
<1>3. ASSUME NEW a \in Action, actions'[f] = Append(actions[f], a), a = "Cancel" => f \in aborted'
      PROVE  CancelQueued(f)' => f \in aborted'
    <2>1. \A i \in 1 .. Len(actions'[f]) :
             \/ i \in 1 .. Len(actions[f]) /\ actions'[f][i] = actions[f][i]
             \/ actions'[f][i] = a
        BY <1>0, <1>3
    <2> QED
        BY <1>3, <2>1 DEF OutcomeInv, CancelQueued
<1> QED
    BY <1>1, <1>2, <1>3

(* A handler leaves the SDK and the tasks that run alone.                  *)
LEMMA HandlerOutcome ==
    ASSUME TypeOK, Handler, NEW g \in Flows, OutcomeInv(g)
    PROVE  OutcomeInv(g)'
<1>1. UNCHANGED <<events, req, sas, unsent>> /\ aborted \subseteq aborted'
    BY DEF Handler, HandlerFails, cross_signing_start, cross_signing_select_method,
           cross_signing_confirm, Send, abort_verification
<1>2. task'[g] = task[g] \/ (task[g] = "none" /\ task'[g] = "spawned")
    BY DEF Handler, HandlerFails, cross_signing_start, cross_signing_select_method,
           cross_signing_confirm, Send, abort_verification, TypeOK
<1>3. \/ actions'[g] = actions[g]
      \/ \E a \in Action : actions'[g] = Append(actions[g], a) /\ (a = "Cancel" => g \in aborted')
    <2>1. {"SelectMethod", "Confirm", "Cancel"} \subseteq Action
        BY DEF Action
    <2>2. ASSUME NEW f \in Flows, NEW a \in {"SelectMethod", "Confirm"}, Send(f, a)
          PROVE  actions'[g] = actions[g] \/ \E b \in {"SelectMethod", "Confirm"} :
                                               actions'[g] = Append(actions[g], b)
        BY <2>2 DEF Send, TypeOK
    <2>3. ASSUME NEW f \in Flows, abort_verification(f)
          PROVE  actions'[g] = actions[g] \/
                 (actions'[g] = Append(actions[g], "Cancel") /\ g \in aborted')
        BY <2>3 DEF abort_verification, TypeOK
    <2>4. CASE UNCHANGED actions
        BY <2>4
    <2> QED
        BY <2>1, <2>2, <2>3, <2>4 DEF Handler, HandlerFails, cross_signing_start,
           cross_signing_select_method, cross_signing_confirm
<1>4. CancelQueued(g)' => g \in aborted'
    BY <1>1, <1>3, QueueCancel
<1> QED
    BY <1>1, <1>2, <1>4 DEF OutcomeInv, Excused

(* The SDK and the other device.                                           *)
LEMMA SdkOutcome ==
    ASSUME TypeOK, NEW f \in Flows, RequestProgress(f) \/ SasProgress(f), OutcomeInv(f)
    PROVE  OutcomeInv(f)'
<1>1. UNCHANGED <<task, actions, events, aborted, unsent>>
    BY DEF RequestProgress, SasProgress
<1>2. CancelQueued(f)' => f \in aborted'
    BY <1>1 DEF OutcomeInv, CancelQueued
<1>3. CASE RequestProgress(f)
    <2>1. PICK s \in ReqState :
             /\ \/ req[f].state = "Created" /\ s \in {"Ready", "Cancelled"}
                \/ req[f].state = "Ready" /\ s \in {"Transitioned", "Other", "Cancelled"}
                \/ req[f].state \in {"Transitioned", "Other"} /\ s \in {"Done", "Cancelled"}
             /\ req' = [req EXCEPT ![f] = [state |-> s, fresh |-> TRUE]]
             /\ sas' = IF s = "Transitioned"
                         THEN [sas EXCEPT ![f] = [state |-> "Started", fresh |-> TRUE]]
                         ELSE sas
        BY <1>3 DEF RequestProgress
    <2>2. /\ req'[f].state = s
          /\ sas'[f].state = IF s = "Transitioned" THEN "Started" ELSE sas[f].state
        BY <2>1 DEF TypeOK
    <2>3. s = "Transitioned" => sas[f].state = "none"
        BY <2>1 DEF OutcomeInv
    <2> QED
        BY <1>1, <1>2, <2>1, <2>2, <2>3 DEF OutcomeInv, Idle, Unconfirmed, Excused
<1>4. CASE SasProgress(f)
    <2>1. PICK s \in SasState :
             /\ \/ sas[f].state = "Created" /\ s = "Accepted"
                \/ sas[f].state = "Accepted" /\ s = "KeysExchanged"
                \/ sas[f].state = "Confirmed" /\ s = "Done"
                \/ sas[f].state \notin {"none", "Done", "Cancelled"} /\ s = "Cancelled"
             /\ sas' = [sas EXCEPT ![f] = [state |-> s, fresh |-> TRUE]]
        BY <1>4 DEF SasProgress
    <2>2. sas'[f].state = s /\ req' = req
        BY <1>4, <2>1 DEF TypeOK, SasProgress
    <2> QED
        BY <1>1, <1>2, <2>1, <2>2 DEF OutcomeInv, Idle, Unconfirmed, Excused
<1> QED
    BY <1>3, <1>4

(* Only the last event of a flow tells its outcome.                        *)
LEMMA NewEvent ==
    ASSUME TypeOK, EndIsLast, NEW f \in Flows, task[f] # "done",
           \/ events'[f] = events[f]
           \/ \E e \in Event :
                /\ events'[f] = Append(events[f], e)
                /\ e = "end_true" => sas'[f].state = "Done"
                /\ e \in Failure /\ ~Excused(f)' => sas'[f].state \in Unconfirmed
    PROVE  \A i \in 1 .. Len(events'[f]) :
             /\ events'[f][i] = "end_true" => sas'[f].state = "Done"
             /\ events'[f][i] \in Failure /\ ~Excused(f)' => sas'[f].state \in Unconfirmed
<1>1. \A i \in 1 .. Len(events[f]) : events[f][i] \notin End
    BY DEF EndIsLast
<1>2. CASE events'[f] = events[f]
    BY <1>1, <1>2 DEF End, Failure
<1>3. ASSUME NEW e \in Event, events'[f] = Append(events[f], e)
      PROVE  \A i \in 1 .. Len(events'[f]) :
               events'[f][i] = e \/ events'[f][i] \notin End
    <2>1. events[f] \in Seq(Event)
        BY DEF TypeOK
    <2>2. \A i \in 1 .. Len(events'[f]) :
             \/ i \in 1 .. Len(events[f]) /\ events'[f][i] = events[f][i]
             \/ events'[f][i] = e
        BY <1>3, <2>1
    <2> QED
        BY <1>1, <2>2
<1> QED
    BY <1>2, <1>3 DEF End, Failure

(* The loop of the request: a failure it reports by itself leaves the SAS  *)
(* idle.                                                                   *)
LEMMA RequestOutcome ==
    ASSUME TypeOK, EndIsLast, NEW f \in Flows, OutcomeInv(f),
           RequestChange(f) \/ RequestAction(f)
    PROVE  OutcomeInv(f)'
<1>0. /\ task[f] = "request" /\ sas[f].state \in Idle /\ UNCHANGED <<aborted, unsent>>
      /\ {"start", "end_false", "end_error"} \subseteq Event
    BY DEF RequestChange, RequestAction, OutcomeInv, Event, End
<1>1. CancelQueued(f)' => f \in aborted'
    <2>1. actions'[f] = actions[f] \/ (actions[f] # <<>> /\ actions'[f] = Tail(actions[f]))
        BY DEF RequestChange, RequestAction, TypeOK
    <2> QED
        BY <1>0, <2>1, QueueCancel
<1>2. \/ sas' = sas
      \/ sas' = SasMoved(f, "Accepted") /\ req[f].state = "Transitioned"
      \/ sas' = SasMoved(f, "Created") /\ req'[f].state \in {"Transitioned", "Cancelled"}
    BY DEF RequestChange, RequestAction, StartedSasFails, TypeOK
<1>3. /\ req'[f].state = req[f].state \/ req'[f].state \in {"Cancelled", "Transitioned"}
      /\ req'[f].state = "Transitioned" => req[f].state = "Transitioned" \/ sas' = SasMoved(f, "Created")
      /\ task'[f] \in {"request", "sas_entered", "done"}
      /\ task'[f] = "request" => sas' = sas
      /\ task'[f] = "sas_entered" =>
            req[f].state = "Transitioned" \/ sas' = SasMoved(f, "Created")
    BY DEF RequestChange, RequestAction, StartedSasFails, CancelErr, ReqCancelled, Finish, TypeOK
<1>4. sas'[f].state \in {sas[f].state, "Accepted", "Created"}
    BY <1>2, SasMovedTypes DEF SasState
<1>5. \/ events'[f] = events[f]
      \/ \E e \in {"start", "end_false", "end_error"} : events'[f] = Append(events[f], e)
    BY DEF RequestChange, RequestAction, StartedSasFails, CancelErr, Finish, Emit, TypeOK
<1>6. \A i \in 1 .. Len(events'[f]) :
         /\ events'[f][i] = "end_true" => sas'[f].state = "Done"
         /\ events'[f][i] \in Failure /\ ~Excused(f)' => sas'[f].state \in Unconfirmed
    BY <1>0, <1>4, <1>5, NewEvent DEF Idle, Unconfirmed
<1>7. /\ req'[f].state \in {"Created", "Ready", "Other"} => sas'[f].state = "none"
      /\ req'[f].state = "Transitioned" => sas'[f].state # "none"
      /\ task'[f] = "sas_entered" => sas'[f].state # "none"
      /\ task'[f] = "request" => sas'[f].state \in Idle
    <2>1. SasMoved(f, "Accepted")[f].state = "Accepted" /\ SasMoved(f, "Created")[f].state = "Created"
        BY SasMovedTypes DEF SasState
    <2> QED
        BY <1>0, <1>2, <1>3, <2>1 DEF OutcomeInv
<1> QED
    BY <1>1, <1>3, <1>6, <1>7 DEF OutcomeInv

(* The loop of the SAS.                                                    *)
LEMMA SasOutcome ==
    ASSUME TypeOK, EndIsLast, NEW f \in Flows, OutcomeInv(f), SasChange(f) \/ SasAction(f)
    PROVE  OutcomeInv(f)'
<1>0. /\ task[f] = "sas" /\ aborted' = aborted /\ unsent \subseteq unsent' /\ req' = req
      /\ {"code", "end_true", "end_false", "end_error"} \subseteq Event
    BY DEF SasChange, SasAction, Confirmed, ConfirmFails, Event, End
<1>1. CancelQueued(f)' => f \in aborted'
    <2>1. actions'[f] = actions[f] \/ (actions[f] # <<>> /\ actions'[f] = Tail(actions[f]))
        BY DEF SasChange, SasAction, TypeOK
    <2> QED
        BY <1>0, <2>1, QueueCancel
<1>2. task'[f] \in {"sas", "done"}
    BY <1>0 DEF SasChange, SasAction, Confirmed, ConfirmFails, Finish, TypeOK
<1>3. sas[f].state # "none" /\ sas'[f].state # "none" /\ req[f].state \notin {"Created", "Ready", "Other"}
    <2>1. CASE SasChange(f)
        BY <1>0, <2>1 DEF SasChange, OutcomeInv, TypeOK
    <2>2. CASE SasAction(f)
        BY <1>0, <2>2, SasMoves DEF OutcomeInv
    <2> QED
        BY <2>1, <2>2
<1>4. actions[f] # <<>> /\ Head(actions[f]) = "Cancel" => f \in aborted
    <2>1. actions[f] \in Seq(Action)
        BY DEF TypeOK
    <2>2. actions[f] # <<>> => 1 \in 1 .. Len(actions[f]) /\ Head(actions[f]) = actions[f][1]
        BY <2>1
    <2> QED
        BY <2>2 DEF OutcomeInv, CancelQueued
<1>5. \/ events'[f] = events[f]
      \/ \E e \in {"code", "end_true", "end_false", "end_error"} :
           /\ events'[f] = Append(events[f], e)
           /\ e = "end_true" => sas'[f].state = "Done"
           /\ e \in Failure => sas'[f].state = "Cancelled" \/ Excused(f)'
    <2>1. CASE SasChange(f)
        BY <2>1 DEF SasChange, Finish, Emit, TypeOK, Failure
    <2>2. CASE SasAction(f)
        <3>1. CASE Head(actions[f]) = "Cancel"
            BY <1>0, <1>4, <2>2, <3>1 DEF SasAction, Finish, Emit, TypeOK, Failure, Excused
        <3>2. CASE Head(actions[f]) # "Cancel"
            BY <1>0, <2>2, <3>2 DEF SasAction, Confirmed, ConfirmFails, Finish, Emit, TypeOK, Failure,
               Excused
        <3> QED
            BY <3>1, <3>2
    <2> QED
        BY <2>1, <2>2
<1>6. \A i \in 1 .. Len(events'[f]) :
         /\ events'[f][i] = "end_true" => sas'[f].state = "Done"
         /\ events'[f][i] \in Failure /\ ~Excused(f)' => sas'[f].state \in Unconfirmed
    BY <1>0, <1>5, NewEvent DEF Unconfirmed
<1> QED
    BY <1>0, <1>1, <1>2, <1>3, <1>6 DEF OutcomeInv

(* Every step keeps it for every flow.                                     *)
LEMMA OutcomeStep ==
    ASSUME TypeOK, EndIsLast, \A f \in Flows : OutcomeInv(f), [Next]_vars
    PROVE  \A f \in Flows : OutcomeInv(f)'
<1>1. CASE Handler
    BY <1>1, HandlerOutcome
<1>2. CASE UNCHANGED vars
    BY <1>2, OtherOutcome DEF vars
<1>3. ASSUME NEW f \in Flows, TaskStep(f) \/ StreamClosed(f) \/ RequestProgress(f) \/ SasProgress(f)
      PROVE  \A g \in Flows : OutcomeInv(g)'
    <2>1. /\ \A g \in Flows \ {f} : /\ task'[g] = task[g] /\ actions'[g] = actions[g]
                                   /\ events'[g] = events[g]
          /\ aborted' = aborted /\ unsent \subseteq unsent'
        BY <1>3 DEF TaskStep, StreamClosed, RequestProgress, SasProgress, SubscribeRequest,
           SubscribeSas, RequestChange, RequestAction, SasChange, SasAction, Confirmed, ConfirmFails,
           StartedSasFails, CancelErr, Finish, Emit, TypeOK
    <2>2. \A g \in Flows \ {f} : req'[g] = req[g]
        BY <1>3 DEF TaskStep, StreamClosed, RequestProgress, SasProgress, SubscribeRequest,
           SubscribeSas, RequestChange, RequestAction, SasChange, SasAction, StartedSasFails, CancelErr,
           ReqCancelled, TypeOK
    <2>3. \A g \in Flows \ {f} : sas'[g] = sas[g]
        <3>1. CASE SasAction(f)
            BY <3>1, SasMoves
        <3>2. CASE RequestChange(f) \/ RequestAction(f)
            BY <3>2, SasMovedTypes DEF RequestChange, RequestAction, StartedSasFails, SasState
        <3>3. CASE ~(SasAction(f) \/ RequestChange(f) \/ RequestAction(f))
            BY <1>3, <3>3 DEF TaskStep, StreamClosed, RequestProgress, SasProgress, SubscribeRequest,
               SubscribeSas, SasChange, TypeOK
        <3> QED
            BY <3>1, <3>2, <3>3
    <2>4. \A g \in Flows \ {f} : OutcomeInv(g)'
        BY <2>1, <2>2, <2>3, OtherOutcome
    <2>5. ASSUME SubscribeRequest(f) \/ SubscribeSas(f) \/ StreamClosed(f) PROVE OutcomeInv(f)'
        <3>1. /\ UNCHANGED <<actions, events, aborted, unsent>>
              /\ req'[f].state = req[f].state /\ sas'[f].state = sas[f].state
            BY <2>5 DEF SubscribeRequest, SubscribeSas, StreamClosed, TypeOK
        <3>2. \/ task[f] = "spawned" /\ task'[f] = "request"
              \/ task[f] = "sas_entered" /\ task'[f] = "sas"
              \/ task'[f] = "done"
            BY <2>5 DEF SubscribeRequest, SubscribeSas, StreamClosed, TypeOK
        <3> QED
            BY <3>1, <3>2 DEF OutcomeInv, CancelQueued, Excused
    <2>6. OutcomeInv(f)'
        BY <1>3, <2>5, RequestOutcome, SasOutcome, SdkOutcome DEF TaskStep
    <2> QED
        BY <2>4, <2>6
<1> QED
    BY <1>1, <1>2, <1>3 DEF Next

(***************************************************************************)
(* What the application is told is what happened: success only when the    *)
(* SAS is done, and a failure or an error only when the SAS is not done,   *)
(* now or ever after, unless the application has aborted the flow or the   *)
(* requests of a confirmation could not be sent.                           *)
(***************************************************************************)
THEOREM OutcomeCorrect == Spec => []EndMatchesOutcome
<1> DEFINE Inv == \A f \in Flows : OutcomeInv(f)
<1>1. Init => Inv
    <2>1. ASSUME Init, NEW f \in Flows PROVE OutcomeInv(f)
        <3>1. /\ task[f] = "none" /\ Len(actions[f]) = 0 /\ Len(events[f]) = 0
              /\ req[f].state = "Created" /\ sas[f].state = "none"
            BY <2>1 DEF Init
        <3> QED
            BY <3>1 DEF OutcomeInv, CancelQueued, Idle
    <2> QED
        BY <2>1
<1>2. TypeOK /\ EndIsLast /\ Inv /\ [Next]_vars => Inv'
    BY OutcomeStep
<1>3. Inv => EndMatchesOutcome
    BY DEF OutcomeInv, EndMatchesOutcome, Failure, Excused, Unconfirmed
<1> HIDE DEF Inv
<1> QED
    BY <1>1, <1>2, <1>3, TypeCorrect, EndCorrect, PTL DEF Spec

-----------------------------------------------------------------------------
(* The announcement of the end.                                            *)

(* A task that ends with a VerificationEndEvent has sent it.               *)
LEMMA FinishAnnounces ==
    ASSUME TypeOK, NEW f \in Flows, NEW e \in End, Finish(f, e)
    PROVE  \E i \in 1 .. Len(events'[f]) : events'[f][i] \in End
<1>1. events[f] \in Seq(Event) /\ events'[f] = Append(events[f], e)
    BY DEF Finish, Emit, TypeOK
<1>2. /\ Len(events'[f]) = Len(events[f]) + 1 /\ Len(events[f]) \in Nat
      /\ events'[f][Len(events[f]) + 1] = e
    BY <1>1
<1>3. Len(events[f]) + 1 \in 1 .. Len(events'[f])
    BY <1>2
<1> QED
    BY <1>2, <1>3

(***************************************************************************)
(* In every behaviour, the step that ends a task tells the application so, *)
(* unless the request is done or the SDK has closed the stream.            *)
(***************************************************************************)
THEOREM AnnouncedCorrect == Spec => EndIsAnnounced
<1> DEFINE Ends(f) ==
             (Active(f) /\ task'[f] = "done" /\ req[f].state # "Done" /\ ~StreamClosed(f)) =>
                 \E i \in 1 .. Len(events'[f]) : events'[f][i] \in End
<1>1. TypeOK /\ [Next]_vars => [\A f \in Flows : Ends(f)]_vars
    <2> SUFFICES ASSUME TypeOK, [Next]_vars, NEW f \in Flows, Active(f), task'[f] = "done",
                        req[f].state # "Done", ~StreamClosed(f)
                 PROVE  \E i \in 1 .. Len(events'[f]) : events'[f][i] \in End
        BY Zenon
    <2>1. task[f] # "done"
        BY DEF Active
    <2>2. ~ UNCHANGED vars /\ ~Handler
        BY <2>1 DEF vars, Handler, HandlerFails, cross_signing_start, cross_signing_select_method,
           cross_signing_confirm, Send, abort_verification, TypeOK
    <2>3. ASSUME NEW g \in Flows, RequestProgress(g) \/ SasProgress(g) PROVE FALSE
        BY <2>1, <2>3 DEF RequestProgress, SasProgress
    <2>4. ASSUME NEW g \in Flows, TaskStep(g) \/ StreamClosed(g) PROVE g = f
        BY <2>1, <2>4, TaskEventStep DEF EventStep
    <2>5. TaskStep(f)
        BY <2>2, <2>3, <2>4 DEF Next
    <2>6. {"end_true", "end_false", "end_error"} = End
        BY DEF End
    <2>7. \E e \in End : Finish(f, e)
        BY <2>1, <2>5, <2>6 DEF TaskStep, SubscribeRequest, SubscribeSas, RequestChange, RequestAction,
           SasChange, SasAction, Confirmed, ConfirmFails, StartedSasFails, CancelErr, Emit, TypeOK
    <2> QED
        BY <2>7, FinishAnnounces
<1> QED
    BY <1>1, TypeCorrect, PTL DEF Spec, EndIsAnnounced
=============================================================================
