---------------------------- MODULE Verification ----------------------------
(***************************************************************************)
(* Interactive verification of this device: the handlers of the            *)
(* application's requests (src/src/client.rs), the task of each            *)
(* verification flow (src/src/verification.rs) and the SAS loop that runs  *)
(* inside it (src/src/sas.rs).                                             *)
(*                                                                         *)
(* A task waits for changes of the SDK's state machines and for actions    *)
(* the handlers queue.  The SDK publishes states through an observable: a  *)
(* reader only learns that the state changed since it subscribed or last   *)
(* read, and then gets the newest state.  Intermediate states may be       *)
(* skipped, and a change before the subscription is never seen.            *)
(***************************************************************************)
EXTENDS Naturals, Sequences

CONSTANTS
    Flows,           \* verification flow ids
    MaxActions,      \* bound: actions queued for one flow
    StreamsMayClose  \* TRUE: the SDK may close the streams of a running flow

ASSUME VerificationAssumption ==
    /\ MaxActions \in Nat
    /\ StreamsMayClose \in BOOLEAN

VARIABLES
    managers,  \* flows with a VerificationManager in verification_requests
    task,      \* [Flows -> where the flow's task is]
    actions,   \* [Flows -> queue of action_tx / action_rx]
    events,    \* [Flows -> events the task has sent to the application]
    aborted,   \* flows aborted by the application (history)
    unsent,    \* flows whose confirmation failed to be sent (history)
    req,       \* [Flows -> the SDK's VerificationRequest]
    sas        \* [Flows -> the SDK's SasVerification]

vars == <<managers, task, actions, events, aborted, unsent, req, sas>>

(* "request" and "sas" are the two select! loops; "spawned" and            *)
(* "sas_entered" are before the loop has subscribed to its stream.         *)
TaskState == {"none", "spawned", "request", "sas_entered", "sas", "done"}

Action == {"Cancel", "Confirm", "SelectMethod"}

End == {"end_true", "end_false", "end_error"}

Event == {"start", "code"} \cup End

(* The SDK's states, and whether the task has an unread change.  other is  *)
(* the transition into a verification that is not SAS.                     *)
ReqState == {"Created", "Ready", "Transitioned", "Other", "Done", "Cancelled"}

SasState ==
    {"none", "Created", "Started", "Accepted", "KeysExchanged", "Confirmed",
     "Done", "Cancelled"}

TypeOK ==
    /\ managers \in SUBSET Flows
    /\ task \in [Flows -> TaskState]
    /\ actions \in [Flows -> Seq(Action)]
    /\ events \in [Flows -> Seq(Event)]
    /\ aborted \in SUBSET Flows
    /\ unsent \in SUBSET Flows
    /\ req \in [Flows -> [state : ReqState, fresh : BOOLEAN]]
    /\ sas \in [Flows -> [state : SasState, fresh : BOOLEAN]]

Init ==
    /\ managers = {}
    /\ task = [f \in Flows |-> "none"]
    /\ actions = [f \in Flows |-> <<>>]
    /\ events = [f \in Flows |-> <<>>]
    /\ aborted = {}
    /\ unsent = {}
    /\ req = [f \in Flows |-> [state |-> "Created", fresh |-> FALSE]]
    /\ sas = [f \in Flows |-> [state |-> "none", fresh |-> FALSE]]

(* is_active                                                               *)
Active(f) == task[f] \notin {"none", "done"}

(* Fault: retain() keeps the finished flows.                               *)
Cleaned_inverted(late) == {f \in managers : ~Active(f)} \cup late

(***************************************************************************)
(* cleanup_verifications: finished flows are removed.  A flow in late ends *)
(* on another thread after retain() has looked at it and is still in the   *)
(* list when the handler locks it again.                                   *)
(***************************************************************************)
Cleaned(late) == {f \in managers : Active(f) \/ f \in late}

-----------------------------------------------------------------------------
(* Request handlers.                                                       *)

(* The task is spawned and the manager pushed without a pause in between.  *)
cross_signing_start(f) ==
    /\ task[f] = "none"
    /\ \E late \in SUBSET managers : managers' = Cleaned(late) \cup {f}
    /\ task' = [task EXCEPT ![f] = "spawned"]
    /\ UNCHANGED <<actions, events, aborted, unsent, req, sas>>

(* cross_signing_select_method and cross_signing_confirm: the action is    *)
(* queued, and lost if the task has ended.                                 *)
Send(f, a) ==
    \E late \in SUBSET managers :
      /\ managers' = Cleaned(late)
      /\ f \in Cleaned(late)
      /\ Len(actions[f]) < MaxActions
      /\ actions' = IF Active(f)
                      THEN [actions EXCEPT ![f] = Append(@, a)]
                      ELSE actions
      /\ UNCHANGED <<task, events, aborted, unsent, req, sas>>

cross_signing_select_method(f) == Send(f, "SelectMethod")

cross_signing_confirm(f) == Send(f, "Confirm")

(* The manager is removed and cancelled, which drops the sender.  The      *)
(* reply to the application is a VerificationEndEvent without success.     *)
abort_verification(f) ==
    \E late \in SUBSET managers :
      /\ f \in Cleaned(late)
      /\ managers' = Cleaned(late) \ {f}
      /\ actions' = IF Active(f)
                      THEN [actions EXCEPT ![f] = Append(@, "Cancel")]
                      ELSE actions
      /\ aborted' = aborted \cup {f}
      /\ UNCHANGED <<task, events, unsent, req, sas>>

(* A handler that does not find its flow, or a start that fails, has only  *)
(* cleaned up.                                                             *)
HandlerFails ==
    /\ managers' = Cleaned({})
    /\ UNCHANGED <<task, actions, events, aborted, unsent, req, sas>>

-----------------------------------------------------------------------------
(* The task of a flow.                                                     *)

Emit(f, e) == events' = [events EXCEPT ![f] = Append(@, e)]

(* Fault: the branch does not stop the loop.                               *)
Finish_continues(f, e) == Emit(f, e) /\ UNCHANGED task

(* The task sends its last event and ends.                                 *)
Finish(f, e) ==
    /\ Emit(f, e)
    /\ task' = [task EXCEPT ![f] = "done"]

(***************************************************************************)
(* What the SDK publishes.  It does so before it sends the requests of a   *)
(* call, so a call that fails may have moved its state machine already.    *)
(***************************************************************************)
SasMoved(f, s) == [sas EXCEPT ![f] = [state |-> s, fresh |-> TRUE]]

(* cancel() of a SAS and of a request, unless it has ended.                *)
SasCancelled(f) ==
    IF sas[f].state \in {"Done", "Cancelled"} THEN sas ELSE SasMoved(f, "Cancelled")

ReqCancelled(f) ==
    IF req[f].state \in {"Done", "Cancelled"}
      THEN req
      ELSE [req EXCEPT ![f] = [state |-> "Cancelled", fresh |-> TRUE]]

(* Fault: the error is only logged.                                        *)
CancelErr_silent(f) ==
    /\ req' \in {req, ReqCancelled(f)}
    /\ task' = [task EXCEPT ![f] = "done"]
    /\ UNCHANGED events

(* cancel_err: whatever cancel() returns, the error is reported.           *)
CancelErr(f) ==
    /\ req' \in {req, ReqCancelled(f)}
    /\ Finish(f, "end_error")

SubscribeRequest(f) ==
    /\ task[f] = "spawned"
    /\ task' = [task EXCEPT ![f] = "request"]
    /\ req' = [req EXCEPT ![f].fresh = FALSE]
    /\ UNCHANGED <<managers, actions, events, aborted, unsent, sas>>

(* A SasVerificationManager takes over: its loop is run to the end, after  *)
(* which the task ends as well.                                            *)
SubscribeSas(f) ==
    /\ task[f] = "sas_entered"
    /\ task' = [task EXCEPT ![f] = "sas"]
    /\ sas' = [sas EXCEPT ![f].fresh = FALSE]
    /\ UNCHANGED <<managers, actions, events, aborted, unsent, req>>

(* process_state_change of VerificationProcessor.  Changes to Created and  *)
(* Requested are only logged; a request sent from here has none.           *)
RequestChange(f) ==
    LET state == req[f].state
        read == [req EXCEPT ![f].fresh = FALSE]
    IN
    /\ task[f] = "request"
    /\ req[f].fresh
    /\ \/ /\ state = "Ready"
          /\ req' = read
          /\ Emit(f, "start")
          /\ UNCHANGED <<task, sas>>
       \/ /\ state = "Transitioned"    \* sas.accept() succeeds ...
          /\ req' = read
          /\ task' = [task EXCEPT ![f] = "sas_entered"]
          /\ sas' = IF sas[f].state = "Started" THEN SasMoved(f, "Accepted") ELSE sas
          /\ UNCHANGED events
       \/ /\ state = "Transitioned"    \* ... or fails
          /\ CancelErr(f)
          /\ \/ UNCHANGED sas
             \/ sas[f].state = "Started" /\ sas' = SasMoved(f, "Accepted")
       \/ /\ state = "Other"
          /\ CancelErr(f)
          /\ UNCHANGED sas
       \/ /\ state = "Done"
          /\ req' = read
          /\ task' = [task EXCEPT ![f] = "done"]
          /\ UNCHANGED <<events, sas>>
       \/ /\ state = "Cancelled"
          /\ req' = read
          /\ Finish(f, "end_false")
          /\ UNCHANGED sas
    /\ UNCHANGED <<managers, actions, aborted, unsent>>

(* start_sas() fails to send its request: the SAS has been started, and    *)
(* the request is cancelled unless that fails, too.                        *)
StartedSasFails(f) ==
    /\ req[f].state \in {"Ready", "Transitioned"}
    /\ sas' = SasMoved(f, "Created")
    /\ \E s \in {"Transitioned", "Cancelled"} :
         req' = [req EXCEPT ![f] = [state |-> s, fresh |-> TRUE]]
    /\ Finish(f, "end_error")

(* process_action of VerificationProcessor.  A Confirm is dropped here.    *)
RequestAction(f) ==
    /\ task[f] = "request"
    /\ actions[f] # <<>>
    /\ actions' = [actions EXCEPT ![f] = Tail(@)]
    /\ \/ /\ Head(actions[f]) = "Cancel"
          /\ \/ req' = ReqCancelled(f) /\ Finish(f, "end_false")
             \/ CancelErr(f)    \* cancel() fails
          /\ UNCHANGED sas
       \/ /\ Head(actions[f]) = "SelectMethod"    \* start_sas() succeeds ...
          /\ req[f].state \in {"Ready", "Transitioned"}
          /\ req' = [req EXCEPT ![f] = [state |-> "Transitioned", fresh |-> TRUE]]
          /\ sas' = SasMoved(f, "Created")
          /\ task' = [task EXCEPT ![f] = "sas_entered"]
          /\ UNCHANGED events
       \/ /\ Head(actions[f]) = "SelectMethod"    \* ... or fails, or gives None
          /\ \/ UNCHANGED sas /\ CancelErr(f)
             \/ StartedSasFails(f)
       \/ /\ Head(actions[f]) = "Confirm"
          /\ UNCHANGED <<task, events, req, sas>>
    /\ UNCHANGED <<managers, aborted, unsent>>

(* Fault: confirmation on this side alone counts as success.               *)
SasChange_confirmed(f) ==
    /\ task[f] = "sas"
    /\ sas[f].fresh
    /\ sas' = [sas EXCEPT ![f].fresh = FALSE]
    /\ \/ sas[f].state \in {"Confirmed", "Done"} /\ Finish(f, "end_true")
       \/ sas[f].state \notin {"Confirmed", "Done"} /\ UNCHANGED <<task, events>>
    /\ UNCHANGED <<managers, actions, aborted, unsent, req>>

(* Fault: the state of the SDK is passed on as it is.                      *)
SasChange_raw(f) ==
    /\ task[f] = "sas"
    /\ sas[f].fresh
    /\ sas' = [sas EXCEPT ![f].fresh = FALSE]
    /\ Finish(f, sas[f].state)
    /\ UNCHANGED <<managers, actions, aborted, unsent, req>>

(* process_state_change of SasVerificationManager.                         *)
SasChange(f) ==
    LET state == sas[f].state IN
    /\ task[f] = "sas"
    /\ sas[f].fresh
    /\ sas' = [sas EXCEPT ![f].fresh = FALSE]
    /\ \/ /\ state \in {"Created", "Started", "Accepted", "Confirmed"}
          /\ UNCHANGED <<task, events>>
       \/ state = "KeysExchanged" /\ Emit(f, "code") /\ UNCHANGED task
       \/ state = "Done" /\ Finish(f, "end_true")
       \/ state = "Cancelled" /\ Finish(f, "end_false")
    /\ UNCHANGED <<managers, actions, aborted, unsent, req>>

(* Fault: the SAS loop has no branch for Cancel.                           *)
SasAction_ignores(f) ==
    /\ task[f] = "sas"
    /\ actions[f] # <<>>
    /\ actions' = [actions EXCEPT ![f] = Tail(@)]
    /\ UNCHANGED <<managers, task, events, aborted, unsent, req, sas>>

(* confirm() has an effect once keys are exchanged.                        *)
Confirmations(f) ==
    IF sas[f].state = "KeysExchanged"
      THEN {SasMoved(f, s) : s \in {"Confirmed", "Done"}}
      ELSE {sas}

(* Its requests are sent: the loop goes on.                                *)
Confirmed(f) ==
    /\ sas' \in Confirmations(f)
    /\ UNCHANGED <<task, events, unsent>>

(* A request fails: the SAS may be confirmed already, and nobody takes     *)
(* that back.                                                              *)
ConfirmFails(f) ==
    /\ sas' \in Confirmations(f) \cup {sas}
    /\ unsent' = unsent \cup {f}
    /\ Finish(f, "end_error")

(* process_action of SasVerificationManager.  A SelectMethod is dropped    *)
(* here.                                                                   *)
SasAction(f) ==
    /\ task[f] = "sas"
    /\ actions[f] # <<>>
    /\ actions' = [actions EXCEPT ![f] = Tail(@)]
    /\ \/ /\ Head(actions[f]) = "Cancel"
          /\ \/ sas' = SasCancelled(f) /\ Finish(f, "end_false")
             \/ sas' \in {sas, SasCancelled(f)} /\ Finish(f, "end_error")
          /\ UNCHANGED unsent
       \/ Head(actions[f]) = "Confirm" /\ (Confirmed(f) \/ ConfirmFails(f))
       \/ Head(actions[f]) = "SelectMethod" /\ UNCHANGED <<task, events, unsent, sas>>
    /\ UNCHANGED <<managers, aborted, req>>

(* stream.next() returns None: the loop, and with it the task, ends.       *)
StreamClosed(f) ==
    /\ StreamsMayClose
    /\ task[f] \in {"request", "sas"}
    /\ task' = [task EXCEPT ![f] = "done"]
    /\ UNCHANGED <<managers, actions, events, aborted, unsent, req, sas>>

TaskStep(f) ==
    \/ SubscribeRequest(f)
    \/ SubscribeSas(f)
    \/ RequestChange(f)
    \/ RequestAction(f)
    \/ SasChange(f)
    \/ SasAction(f)

-----------------------------------------------------------------------------
(* The SDK and the other device (external).                                *)

(* The request makes progress: it is accepted, the other device starts SAS *)
(* or another method, it ends, or one side cancels it.                     *)
RequestProgress(f) ==
    /\ task[f] # "none"
    /\ \E s \in ReqState :
         /\ \/ req[f].state = "Created" /\ s \in {"Ready", "Cancelled"}
            \/ req[f].state = "Ready" /\ s \in {"Transitioned", "Other", "Cancelled"}
            \/ req[f].state \in {"Transitioned", "Other"} /\ s \in {"Done", "Cancelled"}
         /\ s = "Done" /\ req[f].state = "Transitioned" => sas[f].state = "Done"
         /\ req' = [req EXCEPT ![f] = [state |-> s, fresh |-> TRUE]]
         /\ sas' = IF s = "Transitioned"
                     THEN [sas EXCEPT ![f] = [state |-> "Started", fresh |-> TRUE]]
                     ELSE sas
    /\ UNCHANGED <<managers, task, actions, events, aborted, unsent>>

(* The SAS makes progress; Started -> Accepted and KeysExchanged ->        *)
(* Confirmed are steps of this device.                                     *)
SasProgress(f) ==
    /\ \E s \in SasState :
         /\ \/ sas[f].state = "Created" /\ s = "Accepted"
            \/ sas[f].state = "Accepted" /\ s = "KeysExchanged"
            \/ sas[f].state = "Confirmed" /\ s = "Done"
            \/ sas[f].state \notin {"none", "Done", "Cancelled"} /\ s = "Cancelled"
         /\ sas' = [sas EXCEPT ![f] = [state |-> s, fresh |-> TRUE]]
    /\ UNCHANGED <<managers, task, actions, events, aborted, unsent, req>>

-----------------------------------------------------------------------------
Handler ==
    \/ HandlerFails
    \/ \E f \in Flows :
         \/ cross_signing_start(f)
         \/ cross_signing_select_method(f)
         \/ cross_signing_confirm(f)
         \/ abort_verification(f)

Next ==
    \/ Handler
    \/ \E f \in Flows :
         \/ TaskStep(f)
         \/ StreamClosed(f)
         \/ RequestProgress(f)
         \/ SasProgress(f)

Spec == Init /\ [][Next]_vars

(* Tokio runs every task that can run; nobody else has to do anything.     *)
FairSpec == Spec /\ \A f \in Flows : WF_vars(TaskStep(f))

-----------------------------------------------------------------------------
(* Properties.                                                             *)

(***************************************************************************)
(* Whichever of the two nested loops ends a flow, for whatever reason, the *)
(* task sends at most one VerificationEndEvent and nothing after it        *)
(* (verification.rs and sas.rs: every branch that sends it stops both      *)
(* loops).                                                                 *)
(***************************************************************************)
EndIsLast ==
    \A f \in Flows : \A i \in 1 .. Len(events[f]) :
        events[f][i] \in End => (i = Len(events[f]) /\ task[f] = "done")

(***************************************************************************)
(* A running flow is under control: its manager is in the list, so that    *)
(* the application can act on it, or a Cancel is queued.  Hence the branch *)
(* of process_action for a dropped sender is never reached: cleanup never  *)
(* drops the manager of a running task.                                    *)
(***************************************************************************)
RunningFlowIsControlled ==
    \A f \in Flows : Active(f) =>
        \/ f \in managers
        \/ f \in aborted /\ \E i \in 1 .. Len(actions[f]) : actions[f][i] = "Cancel"

(***************************************************************************)
(* What the application is told is what happened (process_state_change and *)
(* process_action of both loops, cancel_err): success only when the SAS is *)
(* done; failure or an error only when the SAS is not done and never will  *)
(* be, unless the application has aborted the flow itself or the requests  *)
(* of a confirmation could not be sent, which the SDK does not take back.  *)
(***************************************************************************)
EndMatchesOutcome ==
    \A f \in Flows : \A i \in 1 .. Len(events[f]) :
        /\ events[f][i] = "end_true" => sas[f].state = "Done"
        /\ events[f][i] \in {"end_false", "end_error"} /\ f \notin aborted \cup unsent
             => sas[f].state # "Done"

(***************************************************************************)
(* A task does not end without telling the application, except when the    *)
(* request itself is done (process_state_change, Done) or the SDK closes   *)
(* the stream.                                                             *)
(***************************************************************************)
EndIsAnnounced ==
    [][\A f \in Flows :
         (Active(f) /\ task'[f] = "done" /\ req[f].state # "Done" /\ ~StreamClosed(f)) =>
             \E i \in 1 .. Len(events'[f]) : events'[f][i] \in End]_vars

(***************************************************************************)
(* An aborted flow ends: the Cancel that abort_verification queues is read *)
(* by whichever loop runs, or the flow ends on its own.                    *)
(***************************************************************************)
AbortedFlowEnds == \A f \in Flows : f \in aborted ~> task[f] = "done"
=============================================================================
