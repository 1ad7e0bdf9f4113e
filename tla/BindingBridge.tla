---------------------------- MODULE BindingBridge -----------------------------
(***************************************************************************)
(* adapters/micropython/micropython_capability_bridge.c: the remote call by *)
(* which a script on hart 1 has hart 0 use a capability for it.  There is   *)
(* one request record and one data buffer, reused by every call of a run;   *)
(* request_ticket publishes a call, complete_ticket ends it, cancel_ticket  *)
(* asks hart 0 to give it up.                                               *)
(*                                                                          *)
(* A call is synchronous (hart 0 executes it inside one tick) or it starts  *)
(* an operation of the external link that later ticks poll.  What a call    *)
(* draws, reads or writes is not modelled; the leases it claims for the     *)
(* rest of the run are.                                                     *)
(***************************************************************************)
EXTENDS Integers

CONSTANTS
  MaxCalls,   \* bound of the model on request_ticket, per run
  Kinds       \* the kinds of call the scripts make

\* A transfer is the asynchronous kind; the others end inside one tick.
ASSUME KindsAssumption == Kinds \subseteq {"transfer", "link", "lights"}
ResourceOf(kind) == IF kind = "lights" THEN "lights" ELSE "link"

VARIABLES
  control,      \* micropython_binding_control_t
  operation,    \* g_external_operation
  owned,        \* g_external_owned, g_lights_owned
  lent,         \* the services suspended in favour of the script
  executing,    \* hart 0 is inside binding_execute for this ticket (0: no)
  call          \* the script's call: where micropython_binding_call stands

bridge_vars == <<control, operation, owned, lent, executing, call>>

NoControl == [run_active |-> FALSE, request_ticket |-> 0, cancel_ticket |-> 0,
              complete_ticket |-> 0, kind |-> "none"]
NoOperation == [active |-> FALSE, ticket |-> 0]

BridgeInit ==
  /\ control = NoControl
  /\ operation = NoOperation
  /\ owned = {} /\ lent = {}
  /\ executing = 0
  /\ call = "none"

Pending == control.request_ticket # control.complete_ticket

\* binding_request_cancelled
Cancelled(ticket) == ~control.run_active \/ control.cancel_ticket = ticket

\* binding_complete_request
Complete(ticket) == control' = [control EXCEPT !.complete_ticket = ticket]

\* binding_claim_external, binding_claim_light: the firmware's own user of
\* the resource steps aside first, and steps back in if the lease is refused.
Claim(r) ==
  \/ r \in owned /\ UNCHANGED <<owned, lent>>
  \/ r \notin owned /\ owned' = owned \cup {r} /\ lent' = lent \cup {r}
  \/ r \notin owned /\ UNCHANGED owned /\ lent' = lent \ {r}

-----------------------------------------------------------------------------
(* Hart 0: micropython_capability_bridge_tick                              *)

TickReady == control.run_active /\ executing = 0

\* binding_external_operation_progress: the link has reached a terminal
\* result, by itself or because the request is cancelled.
TickProgress ==
  /\ TickReady /\ operation.active
  /\ Complete(operation.ticket)
  /\ operation' = NoOperation
  /\ UNCHANGED <<owned, lent, executing, call>>

\* Mutant: a request cancelled before it was accepted is left alone.
TickCancelled_Skipped == FALSE /\ UNCHANGED bridge_vars

TickCancelled ==
  /\ TickReady /\ ~operation.active /\ Pending
  /\ Cancelled(control.request_ticket)
  /\ Complete(control.request_ticket)
  /\ UNCHANGED <<operation, owned, lent, executing, call>>

Accepts == /\ TickReady /\ ~operation.active /\ Pending
           /\ ~Cancelled(control.request_ticket)

\* binding_external_operation_start: the transfer begins, or the call is
\* answered at once (nothing to transfer, a refusal).
TickStart ==
  /\ Accepts /\ control.kind = "transfer"
  /\ Claim("link") \/ UNCHANGED <<owned, lent>>
  /\ \/ /\ "link" \in owned'
        /\ operation' = [active |-> TRUE, ticket |-> control.request_ticket]
        /\ UNCHANGED control
     \/ /\ Complete(control.request_ticket)
        /\ UNCHANGED operation
  /\ UNCHANGED <<executing, call>>

\* binding_execute, up to its result: a light that the call claimed and
\* could not set is given back at once.
TickExecute ==
  /\ Accepts /\ control.kind \in Kinds \ {"transfer"}
  /\ Claim(ResourceOf(control.kind)) \/ UNCHANGED <<owned, lent>>
  /\ executing' = control.request_ticket
  /\ UNCHANGED <<control, operation, call>>

\* The second look at the cancellation, and the answer.
TickAnswer ==
  /\ executing # 0
  /\ Complete(executing)
  /\ executing' = 0
  /\ UNCHANGED <<operation, owned, lent, call>>

BridgeTick == \/ TickProgress \/ TickCancelled \/ TickStart
              \/ TickExecute \/ TickAnswer

-----------------------------------------------------------------------------
(* Hart 0: the ends of a run                                               *)

\* micropython_capability_bridge_prepare: what the last run owned is
\* forgotten here, not released.
Prepare ==
  /\ control' = [NoControl EXCEPT !.run_active = TRUE]
  /\ operation' = NoOperation
  /\ owned' = {}
  /\ UNCHANGED <<lent, executing, call>>

\* Mutant: the leases are released and nobody is told.
Cleanup_NoResume ==
  /\ control' = [control EXCEPT !.run_active = FALSE,
                                !.complete_ticket = control.request_ticket]
  /\ operation' = NoOperation /\ owned' = {}
  /\ UNCHANGED <<lent, executing, call>>

\* micropython_capability_bridge_cleanup
Cleanup ==
  /\ control' = [control EXCEPT
       !.run_active = FALSE,
       !.cancel_ticket = IF Pending THEN control.request_ticket ELSE @,
       !.complete_ticket = control.request_ticket]
  /\ operation' = NoOperation
  /\ owned' = {}
  /\ lent' = lent \ owned
  /\ UNCHANGED <<executing, call>>

-----------------------------------------------------------------------------
(* Hart 1: micropython_binding_call                                        *)

CallBegin(kind) ==
  /\ call = "none"
  /\ control.run_active /\ ~Pending
  /\ control.request_ticket < MaxCalls
  /\ control' = [control EXCEPT
       !.request_ticket = @ + 1, !.cancel_ticket = 0, !.kind = kind]
  /\ call' = "waiting"
  /\ UNCHANGED <<operation, owned, lent, executing>>

\* Mutant: a call that gives up does not wait for hart 0.
CallGiveUp_NoWait ==
  /\ call = "waiting" /\ Pending
  /\ control' = [control EXCEPT !.cancel_ticket = control.request_ticket]
  /\ call' = "none"
  /\ UNCHANGED <<operation, owned, lent, executing>>

\* The call's own timeout, or the stop or deadline of the run.
CallGiveUp ==
  /\ call = "waiting" /\ Pending
  /\ control' = [control EXCEPT !.cancel_ticket = control.request_ticket]
  /\ call' = "cancelling"
  /\ UNCHANGED <<operation, owned, lent, executing>>

CallReturn ==
  /\ call # "none" /\ ~Pending
  /\ call' = "none"
  /\ UNCHANGED <<control, operation, owned, lent, executing>>
===============================================================================
