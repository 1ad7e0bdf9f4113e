--------------------------- MODULE MicropythonRuntime --------------------------
(***************************************************************************)
(* services/micropython_runtime.c with the executor and the binding bridge  *)
(* it drives: hart 0 starts, stops, polls and watches one script at a time; *)
(* hart 1 runs it.  The record they share has no lock, so every store that  *)
(* the other hart can observe in between is a step of its own.  Where one   *)
(* hart is known to be out of the way (the executor is idle, the VM is      *)
(* over) a run of stores is one step.                                       *)
(*                                                                          *)
(* Time is what the watchdog compares it with: the deadline of the run and  *)
(* the moment of the first stop request, each not yet, due, or past its     *)
(* grace.  The console output ring is not part of this module.              *)
(***************************************************************************)
EXTENDS Core1Executor, BindingBridge

CONSTANT MaxRuns   \* bound of the model on run_id

VARIABLES
  shared,       \* micropython_shared_t
  deadline,     \* hal_time_us() against shared->deadline_us
  stop_clock,   \* hal_time_us() against shared->stop_requested_us
  g_ticket,
  hart0,        \* where the main loop stands between two of its stores
  hart1         \* where micropython_worker stands

runtime_vars == <<shared, deadline, stop_clock, g_ticket, hart0, hart1>>
vars == <<executor_vars, bridge_vars, runtime_vars>>

Init ==
  /\ ExecutorInit /\ BridgeInit
  /\ shared = [state |-> "stopped", exit_reason |-> "none", run_id |-> 0,
               stop_requested |-> FALSE]
  /\ deadline = "off" /\ stop_clock = "off"
  /\ g_ticket = 0
  /\ hart0 = "loop" /\ hart1 = "idle"

\* Mutant: a run that hart 1 has not entered yet is not active.
Active_NotStarting(state) == state \in {"running", "stopping"}

\* micropython_state_active
Active(state) == state \in {"starting", "running", "stopping"}

-----------------------------------------------------------------------------
(* Hart 0                                                                  *)

\* The main loop is between two calls.
Free == hart0 = "loop" /\ executing = 0

Goto(where) == hart0' = where

SetShared(state, exit) ==
  shared' = [shared EXCEPT !.state = state, !.exit_reason = exit]

\* The condition of micropython_runtime_poll for taking the run over.
MayReap ==
  g_ticket # 0 /\ (core1_executor_complete(g_ticket) \/ ~Active(shared.state))

\* Its body.  The VM is over, so hart 1 stores nothing here meanwhile.
Reap ==
  /\ g_ticket' = 0
  /\ Cleanup
  /\ IF Active(shared.state) THEN SetShared("error", "core1_failure")
                             ELSE UNCHANGED shared

\* Mutant: only a stop request is watched.
Expired_StopOnly == stop_clock = "grace_over"

\* micropython_watchdog_poll
Expired == deadline = "grace_over" \/ stop_clock = "grace_over"

PollReap ==
  /\ Free /\ MayReap
  /\ Reap
  /\ UNCHANGED <<executor_vars, deadline, stop_clock, hart0, hart1>>

\* hal_watchdog_force_reset never returns: hart 0 waits for the reset.
PollWatchdog ==
  /\ Free /\ ~MayReap
  /\ Active(shared.state) /\ Expired
  /\ Goto("reset")
  /\ UNCHANGED <<executor_vars, bridge_vars, shared, deadline, stop_clock,
                 g_ticket, hart1>>

micropython_runtime_poll == PollReap \/ PollWatchdog

\* micropython_runtime_start begins with a poll.  Its callers bound the
\* length of the source, so the refusal of a bad one is not modelled.
StartEntry ==
  /\ Free
  /\ shared.run_id < MaxRuns /\ NextTicket <= MaxTickets
  /\ IF MayReap THEN Reap ELSE UNCHANGED <<g_ticket, shared, bridge_vars>>
  /\ MayReap \/ ~(Active(shared.state) /\ Expired)
  /\ Goto("starting")
  /\ UNCHANGED <<executor_vars, deadline, stop_clock, hart1>>

MayStart == ~Active(shared.state) /\ g_ticket = 0

\* The checks that refuse a run that is still there in some respect.
StartRefused ==
  /\ hart0 = "starting"
  /\ ~MayStart \/ (executor.online /\ ~core1_executor_idle)
  /\ Goto("refusing")
  /\ UNCHANGED <<executor_vars, bridge_vars, shared, deadline, stop_clock,
                 g_ticket, hart1>>

\* The store of the refusal, into the record of the run it refused for.
StoreBusy ==
  /\ hart0 = "refusing"
  /\ shared' = [shared EXCEPT !.exit_reason = "busy"]
  /\ Goto("loop")
  /\ UNCHANGED <<executor_vars, bridge_vars, deadline, stop_clock, g_ticket,
                 hart1>>

\* Hart 1 is not there yet: core1_executor_init starts it and waits.
StartBoot ==
  /\ hart0 = "starting" /\ MayStart
  /\ \E result \in BOOLEAN : StartCore1(result)
  /\ Goto("booting")
  /\ UNCHANGED <<bridge_vars, shared, deadline, stop_clock, g_ticket, hart1>>

StartBooted ==
  /\ hart0 = "booting" /\ executor.online
  /\ Goto("starting")
  /\ UNCHANGED <<executor_vars, bridge_vars, shared, deadline, stop_clock,
                 g_ticket, hart1>>

StartFailed ==
  /\ MayStart /\ ~executor.online
  /\ \/ hart0 = "booting" /\ Core1StartTimeout
     \/ executor.start_failed /\ hart0 \in {"starting", "booting"}
          /\ UNCHANGED executor_vars
  /\ SetShared("error", "core1_failure")
  /\ Goto("loop")
  /\ UNCHANGED <<bridge_vars, deadline, stop_clock, g_ticket, hart1>>

\* Everything from the copy of the source to the ticket: hart 1 reads none of
\* it before the ticket is published.
StartBegin ==
  /\ hart0 = "starting" /\ MayStart /\ core1_executor_idle
  /\ shared' = [state |-> "starting", exit_reason |-> "none",
                run_id |-> shared.run_id + 1, stop_requested |-> FALSE]
  /\ deadline' = "ahead" /\ stop_clock' = "off"
  /\ Prepare
  /\ Submit("python") /\ g_ticket' = NextTicket
  /\ Goto("loop")
  /\ UNCHANGED <<boot, hart1>>

\* micropython_runtime_request_stop, store by store.
StopEntry ==
  /\ Free /\ Active(shared.state)
  /\ Goto("stop_flag")
  /\ UNCHANGED <<executor_vars, bridge_vars, shared, deadline, stop_clock,
                 g_ticket, hart1>>

StopFlag ==
  /\ hart0 = "stop_flag"
  /\ shared' = [shared EXCEPT !.stop_requested = TRUE]
  /\ stop_clock' = IF stop_clock = "off" THEN "fresh" ELSE stop_clock
  /\ Goto("stop_state")
  /\ UNCHANGED <<executor_vars, bridge_vars, deadline, g_ticket, hart1>>

StopState ==
  /\ hart0 = "stop_state"
  /\ shared' = [shared EXCEPT !.state = "stopping"]
  /\ Goto("loop")
  /\ UNCHANGED <<executor_vars, bridge_vars, deadline, stop_clock, g_ticket,
                 hart1>>

\* The tick of the bridge runs in the same loop.
Tick ==
  /\ hart0 = "loop" /\ BridgeTick
  /\ UNCHANGED <<executor_vars, runtime_vars>>

\* The other client of the executor, the AprilTag detector.
OtherSubmit ==
  /\ Free /\ core1_executor_idle /\ NextTicket <= MaxTickets
  /\ Submit("apriltag")
  /\ UNCHANGED <<boot, bridge_vars, runtime_vars>>

-----------------------------------------------------------------------------
(* Hart 1                                                                  *)

Worker(from, to) == hart1 = from /\ hart1' = to

Boot ==
  /\ Core1Online
  /\ UNCHANGED <<bridge_vars, runtime_vars>>

TakeJob ==
  /\ \/ HasJob("python") /\ Worker("idle", "entered")
     \/ HasJob("apriltag") /\ Worker("idle", "other")
  /\ UNCHANGED <<executor_vars, bridge_vars, shared, deadline, stop_clock,
                 g_ticket, hart0>>

EndJob ==
  /\ Worker("stored", "idle") \/ Worker("other", "idle")
  /\ CompleteJob
  /\ UNCHANGED <<boot, bridge_vars, shared, deadline, stop_clock, g_ticket,
                 hart0>>

WorkerRunning ==
  /\ Worker("entered", "vm")
  /\ shared' = [shared EXCEPT !.state = "running"]
  /\ UNCHANGED <<executor_vars, bridge_vars, deadline, stop_clock, g_ticket,
                 hart0>>

\* micropython_runtime_interrupt_pending
Interrupted == shared.stop_requested \/ deadline \in {"due", "grace_over"}
NotedInterrupt ==
  shared' = [shared EXCEPT !.exit_reason =
               IF shared.stop_requested THEN "requested" ELSE "timeout"]

\* A VM hook: KeyboardInterrupt, which the script may catch and go on.
VMInterrupt ==
  /\ Interrupted
  /\ NotedInterrupt
  /\ Worker("vm", "vm") \/ Worker("vm", "deinit")
  /\ UNCHANGED <<executor_vars, bridge_vars, deadline, stop_clock, g_ticket,
                 hart0>>

\* The script returns, or ends in an exception nobody caught.
VMEnds ==
  /\ Worker("vm", "deinit")
  /\ \/ UNCHANGED shared
     \/ shared.exit_reason = "none"
          /\ shared' = [shared EXCEPT !.exit_reason = "exception"]
  /\ UNCHANGED <<executor_vars, bridge_vars, deadline, stop_clock, g_ticket,
                 hart0>>

VMCall ==
  /\ Worker("vm", "in_call")
  /\ \E kind \in Kinds : CallBegin(kind)
  /\ UNCHANGED <<executor_vars, shared, deadline, stop_clock, g_ticket, hart0>>

\* The call gives up: it is interrupted, or it has waited 500 ms.
VMGiveUp ==
  /\ hart1 = "in_call" /\ CallGiveUp
  /\ \/ UNCHANGED shared
     \/ Interrupted /\ NotedInterrupt
  /\ UNCHANGED <<executor_vars, deadline, stop_clock, g_ticket, hart0, hart1>>

VMReturn ==
  /\ Worker("in_call", "vm") /\ CallReturn
  /\ UNCHANGED <<executor_vars, shared, deadline, stop_clock, g_ticket, hart0>>

\* After mp_embed_deinit: an exit reason, the look at it, the state.
WorkerExit ==
  /\ Worker("deinit", "outcome")
  /\ shared' = [shared EXCEPT !.exit_reason = IF @ = "none" THEN "complete" ELSE @]
  /\ UNCHANGED <<executor_vars, bridge_vars, deadline, stop_clock, g_ticket,
                 hart0>>

WorkerOutcome ==
  /\ \/ shared.exit_reason = "complete" /\ Worker("outcome", "store_finished")
     \/ shared.exit_reason = "exception" /\ Worker("outcome", "store_error")
     \/ shared.exit_reason \notin {"complete", "exception"}
          /\ Worker("outcome", "store_stopped")
  /\ UNCHANGED <<executor_vars, bridge_vars, shared, deadline, stop_clock,
                 g_ticket, hart0>>

StoreState(state) == shared' = [shared EXCEPT !.state = state]

WorkerState ==
  /\ \/ Worker("store_finished", "stored") /\ StoreState("finished")
     \/ Worker("store_error", "stored") /\ StoreState("error")
     \/ Worker("store_stopped", "stored") /\ StoreState("stopped")
  /\ UNCHANGED <<executor_vars, bridge_vars, deadline, stop_clock, g_ticket,
                 hart0>>

-----------------------------------------------------------------------------
(* Time and reset                                                          *)

(***************************************************************************)
(* Time matters while a run is active.  A grace of seconds runs out on a    *)
(* script that does not give in, never on one whose call hart 0 is about to *)
(* answer: calls are bounded by milliseconds as long as hart 0 does answer  *)
(* them, which CallAnswered shows.                                          *)
(***************************************************************************)
GraceMayEnd == Active(shared.state) /\ hart1 # "in_call"

DeadlinePasses ==
  /\ \/ /\ deadline = "ahead" /\ Active(shared.state)
        /\ deadline' = "due"
     \/ /\ deadline = "due" /\ GraceMayEnd
        /\ deadline' = "grace_over"
  /\ UNCHANGED <<executor_vars, bridge_vars, shared, stop_clock, g_ticket,
                 hart0, hart1>>

StopGracePasses ==
  /\ GraceMayEnd
  /\ stop_clock = "fresh" /\ stop_clock' = "grace_over"
  /\ UNCHANGED <<executor_vars, bridge_vars, shared, deadline, g_ticket,
                 hart0, hart1>>

\* WDT1 resets the chip; both harts boot again.
Reset ==
  /\ hart0 = "reset"
  /\ executor' = [started |-> FALSE, start_failed |-> FALSE, online |-> FALSE,
                  request_ticket |-> 0, complete_ticket |-> 0, job |-> "none"]
  /\ boot' = "off"
  /\ control' = NoControl /\ operation' = NoOperation
  /\ owned' = {} /\ lent' = {} /\ executing' = 0 /\ call' = "none"
  /\ shared' = [state |-> "stopped", exit_reason |-> "none", run_id |-> 0,
                stop_requested |-> FALSE]
  /\ deadline' = "off" /\ stop_clock' = "off" /\ g_ticket' = 0
  /\ hart0' = "loop" /\ hart1' = "idle"

Hart0Step ==
  \/ micropython_runtime_poll \/ Tick
  \/ StartRefused \/ StoreBusy \/ StartBoot \/ StartBooted \/ StartFailed
  \/ StartBegin \/ StopFlag \/ StopState
Requests == StartEntry \/ StopEntry \/ OtherSubmit

\* What hart 1 does whatever the script is.
WorkerStep == \/ TakeJob \/ EndJob \/ WorkerRunning \/ VMReturn
              \/ WorkerExit \/ WorkerOutcome \/ WorkerState
Script == VMInterrupt \/ VMEnds \/ VMCall \/ VMGiveUp

Clock == DeadlinePasses \/ StopGracePasses

Next == Hart0Step \/ Requests \/ Boot \/ WorkerStep \/ Script \/ Clock \/ Reset

(***************************************************************************)
(* The main loop comes back to the poll and to the tick of the bridge       *)
(* whatever requests arrive (strong fairness), a function that hart 0 has   *)
(* entered goes on, the clock advances (weak fairness is enough, as a run   *)
(* makes at most MaxCalls calls), and hart 1 executes.  Nothing is assumed  *)
(* of the script: it may loop for ever in native code, and it may stay in a *)
(* call for as long as hart 0 does not answer.                              *)
(***************************************************************************)
Fairness ==
  /\ WF_vars(Hart0Step) /\ SF_vars(micropython_runtime_poll) /\ SF_vars(Tick)
  /\ WF_vars(WorkerStep)
  /\ WF_vars(DeadlinePasses) /\ WF_vars(StopGracePasses) /\ WF_vars(Reset)

Spec == Init /\ [][Next]_vars
FairSpec == Spec /\ Fairness

-----------------------------------------------------------------------------
(* Properties                                                              *)

\* Hart 1 is between taking the job and publishing its terminal state.
InRun == hart1 \in {"entered", "vm", "in_call", "deinit", "outcome",
                    "store_finished", "store_error", "store_stopped"}

(***************************************************************************)
(* Until the worker has published a terminal state hart 0 takes nothing of  *)
(* the run away: it reports the run as active, keeps its ticket, and leaves *)
(* the binding bridge open.  This is what the comments in                   *)
(* micropython_runtime_poll and _start ask of the unlocked handoff.         *)
(***************************************************************************)
VMOwnsRun ==
  InRun => /\ Active(shared.state)
           /\ control.run_active
           /\ g_ticket # 0 /\ g_ticket = executor.request_ticket

(***************************************************************************)
(* Hart 0 works on the one request record and data buffer only while the    *)
(* script is inside the call that filled them, also when the call has given *)
(* up: binding_cancel_and_wait, "Keep its lifetime until core 0 publishes   *)
(* completion".                                                             *)
(***************************************************************************)
RequestOwned ==
  /\ operation.active => call # "none" /\ Pending
                           /\ operation.ticket = control.request_ticket
  /\ executing # 0 => call # "none" /\ Pending
                        /\ executing = control.request_ticket
  /\ call # "none" => hart1 = "in_call"

(***************************************************************************)
(* Whatever a script claimed, and however its run ended, the firmware's own *)
(* users of the external link and of the lights are put back when the       *)
(* bridge closes, and never while the script holds the lease.               *)
(***************************************************************************)
LeasesReturned ==
  /\ lent = owned
  /\ ~control.run_active => owned = {}

(***************************************************************************)
(* Every run is taken over by hart 0 in the end, or the chip is reset: also *)
(* a script that never reaches a VM hook, one that catches every            *)
(* KeyboardInterrupt, and one whose end races with a stop request.          *)
(***************************************************************************)
RunEnds == \A t \in 1 .. MaxTickets : g_ticket = t ~> g_ticket # t

(***************************************************************************)
(* A call of a script is answered, though hart 1 waits without a timeout    *)
(* once it has cancelled (binding_cancel_and_wait).                         *)
(***************************************************************************)
CallAnswered == call # "none" ~> call = "none"

(***************************************************************************)
(* HMPY_PROTOCOL.md, exit reasons: 7=core1 failure.  A run reports it only  *)
(* if hart 1 could not be started.                                          *)
(***************************************************************************)
CoreFailureMeansFailure ==
  shared.exit_reason = "core1_failure" => executor.start_failed
===============================================================================
