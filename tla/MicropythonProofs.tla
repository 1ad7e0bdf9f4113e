--------------------------- MODULE MicropythonProofs ---------------------------
(***************************************************************************)
(* Proofs about MicropythonRuntime for any number of runs, tickets and     *)
(* calls: how the two harts share one script without a lock; and about     *)
(* DisplayStage, the display that the script draws on, for any screen.     *)
(***************************************************************************)
EXTENDS MicropythonRuntime, DisplayStage, FiniteSetTheorems,
        WellFoundedInduction, TLAPS

ExecutorType ==
  executor \in [started : BOOLEAN, start_failed : BOOLEAN, online : BOOLEAN,
                request_ticket : Nat, complete_ticket : Nat,
                job : {"none", "python", "apriltag"}]
ControlType ==
  control \in [run_active : BOOLEAN, request_ticket : Nat, cancel_ticket : Nat,
               complete_ticket : Nat, kind : Kinds \cup {"none"}]
SharedType ==
  shared \in [state : {"stopped", "starting", "running", "stopping",
                       "finished", "error"},
              exit_reason : {"none", "core1_failure", "busy", "requested",
                             "timeout", "exception", "complete"},
              run_id : Nat, stop_requested : BOOLEAN]

TypeOK ==
  /\ ExecutorType /\ ControlType /\ SharedType
  /\ operation \in [active : BOOLEAN, ticket : Nat]
  /\ executing \in Nat /\ g_ticket \in Nat

\* The mailbox holds at most one unfinished job, and hart 1 works on nothing
\* else.
MailboxOK ==
  /\ executor.request_ticket \in
       {executor.complete_ticket, executor.complete_ticket + 1}
  /\ hart1 # "idle" => executor.request_ticket # executor.complete_ticket
  /\ InRun \/ hart1 = "stored" => executor.job = "python"

\* The python job that was submitted has not stored its terminal state.
RunPending ==
  /\ executor.request_ticket # executor.complete_ticket
  /\ executor.job = "python"
  /\ hart1 # "stored"

\* What VMOwnsRun needs from the submission of the job on.
RunKept ==
  RunPending => /\ Active(shared.state)
                /\ control.run_active
                /\ g_ticket = executor.request_ticket

\* A bridge that is open belongs to a run that hart 0 has not taken over.
OpenForRun == control.run_active => g_ticket # 0

\* One call at a time, and it is served in one of two ways.
CallServed ==
  /\ Pending => call # "none"
  /\ ~(operation.active /\ executing # 0)

IInv == /\ TypeOK
        /\ MailboxOK
        /\ RunKept
        /\ OpenForRun
        /\ CallServed
        /\ RequestOwned
        /\ LeasesReturned

-----------------------------------------------------------------------------
\* After the boot nothing is requested, running or leased.
LEMMA InitIInv == Init => IInv
<1> SUFFICES ASSUME Init PROVE IInv
  OBVIOUS
<1> USE DEF Init, ExecutorInit, BridgeInit, NoControl, NoOperation
<1>1. TypeOK
  BY DEF TypeOK, ExecutorType, ControlType, SharedType
<1>2. MailboxOK /\ RunKept
  BY DEF MailboxOK, RunKept, RunPending, InRun
<1>3. OpenForRun /\ CallServed /\ RequestOwned /\ LeasesReturned
  BY DEF OpenForRun, CallServed, RequestOwned, LeasesReturned, Pending
<1>4. QED
  BY <1>1, <1>2, <1>3 DEF IInv

(***************************************************************************)
(* While hart 1 is in the run, hart 0 may not take the run over.           *)
(***************************************************************************)
LEMMA RunIsKept ==
  ASSUME IInv
  PROVE  /\ InRun => RunPending
         /\ VMOwnsRun
         /\ RunPending => ~MayReap /\ ~MayStart
         /\ call # "none" => RunPending
<1>1. InRun => RunPending
  BY DEF IInv, MailboxOK, RunPending, InRun
<1>2. RunPending => g_ticket # 0 /\ executor.complete_ticket < g_ticket
  BY DEF IInv, TypeOK, ExecutorType, MailboxOK, RunKept, RunPending
<1>3. VMOwnsRun
  BY <1>1, <1>2 DEF IInv, RunKept, VMOwnsRun
<1>4. RunPending => ~MayReap /\ ~MayStart
  BY <1>2 DEF IInv, TypeOK, ExecutorType, RunKept, MayReap, MayStart, core1_executor_complete
<1>5. call # "none" => RunPending
  BY <1>1 DEF IInv, RequestOwned, InRun
<1>6. QED
  BY <1>1, <1>3, <1>4, <1>5

-----------------------------------------------------------------------------
(* Hart 0                                                                  *)

(***************************************************************************)
(* Taking a finished run over finds no call under way, closes the bridge   *)
(* and gives every lease back.                                             *)
(***************************************************************************)
LEMMA ReapKeeps ==
  ASSUME IInv, MayReap, Reap, UNCHANGED <<executor, hart1>>
  PROVE  IInv'
<1>1. ~RunPending /\ call = "none" /\ executing = 0 /\ ~operation.active
  BY RunIsKept DEF IInv, RequestOwned
<1>2. /\ control' = [control EXCEPT
           !.run_active = FALSE,
           !.cancel_ticket = IF Pending THEN control.request_ticket ELSE @,
           !.complete_ticket = control.request_ticket]
      /\ operation' = NoOperation /\ owned' = {} /\ lent' = lent \ owned
      /\ executing' = 0 /\ call' = "none" /\ g_ticket' = 0
      /\ UNCHANGED <<executor, hart1>>
  BY <1>1 DEF Reap, Cleanup
<1>3. TypeOK'
  <2>1. ControlType'
    BY <1>2 DEF IInv, TypeOK, ControlType
  <2>2. SharedType'
    BY DEF IInv, TypeOK, SharedType, Reap, SetShared
  <2>3. QED
    BY <1>2, <2>1, <2>2 DEF IInv, TypeOK, ExecutorType, NoOperation
<1>4. MailboxOK' /\ RunKept'
  BY <1>1, <1>2 DEF IInv, MailboxOK, RunKept, RunPending, InRun
<1>5. ~control'.run_active /\ ~Pending'
  BY <1>2 DEF IInv, TypeOK, ControlType, Pending
<1>6. OpenForRun' /\ CallServed' /\ RequestOwned' /\ LeasesReturned'
  BY <1>2, <1>5 DEF IInv, OpenForRun, CallServed, RequestOwned, LeasesReturned,
                    NoOperation
<1>7. QED
  BY <1>3, <1>4, <1>6 DEF IInv

(***************************************************************************)
(* The steps of hart 0 that change no more than a field of the record the  *)
(* harts share, and leave an active run active.                            *)
(***************************************************************************)
LEMMA SharedKeeps ==
  ASSUME IInv, TypeOK', Active(shared.state) => Active(shared'.state),
         UNCHANGED <<executor, bridge_vars, g_ticket, hart1>>
  PROVE  IInv'
<1>1. MailboxOK'
  BY DEF IInv, MailboxOK, InRun
<1>2. RunKept' /\ OpenForRun'
  BY DEF IInv, RunKept, RunPending, OpenForRun, bridge_vars
<1>3. CallServed' /\ RequestOwned' /\ LeasesReturned'
  BY DEF IInv, CallServed, RequestOwned, LeasesReturned, Pending, bridge_vars
<1>4. QED
  BY <1>1, <1>2, <1>3 DEF IInv

(***************************************************************************)
(* Starting, booting and failing hart 1 leaves the mailbox as it is, and   *)
(* happens while no run is pending.                                        *)
(***************************************************************************)
LEMMA BootKeeps ==
  ASSUME IInv, TypeOK', StartBoot \/ StartFailed \/ Boot
  PROVE  IInv'
<1>1. /\ executor'.request_ticket = executor.request_ticket
      /\ executor'.complete_ticket = executor.complete_ticket
      /\ executor'.job = executor.job
      /\ UNCHANGED <<bridge_vars, g_ticket, hart1>>
  BY DEF IInv, TypeOK, ExecutorType, StartBoot, StartFailed, Boot, StartCore1, Core1StartTimeout,
         Core1Online, executor_vars, runtime_vars
<1>2. MailboxOK'
  BY <1>1 DEF IInv, MailboxOK, InRun
<1>3. RunPending' <=> RunPending
  BY <1>1 DEF RunPending
<1>4. RunPending => UNCHANGED shared
  BY RunIsKept DEF StartBoot, StartFailed, Boot, runtime_vars
<1>5. RunKept' /\ OpenForRun'
  BY <1>1, <1>3, <1>4 DEF IInv, RunKept, OpenForRun, bridge_vars
<1>6. CallServed' /\ RequestOwned' /\ LeasesReturned'
  BY <1>1 DEF IInv, CallServed, RequestOwned, LeasesReturned, Pending, bridge_vars
<1>7. QED
  BY <1>2, <1>5, <1>6 DEF IInv

(***************************************************************************)
(* A run begins with the mailbox empty and the bridge closed, so that      *)
(* nothing of the last run is forgotten by the preparation of the bridge.  *)
(***************************************************************************)
LEMMA BeginKeeps ==
  ASSUME IInv, StartBegin
  PROVE  IInv'
<1>1. ~RunPending /\ call = "none" /\ executing = 0
  BY RunIsKept DEF StartBegin, IInv, RequestOwned
<1>2. hart1 = "idle" /\ executor.request_ticket = executor.complete_ticket
  BY DEF StartBegin, core1_executor_idle, IInv, MailboxOK
<1>3. owned = {} /\ lent = {}
  BY DEF StartBegin, MayStart, IInv, OpenForRun, LeasesReturned
<1>4. /\ executor' = [executor EXCEPT !.job = "python",
                                      !.request_ticket = executor.request_ticket + 1]
      /\ g_ticket' = executor.request_ticket + 1
      /\ control' = [NoControl EXCEPT !.run_active = TRUE]
      /\ operation' = NoOperation /\ owned' = {} /\ lent' = {}
      /\ executing' = 0 /\ call' = "none" /\ hart1' = "idle"
      /\ shared' = [state |-> "starting", exit_reason |-> "none",
                    run_id |-> shared.run_id + 1, stop_requested |-> FALSE]
  BY <1>1, <1>2, <1>3 DEF StartBegin, Prepare, Submit, NextTicket
<1>5. TypeOK'
  <2>1. ExecutorType /\ executor.request_ticket + 1 \in Nat
        /\ shared.run_id + 1 \in Nat
    BY DEF IInv, TypeOK, ExecutorType, SharedType
  <2>2. executor' = [executor EXCEPT !.job = "python",
                                     !.request_ticket = executor.request_ticket + 1]
    BY <1>4
  <2>3. ExecutorType'
    BY <2>1, <2>2 DEF ExecutorType
  <2>4. control' = [NoControl EXCEPT !.run_active = TRUE]
    BY <1>4
  <2>5. ControlType'
    BY <2>4 DEF ControlType, NoControl
  <2>6. SharedType'
    BY <1>4, <2>1 DEF SharedType
  <2>7. QED
    BY <1>4, <2>1, <2>3, <2>5, <2>6 DEF TypeOK, NoOperation
<1>6. /\ executor'.request_ticket = executor.request_ticket + 1
      /\ executor'.complete_ticket = executor.complete_ticket
      /\ executor'.job = "python"
      /\ executor.request_ticket \in Nat
  BY <1>4 DEF IInv, TypeOK, ExecutorType
<1>7. MailboxOK'
  BY <1>2, <1>4, <1>6 DEF MailboxOK, InRun
<1>8. control'.run_active /\ ~Pending' /\ Active(shared'.state)
  BY <1>4 DEF NoControl, Pending, Active
<1>9. RunKept' /\ OpenForRun'
  BY <1>4, <1>6, <1>8 DEF RunKept, OpenForRun
<1>10. CallServed' /\ RequestOwned' /\ LeasesReturned'
  BY <1>4, <1>8 DEF CallServed, RequestOwned, LeasesReturned, NoOperation
<1>11. QED
  BY <1>5, <1>7, <1>9, <1>10 DEF IInv

(***************************************************************************)
(* The other client of the executor finds it empty and touches nothing of  *)
(* a run.                                                                  *)
(***************************************************************************)
LEMMA OtherKeeps ==
  ASSUME IInv, OtherSubmit
  PROVE  IInv'
<1>1. hart1 = "idle" /\ executor.request_ticket = executor.complete_ticket
  BY DEF OtherSubmit, core1_executor_idle, IInv, MailboxOK
<1>2. /\ executor'.request_ticket = executor.request_ticket + 1
      /\ executor'.complete_ticket = executor.complete_ticket
      /\ executor'.job = "apriltag"
      /\ UNCHANGED <<bridge_vars, shared, g_ticket, hart1>>
  BY DEF OtherSubmit, Submit, NextTicket, IInv, TypeOK, ExecutorType, runtime_vars
<1>3. TypeOK'
  <2>1. ExecutorType /\ executor.request_ticket + 1 \in Nat
    BY DEF IInv, TypeOK, ExecutorType
  <2>2. executor' = [executor EXCEPT !.job = "apriltag",
                                     !.request_ticket = executor.request_ticket + 1]
    BY DEF OtherSubmit, Submit, NextTicket
  <2>3. ExecutorType'
    BY <2>1, <2>2 DEF ExecutorType
  <2>4. QED
    BY <1>2, <2>3 DEF IInv, TypeOK, ControlType, SharedType, bridge_vars
<1>4. MailboxOK' /\ RunKept'
  BY <1>1, <1>2 DEF IInv, TypeOK, ExecutorType, MailboxOK, InRun, RunKept, RunPending
<1>5. OpenForRun' /\ CallServed' /\ RequestOwned' /\ LeasesReturned'
  BY <1>2 DEF IInv, OpenForRun, CallServed, RequestOwned, LeasesReturned, Pending,
              bridge_vars
<1>6. QED
  BY <1>3, <1>4, <1>5 DEF IInv

(***************************************************************************)
(* A tick of the bridge serves the one call there is, and claims for the   *)
(* script exactly what the firmware's own users lend.                      *)
(***************************************************************************)
LEMMA TickKeeps ==
  ASSUME IInv, Tick
  PROVE  IInv'
<1>1. /\ UNCHANGED <<executor, shared, g_ticket, hart1, call>>
      /\ BridgeTick
  BY DEF Tick, BridgeTick, TickProgress, TickCancelled, TickStart, TickExecute,
         TickAnswer, executor_vars, runtime_vars
<1>2. /\ control.request_ticket \in Nat /\ operation.ticket \in Nat
      /\ ControlType /\ operation \in [active : BOOLEAN, ticket : Nat]
      /\ executing \in Nat
  BY DEF IInv, TypeOK, ControlType
<1>3. \/ control' = control
      \/ \E t \in Nat : control' = [control EXCEPT !.complete_ticket = t]
  BY <1>1, <1>2 DEF BridgeTick, TickProgress, TickCancelled, TickStart,
     TickExecute, TickAnswer, Complete
<1>4. /\ ControlType'
      /\ control'.run_active = control.run_active
      /\ control'.request_ticket = control.request_ticket
  BY <1>2, <1>3 DEF ControlType
<1>5. /\ operation' \in [active : BOOLEAN, ticket : Nat]
      /\ executing' \in Nat
  <2>1. /\ \/ operation' = operation
           \/ operation' = NoOperation
           \/ operation' = [active |-> TRUE, ticket |-> control.request_ticket]
        /\ executing' \in {executing, 0, control.request_ticket}
    BY <1>1 DEF BridgeTick, TickProgress, TickCancelled, TickStart, TickExecute,
       TickAnswer
  <2>2. executing' \in Nat
    BY <1>2, <2>1
  <2>3. NoOperation \in [active : BOOLEAN, ticket : Nat]
    BY DEF NoOperation
  <2>4. \A t \in Nat : [active |-> TRUE, ticket |-> t] \in [active : BOOLEAN, ticket : Nat]
    OBVIOUS
  <2>5. QED
    BY <1>2, <2>1, <2>2, <2>3, <2>4
<1>6. TypeOK'
  BY <1>1, <1>4, <1>5 DEF IInv, TypeOK, ExecutorType, SharedType
<1>7. MailboxOK' /\ RunKept' /\ OpenForRun'
  BY <1>1, <1>4 DEF IInv, MailboxOK, InRun, RunKept, RunPending, OpenForRun
<1>8. LeasesReturned'
  <2>1. ASSUME NEW r, Claim(r)
        PROVE  lent' = owned'
    BY <2>1 DEF Claim, IInv, LeasesReturned
  <2>2. lent' = owned'
    BY <1>1, <2>1 DEF BridgeTick, TickProgress, TickCancelled, TickStart,
       TickExecute, TickAnswer, IInv, LeasesReturned
  <2>3. control.run_active \/ UNCHANGED <<owned, lent>>
    BY <1>1 DEF BridgeTick, TickProgress, TickCancelled, TickStart, TickExecute,
       TickAnswer, Accepts, TickReady
  <2>4. QED
    BY <1>4, <2>2, <2>3 DEF IInv, LeasesReturned
<1>9. CallServed' /\ RequestOwned'
  <2> USE DEF IInv, CallServed, RequestOwned, Pending
  <2>1. CASE TickProgress
    BY <1>1, <1>2, <2>1 DEF TickProgress, TickReady, Complete, NoOperation, ControlType
  <2>2. CASE TickCancelled
    BY <1>1, <1>2, <2>2 DEF TickCancelled, TickReady, Complete, ControlType
  <2>3. CASE TickStart
    BY <1>1, <1>2, <2>3 DEF TickStart, Accepts, TickReady, Complete, ControlType
  <2>4. CASE TickExecute
    BY <1>1, <2>4 DEF TickExecute, Accepts, TickReady
  <2>5. CASE TickAnswer
    BY <1>1, <1>2, <2>5 DEF TickAnswer, Complete, ControlType
  <2>6. QED
    BY <1>1, <2>1, <2>2, <2>3, <2>4, <2>5 DEF BridgeTick
<1>10. QED
  BY <1>6, <1>7, <1>8, <1>9 DEF IInv

-----------------------------------------------------------------------------
(* Hart 1                                                                  *)

(***************************************************************************)
(* Taking a job and finishing it.  A finished run is hart 0's to take      *)
(* over: nothing of it is pending any more.                                *)
(***************************************************************************)
LEMMA JobKeeps ==
  ASSUME IInv, TakeJob \/ EndJob
  PROVE  IInv'
<1>1. /\ UNCHANGED <<bridge_vars, shared, g_ticket>>
      /\ call = "none"
  BY DEF TakeJob, EndJob, Worker, IInv, RequestOwned
<1>2. /\ executor'.request_ticket = executor.request_ticket
      /\ executor'.job = executor.job /\ ExecutorType'
      /\ executor'.complete_ticket \in {executor.complete_ticket,
                                        executor.request_ticket}
      /\ TakeJob => executor' = executor
      /\ EndJob => executor'.complete_ticket = executor.request_ticket
  BY DEF TakeJob, EndJob, CompleteJob, IInv, TypeOK, ExecutorType, executor_vars
<1>3. TypeOK'
  BY <1>1, <1>2 DEF IInv, TypeOK, ControlType, SharedType, bridge_vars
<1>4. MailboxOK'
  BY <1>2 DEF IInv, TypeOK, ExecutorType, MailboxOK, InRun, TakeJob, EndJob, Worker,
     HasJob
<1>5. RunPending' => RunPending
  BY <1>2 DEF RunPending, TakeJob, EndJob, Worker, HasJob
<1>6. RunKept' /\ OpenForRun'
  BY <1>1, <1>2, <1>5 DEF IInv, RunKept, OpenForRun, bridge_vars
<1>7. CallServed' /\ RequestOwned' /\ LeasesReturned'
  BY <1>1 DEF IInv, CallServed, RequestOwned, LeasesReturned, Pending, bridge_vars
<1>8. QED
  BY <1>3, <1>4, <1>6, <1>7 DEF IInv

(***************************************************************************)
(* Steps of the worker between taking the job and storing the terminal     *)
(* state, outside a call.                                                  *)
(***************************************************************************)
LEMMA RunStepKeeps ==
  ASSUME IInv, SharedType', InRun, InRun', call = "none",
         Active(shared.state) => Active(shared'.state),
         UNCHANGED <<executor, bridge_vars, g_ticket>>
  PROVE  IInv'
<1>1. TypeOK'
  BY DEF IInv, TypeOK, ExecutorType, ControlType, bridge_vars
<1>2. MailboxOK'
  BY DEF IInv, MailboxOK, InRun
<1>3. RunPending
  BY RunIsKept
<1>4. RunKept' /\ OpenForRun'
  BY <1>3 DEF IInv, RunKept, OpenForRun, bridge_vars
<1>5. CallServed' /\ RequestOwned' /\ LeasesReturned'
  BY DEF IInv, CallServed, RequestOwned, LeasesReturned, Pending, bridge_vars
<1>6. QED
  BY <1>1, <1>2, <1>4, <1>5 DEF IInv

(***************************************************************************)
(* With its terminal state stored, the run is no longer pending.           *)
(***************************************************************************)
LEMMA StoredKeeps ==
  ASSUME IInv, WorkerState
  PROVE  IInv'
<1>1. /\ UNCHANGED <<executor, bridge_vars, g_ticket>>
      /\ InRun /\ hart1' = "stored" /\ call = "none"
  BY DEF WorkerState, Worker, InRun, IInv, RequestOwned, executor_vars
<1>2. TypeOK'
  BY <1>1 DEF IInv, TypeOK, ExecutorType, ControlType, SharedType, WorkerState,
     StoreState, bridge_vars
<1>3. MailboxOK' /\ RunKept'
  BY <1>1 DEF IInv, MailboxOK, InRun, RunKept, RunPending
<1>4. OpenForRun' /\ CallServed' /\ RequestOwned' /\ LeasesReturned'
  BY <1>1 DEF IInv, OpenForRun, CallServed, RequestOwned, LeasesReturned, Pending,
     bridge_vars
<1>5. QED
  BY <1>2, <1>3, <1>4 DEF IInv

(***************************************************************************)
(* A call begins with nothing left of the last one, keeps the request      *)
(* while it waits to be given up, and returns once hart 0 is out of it.    *)
(***************************************************************************)
LEMMA CallKeeps ==
  ASSUME IInv, VMCall \/ VMGiveUp \/ VMReturn
  PROVE  IInv'
<1>1. /\ UNCHANGED <<executor, g_ticket, operation, owned, lent, executing>>
      /\ InRun /\ InRun'
      /\ shared'.state = shared.state
  BY DEF VMCall, VMGiveUp, VMReturn, CallBegin, CallGiveUp, CallReturn, Worker,
     InRun, executor_vars, NotedInterrupt, IInv, TypeOK, SharedType
<1>2. /\ control'.run_active = control.run_active
      /\ control'.complete_ticket = control.complete_ticket
      /\ VMCall => control'.request_ticket = control.request_ticket + 1
      /\ ~VMCall => control'.request_ticket = control.request_ticket
      /\ ControlType'
  <2>0. ControlType
    BY DEF IInv, TypeOK
  <2>1. CASE VMCall
    <3>1. PICK kind \in Kinds :
            control' = [control EXCEPT !.request_ticket = control.request_ticket + 1,
                                       !.cancel_ticket = 0, !.kind = kind]
      BY <2>1 DEF VMCall, CallBegin
    <3>2. control.request_ticket + 1 \in Nat
      BY <2>0 DEF ControlType
    <3>3. QED
      BY <2>0, <2>1, <3>1, <3>2 DEF ControlType
  <2>2. CASE VMGiveUp
    BY <2>0, <2>2 DEF ControlType, VMCall, VMGiveUp, CallGiveUp, Worker
  <2>3. CASE VMReturn
    BY <2>0, <2>3 DEF ControlType, VMCall, VMReturn, CallReturn, Worker
  <2>4. QED
    BY <2>1, <2>2, <2>3
<1>3. SharedType'
  BY DEF IInv, TypeOK, SharedType, VMCall, VMGiveUp, VMReturn, NotedInterrupt
<1>4. TypeOK'
  BY <1>1, <1>2, <1>3 DEF IInv, TypeOK, ExecutorType
<1>5. MailboxOK' /\ RunKept' /\ OpenForRun' /\ LeasesReturned'
  BY <1>1, <1>2, RunIsKept DEF IInv, MailboxOK, InRun, RunKept, OpenForRun,
     LeasesReturned
<1>6. CallServed' /\ RequestOwned'
  <2> USE DEF IInv, CallServed, RequestOwned, Pending
  <2>1. CASE VMCall
    BY <1>1, <2>1 DEF VMCall, CallBegin, Worker
  <2>2. CASE VMGiveUp
    BY <1>1, <1>2, <2>2 DEF VMCall, VMGiveUp, CallGiveUp, Worker
  <2>3. CASE VMReturn
    BY <1>1, <2>3 DEF VMReturn, CallReturn, Worker
  <2>4. QED
    BY <2>1, <2>2, <2>3
<1>7. QED
  BY <1>4, <1>5, <1>6 DEF IInv

-----------------------------------------------------------------------------
\* Every step of hart 0, of hart 1 and of the requests keeps the invariant.
LEMMA NextIInv == IInv /\ [Next]_vars => IInv'
<1> SUFFICES ASSUME IInv, [Next]_vars PROVE IInv'
  OBVIOUS
<1>1. CASE PollReap
  BY <1>1, ReapKeeps DEF PollReap, executor_vars
<1>2. CASE PollWatchdog \/ StartRefused \/ StartBooted \/ StopEntry \/ Clock
           \/ UNCHANGED vars
  <2>1. UNCHANGED <<executor, bridge_vars, shared, g_ticket, hart1>>
    BY <1>2 DEF PollWatchdog, StartRefused, StartBooted, StopEntry, Clock,
       DeadlinePasses, StopGracePasses, vars, executor_vars, runtime_vars
  <2>2. TypeOK'
    BY <2>1 DEF IInv, TypeOK, ExecutorType, ControlType, SharedType, bridge_vars
  <2>3. QED
    BY <2>1, <2>2, SharedKeeps
<1>3. CASE StartEntry
  <2>1. CASE MayReap
    BY <1>3, <2>1, ReapKeeps DEF StartEntry, executor_vars
  <2>2. CASE ~MayReap
    <3>1. UNCHANGED <<executor, bridge_vars, shared, g_ticket, hart1>>
      BY <1>3, <2>2 DEF StartEntry, executor_vars
    <3>2. TypeOK'
      BY <3>1 DEF IInv, TypeOK, ExecutorType, ControlType, SharedType, bridge_vars
    <3>3. QED
      BY <3>1, <3>2, SharedKeeps
  <2>3. QED
    BY <2>1, <2>2
<1>4. CASE StoreBusy \/ StopFlag \/ StopState
  <2>1. /\ UNCHANGED <<executor, bridge_vars, g_ticket, hart1>>
        /\ \/ shared' = [shared EXCEPT !.exit_reason = "busy"]
           \/ shared' = [shared EXCEPT !.stop_requested = TRUE]
           \/ shared' = [shared EXCEPT !.state = "stopping"]
    BY <1>4 DEF StoreBusy, StopFlag, StopState, executor_vars
  <2>2. SharedType' /\ (Active(shared.state) => Active(shared'.state))
    BY <2>1 DEF IInv, TypeOK, SharedType, Active
  <2>3. TypeOK'
    BY <2>1, <2>2 DEF IInv, TypeOK, ExecutorType, ControlType, bridge_vars
  <2>4. QED
    BY <2>1, <2>2, <2>3, SharedKeeps
<1>5. CASE StartBoot \/ StartFailed \/ Boot
  <2>1. ExecutorType'
    <3>1. ExecutorType
      BY DEF IInv, TypeOK
    <3>2. \/ executor' = executor
          \/ executor' = [executor EXCEPT !.start_failed = TRUE]
          \/ executor' = [executor EXCEPT !.online = TRUE]
          \/ \E b \in BOOLEAN :
               executor' = [executor EXCEPT !.started = TRUE, !.start_failed = ~b]
      BY <1>5 DEF StartBoot, StartFailed, Boot, StartCore1, Core1StartTimeout,
         Core1Online, executor_vars
    <3>3. QED
      BY <3>1, <3>2 DEF ExecutorType
  <2>2. UNCHANGED <<bridge_vars, g_ticket>>
    BY <1>5 DEF StartBoot, StartFailed, Boot, runtime_vars
  <2>3. SharedType'
    BY <1>5 DEF IInv, TypeOK, SharedType, StartBoot, StartFailed, Boot, SetShared,
       runtime_vars
  <2>4. TypeOK'
    BY <2>1, <2>2, <2>3 DEF IInv, TypeOK, ControlType, bridge_vars
  <2>5. QED
    BY <1>5, <2>4, BootKeeps
<1>6. CASE StartBegin \/ OtherSubmit
  BY <1>6, BeginKeeps, OtherKeeps
<1>7. CASE Tick
  BY <1>7, TickKeeps
<1>8. CASE TakeJob \/ EndJob
  BY <1>8, JobKeeps
<1>9. CASE WorkerRunning \/ VMInterrupt \/ VMEnds \/ WorkerExit \/ WorkerOutcome
  <2>1. /\ UNCHANGED <<executor, bridge_vars, g_ticket>>
        /\ InRun /\ InRun' /\ call = "none"
    BY <1>9 DEF WorkerRunning, VMInterrupt, VMEnds, WorkerExit, WorkerOutcome,
       Worker, InRun, executor_vars, IInv, RequestOwned
  <2>2. SharedType
    BY DEF IInv, TypeOK
  <2>3. \/ shared' = shared
        \/ shared' = [shared EXCEPT !.state = "running"]
        \/ \E e \in {"requested", "timeout", "exception", "complete"} :
             shared' = [shared EXCEPT !.exit_reason = e]
    BY <1>9, <2>2 DEF WorkerRunning, VMInterrupt, NotedInterrupt, VMEnds, WorkerExit,
       WorkerOutcome, SharedType
  <2>4. SharedType' /\ (Active(shared.state) => Active(shared'.state))
    BY <2>2, <2>3 DEF SharedType, Active
  <2>5. QED
    BY <2>1, <2>4, RunStepKeeps
<1>10. CASE WorkerState
  BY <1>10, StoredKeeps
<1>11. CASE VMCall \/ VMGiveUp \/ VMReturn
  BY <1>11, CallKeeps
<1>12. CASE Reset
  <2>1. TypeOK'
    BY <1>12 DEF Reset, TypeOK, ExecutorType, ControlType, SharedType, NoControl,
       NoOperation
  <2>2. MailboxOK' /\ RunKept'
    BY <1>12 DEF Reset, MailboxOK, RunKept, RunPending, InRun
  <2>3. OpenForRun' /\ CallServed' /\ RequestOwned' /\ LeasesReturned'
    BY <1>12 DEF Reset, OpenForRun, CallServed, RequestOwned, LeasesReturned, Pending,
       NoControl, NoOperation
  <2>4. QED
    BY <2>1, <2>2, <2>3 DEF IInv
<1>13. QED
  BY <1>1, <1>2, <1>3, <1>4, <1>5, <1>6, <1>7, <1>8, <1>9, <1>10, <1>11, <1>12
     DEF Next, Hart0Step, micropython_runtime_poll, Requests, WorkerStep, Script

\* The inductive invariant holds in every reachable state.
LEMMA IInvHolds == Spec => []IInv
<1>1. QED
  BY InitIInv, NextIInv, PTL DEF Spec

-----------------------------------------------------------------------------
(***************************************************************************)
(* The records of the two harts keep their types (micropython_shared_t,    *)
(* micropython_binding_control_t, core1_executor_control_t).               *)
(***************************************************************************)
THEOREM TypeCorrect == Spec => []TypeOK
<1>1. IInv => TypeOK
  BY DEF IInv
<1>2. QED
  BY <1>1, IInvHolds, PTL

(***************************************************************************)
(* From the submission of the job to its terminal state hart 0 neither     *)
(* reaps the run nor starts another one (micropython_runtime_poll and      *)
(* _start).                                                                *)
(***************************************************************************)
THEOREM VMOwnsRunHolds == Spec => []VMOwnsRun
<1>1. IInv => VMOwnsRun
  BY RunIsKept
<1>2. QED
  BY <1>1, IInvHolds, PTL

(***************************************************************************)
(* Hart 0 touches the one request record only while the script is inside   *)
(* the call that filled it (binding_cancel_and_wait).                      *)
(***************************************************************************)
THEOREM RequestOwnedHolds == Spec => []RequestOwned
<1>1. IInv => RequestOwned
  BY DEF IInv
<1>2. QED
  BY <1>1, IInvHolds, PTL

(***************************************************************************)
(* What the scripts claimed goes back to the firmware's own users whenever *)
(* the bridge closes (micropython_capability_bridge_cleanup).              *)
(***************************************************************************)
THEOREM LeasesReturnedHolds == Spec => []LeasesReturned
<1>1. IInv => LeasesReturned
  BY DEF IInv
<1>2. QED
  BY <1>1, IInvHolds, PTL

-----------------------------------------------------------------------------
(***************************************************************************)
(* The display the script draws on.  First folds: what FoldSet computes    *)
(* over the subsets of a finite set is found by well-founded induction on  *)
(* them, with a set of good subsets for the predicate.                     *)
(***************************************************************************)
\* Induction over the subsets of a finite set, with a set for the predicate.
LEMMA SubsetInduction ==
  ASSUME NEW S, IsFiniteSet(S), NEW Good,
         \A T \in SUBSET S : (\A U \in SUBSET T : U # T => U \in Good) => T \in Good
  PROVE  \A T \in SUBSET S : T \in Good
<1> DEFINE Bad == {T \in SUBSET S : T \notin Good}
<1> SUFFICES ASSUME Bad # {}
             PROVE  FALSE
  OBVIOUS
<1>1. IsWellFoundedOn(StrictSubsetOrdering(S), SUBSET S)
  <2>1. FiniteSubsetsOf(S) = SUBSET S
    BY FS_FiniteSubsetsOfFinite
  <2>2. IsWellFoundedOn(StrictSubsetOrdering(S), FiniteSubsetsOf(S))
    BY FS_StrictSubsetOrderingWellFounded
  <2> QED BY <2>1, <2>2
<1>2. PICK T \in Bad : \A U \in Bad : <<U, T>> \notin StrictSubsetOrdering(S)
  <2>1. Bad \subseteq SUBSET S
    OBVIOUS
  <2> HIDE DEF Bad
  <2> QED BY <1>1, <2>1, WFMin
<1>3. \A U \in SUBSET T : U # T => U \in Good
  <2> SUFFICES ASSUME NEW U \in SUBSET T, U # T, U \notin Good
               PROVE  FALSE
    OBVIOUS
  <2>1. U \in Bad
    OBVIOUS
  <2>2. <<U, T>> \in StrictSubsetOrdering(S)
    BY DEF StrictSubsetOrdering
  <2> QED BY <1>2, <2>1, <2>2
<1> QED BY <1>3

\* A function that folds F over the subsets of A, in the order that ch picks.
Solves(f, A, D, base, F, ch) ==
  /\ f \in [SUBSET A -> D]
  /\ \A T \in SUBSET A :
       f[T] = IF T = {} THEN base ELSE F[<<ch[T], f[T \ {ch[T]}]>>]

\* Two such functions agree where both are defined.
LEMMA FoldUnique ==
  ASSUME NEW A, IsFiniteSet(A), NEW B \in SUBSET A, NEW D, NEW base, NEW F, NEW ch,
         \A T \in SUBSET A : T # {} => ch[T] \in T,
         NEW f, NEW g, Solves(f, A, D, base, F, ch), Solves(g, B, D, base, F, ch)
  PROVE  \A T \in SUBSET B : f[T] = g[T]
<1> DEFINE Same == {T \in SUBSET B : f[T] = g[T]}
<1>1. ASSUME NEW T \in SUBSET B, \A U \in SUBSET T : U # T => U \in Same
      PROVE  T \in Same
  <2>1. CASE T = {}
    BY <2>1 DEF Solves
  <2>2. CASE T # {}
    <3>1. ch[T] \in T /\ T \ {ch[T]} \in SUBSET T /\ T \ {ch[T]} # T
      BY <2>2
    <3>2. f[T \ {ch[T]}] = g[T \ {ch[T]}]
      BY <1>1, <3>1
    <3>3. T \in SUBSET A
      OBVIOUS
    <3>4. f[T] = F[<<ch[T], f[T \ {ch[T]}]>>]
      BY <2>2, <3>3 DEF Solves
    <3>5. g[T] = F[<<ch[T], g[T \ {ch[T]}]>>]
      BY <2>2 DEF Solves
    <3> QED BY <3>2, <3>4, <3>5
  <2> QED BY <2>1, <2>2
<1>2. IsFiniteSet(B)
  BY FS_Subset
<1> HIDE DEF Same
<1>3. \A T \in SUBSET B : T \in Same
  BY <1>1, <1>2, SubsetInduction
<1> QED BY <1>3 DEF Same

\* There is such a function: the equation of a fold has a solution.
LEMMA FoldExists ==
  ASSUME NEW S, IsFiniteSet(S), NEW D, NEW base \in D,
         NEW F \in [S \X D -> D],
         NEW ch \in [SUBSET S -> S \cup {{}}],
         \A T \in SUBSET S : T # {} => ch[T] \in T
  PROVE  \E f : Solves(f, S, D, base, F, ch)
<1> DEFINE Good == {A \in SUBSET S : \E f : Solves(f, A, D, base, F, ch)}
<1>2. ASSUME NEW A \in SUBSET S, \A B \in SUBSET A : B # A => B \in Good
      PROVE  A \in Good
  <2>1. CASE A = {}
    <3> DEFINE f == [T \in SUBSET A |-> base]
    <3>1. Solves(f, A, D, base, F, ch) /\ f \in [SUBSET A -> D]
      BY <2>1 DEF Solves
    <3> HIDE DEF f
    <3> QED BY <3>1
  <2>2. CASE A # {}
    <3> DEFINE g(B) == CHOOSE f : Solves(f, B, D, base, F, ch)
               val(T) == IF T = {} THEN base
                         ELSE F[<<ch[T], g(T \ {ch[T]})[T \ {ch[T]}]>>]
               f == [T \in SUBSET A |-> val(T)]
    <3>1. ASSUME NEW B \in SUBSET A, B # A
          PROVE  Solves(g(B), B, D, base, F, ch)
      BY <1>2, <3>1
    <3> HIDE DEF g
    <3>2. ASSUME NEW T \in SUBSET A, T # {}
          PROVE  /\ ch[T] \in T /\ T \ {ch[T]} \in SUBSET A /\ T \ {ch[T]} # A
                 /\ T \ {ch[T]} \in SUBSET (T \ {ch[T]})
      BY <3>2
    <3>3. ASSUME NEW T \in SUBSET A
          PROVE  val(T) \in D
      <4>1. CASE T # {}
        <5> DEFINE C == T \ {ch[T]}
        <5>1. ch[T] \in T /\ C \in SUBSET A /\ C # A /\ C \in SUBSET C
          BY <3>2, <4>1
        <5>2. Solves(g(C), C, D, base, F, ch)
          BY <3>1, <5>1
        <5>3. g(C)[C] \in D
          BY <5>1, <5>2 DEF Solves
        <5> QED BY <4>1, <5>1, <5>3
      <4> QED BY <4>1
    <3>4. f \in [SUBSET A -> D]
      <4> HIDE DEF val
      <4> QED BY <3>3
    \* A smaller set's solution agrees with the value of each of its subsets.
    <3>5. ASSUME NEW B \in SUBSET A, B # A
          PROVE  g(B)[B] = val(B)
      <4>1. Solves(g(B), B, D, base, F, ch)
        BY <3>1, <3>5
      <4>2. CASE B = {}
        BY <4>1, <4>2 DEF Solves
      <4>3. CASE B # {}
        <5> DEFINE C == B \ {ch[B]}
        <5>1. ch[B] \in B /\ C \in SUBSET B /\ C \in SUBSET A /\ C # A
          BY <3>2, <4>3
        <5>2. Solves(g(C), C, D, base, F, ch)
          BY <3>1, <5>1
        <5>3. g(B)[C] = g(C)[C]
          <6>1. IsFiniteSet(B) /\ C \in SUBSET C
            BY FS_Subset
          <6>2. \A T \in SUBSET B : T # {} => ch[T] \in T
            OBVIOUS
          <6>3. \A T \in SUBSET C : g(B)[T] = g(C)[T]
            <7> DEFINE gB == g(B)
                       gC == g(C)
            <7>1. Solves(gB, B, D, base, F, ch) /\ Solves(gC, C, D, base, F, ch)
              BY <4>1, <5>2
            <7> HIDE DEF gB, gC
            <7>2. C \in SUBSET B
              BY <5>1
            <7>3. \A T \in SUBSET C : gB[T] = gC[T]
              <8> HIDE DEF C
              <8> QED BY <6>1, <6>2, <7>1, <7>2, FoldUnique
            <7> QED BY <7>3 DEF gB, gC
          <6> QED BY <6>1, <6>3
        <5>4. g(B)[B] = F[<<ch[B], g(B)[C]>>]
          BY <4>1, <4>3 DEF Solves
        <5> QED BY <4>3, <5>3, <5>4
      <4> QED BY <4>2, <4>3
    <3>6. ASSUME NEW T \in SUBSET A
          PROVE  f[T] = IF T = {} THEN base ELSE F[<<ch[T], f[T \ {ch[T]}]>>]
      <4>1. CASE T # {}
        <5> DEFINE C == T \ {ch[T]}
        <5>1. C \in SUBSET A /\ C # A
          BY <3>2, <4>1
        <5>2. f[C] = val(C) /\ f[T] = val(T)
          BY <5>1
        <5>3. g(C)[C] = val(C)
          BY <3>5, <5>1
        <5> QED BY <4>1, <5>2, <5>3
      <4> QED BY <4>1
    <3> HIDE DEF f
    <3>7. Solves(f, A, D, base, F, ch)
      BY <3>4, <3>6 DEF Solves
    <3> QED BY <3>7
  <2> QED BY <2>1, <2>2
<1>3. S \in Good
  <2> HIDE DEF Good
  <2>1. \A A \in SUBSET S : A \in Good
    BY <1>2, SubsetInduction
  <2> QED BY <2>1
<1> QED BY <1>3
\* A rectangle has cells, all on the screen.
LEMMA RectsHaveCells ==
  ASSUME NEW x \in Rects
  PROVE  x # {} /\ x \subseteq Cells
<1>1. Rects \subseteq (SUBSET Cells) \ {{}}
  BY DisplayAssumption
<1> QED BY <1>1

\* A list of rectangles that do not overlap, as dirty_add leaves it.
Separate(D) == D \in SUBSET Rects /\ \A d, e \in D : d # e => d \cap e = {}

\* Every rectangle of A lies in one of D.
Within(A, D) == \A a \in A : \E d \in D : a \subseteq d

\* The finest separate list that holds the rectangles of A: there is one at
\* most, so the order in which rectangles were added does not show.
JoinOf(D, A) ==
  /\ Separate(D) /\ Within(A, D)
  /\ \A E \in SUBSET Rects : Separate(E) /\ Within(A, E) => Within(D, E)

\* The finest separate list is determined by the rectangles it holds.
LEMMA JoinOfUnique ==
  ASSUME NEW A, NEW D, NEW E, JoinOf(D, A), JoinOf(E, A)
  PROVE  D = E
<1>1. ASSUME NEW X, NEW Y, JoinOf(X, A), JoinOf(Y, A)
      PROVE  X \subseteq Y
  <2> SUFFICES ASSUME NEW x \in X
               PROVE  x \in Y
    OBVIOUS
  <2>1. X \in SUBSET Rects /\ Y \in SUBSET Rects /\ Within(X, Y) /\ Within(Y, X)
    BY <1>1 DEF JoinOf, Separate
  <2>2. PICK y \in Y : x \subseteq y
    BY <2>1 DEF Within
  <2>3. PICK z \in X : y \subseteq z
    BY <2>1 DEF Within
  <2>4. x # {}
    BY <2>1, RectsHaveCells
  <2>5. x = z
    BY <1>1, <2>2, <2>3, <2>4 DEF JoinOf, Separate
  <2> QED BY <2>2, <2>3, <2>5
<1> QED BY <1>1

\* The rectangle that is added is a rectangle that overlaps none of the list
\* but those it contains.
LEMMA JoinedIsAround ==
  ASSUME NEW D \in SUBSET Rects, NEW x \in Rects
  PROVE  /\ Joined(D, x) \in Rects /\ x \subseteq Joined(D, x)
         /\ \A d \in D : d \subseteq Joined(D, x) \/ d \cap Joined(D, x) = {}
         /\ \A r \in Rects : x \subseteq r /\ (\A d \in D : d \subseteq r \/ d \cap r = {})
                               => Joined(D, x) \subseteq r
<1>1. x # {} /\ x \subseteq Cells
  BY RectsHaveCells
<1>2. x \subseteq Joined(D, x)
  BY <1>1 DEF Joined, Around
<1>3. Around(D, x) \in SUBSET Rects
  BY DEF Around
<1>4. Joined(D, x) # {}
  BY <1>1, <1>2
<1>5. Joined(D, x) \in Rects
  <2>1. \A around \in SUBSET Rects : 
           {c \in Cells : \A r \in around : c \in r} # {} => {c \in Cells : \A r \in around : c \in r} \in Rects
    BY DisplayAssumption
  <2> QED BY <1>3, <1>4, <2>1 DEF Joined
<1>6. ASSUME NEW d \in D, ~(d \subseteq Joined(D, x))
      PROVE  d \cap Joined(D, x) = {}
  <2>1. PICK c \in d : c \notin Joined(D, x)
    BY <1>6
  <2>2. c \in Cells
    BY RectsHaveCells
  <2>3. PICK r \in Around(D, x) : c \notin r
    BY <2>1, <2>2 DEF Joined
  <2>4. d \cap r = {}
    BY <2>3 DEF Around
  <2>5. Joined(D, x) \subseteq r
    BY DEF Joined
  <2> QED BY <2>4, <2>5
<1>7. ASSUME NEW r \in Rects, x \subseteq r, \A d \in D : d \subseteq r \/ d \cap r = {}
      PROVE  Joined(D, x) \subseteq r
  BY <1>7 DEF Joined, Around
<1> QED BY <1>2, <1>5, <1>6, <1>7

\* Adding a rectangle keeps the list separate and loses nothing.
LEMMA DirtyAddKeeps ==
  ASSUME NEW D, Separate(D), NEW x \in Rects
  PROVE  /\ Separate(DirtyAdd(D, x))
         /\ Within(D, DirtyAdd(D, x))
         /\ Within({x}, DirtyAdd(D, x))
<1> DEFINE h == Joined(D, x)
<1>1. /\ h \in Rects /\ x \subseteq h
      /\ \A d \in D : d \subseteq h \/ d \cap h = {}
  BY JoinedIsAround DEF Separate
<1> HIDE DEF h
<1>2. DirtyAdd(D, x) = {d \in D : d \cap h = {}} \cup {h}
  BY DEF DirtyAdd, h
<1>3. Separate(DirtyAdd(D, x))
  BY <1>1, <1>2 DEF Separate
<1>4. Within(D, DirtyAdd(D, x))
  <2> SUFFICES ASSUME NEW a \in D
               PROVE  \E d \in DirtyAdd(D, x) : a \subseteq d
    BY DEF Within
  <2>1. CASE a \subseteq h
    BY <1>2, <2>1
  <2>2. CASE a \cap h = {}
    <3>1. a \in DirtyAdd(D, x)
      BY <1>2, <2>2
    <3> QED BY <3>1
  <2> QED BY <1>1, <2>1, <2>2
<1>5. Within({x}, DirtyAdd(D, x))
  BY <1>1, <1>2 DEF Within
<1> QED BY <1>3, <1>4, <1>5

\* Within is transitive.
LEMMA WithinTrans ==
  ASSUME NEW A, NEW B, NEW C, Within(A, B), Within(B, C)
  PROVE  Within(A, C)
<1> SUFFICES ASSUME NEW a \in A
             PROVE  \E c \in C : a \subseteq c
  BY DEF Within
<1>1. PICK b \in B : a \subseteq b
  BY DEF Within
<1>2. PICK c \in C : b \subseteq c
  BY DEF Within
<1> QED BY <1>1, <1>2

\* Adding a rectangle to the finest list makes the finest list of one more.
LEMMA DirtyAddJoins ==
  ASSUME NEW D, NEW A, JoinOf(D, A), NEW x \in Rects
  PROVE  JoinOf(DirtyAdd(D, x), A \cup {x})
<1>1. Separate(D) /\ Within(A, D)
  BY DEF JoinOf
<1>2. /\ Separate(DirtyAdd(D, x)) /\ Within(A, DirtyAdd(D, x))
      /\ Within({x}, DirtyAdd(D, x))
  BY <1>1, DirtyAddKeeps, WithinTrans
<1>3. ASSUME NEW E \in SUBSET Rects, Separate(E), Within(A \cup {x}, E)
      PROVE  Within(DirtyAdd(D, x), E)
  <2>1. Within(D, E)
    BY <1>3 DEF JoinOf, Within
  <2>2. PICK e \in E : x \subseteq e
    BY <1>3 DEF Within
  <2>3. \A d \in D : d \subseteq e \/ d \cap e = {}
    <3> SUFFICES ASSUME NEW d \in D
                 PROVE  d \subseteq e \/ d \cap e = {}
      OBVIOUS
    <3>1. PICK f \in E : d \subseteq f
      BY <2>1 DEF Within
    <3> QED BY <1>3, <3>1 DEF Separate
  <2>4. Joined(D, x) \subseteq e
    BY <1>1, <2>2, <2>3, JoinedIsAround DEF Separate
  <2> QED BY <2>1, <2>4 DEF DirtyAdd, Within
<1>4. Within(A \cup {x}, DirtyAdd(D, x))
  BY <1>2 DEF Within
<1> QED BY <1>2, <1>3, <1>4 DEF JoinOf

\* There are finitely many rectangles.
LEMMA RectsFinite ==
  ASSUME NEW S \in SUBSET Rects
  PROVE  IsFiniteSet(S)
<1>1. IsFiniteSet(SUBSET Cells)
  BY DisplayAssumption, FS_SUBSET
<1>2. S \subseteq SUBSET Cells
  BY RectsHaveCells
<1> QED BY <1>1, <1>2, FS_Subset

\* What dirty_add leaves are rectangles.
LEMMA DirtyAddRects ==
  ASSUME NEW D \in SUBSET Rects, NEW x \in Rects
  PROVE  DirtyAdd(D, x) \in SUBSET Rects
BY JoinedIsAround DEF DirtyAdd

LEMMA DirtyAddOrRects ==
  ASSUME NEW D \in SUBSET Rects, NEW x \in Rects
  PROVE  DirtyAddOr(D, x) \in SUBSET Rects
BY DirtyAddRects DEF DirtyAddOr

\* DirtyAll adds the rectangles one by one, in some order.
LEMMA DirtyAllSteps ==
  ASSUME NEW S \in SUBSET Rects, NEW D \in SUBSET Rects
  PROVE  \E f \in [SUBSET S -> SUBSET Rects] :
           /\ f[S] = DirtyAll(D, S)
           /\ f[{}] = D
           /\ \A T \in SUBSET S : T # {} => \E x \in T : f[T] = DirtyAdd(f[T \ {x}], x)
<1> DEFINE F == [p \in S \X SUBSET Rects |-> DirtyAdd(p[2], p[1])]
           ch == [T \in SUBSET S |-> IF T = {} THEN {} ELSE CHOOSE x \in T : TRUE]
           R == SUBSET Rects
<1> USE RectsFinite
<1>1. F \in [S \X R -> R]
  BY DirtyAddRects
<1>2. ch \in [SUBSET S -> S \cup {{}}] /\ \A T \in SUBSET S : T # {} => ch[T] \in T
  OBVIOUS
<1>3. PICK g : Solves(g, S, R, D, F, ch)
  <2> HIDE DEF F, ch, R
  <2>1. D \in R
    BY DEF R
  <2> QED BY <1>1, <1>2, <2>1, FoldExists
<1> DEFINE Eqn(f) == f = [T \in SUBSET S |-> IF T = {} THEN D
                       ELSE DirtyAdd(f[T \ {CHOOSE x \in T : TRUE}], CHOOSE x \in T : TRUE)]
           it == CHOOSE f : Eqn(f)
<1>4. DirtyAll(D, S) = it[S]
  <2> HIDE DEF F, ch, R
  <2> QED BY DEF DirtyAll, FoldSet, MapThenFoldSet
<1>5. Eqn(g)
  <2>1. ASSUME NEW T \in SUBSET S
        PROVE  g[T] = IF T = {} THEN D
                       ELSE DirtyAdd(g[T \ {CHOOSE x \in T : TRUE}], CHOOSE x \in T : TRUE)
    <3>1. CASE T # {}
      <4> DEFINE x == CHOOSE x \in T : TRUE
      <4>1. x \in T /\ ch[T] = x /\ g[T \ {x}] \in R
        BY <3>1, <1>3 DEF Solves
      <4>2. g[T] = F[<<x, g[T \ {x}]>>]
        BY <3>1, <4>1, <1>3 DEF Solves
      <4> HIDE DEF x, ch
      <4>3. F[<<x, g[T \ {x}]>>] = DirtyAdd(g[T \ {x}], x)
        BY <4>1
      <4>4. g[T] = DirtyAdd(g[T \ {x}], x)
        BY <4>2, <4>3
      <4> QED BY <4>4, <3>1 DEF x
    <3> QED BY <1>3, <3>1 DEF Solves
  <2> QED BY <1>3, <2>1 DEF Solves
<1> HIDE DEF Eqn
<1>6. Eqn(it)
  BY <1>5
<1> HIDE DEF it
<1>7. ASSUME NEW T \in SUBSET S PROVE it[T] = IF T = {} THEN D
                       ELSE DirtyAdd(it[T \ {CHOOSE x \in T : TRUE}], CHOOSE x \in T : TRUE)
  BY <1>6 DEF Eqn
<1> DEFINE Good == {T \in SUBSET S : it[T] \in R}
<1>8. ASSUME NEW T \in SUBSET S, \A U \in SUBSET T : U # T => U \in Good
      PROVE  T \in Good
  <2>1. CASE T # {}
    <3> DEFINE x == CHOOSE x \in T : TRUE
    <3>1. x \in T /\ T \ {x} \in SUBSET T /\ T \ {x} # T
      BY <2>1
    <3>2. it[T \ {x}] \in R
      BY <1>8, <3>1
    <3>3. it[T] = DirtyAdd(it[T \ {x}], x)
      BY <1>7, <2>1
    <3>4. x \in Rects
      BY <3>1
    <3> HIDE DEF x
    <3>5. DirtyAdd(it[T \ {x}], x) \in R
      BY <3>2, <3>4, DirtyAddRects
    <3> QED BY <3>3, <3>5
  <2>2. CASE T = {}
    <3>1. it[T] = D
      BY <1>7, <2>2
    <3> QED BY <3>1
  <2> QED BY <2>1, <2>2
<1>9. \A T \in SUBSET S : it[T] \in R
  <2> HIDE DEF Good
  <2>1. \A T \in SUBSET S : T \in Good
    BY <1>8, SubsetInduction
  <2> QED BY <2>1 DEF Good
<1>10. it \in [SUBSET S -> R]
  BY <1>6, <1>9 DEF Eqn
<1>11. \A T \in SUBSET S : T # {} => \E x \in T : it[T] = DirtyAdd(it[T \ {x}], x)
  BY <1>7
<1> QED BY <1>4, <1>7, <1>10, <1>11
\* So does DirtyAllOr.
LEMMA DirtyAllOrSteps ==
  ASSUME NEW S \in SUBSET Rects, NEW D \in SUBSET Rects
  PROVE  \E f \in [SUBSET S -> SUBSET Rects] :
           /\ f[S] = DirtyAllOr(D, S)
           /\ f[{}] = D
           /\ \A T \in SUBSET S : T # {} => \E x \in T : f[T] = DirtyAddOr(f[T \ {x}], x)
<1> DEFINE F == [p \in S \X SUBSET Rects |-> DirtyAddOr(p[2], p[1])]
           ch == [T \in SUBSET S |-> IF T = {} THEN {} ELSE CHOOSE x \in T : TRUE]
           R == SUBSET Rects
<1> USE RectsFinite
<1>1. F \in [S \X R -> R]
  BY DirtyAddOrRects
<1>2. ch \in [SUBSET S -> S \cup {{}}] /\ \A T \in SUBSET S : T # {} => ch[T] \in T
  OBVIOUS
<1>3. PICK g : Solves(g, S, R, D, F, ch)
  <2> HIDE DEF F, ch, R
  <2>1. D \in R
    BY DEF R
  <2> QED BY <1>1, <1>2, <2>1, FoldExists
<1> DEFINE Eqn(f) == f = [T \in SUBSET S |-> IF T = {} THEN D
                       ELSE DirtyAddOr(f[T \ {CHOOSE x \in T : TRUE}], CHOOSE x \in T : TRUE)]
           it == CHOOSE f : Eqn(f)
<1>4. DirtyAllOr(D, S) = it[S]
  <2> HIDE DEF F, ch, R
  <2> QED BY DEF DirtyAllOr, FoldSet, MapThenFoldSet
<1>5. Eqn(g)
  <2>1. ASSUME NEW T \in SUBSET S
        PROVE  g[T] = IF T = {} THEN D
                       ELSE DirtyAddOr(g[T \ {CHOOSE x \in T : TRUE}], CHOOSE x \in T : TRUE)
    <3>1. CASE T # {}
      <4> DEFINE x == CHOOSE x \in T : TRUE
      <4>1. x \in T /\ ch[T] = x /\ g[T \ {x}] \in R
        BY <3>1, <1>3 DEF Solves
      <4>2. g[T] = F[<<x, g[T \ {x}]>>]
        BY <3>1, <4>1, <1>3 DEF Solves
      <4> HIDE DEF x, ch
      <4>3. F[<<x, g[T \ {x}]>>] = DirtyAddOr(g[T \ {x}], x)
        BY <4>1
      <4>4. g[T] = DirtyAddOr(g[T \ {x}], x)
        BY <4>2, <4>3
      <4> QED BY <4>4, <3>1 DEF x
    <3> QED BY <1>3, <3>1 DEF Solves
  <2> QED BY <1>3, <2>1 DEF Solves
<1> HIDE DEF Eqn
<1>6. Eqn(it)
  BY <1>5
<1> HIDE DEF it
<1>7. ASSUME NEW T \in SUBSET S PROVE it[T] = IF T = {} THEN D
                       ELSE DirtyAddOr(it[T \ {CHOOSE x \in T : TRUE}], CHOOSE x \in T : TRUE)
  BY <1>6 DEF Eqn
<1> DEFINE Good == {T \in SUBSET S : it[T] \in R}
<1>8. ASSUME NEW T \in SUBSET S, \A U \in SUBSET T : U # T => U \in Good
      PROVE  T \in Good
  <2>1. CASE T # {}
    <3> DEFINE x == CHOOSE x \in T : TRUE
    <3>1. x \in T /\ T \ {x} \in SUBSET T /\ T \ {x} # T
      BY <2>1
    <3>2. it[T \ {x}] \in R
      BY <1>8, <3>1
    <3>3. it[T] = DirtyAddOr(it[T \ {x}], x)
      BY <1>7, <2>1
    <3>4. x \in Rects
      BY <3>1
    <3> HIDE DEF x
    <3>5. DirtyAddOr(it[T \ {x}], x) \in R
      BY <3>2, <3>4, DirtyAddOrRects
    <3> QED BY <3>3, <3>5
  <2>2. CASE T = {}
    <3>1. it[T] = D
      BY <1>7, <2>2
    <3> QED BY <3>1
  <2> QED BY <2>1, <2>2
<1>9. \A T \in SUBSET S : it[T] \in R
  <2> HIDE DEF Good
  <2>1. \A T \in SUBSET S : T \in Good
    BY <1>8, SubsetInduction
  <2> QED BY <2>1 DEF Good
<1>10. it \in [SUBSET S -> R]
  BY <1>6, <1>9 DEF Eqn
<1>11. \A T \in SUBSET S : T # {} => \E x \in T : it[T] = DirtyAddOr(it[T \ {x}], x)
  BY <1>7
<1> QED BY <1>4, <1>7, <1>10, <1>11

\* DirtyAll from nothing is the finest list, in whatever order it adds.
LEMMA DirtyAllIsJoin ==
  ASSUME NEW S \in SUBSET Rects
  PROVE  JoinOf(DirtyAll({}, S), S)
<1>1. PICK f \in [SUBSET S -> SUBSET Rects] :
           /\ f[S] = DirtyAll({}, S)
           /\ f[{}] = {}
           /\ \A T \in SUBSET S : T # {} => \E x \in T : f[T] = DirtyAdd(f[T \ {x}], x)
  <2>1. {} \in SUBSET Rects
    OBVIOUS
  <2> QED BY <2>1, DirtyAllSteps
<1> DEFINE Good == {T \in SUBSET S : JoinOf(f[T], T)}
<1>2. ASSUME NEW T \in SUBSET S, \A U \in SUBSET T : U # T => U \in Good
      PROVE  T \in Good
  <2>1. CASE T = {}
    BY <1>1, <2>1 DEF JoinOf, Separate, Within
  <2>2. CASE T # {}
    <3>1. PICK x \in T : f[T] = DirtyAdd(f[T \ {x}], x)
      BY <1>1, <2>2
    <3>2. JoinOf(f[T \ {x}], T \ {x})
      BY <1>2
    <3>3. JoinOf(f[T], (T \ {x}) \cup {x})
      BY <3>1, <3>2, DirtyAddJoins
    <3>4. (T \ {x}) \cup {x} = T
      OBVIOUS
    <3> QED BY <3>3, <3>4
  <2> QED BY <2>1, <2>2
<1>3. S \in Good
  <2> HIDE DEF Good
  <2> QED BY <1>2, RectsFinite, SubsetInduction
<1> QED BY <1>1, <1>3

\* Adding many keeps the list separate and loses nothing.
LEMMA DirtyAllKeeps ==
  ASSUME NEW S \in SUBSET Rects, NEW D, Separate(D)
  PROVE  /\ Separate(DirtyAll(D, S))
         /\ Within(D, DirtyAll(D, S))
         /\ Within(S, DirtyAll(D, S))
<1>1. PICK f \in [SUBSET S -> SUBSET Rects] :
           /\ f[S] = DirtyAll(D, S)
           /\ f[{}] = D
           /\ \A T \in SUBSET S : T # {} => \E x \in T : f[T] = DirtyAdd(f[T \ {x}], x)
  BY DirtyAllSteps DEF Separate
<1> DEFINE Good == {T \in SUBSET S : Separate(f[T]) /\ Within(D, f[T]) /\ Within(T, f[T])}
<1>2. ASSUME NEW T \in SUBSET S, \A U \in SUBSET T : U # T => U \in Good
      PROVE  T \in Good
  <2>1. CASE T = {}
    BY <1>1, <2>1 DEF Within
  <2>2. CASE T # {}
    <3>1. PICK x \in T : f[T] = DirtyAdd(f[T \ {x}], x)
      BY <1>1, <2>2
    <3> DEFINE U == T \ {x}
    <3>2. Separate(f[U]) /\ Within(D, f[U]) /\ Within(U, f[U])
      BY <1>2
    <3>3. Separate(f[T]) /\ Within(f[U], f[T]) /\ Within({x}, f[T])
      BY <3>1, <3>2, DirtyAddKeeps
    <3>4. Within(D, f[T]) /\ Within(U, f[T])
      <4> HIDE DEF U
      <4> QED BY <3>2, <3>3, WithinTrans
    <3>5. Within(T, f[T])
      BY <3>3, <3>4 DEF Within
    <3> QED BY <3>3, <3>4, <3>5
  <2> QED BY <2>1, <2>2
<1>3. S \in Good
  <2> HIDE DEF Good
  <2> QED BY <1>2, RectsFinite, SubsetInduction
<1> QED BY <1>1, <1>3

\* A rectangle that lies within a separate list changes nothing.
LEMMA DirtyAddWithin ==
  ASSUME NEW D, Separate(D), NEW x \in Rects, Within({x}, D)
  PROVE  DirtyAdd(D, x) = D
<1>1. PICK e \in D : x \subseteq e
  BY DEF Within
<1>2. D \in SUBSET Rects /\ e # {} /\ x # {}
  BY RectsHaveCells DEF Separate
<1>3. Joined(D, x) = e
  <2>1. Joined(D, x) \subseteq e
    BY <1>1, <1>2, JoinedIsAround DEF Separate
  <2>2. x \subseteq Joined(D, x) /\ \A d \in D : d \subseteq Joined(D, x) \/ d \cap Joined(D, x) = {}
    BY <1>2, JoinedIsAround
  <2>3. e \subseteq Joined(D, x)
    BY <1>1, <1>2, <2>2
  <2> QED BY <2>1, <2>3
<1>4. {d \in D : d \cap e = {}} = D \ {e}
  BY <1>2 DEF Separate
<1> QED BY <1>3, <1>4 DEF DirtyAdd

\* The lists that fit are small, and a part of one is smaller.
LEMMA FitsPart ==
  ASSUME NEW D \in SUBSET Rects, Fits(D), NEW E \in SUBSET D
  PROVE  Fits(E)
<1>1. IsFiniteSet(D)
  BY RectsFinite
<1>2. IsFiniteSet(E) /\ Cardinality(E) <= Cardinality(D)
  BY <1>1, FS_Subset
<1>3. Cardinality(D) \in Nat /\ Cardinality(E) \in Nat
  BY <1>1, <1>2, FS_CardinalityType
<1> QED BY <1>2, <1>3, DisplayAssumption DEF Fits

\* A separate list that fits is copied as it is, though the copy adds its
\* rectangles one by one and does not look at the results.
LEMMA CopyIsWhole ==
  ASSUME NEW D, Separate(D), Fits(D)
  PROVE  DirtyAllOr({}, D) = D
<1>0. D \in SUBSET Rects
  BY DEF Separate
<1>1. PICK f \in [SUBSET D -> SUBSET Rects] :
           /\ f[D] = DirtyAllOr({}, D)
           /\ f[{}] = {}
           /\ \A T \in SUBSET D : T # {} => \E x \in T : f[T] = DirtyAddOr(f[T \ {x}], x)
  <2>1. {} \in SUBSET Rects
    OBVIOUS
  <2> QED BY <1>0, <2>1, DirtyAllOrSteps
<1> DEFINE Good == {T \in SUBSET D : f[T] = T}
<1>2. ASSUME NEW T \in SUBSET D, \A U \in SUBSET T : U # T => U \in Good
      PROVE  T \in Good
  <2>1. CASE T = {}
    BY <1>1, <2>1
  <2>2. CASE T # {}
    <3>1. PICK x \in T : f[T] = DirtyAddOr(f[T \ {x}], x)
      BY <1>1, <2>2
    <3>2. f[T \ {x}] = T \ {x}
      BY <1>2
    <3>3. x \in Rects /\ T \ {x} \in SUBSET Rects
      BY <1>0
    <3>4. Joined(T \ {x}, x) = x
      <4>1. \A d \in T \ {x} : d \cap x = {}
        BY DEF Separate
      <4>2. x \subseteq Joined(T \ {x}, x)
        BY <3>3, JoinedIsAround
      <4>3. Joined(T \ {x}, x) \subseteq x
        BY <3>3, <4>1, JoinedIsAround
      <4> QED BY <4>2, <4>3
    <3>5. DirtyAdd(T \ {x}, x) = T
      BY <3>4 DEF DirtyAdd, Separate
    <3>6. Fits(T)
      BY <1>0, FitsPart
    <3> QED BY <3>1, <3>2, <3>5, <3>6 DEF DirtyAddOr
  <2> QED BY <2>1, <2>2
<1>3. D \in Good
  <2> HIDE DEF Good
  <2> QED BY <1>0, <1>2, RectsFinite, SubsetInduction
<1> QED BY <1>1, <1>3

\* Rectangles that lie within a separate list that fits change nothing.
LEMMA AddWithinKeeps ==
  ASSUME NEW D, Separate(D), Fits(D), NEW S \in SUBSET Rects, Within(S, D)
  PROVE  DirtyAllOr(D, S) = D
<1>1. PICK f \in [SUBSET S -> SUBSET Rects] :
           /\ f[S] = DirtyAllOr(D, S)
           /\ f[{}] = D
           /\ \A T \in SUBSET S : T # {} => \E x \in T : f[T] = DirtyAddOr(f[T \ {x}], x)
  BY DirtyAllOrSteps DEF Separate
<1> DEFINE Good == {T \in SUBSET S : f[T] = D}
<1>2. ASSUME NEW T \in SUBSET S, \A U \in SUBSET T : U # T => U \in Good
      PROVE  T \in Good
  <2>1. CASE T = {}
    BY <1>1, <2>1
  <2>2. CASE T # {}
    <3>1. PICK x \in T : f[T] = DirtyAddOr(f[T \ {x}], x)
      BY <1>1, <2>2
    <3>2. f[T \ {x}] = D
      BY <1>2
    <3>3. x \in Rects /\ Within({x}, D)
      BY DEF Within
    <3>4. DirtyAdd(D, x) = D
      BY <3>3, DirtyAddWithin
    <3> QED BY <3>1, <3>2, <3>4 DEF DirtyAddOr
  <2> QED BY <2>1, <2>2
<1>3. S \in Good
  <2> HIDE DEF Good
  <2> QED BY <1>2, RectsFinite, SubsetInduction
<1> QED BY <1>1, <1>3

-----------------------------------------------------------------------------
CommittedAreas == {overlay.commands[i].area : i \in DOMAIN overlay.commands}
Slots == [area : Rects \cup {{}}, colour : ScriptColours \cup {"black"}]

Stages == [slots : [1..MaxCommands -> Slots], count : 0..MaxCommands,
           first : Slots, dirty : SUBSET Rects]
StagedAreas(s) == {s.slots[i].area : i \in 1..s.count}

\* The dirty list of a batch is the one its commands determine, so undoing a
\* command gives the list that there was.
SoundStage(s) ==
  /\ s \in Stages
  /\ \A i \in 1..s.count : s.slots[i].area # {}
  /\ JoinOf(s.dirty, StagedAreas(s)) /\ Fits(s.dirty)
StageSound == SoundStage(stage)

\* The committed overlay paints only within its dirty list.
OverlaySound ==
  /\ Separate(overlay.dirty) /\ Fits(overlay.dirty)
  /\ Within(CommittedAreas, overlay.dirty)

\* A repair that is pending for the overlay includes the committed overlay.
RepairSound ==
  /\ repair \in [Planes -> SUBSET Rects]
  /\ repair["OVERLAY"] # {} =>
       /\ Separate(repair["OVERLAY"]) /\ Fits(repair["OVERLAY"])
       /\ Within(overlay.dirty, repair["OVERLAY"])

DisplayInv == StageSound /\ OverlaySound /\ RepairSound /\ PanelShowsCommitted

\* The cells that an earlier present left for repair, and the repair.
Torn(plane) == UNION repair[plane]
Repaired(plane, committed) == Transferred(panel, committed, Torn(plane))

\* How a present ends: in the repair, refused for its size, in the transfer, in
\* its first slice, or well.
EndsInRepair(o, plane, committed) ==
  \E cells \in SUBSET Torn(plane) :
    o = [ok |-> FALSE, panel |-> Transferred(panel, committed, cells),
         reached |-> cells, repair |-> repair[plane], unrecorded |-> {}]
EndsRefused(o, plane, committed) ==
  o = [ok |-> FALSE, panel |-> Repaired(plane, committed),
       reached |-> Torn(plane), repair |-> {}, unrecorded |-> {}]
EndsInTransfer(o, plane, committed, picture, affected) ==
  /\ Fits(affected)
  /\ \E cells \in SUBSET UNION affected :
       o = [ok |-> FALSE,
            panel |-> Transferred(Repaired(plane, committed), picture, cells),
            reached |-> Torn(plane) \cup cells, repair |-> affected,
            unrecorded |-> {}]
EndsInFirstSlice(o, plane, committed, picture, affected) ==
  /\ Torn(plane) = {}
  /\ \E cells \in SUBSET UNION affected :
       o = [ok |-> FALSE, panel |-> Transferred(panel, picture, cells),
            reached |-> cells, repair |-> {},
            unrecorded |-> {c \in cells : picture[c] # committed[c]}]
EndsWell(o, plane, committed, picture, affected) ==
  o = [ok |-> TRUE,
       panel |-> Transferred(Repaired(plane, committed), picture, UNION affected),
       reached |-> Torn(plane) \cup UNION affected, repair |-> {},
       unrecorded |-> {}]

LEMMA PresentEnds ==
  ASSUME NEW plane \in Planes, NEW committed, NEW picture, NEW affected,
         NEW o \in PresentOutcomes(plane, committed, picture, affected)
  PROVE  \/ EndsInRepair(o, plane, committed)
         \/ EndsRefused(o, plane, committed)
         \/ EndsInTransfer(o, plane, committed, picture, affected)
         \/ EndsInFirstSlice(o, plane, committed, picture, affected)
         \/ EndsWell(o, plane, committed, picture, affected)
BY DEF PresentOutcomes, EndsInRepair, EndsRefused, EndsInTransfer, EndsInFirstSlice,
       EndsWell, Torn, Repaired

(***************************************************************************)
(* What a present may leave behind, whatever part of the transfer it got   *)
(* through.  Cells it did not reach are as they were; cells it reached show*)
(* what is committed afterwards, unless they are in the repair list or were*)
(* changed by a first slice that did not count.  The latter happens only to*)
(* a present of something else than what is committed.                     *)
(***************************************************************************)
LEMMA PresentLeaves ==
  ASSUME NEW plane \in Planes, NEW committed, NEW picture, NEW affected,
         NEW o \in PresentOutcomes(plane, committed, picture, affected),
         NEW c \in Cells
  PROVE  /\ c \notin o.reached => o.panel[c] = panel[c]
         /\ c \in o.reached /\ ~o.ok /\ c \notin UNION o.repair /\ c \notin o.unrecorded
              => o.panel[c] = committed[c]
         /\ c \in o.reached /\ o.ok
              => o.panel[c] = IF c \in UNION affected THEN picture[c] ELSE committed[c]
         /\ o.ok => o.reached = Torn(plane) \cup UNION affected
         /\ c \in Torn(plane) /\ c \notin UNION o.repair => c \in o.reached
         /\ picture = committed => c \notin o.unrecorded
<1>1. \A cells, q, p : Transferred(q, p, cells)[c] = IF c \in cells THEN p[c] ELSE q[c]
  BY DEF Transferred
<1>2. Repaired(plane, committed)[c] = IF c \in Torn(plane) THEN committed[c] ELSE panel[c]
  BY <1>1 DEF Repaired
<1>3. CASE EndsInRepair(o, plane, committed)
  BY <1>1, <1>3 DEF EndsInRepair, Torn
<1>4. CASE EndsRefused(o, plane, committed)
  BY <1>2, <1>4 DEF EndsRefused
<1>5. CASE EndsInTransfer(o, plane, committed, picture, affected)
  <2>1. PICK cells \in SUBSET UNION affected :
       o = [ok |-> FALSE,
            panel |-> Transferred(Repaired(plane, committed), picture, cells),
            reached |-> Torn(plane) \cup cells, repair |-> affected,
            unrecorded |-> {}]
    BY <1>5 DEF EndsInTransfer
  <2>2. /\ ~o.ok /\ o.reached = Torn(plane) \cup cells
        /\ o.repair = affected /\ o.unrecorded = {}
        /\ o.panel[c] = IF c \in cells THEN picture[c] ELSE Repaired(plane, committed)[c]
    BY <1>1, <2>1
  <2> HIDE <2>1
  <2> QED BY <1>2, <2>2
<1>7. CASE EndsInFirstSlice(o, plane, committed, picture, affected)
  <2>1. PICK cells \in SUBSET UNION affected :
       o = [ok |-> FALSE, panel |-> Transferred(panel, picture, cells),
            reached |-> cells, repair |-> {},
            unrecorded |-> {x \in cells : picture[x] # committed[x]}]
    BY <1>7 DEF EndsInFirstSlice
  <2>2. /\ ~o.ok /\ o.reached = cells /\ o.repair = {}
        /\ o.unrecorded = {x \in cells : picture[x] # committed[x]}
        /\ o.panel[c] = IF c \in cells THEN picture[c] ELSE panel[c]
    BY <1>1, <2>1
  <2>3. Torn(plane) = {}
    BY <1>7 DEF EndsInFirstSlice
  <2> HIDE <2>1
  <2> QED BY <2>2, <2>3
<1>6. CASE EndsWell(o, plane, committed, picture, affected)
  <2>1. /\ o.ok /\ o.reached = Torn(plane) \cup UNION affected /\ o.repair = {}
        /\ o.unrecorded = {}
        /\ o.panel[c] = IF c \in UNION affected THEN picture[c]
                        ELSE Repaired(plane, committed)[c]
    BY <1>1, <1>6 DEF EndsWell
  <2> QED BY <1>2, <2>1
<1> QED BY <1>3, <1>4, <1>5, <1>6, <1>7, PresentEnds

\* The repair list a present leaves is the one it found, none, or the list of
\* what it was to transfer, which then fits.
LEMMA PresentRecords ==
  ASSUME NEW plane \in Planes, NEW committed, NEW picture, NEW affected,
         NEW o \in PresentOutcomes(plane, committed, picture, affected)
  PROVE  /\ \/ o.repair = repair[plane]
            \/ o.repair = {}
            \/ o.repair = affected /\ Fits(affected)
         /\ o.ok \in BOOLEAN
         /\ o.ok => o.repair = {} /\ o.unrecorded = {}
<1>1. CASE EndsInRepair(o, plane, committed)
  BY <1>1 DEF EndsInRepair
<1>2. CASE EndsRefused(o, plane, committed)
  BY <1>2 DEF EndsRefused
<1>3. CASE EndsInTransfer(o, plane, committed, picture, affected)
  BY <1>3 DEF EndsInTransfer
<1>4. CASE EndsWell(o, plane, committed, picture, affected)
  BY <1>4 DEF EndsWell
<1>5. CASE EndsInFirstSlice(o, plane, committed, picture, affected)
  BY <1>5 DEF EndsInFirstSlice
<1> QED BY <1>1, <1>2, <1>3, <1>4, <1>5, PresentEnds

\* A picture without commands is itself, and a command changes the cells of
\* its rectangle only, to a colour that does not depend on the picture.
LEMMA PaintedCells ==
  ASSUME NEW picture, NEW other, NEW commands, NEW c \in Cells
  PROVE  /\ picture[c] = other[c] =>
              Painted(picture, commands)[c] = Painted(other, commands)[c]
         /\ (\A i \in DOMAIN commands : c \notin commands[i].area) =>
              Painted(picture, commands)[c] = picture[c]
BY DEF Painted

\* The repair lists of both planes.
LEMMA RepairCells ==
  ASSUME NEW r \in [Planes -> SUBSET Rects]
  PROVE  UNION (UNION Range(r)) = (UNION r["BASE"]) \cup (UNION r["OVERLAY"])
<1>1. Range(r) = {r["BASE"], r["OVERLAY"]}
  BY DEF Planes, Range
<1> QED BY <1>1

\* The drawing of the script, command by command.
LEMMA DrawingShape ==
  ASSUME StageSound
  PROVE  /\ DOMAIN Drawing = 1..stage.count
         /\ \A i \in 1..stage.count : Drawing[i] = stage.slots[i]
         /\ CommittedAreas = {overlay.commands[i].area : i \in DOMAIN overlay.commands}
BY DisplayAssumption DEF StageSound, SoundStage, Stages, Drawing, CommittedAreas

-----------------------------------------------------------------------------
\* The bounds of the batch.
LEMMA Bounds == MaxCommands \in Nat /\ MaxCommands >= 1 /\ MaxDirty \in Nat /\ MaxDirty >= 1
BY DisplayAssumption

\* Lists of one rectangle and of none fit.
LEMMA SmallFits ==
  ASSUME NEW x
  PROVE  Fits({}) /\ Fits({x})
<1>1. Cardinality({}) = 0 /\ Cardinality({x}) = 1
  BY FS_EmptySet, FS_Singleton
<1> QED BY <1>1, Bounds DEF Fits

\* Appending a command for which there is room.
LEMMA AppendSound ==
  ASSUME NEW s, SoundStage(s), NEW area \in Rects,
         NEW colour \in ScriptColours \cup {"black"}, HasRoom(s, area)
  PROVE  /\ SoundStage(Append1(s, area, colour))
         /\ Append1(s, area, colour).first = s.first
         /\ Append1(s, area, colour).count = s.count + 1
         /\ \A i \in 1..s.count : Append1(s, area, colour).slots[i] = s.slots[i]
<1> DEFINE t == Append1(s, area, colour)
<1>1. s \in Stages /\ s.count \in 0..MaxCommands /\ s.count < MaxCommands
      /\ s.dirty \in SUBSET Rects /\ s.slots \in [1..MaxCommands -> Slots]
  BY DEF SoundStage, Stages, HasRoom
<1>2. /\ t.count = s.count + 1 /\ t.first = s.first
      /\ t.slots = [s.slots EXCEPT ![s.count + 1] = [area |-> area, colour |-> colour]]
      /\ t.dirty = DirtyAdd(s.dirty, area)
  BY <1>1 DEF Append1, Stages
<1>3. s.count + 1 \in 1..MaxCommands
  BY <1>1, Bounds
<1>4. /\ \A i \in 1..s.count : t.slots[i] = s.slots[i]
      /\ t.slots[s.count + 1] = [area |-> area, colour |-> colour]
  BY <1>1, <1>2, <1>3, Bounds
<1>5. t \in Stages
  <2>1. [area |-> area, colour |-> colour] \in Slots
    BY DEF Slots
  <2>2. DirtyAdd(s.dirty, area) \in SUBSET Rects
    BY <1>1, DirtyAddRects
  <2>3. t = [slots |-> t.slots, count |-> t.count, first |-> t.first, dirty |-> t.dirty]
    BY DEF Append1
  <2>4. t.slots \in [1..MaxCommands -> Slots]
    BY <1>1, <1>2, <2>1
  <2>5. t.count \in 0..MaxCommands /\ t.first \in Slots /\ t.dirty \in SUBSET Rects
    BY <1>1, <1>2, <1>3, <2>2, Bounds DEF Stages
  <2> HIDE DEF t
  <2> QED BY <2>3, <2>4, <2>5 DEF Stages
<1>6. StagedAreas(t) = StagedAreas(s) \cup {area}
  <2>1. 1..t.count = (1..s.count) \cup {s.count + 1}
    BY <1>1, <1>2, Bounds
  <2> QED BY <1>4, <2>1 DEF StagedAreas
<1>7. JoinOf(t.dirty, StagedAreas(t))
  BY <1>2, <1>6, DirtyAddJoins DEF SoundStage
<1>8. ASSUME NEW i \in 1..t.count
      PROVE  t.slots[i].area # {}
  <2>1. i \in 1..s.count \/ i = s.count + 1
    BY <1>1, <1>2
  <2> QED BY <1>4, <2>1, RectsHaveCells DEF SoundStage
<1>9. Fits(t.dirty)
  BY <1>2 DEF HasRoom
<1> HIDE DEF t
<1>10. SoundStage(t)
  BY <1>5, <1>7, <1>8, <1>9 DEF SoundStage
<1> QED BY <1>2, <1>4, <1>10 DEF t

\* A checkpoint changes the place for the first command only.
LEMMA CheckedSound ==
  ASSUME NEW s, SoundStage(s)
  PROVE  /\ SoundStage(Checked(s)) /\ Checked(s).first = Blank
         /\ Checked(s).count = s.count /\ Checked(s).slots = s.slots
         /\ Checked(s).dirty = s.dirty
<1>1. s \in Stages
  BY DEF SoundStage
<1>2. Blank \in Slots
  BY DEF Blank, Slots
<1>3. /\ Checked(s) \in Stages /\ Checked(s).first = Blank
      /\ Checked(s).count = s.count /\ Checked(s).slots = s.slots
      /\ Checked(s).dirty = s.dirty
  BY <1>1, <1>2 DEF Checked, Stages
<1> QED BY <1>3 DEF SoundStage, StagedAreas

\* What a call that may be undone must leave of the batch.
Kept(s, e) ==
  /\ e \in Stages
  /\ \A i \in 1..s.count :
       s.slots[i] = IF i = 1 /\ e.first # Blank THEN e.first ELSE e.slots[i]

\* Restoring brings back the commands, and the dirty list with them, though
\* it is built anew and in another order.
LEMMA RestoredSound ==
  ASSUME NEW s, SoundStage(s), NEW e, Kept(s, e)
  PROVE  /\ SoundStage(Restored(e, s.count))
         /\ Restored(e, s.count).count = s.count
         /\ Restored(e, s.count).dirty = s.dirty
         /\ \A i \in 1..s.count : Restored(e, s.count).slots[i] = s.slots[i]
<1> DEFINE n == s.count
           first == IF n = 0 /\ e.count # 0 THEN e.slots[1] ELSE e.first
           slots == IF first # Blank /\ n # 0 THEN [e.slots EXCEPT ![1] = first]
                    ELSE e.slots
           dirty == DirtyAll({}, {slots[i].area : i \in 1..n})
<1>1. Restored(e, s.count) = [slots |-> slots, count |-> n, first |-> first, dirty |-> dirty]
  BY DEF Restored
<1>2. e \in Stages /\ s \in Stages /\ n \in 0..MaxCommands
  BY DEF Kept, SoundStage, Stages
<1>3. first \in Slots
  BY <1>2, Bounds DEF Stages
<1>4. slots \in [1..MaxCommands -> Slots]
  BY <1>2, <1>3 DEF Stages
<1>5. \A i \in 1..n : slots[i] = s.slots[i]
  <2> SUFFICES ASSUME NEW i \in 1..n
               PROVE  slots[i] = s.slots[i]
    OBVIOUS
  <2>1. n # 0 /\ first = e.first /\ i \in 1..MaxCommands
    BY <1>2, Bounds
  <2>2. s.slots[i] = IF i = 1 /\ e.first # Blank THEN e.first ELSE e.slots[i]
    BY DEF Kept
  <2>3. DOMAIN e.slots = 1..MaxCommands
    BY <1>2 DEF Stages
  <2>4. slots = IF e.first # Blank THEN [e.slots EXCEPT ![1] = e.first] ELSE e.slots
    BY <2>1
  <2> HIDE DEF slots, first, n
  <2> QED BY <2>1, <2>2, <2>3, <2>4
<1>6. {slots[i].area : i \in 1..n} = StagedAreas(s)
  <2> HIDE DEF slots
  <2> QED BY <1>5 DEF StagedAreas
<1>7. StagedAreas(s) \in SUBSET Rects
  <2>1. \A i \in 1..n : s.slots[i] \in Slots /\ s.slots[i].area # {}
    BY <1>2, Bounds DEF SoundStage, Stages
  <2> QED BY <2>1 DEF StagedAreas, Slots
<1>8. dirty = s.dirty
  <2>1. JoinOf(DirtyAll({}, StagedAreas(s)), StagedAreas(s))
    BY <1>7, DirtyAllIsJoin
  <2> QED BY <1>6, <2>1, JoinOfUnique DEF SoundStage
<1>9. s.dirty \in SUBSET Rects
  BY <1>2 DEF Stages
<1> HIDE DEF n, first, slots, dirty
<1> DEFINE r == Restored(e, s.count)
<1>10. r.slots = slots /\ r.count = n /\ r.first = first /\ r.dirty = s.dirty
  BY <1>1, <1>8
<1>11. r \in Stages
  BY <1>1, <1>2, <1>3, <1>4, <1>8, <1>9 DEF Stages
<1>12. StagedAreas(r) = StagedAreas(s)
  BY <1>6, <1>10 DEF StagedAreas
<1>13. \A i \in 1..n : s.slots[i].area # {}
  BY DEF SoundStage, n
<1>14. SoundStage(r)
  <2> HIDE DEF r
  <2>1. JoinOf(s.dirty, StagedAreas(s)) /\ Fits(s.dirty)
    BY DEF SoundStage
  <2> QED BY <1>5, <1>10, <1>11, <1>12, <1>13, <2>1 DEF SoundStage
<1> QED BY <1>5, <1>10, <1>14 DEF n

-----------------------------------------------------------------------------
\* What concerns the panel does not depend on the batch.
PanelSound == OverlaySound /\ RepairSound /\ PanelShowsCommitted

\* A call that changes neither plane nor panel leaves them in agreement.
LEMMA CallLeavesPanel ==
  ASSUME PanelSound, UNCHANGED <<panelVars, shadow, overlay>>,
         Usable' => Usable
  PROVE  PanelSound'
BY DEF PanelSound, OverlaySound, RepairSound, PanelShowsCommitted, CommittedAreas, Shown,
       panelVars

\* The drawing depends on the commands that are staged and on nothing else.
LEMMA DrawingSame ==
  ASSUME SoundStage(stage), stage'.count = stage.count,
         \A i \in 1..stage.count : stage'.slots[i] = stage.slots[i]
  PROVE  Drawing' = Drawing
<1>1. stage.count \in Nat
  BY DEF SoundStage, Stages
<1> QED BY <1>1 DEF Drawing

\* A display call leaves a sound batch, and its drawing if it is undone.
LEMMA CallSound ==
  ASSUME DisplayInv, NEW e, NEW undone \in BOOLEAN, ScriptCall(e, undone),
         undone => Kept(stage, e), ~undone => SoundStage(e)
  PROVE  /\ DisplayInv'
         /\ undone => Drawing' = Drawing
<1>1. SoundStage(stage)
  BY DEF DisplayInv, StageSound
<1>4. PanelSound'
  BY CallLeavesPanel DEF DisplayInv, PanelSound, ScriptCall, uiVars, Usable
<1>2. CASE undone
  <2>1. stage' = Restored(e, stage.count)
    BY <1>2 DEF ScriptCall
  <2>2. /\ SoundStage(stage') /\ stage'.count = stage.count
        /\ \A i \in 1..stage.count : stage'.slots[i] = stage.slots[i]
    BY <1>1, <1>2, <2>1, RestoredSound
  <2>3. Drawing' = Drawing
    BY <1>1, <2>2, DrawingSame
  <2> QED BY <2>2, <2>3, <1>4 DEF StageSound, DisplayInv, PanelSound
<1>3. CASE ~undone
  <2>1. SoundStage(stage')
    BY <1>3 DEF ScriptCall
  <2> QED BY <1>3, <2>1, <1>4 DEF StageSound, DisplayInv, PanelSound
<1> QED BY <1>2, <1>3

\* Clearing begins a new drawing and keeps the first command for restoring.
LEMMA ClearSound ==
  ASSUME DisplayInv, NEW colour \in ScriptColours, NEW undone \in BOOLEAN,
         ScriptClears(colour, undone)
  PROVE  DisplayInv' /\ (undone => Drawing' = Drawing)
<1> DEFINE s == Checked(stage)
           r == Restored(s, 0)
           e == Append1(r, Cells, colour)
<1>1. SoundStage(stage) /\ stage \in Stages
  BY DEF DisplayInv, StageSound, SoundStage
<1>2. /\ SoundStage(s) /\ s \in Stages /\ s.first = Blank /\ s.count = stage.count
      /\ s.slots = stage.slots
  BY <1>1, CheckedSound DEF SoundStage
<1>3. r = [slots |-> s.slots, count |-> 0,
           first |-> IF s.count # 0 THEN s.slots[1] ELSE Blank,
           dirty |-> DirtyAll({}, {})]
  <2>1. {s.slots[i].area : i \in 1..0} = {}
    OBVIOUS
  <2> HIDE DEF s
  <2> QED BY <1>2, <2>1 DEF Restored
<1>4. JoinOf(DirtyAll({}, {}), {})
  <2>1. {} \in SUBSET Rects
    OBVIOUS
  <2> QED BY <2>1, DirtyAllIsJoin
<1>5. DirtyAll({}, {}) = {}
  <2>1. JoinOf({}, {})
    BY DEF JoinOf, Separate, Within
  <2> QED BY <1>4, <2>1, JoinOfUnique
<1>6. SoundStage(r)
  <2>1. r.slots \in [1..MaxCommands -> Slots] /\ r.first \in Slots
    <3> HIDE DEF s, r
    <3>1. Blank \in Slots
      BY DEF Blank, Slots
    <3> QED BY <1>2, <1>3, <3>1, Bounds DEF Stages
  <2>2. r \in Stages
    <3> HIDE DEF s, r
    <3> QED BY <1>3, <1>5, <2>1, Bounds DEF Stages
  <2>3. StagedAreas(r) = {}
    <3> HIDE DEF s, r
    <3> QED BY <1>3 DEF StagedAreas
  <2>4. Fits({})
    BY SmallFits
  <2> HIDE DEF s, r
  <2> QED BY <1>3, <1>4, <1>5, <2>2, <2>3, <2>4 DEF SoundStage
<1>7. Cells \in Rects /\ HasRoom(r, Cells)
  <2>1. Cells \in Rects
    BY DisplayAssumption
  <2>2. DirtyAdd({}, Cells) = {Joined({}, Cells)}
    BY DEF DirtyAdd
  <2> HIDE DEF s, r
  <2>3. Fits(DirtyAdd({}, Cells))
    BY <2>2, SmallFits
  <2>4. r.count = 0 /\ r.dirty = {}
    BY <1>3, <1>5
  <2> QED BY <2>1, <2>3, <2>4, Bounds DEF HasRoom
<1>8. SoundStage(e)
  <2> HIDE DEF s, r
  <2> QED BY <1>6, <1>7, AppendSound
<1>9. Kept(stage, e)
  <2>1. e \in Stages
    BY <1>8 DEF SoundStage
  <2>2. e.first = IF stage.count # 0 THEN stage.slots[1] ELSE Blank
    <3> HIDE DEF s, r
    <3> QED BY <1>2, <1>3 DEF Append1
  <2>3. e.slots = [stage.slots EXCEPT ![1] = [area |-> Cells, colour |-> colour]]
    <3> HIDE DEF s, r
    <3> QED BY <1>2, <1>3 DEF Append1
  <2>4. ASSUME NEW i \in 1..stage.count
        PROVE  stage.slots[i] = IF i = 1 /\ e.first # Blank THEN e.first ELSE e.slots[i]
    <3>1. i \in 1..MaxCommands /\ stage.count # 0 /\ 1 \in 1..stage.count
      BY <1>1, Bounds DEF Stages
    <3>2. stage.slots[1] # Blank
      BY <1>1, <3>1 DEF SoundStage, Blank
    <3>3. DOMAIN stage.slots = 1..MaxCommands
      BY <1>1 DEF Stages
    <3> HIDE DEF e
    <3> QED BY <2>2, <2>3, <3>1, <3>2, <3>3
  <2> HIDE DEF e
  <2> QED BY <2>1, <2>4 DEF Kept
<1>10. ScriptCall(e, undone)
  BY DEF ScriptClears
<1> HIDE DEF e
<1> QED BY <1>8, <1>9, <1>10, CallSound

\* What appends after a checkpoint can be undone.
LEMMA AppendedKept ==
  ASSUME NEW s, SoundStage(s), NEW e, SoundStage(e), e.first = Blank,
         \A i \in 1..s.count : e.slots[i] = s.slots[i]
  PROVE  Kept(s, e)
BY DEF Kept, SoundStage

\* A rectangle is staged, or the call is refused and undone.
LEMMA RectSound ==
  ASSUME DisplayInv, NEW area \in Areas, NEW colour \in ScriptColours,
         NEW undone \in BOOLEAN, ScriptRect(area, colour, undone)
  PROVE  DisplayInv' /\ (undone => Drawing' = Drawing)
<1> DEFINE s == Checked(stage)
           e == Append1(s, area, colour)
<1>1. SoundStage(stage)
  BY DEF DisplayInv, StageSound
<1>2. /\ SoundStage(s) /\ s.first = Blank /\ s.count = stage.count
      /\ s.slots = stage.slots
  BY <1>1, CheckedSound
<1>3. area \in Rects
  BY DisplayAssumption
<1>4. CASE HasRoom(s, area)
  <2>1. ScriptCall(e, undone)
    BY <1>4 DEF ScriptRect
  <2>2. /\ SoundStage(e) /\ e.first = Blank
        /\ \A i \in 1..stage.count : e.slots[i] = stage.slots[i]
    <3> HIDE DEF s
    <3> QED BY <1>2, <1>3, <1>4, AppendSound
  <2> HIDE DEF e, s
  <2> QED BY <1>1, <2>1, <2>2, AppendedKept, CallSound
<1>5. CASE ~HasRoom(s, area)
  <2>1. undone /\ ScriptCall(s, undone)
    BY <1>5 DEF ScriptRect
  <2> HIDE DEF e, s
  <2> QED BY <1>1, <1>2, <2>1, AppendedKept, CallSound
<1> QED BY <1>4, <1>5

\* A text stages two commands, or is refused for either of them and undone.
LEMMA TextSound ==
  ASSUME DisplayInv, NEW area \in Areas, NEW colour \in ScriptColours,
         NEW undone \in BOOLEAN, ScriptText(area, colour, undone)
  PROVE  DisplayInv' /\ (undone => Drawing' = Drawing)
<1> DEFINE s == Checked(stage)
           t == Append1(s, area, "black")
           e == Append1(t, area, colour)
<1>1. SoundStage(stage)
  BY DEF DisplayInv, StageSound
<1>2. /\ SoundStage(s) /\ s.first = Blank /\ s.count = stage.count
      /\ s.slots = stage.slots
  BY <1>1, CheckedSound
<1>3. area \in Rects
  BY DisplayAssumption
<1>4. CASE ~HasRoom(s, area)
  <2>1. undone /\ ScriptCall(s, undone)
    BY <1>4 DEF ScriptText
  <2> HIDE DEF s
  <2> QED BY <1>1, <1>2, <2>1, AppendedKept, CallSound
<1>5. CASE HasRoom(s, area)
  <2>1. /\ SoundStage(t) /\ t.first = Blank /\ t.count = stage.count + 1
        /\ \A i \in 1..stage.count : t.slots[i] = stage.slots[i]
    <3> HIDE DEF s
    <3> QED BY <1>2, <1>3, <1>5, AppendSound
  <2>2. CASE ~HasRoom(t, area)
    <3>1. undone /\ ScriptCall(t, undone)
      BY <1>5, <2>2 DEF ScriptText
    <3> HIDE DEF t
    <3> QED BY <1>1, <2>1, <3>1, AppendedKept, CallSound
  <2>3. CASE HasRoom(t, area)
    <3>1. ScriptCall(e, undone)
      BY <1>5, <2>3 DEF ScriptText
    <3>2. /\ SoundStage(e) /\ e.first = t.first
          /\ \A i \in 1..t.count : e.slots[i] = t.slots[i]
      <4> HIDE DEF t
      <4> QED BY <1>3, <2>1, <2>3, AppendSound
    <3>3. \A i \in 1..stage.count : i \in 1..t.count
      <4>1. stage.count \in Nat
        BY <1>1 DEF SoundStage, Stages
      <4> HIDE DEF t
      <4> QED BY <2>1, <4>1
    <3>4. e.first = Blank /\ \A i \in 1..stage.count : e.slots[i] = stage.slots[i]
      <4> HIDE DEF e, t
      <4> QED BY <2>1, <3>2, <3>3
    <3> HIDE DEF e, t
    <3> QED BY <1>1, <3>1, <3>2, <3>4, AppendedKept, CallSound
  <2> QED BY <2>2, <2>3
<1> QED BY <1>4, <1>5

-----------------------------------------------------------------------------
\* What no repair and no drawing covers shows the committed picture.
LEMMA CommittedCell ==
  ASSUME PanelSound, Usable, NEW c \in Cells, c \notin stale, c \notin unrecorded,
         c \notin Torn("BASE"), c \notin Torn("OVERLAY")
  PROVE  panel[c] = Shown[c]
<1>1. UNION (UNION Range(repair)) = Torn("BASE") \cup Torn("OVERLAY")
  BY RepairCells DEF PanelSound, RepairSound, Torn
<1> QED BY <1>1 DEF PanelSound, PanelShowsCommitted

\* The same for the panel after a step.
LEMMA CommittedPanel ==
  ASSUME repair' \in [Planes -> SUBSET Rects],
         \A c \in Cells : /\ c \notin stale' /\ c \notin unrecorded'
                          /\ c \notin UNION repair'["BASE"]
                          /\ c \notin UNION repair'["OVERLAY"]
                          => panel'[c] = Shown'[c]
  PROVE  PanelShowsCommitted'
<1>1. UNION (UNION Range(repair')) = (UNION repair'["BASE"]) \cup (UNION repair'["OVERLAY"])
  BY RepairCells
<1> QED BY <1>1 DEF PanelShowsCommitted

\* A view that presents, having drawn on some cells, leaves the panel with the
\* committed picture on what it drew before, wherever the transfer stopped.
LEMMA ViewPresents ==
  ASSUME PanelSound, Usable, NEW areas \in SUBSET Areas, NEW drawn,
         \A c \in Cells : c \notin drawn => shadow'[c] = shadow[c],
         SurfacePresented(areas, shadow', drawn), overlay' = overlay
  PROVE  PanelSound'
<1> DEFINE picture == Painted(shadow', overlay.commands)
           affected == DirtyAll({}, areas)
<1>1. PICK o \in PresentOutcomes("BASE", picture, picture, affected) : Ends("BASE", o, drawn)
  BY DEF SurfacePresented
<1>2. affected \in SUBSET Rects
  <2>1. areas \in SUBSET Rects
    BY DisplayAssumption
  <2> QED BY <2>1, DirtyAllIsJoin DEF JoinOf, Separate
<1>3. /\ panel' = o.panel /\ stale' = (stale \cup drawn) \ o.reached
      /\ unrecorded' = (unrecorded \ o.reached) \cup o.unrecorded
      /\ repair' = [repair EXCEPT !["BASE"] = o.repair]
  BY <1>1 DEF Ends
<1>4. repair \in [Planes -> SUBSET Rects]
  BY DEF PanelSound, RepairSound
<1>5. "BASE" \in Planes /\ "OVERLAY" \in Planes
  BY DEF Planes
<1>6. Shown' = picture
  BY DEF Shown
<1> HIDE DEF picture, affected
<1>7. o.repair \in SUBSET Rects
  <2>1. repair["BASE"] \in SUBSET Rects
    BY <1>4, <1>5
  <2> QED BY <1>1, <1>2, <1>5, <2>1, PresentRecords
<1>8. /\ repair' \in [Planes -> SUBSET Rects]
      /\ repair'["BASE"] = o.repair /\ repair'["OVERLAY"] = repair["OVERLAY"]
  BY <1>3, <1>4, <1>5, <1>7
<1>9. ASSUME NEW c \in Cells, c \notin stale', c \notin unrecorded', c \notin UNION repair'["BASE"],
             c \notin UNION repair'["OVERLAY"]
      PROVE  panel'[c] = Shown'[c]
  <2>1. /\ c \notin o.reached => o.panel[c] = panel[c]
        /\ c \in o.reached => o.panel[c] = picture[c]
        /\ c \in Torn("BASE") => c \in o.reached
    <3>1. c \notin UNION o.repair /\ c \notin o.unrecorded
      BY <1>3, <1>8, <1>9
    <3> QED BY <1>1, <1>5, <3>1, PresentLeaves
  <2>2. CASE c \in o.reached
    BY <1>3, <1>6, <2>1, <2>2
  <2>3. CASE c \notin o.reached
    <3>1. /\ c \notin stale /\ c \notin drawn /\ c \notin unrecorded
          /\ c \notin Torn("BASE") /\ c \notin Torn("OVERLAY")
      BY <1>3, <1>8, <1>9, <2>1, <2>3 DEF Torn
    <3>2. panel[c] = Shown[c]
      BY <3>1, CommittedCell
    <3>3. Shown[c] = picture[c]
      BY <3>1, PaintedCells DEF Shown, picture
    <3> QED BY <1>3, <1>6, <2>1, <2>3, <3>2, <3>3
  <2> QED BY <2>2, <2>3
<1>10. PanelShowsCommitted'
  BY <1>8, <1>9, CommittedPanel
<1>11. RepairSound'
  BY <1>8 DEF PanelSound, RepairSound
<1>12. OverlaySound'
  BY DEF PanelSound, OverlaySound, CommittedAreas
<1> QED BY <1>10, <1>11, <1>12 DEF PanelSound

\* Cells outside what covers the areas are not painted.
LEMMA UnpaintedCell ==
  ASSUME NEW commands, NEW D, NEW c,
         Within({commands[i].area : i \in DOMAIN commands}, D), c \notin UNION D
  PROVE  \A i \in DOMAIN commands : c \notin commands[i].area
BY DEF Within

LEMMA WithinUnion ==
  ASSUME NEW A, NEW D, Within(A, D)
  PROVE  UNION A \subseteq UNION D
BY DEF Within

\* A present of the script replaces the committed overlay or leaves it; what
\* either of them paints is transferred or recorded for repair.
LEMMA ScriptPresentsSound ==
  ASSUME DisplayInv, ScriptPresents
  PROVE  DisplayInv' /\ Drawing' = Drawing
<1> DEFINE picture == Painted(shadow, Drawing)
           affected == DirtyAll(stage.dirty, overlay.dirty)
<1>1. PICK o \in PresentOutcomes("OVERLAY", Shown, picture, affected) :
        /\ Ends("OVERLAY", o, {})
        /\ overlay' = IF o.ok THEN [commands |-> Drawing, dirty |-> stage.dirty]
                      ELSE overlay
        /\ stage' = IF ~o.ok THEN Checked(stage)
                    ELSE Restored([stage EXCEPT !.count = 0, !.first = Blank,
                                                !.dirty = {}], stage.count)
  BY DEF ScriptPresents
<1>2. SoundStage(stage) /\ PanelSound
  BY DEF DisplayInv, StageSound, PanelSound
<1>3. /\ Separate(stage.dirty) /\ Within(StagedAreas(stage), stage.dirty)
      /\ Fits(stage.dirty)
      /\ Separate(overlay.dirty) /\ Within(CommittedAreas, overlay.dirty)
  BY <1>2 DEF SoundStage, JoinOf, PanelSound, OverlaySound
<1>4. /\ Separate(affected) /\ Within(stage.dirty, affected)
      /\ Within(overlay.dirty, affected)
  BY <1>3, DirtyAllKeeps DEF Separate
<1>5. /\ panel' = o.panel /\ stale' = stale \ o.reached
      /\ unrecorded' = (unrecorded \ o.reached) \cup o.unrecorded
      /\ repair' = [repair EXCEPT !["OVERLAY"] = o.repair]
  BY <1>1 DEF Ends
<1>6. repair \in [Planes -> SUBSET Rects] /\ "BASE" \in Planes /\ "OVERLAY" \in Planes
  BY <1>2 DEF PanelSound, RepairSound, Planes
<1>7. shadow' = shadow /\ Usable
  BY DEF ScriptPresents, uiVars, Usable
<1> HIDE DEF picture, affected
<1>8. o.repair \in SUBSET Rects
  <2>1. repair["OVERLAY"] \in SUBSET Rects /\ affected \in SUBSET Rects
    BY <1>4, <1>6 DEF Separate
  <2> QED BY <1>1, <1>6, <2>1, PresentRecords
<1>9. /\ repair' \in [Planes -> SUBSET Rects]
      /\ repair'["OVERLAY"] = o.repair /\ repair'["BASE"] = repair["BASE"]
  BY <1>5, <1>6, <1>8
<1>10. /\ DOMAIN Drawing = 1..stage.count
       /\ {Drawing[i].area : i \in DOMAIN Drawing} = StagedAreas(stage)
  <2>1. DOMAIN Drawing = 1..stage.count /\ \A i \in 1..stage.count : Drawing[i] = stage.slots[i]
    BY <1>2, DrawingShape DEF StageSound
  <2> QED BY <2>1 DEF StagedAreas
\* The batch keeps its drawing.
<1>11. SoundStage(stage') /\ Drawing' = Drawing
  <2>1. CASE ~o.ok
    <3>1. stage' = Checked(stage)
      BY <1>1, <2>1
    <3>2. /\ SoundStage(stage') /\ stage'.count = stage.count /\ stage'.slots = stage.slots
      BY <1>2, <3>1, CheckedSound
    <3> QED BY <1>2, <3>2, DrawingSame
  <2>2. CASE o.ok
    <3> DEFINE e == [stage EXCEPT !.count = 0, !.first = Blank, !.dirty = {}]
    <3>1. stage' = Restored(e, stage.count)
      BY <1>1, <2>2
    <3>2. e \in Stages /\ e.first = Blank /\ e.slots = stage.slots
      <4>1. Blank \in Slots
        BY DEF Blank, Slots
      <4>2. stage \in Stages
        BY <1>2 DEF SoundStage
      <4>3. e \in Stages
        <5>1. [stage EXCEPT !.count = 0] \in Stages
          BY <4>2, Bounds DEF Stages
        <5>2. \A t \in Stages : [[t EXCEPT !.first = Blank] EXCEPT !.dirty = {}] \in Stages
          BY <4>1 DEF Stages
        <5> QED BY <5>1, <5>2
      <4>4. e.first = Blank /\ e.slots = stage.slots
        BY <4>2 DEF Stages
      <4> QED BY <4>3, <4>4
    <3>3. Kept(stage, e)
      <4> HIDE DEF e
      <4> QED BY <3>2 DEF Kept
    <3> HIDE DEF e
    <3>4. /\ SoundStage(stage') /\ stage'.count = stage.count
          /\ \A i \in 1..stage.count : stage'.slots[i] = stage.slots[i]
      BY <1>2, <3>1, <3>3, RestoredSound
    <3> QED BY <1>2, <3>4, DrawingSame
  <2>3. o.ok \in BOOLEAN
    BY <1>1, <1>6, PresentRecords
  <2> QED BY <2>1, <2>2, <2>3
<1>12. CASE o.ok
  <2>1. overlay'.commands = Drawing /\ overlay'.dirty = stage.dirty
    BY <1>1, <1>12
  <2>2. OverlaySound'
    BY <1>3, <1>10, <2>1 DEF OverlaySound, CommittedAreas
  <2>3. repair'["OVERLAY"] = {}
    BY <1>1, <1>6, <1>9, <1>12, PresentRecords
  <2>4. RepairSound'
    BY <1>9, <2>3 DEF RepairSound
  <2>5. ASSUME NEW c \in Cells, c \notin stale', c \notin unrecorded', c \notin UNION repair'["BASE"],
               c \notin UNION repair'["OVERLAY"]
        PROVE  panel'[c] = Shown'[c]
    <3>1. Shown' = picture
      BY <1>7, <2>1 DEF Shown, picture
    <3>2. /\ c \notin o.reached => o.panel[c] = panel[c]
          /\ c \in o.reached =>
               o.panel[c] = IF c \in UNION affected THEN picture[c] ELSE Shown[c]
          /\ o.reached = Torn("OVERLAY") \cup UNION affected
      BY <1>1, <1>6, <1>12, PresentLeaves
    <3>3. CASE c \in UNION affected
      BY <1>5, <3>1, <3>2, <3>3
    <3>4. CASE c \notin UNION affected
      <4>1. c \notin UNION stage.dirty /\ c \notin UNION overlay.dirty
        BY <1>4, <3>4, WithinUnion
      <4>2. \A i \in DOMAIN Drawing : c \notin Drawing[i].area
        BY <1>3, <1>10, <4>1, UnpaintedCell
      <4>3. \A i \in DOMAIN overlay.commands : c \notin overlay.commands[i].area
        BY <1>3, <4>1, UnpaintedCell DEF CommittedAreas
      <4>4. picture[c] = shadow[c] /\ Shown[c] = shadow[c]
        BY <4>2, <4>3, PaintedCells DEF picture, Shown
      <4>5. CASE c \in o.reached
        BY <1>5, <3>1, <3>2, <3>4, <4>4, <4>5
      <4>6. CASE c \notin o.reached
        <5>1. /\ c \notin stale /\ c \notin unrecorded
              /\ c \notin Torn("BASE") /\ c \notin Torn("OVERLAY")
          BY <1>5, <1>9, <2>5, <3>2, <4>6 DEF Torn
        <5>2. panel[c] = Shown[c]
          BY <1>2, <1>7, <5>1, CommittedCell
        <5> QED BY <1>5, <3>1, <3>2, <4>4, <4>6, <5>2
      <4> QED BY <4>5, <4>6
    <3> QED BY <3>3, <3>4
  <2>6. PanelShowsCommitted'
    BY <1>9, <2>5, CommittedPanel
  <2> QED BY <1>11, <2>2, <2>4, <2>6 DEF DisplayInv, StageSound
<1>13. CASE ~o.ok
  <2>1. overlay' = overlay
    BY <1>1, <1>13
  <2>2. OverlaySound'
    BY <1>2, <2>1 DEF PanelSound, OverlaySound, CommittedAreas
  <2>3. RepairSound'
    <3>1. \/ o.repair = repair["OVERLAY"]
          \/ o.repair = {}
          \/ o.repair = affected /\ Fits(affected)
      BY <1>1, <1>6, PresentRecords
    <3> QED BY <1>2, <1>4, <1>9, <2>1, <3>1 DEF PanelSound, RepairSound
  <2>4. ASSUME NEW c \in Cells, c \notin stale', c \notin unrecorded', c \notin UNION repair'["BASE"],
               c \notin UNION repair'["OVERLAY"]
        PROVE  panel'[c] = Shown'[c]
    <3>1. Shown' = Shown
      BY <1>7, <2>1 DEF Shown
    <3>2. /\ c \notin o.reached => o.panel[c] = panel[c]
          /\ c \in o.reached => o.panel[c] = Shown[c]
          /\ c \in Torn("OVERLAY") => c \in o.reached
      <4>1. c \notin UNION o.repair /\ c \notin o.unrecorded
        BY <1>5, <1>9, <2>4
      <4> QED BY <1>1, <1>6, <1>13, <4>1, PresentLeaves
    <3>3. CASE c \in o.reached
      BY <1>5, <3>1, <3>2, <3>3
    <3>4. CASE c \notin o.reached
      <4>1. /\ c \notin stale /\ c \notin unrecorded
            /\ c \notin Torn("BASE") /\ c \notin Torn("OVERLAY")
        BY <1>5, <1>9, <2>4, <3>2, <3>4 DEF Torn
      <4>2. panel[c] = Shown[c]
        BY <1>2, <1>7, <4>1, CommittedCell
      <4> QED BY <1>5, <3>1, <3>2, <3>4, <4>2
    <3> QED BY <3>3, <3>4
  <2>5. PanelShowsCommitted'
    BY <1>9, <2>4, CommittedPanel
  <2> QED BY <1>11, <2>2, <2>3, <2>5 DEF DisplayInv, StageSound
<1>14. o.ok \in BOOLEAN
  BY <1>1, <1>6, PresentRecords
<1> QED BY <1>11, <1>12, <1>13, <1>14

\* The batch before the first command.
LEMMA NoStageSound == SoundStage(NoStage)
<1>1. NoStage \in Stages
  <2>1. Blank \in Slots
    BY DEF Blank, Slots
  <2> QED BY <2>1, Bounds DEF NoStage, Stages
<1>2. StagedAreas(NoStage) = {} /\ NoStage.count = 0 /\ NoStage.dirty = {}
  BY DEF NoStage, StagedAreas
<1>3. JoinOf({}, {})
  BY DEF JoinOf, Separate, Within
<1>4. Fits({})
  BY SmallFits
<1> HIDE DEF StagedAreas
<1>5. \A i \in 1..NoStage.count : NoStage.slots[i].area # {}
  BY <1>2
<1> QED BY <1>1, <1>2, <1>3, <1>4, <1>5 DEF SoundStage

\* An empty list of commands has no areas.
LEMMA NoAreas ==
  ASSUME NEW commands, commands = <<>>, NEW D
  PROVE  Within({commands[i].area : i \in DOMAIN commands}, D)
<1>1. DOMAIN commands = {}
  OBVIOUS
<1> QED BY <1>1 DEF Within

(***************************************************************************)
(* k210_display_close adds the repair list and the dirty list of the       *)
(* overlay to its cleanup list and ignores when one does not fit.  None is *)
(* lost: the list is the repair list whole, which contains the overlay, or *)
(* the overlay's own.                                                      *)
(***************************************************************************)
THEOREM CleanupForgetsNothing ==
  ASSUME PanelSound
  PROVE  LET cleanup == DirtyAllOr(DirtyAllOr({}, repair["OVERLAY"]), overlay.dirty)
         IN  /\ Within(repair["OVERLAY"], cleanup)
             /\ Within(overlay.dirty, cleanup)
<1>1. Separate(overlay.dirty) /\ Fits(overlay.dirty) /\ overlay.dirty \in SUBSET Rects
  BY DEF PanelSound, OverlaySound, Separate
<1>2. \A D : Within(D, D)
  BY DEF Within
<1>3. CASE repair["OVERLAY"] = {}
  <2>1. DirtyAllOr({}, repair["OVERLAY"]) = {}
    <3>1. Separate({})
      BY DEF Separate
    <3> QED BY <1>3, <3>1, SmallFits, CopyIsWhole
  <2>2. DirtyAllOr({}, overlay.dirty) = overlay.dirty
    BY <1>1, CopyIsWhole
  <2> QED BY <1>2, <1>3, <2>1, <2>2 DEF Within
<1>4. CASE repair["OVERLAY"] # {}
  <2>1. /\ Separate(repair["OVERLAY"]) /\ Fits(repair["OVERLAY"])
        /\ Within(overlay.dirty, repair["OVERLAY"])
    BY <1>4 DEF PanelSound, RepairSound
  <2>2. DirtyAllOr({}, repair["OVERLAY"]) = repair["OVERLAY"]
    BY <2>1, CopyIsWhole
  <2>3. DirtyAllOr(repair["OVERLAY"], overlay.dirty) = repair["OVERLAY"]
    BY <1>1, <2>1, AddWithinKeeps
  <2> QED BY <1>2, <2>1, <2>2, <2>3
<1> QED BY <1>3, <1>4

\* The end of a run takes the overlay off the panel, keeps it, or leaves the
\* display quarantined.
LEMMA ScriptEndsSound ==
  ASSUME DisplayInv, ScriptEnds
  PROVE  DisplayInv'
<1> DEFINE cleanup == DirtyAllOr(DirtyAllOr({}, repair["OVERLAY"]), overlay.dirty)
<1>1. PanelSound
  BY DEF DisplayInv, PanelSound
<1>2. Within(repair["OVERLAY"], cleanup) /\ Within(overlay.dirty, cleanup)
  BY <1>1, CleanupForgetsNothing
<1>3. /\ shadow' = shadow /\ stage' = NoStage /\ script = "open"
      /\ \/ /\ panel' = Transferred(panel, shadow, UNION cleanup)
            /\ stale' = stale \ UNION cleanup
            /\ unrecorded' = unrecorded \ UNION cleanup
            /\ overlay' = [commands |-> <<>>, dirty |-> {}]
            /\ repair' = [repair EXCEPT !["OVERLAY"] = {}]
         \/ \E cells \in SUBSET UNION cleanup :
              /\ panel' = Transferred(panel, shadow, cells)
              /\ stale' = stale \ cells
              /\ \/ script' = "quarantined"
                 \/ unrecorded' = (unrecorded \ cells)
                                   \cup {x \in cells : Shown[x] # shadow[x]}
              /\ UNCHANGED <<overlay, repair>>
  BY DEF ScriptEnds, uiVars
<1> HIDE DEF cleanup
<1>4. repair \in [Planes -> SUBSET Rects] /\ "BASE" \in Planes /\ "OVERLAY" \in Planes
  BY <1>1 DEF PanelSound, RepairSound, Planes
<1>5. SoundStage(stage') /\ Usable
  BY <1>3, NoStageSound DEF Usable
<1>6. CASE /\ panel' = Transferred(panel, shadow, UNION cleanup)
           /\ stale' = stale \ UNION cleanup
           /\ unrecorded' = unrecorded \ UNION cleanup
           /\ overlay' = [commands |-> <<>>, dirty |-> {}]
           /\ repair' = [repair EXCEPT !["OVERLAY"] = {}]
  <2>1. repair' \in [Planes -> SUBSET Rects] /\ repair'["OVERLAY"] = {}
        /\ repair'["BASE"] = repair["BASE"]
    BY <1>4, <1>6
  <2>2. RepairSound'
    BY <2>1 DEF RepairSound
  <2>3. OverlaySound'
    <3>1. overlay' = [commands |-> <<>>, dirty |-> {}]
      BY <1>6
    <3>2. overlay'.commands = <<>> /\ overlay'.dirty = {}
      BY <3>1
    <3>3. Separate({}) /\ Fits({})
      BY SmallFits DEF Separate
    <3> QED BY <3>2, <3>3, NoAreas DEF OverlaySound, CommittedAreas
  <2>4. ASSUME NEW c \in Cells, c \notin stale', c \notin unrecorded', c \notin UNION repair'["BASE"],
               c \notin UNION repair'["OVERLAY"]
        PROVE  panel'[c] = Shown'[c]
    <3>1. Shown'[c] = shadow[c]
      <4>1. overlay'.commands = <<>>
        BY <1>6
      <4>2. Painted(shadow, <<>>)[c] = shadow[c]
        BY PaintedCells
      <4> QED BY <1>3, <4>1, <4>2 DEF Shown
    <3>2. CASE c \in UNION cleanup
      BY <1>6, <3>1, <3>2 DEF Transferred
    <3>3. CASE c \notin UNION cleanup
      <4>1. c \notin UNION repair["OVERLAY"] /\ c \notin UNION overlay.dirty
        BY <1>2, <3>3, WithinUnion
      <4>2. panel[c] = Shown[c]
        BY <1>1, <1>5, <1>6, <2>1, <2>4, <3>3, <4>1, CommittedCell DEF Torn
      <4>3. \A i \in DOMAIN overlay.commands : c \notin overlay.commands[i].area
        BY <1>1, <4>1, UnpaintedCell DEF PanelSound, OverlaySound, CommittedAreas
      <4>4. Shown[c] = shadow[c]
        BY <4>3, PaintedCells DEF Shown
      <4>5. panel'[c] = panel[c]
        BY <1>6, <3>3 DEF Transferred
      <4> QED BY <3>1, <4>2, <4>4, <4>5
    <3> QED BY <3>2, <3>3
  <2>5. PanelShowsCommitted'
    BY <2>1, <2>4, CommittedPanel
  <2> QED BY <1>5, <2>2, <2>3, <2>5 DEF DisplayInv, StageSound
<1>7. CASE \E cells \in SUBSET UNION cleanup :
              /\ panel' = Transferred(panel, shadow, cells)
              /\ stale' = stale \ cells
              /\ \/ script' = "quarantined"
                 \/ unrecorded' = (unrecorded \ cells)
                                   \cup {x \in cells : Shown[x] # shadow[x]}
              /\ UNCHANGED <<overlay, repair>>
  <2>1. PICK cells \in SUBSET UNION cleanup :
              /\ panel' = Transferred(panel, shadow, cells)
              /\ stale' = stale \ cells
              /\ \/ script' = "quarantined"
                 \/ unrecorded' = (unrecorded \ cells)
                                   \cup {x \in cells : Shown[x] # shadow[x]}
              /\ UNCHANGED <<overlay, repair>>
    BY <1>7
  <2>2. OverlaySound' /\ RepairSound'
    BY <1>1, <2>1 DEF PanelSound, OverlaySound, RepairSound, CommittedAreas
  <2>3. CASE script' = "quarantined"
    BY <1>5, <2>1, <2>2, <2>3 DEF DisplayInv, StageSound, PanelShowsCommitted, Usable
  <2>4. CASE unrecorded' = (unrecorded \ cells) \cup {x \in cells : Shown[x] # shadow[x]}
    <3>1. ASSUME NEW c \in Cells, c \notin stale', c \notin unrecorded', c \notin UNION repair'["BASE"],
                 c \notin UNION repair'["OVERLAY"]
          PROVE  panel'[c] = Shown'[c]
      <4>1. CASE c \notin cells
        <5>1. panel[c] = Shown[c]
          BY <1>1, <1>5, <2>1, <2>4, <3>1, <4>1, CommittedCell DEF Torn
        <5>2. panel'[c] = panel[c]
          BY <2>1, <4>1 DEF Transferred
        <5> QED BY <1>3, <2>1, <5>1, <5>2 DEF Shown
      <4>2. CASE c \in cells
        <5>1. Shown[c] = shadow[c]
          BY <2>4, <3>1, <4>2
        <5>2. panel'[c] = shadow[c]
          BY <2>1, <4>2 DEF Transferred
        <5> QED BY <1>3, <2>1, <5>1, <5>2 DEF Shown
      <4> QED BY <4>1, <4>2
    <3>2. PanelShowsCommitted'
      BY <1>4, <2>1, <3>1, CommittedPanel
    <3> QED BY <1>5, <2>2, <3>2 DEF DisplayInv, StageSound
  <2> QED BY <2>1, <2>3, <2>4
<1> QED BY <1>3, <1>6, <1>7

\* Everything is black at the start and after a restart.
LEMMA DisplayStarts ==
  DisplayInit => DisplayInv
<1> SUFFICES ASSUME DisplayInit
             PROVE  DisplayInv
  OBVIOUS
<1>1. StageSound
  BY NoStageSound DEF DisplayInit, StageSound
<1>2. OverlaySound
  <2>1. overlay = [commands |-> <<>>, dirty |-> {}]
    BY DEF DisplayInit
  <2>2. overlay.commands = <<>> /\ overlay.dirty = {}
    BY <2>1
  <2>3. Separate({}) /\ Fits({})
    BY SmallFits DEF Separate
  <2> QED BY <2>2, <2>3, NoAreas DEF OverlaySound, CommittedAreas
<1>3. RepairSound
  BY DEF DisplayInit, RepairSound, Planes
<1>4. PanelShowsCommitted
  <2>1. Shown = [c \in Cells |-> Black[c]]
    BY DEF DisplayInit, Shown, Painted
  <2> QED BY <2>1 DEF DisplayInit, PanelShowsCommitted, Black
<1> QED BY <1>1, <1>2, <1>3, <1>4 DEF DisplayInv

LEMMA RestartSound ==
  ASSUME Restart
  PROVE  DisplayInv'
<1>1. StageSound'
  BY NoStageSound DEF Restart, StageSound
<1>2. OverlaySound'
  <2>1. overlay' = [commands |-> <<>>, dirty |-> {}]
    BY DEF Restart
  <2>2. overlay'.commands = <<>> /\ overlay'.dirty = {}
    BY <2>1
  <2>3. Separate({}) /\ Fits({})
    BY SmallFits DEF Separate
  <2> QED BY <2>2, <2>3, NoAreas DEF OverlaySound, CommittedAreas
<1>3. RepairSound'
  BY DEF Restart, RepairSound, Planes
<1>4. PanelShowsCommitted'
  <2>1. Shown' = [c \in Cells |-> Black[c]]
    BY DEF Restart, Shown, Painted
  <2> QED BY <2>1 DEF Restart, PanelShowsCommitted, Black
<1> QED BY <1>1, <1>2, <1>3, <1>4 DEF DisplayInv

\* Drawing in place without a present leaves stale cells.
LEMMA DrawingLeavesStale ==
  ASSUME PanelSound, NEW area,
         \A c \in Cells : c \notin area => shadow'[c] = shadow[c],
         stale' = stale \cup area, UNCHANGED <<panel, repair, unrecorded, overlay>>,
         Usable' => Usable
  PROVE  PanelSound'
<1>1. OverlaySound' /\ RepairSound'
  BY DEF PanelSound, OverlaySound, RepairSound, CommittedAreas
<1>2. CASE Usable'
  <2>1. repair' \in [Planes -> SUBSET Rects]
    BY <1>1 DEF RepairSound
  <2>2. ASSUME NEW c \in Cells, c \notin stale', c \notin unrecorded', c \notin UNION repair'["BASE"],
               c \notin UNION repair'["OVERLAY"]
        PROVE  panel'[c] = Shown'[c]
    <3>1. panel[c] = Shown[c]
      BY <1>2, <2>2, CommittedCell DEF Torn
    <3>2. Shown'[c] = Shown[c]
      BY <2>2, PaintedCells DEF Shown
    <3> QED BY <3>1, <3>2
  <2>3. PanelShowsCommitted'
    BY <2>1, <2>2, CommittedPanel
  <2> QED BY <1>1, <2>3 DEF PanelSound
<1>3. CASE ~Usable'
  BY <1>1, <1>3 DEF PanelSound, PanelShowsCommitted
<1> QED BY <1>2, <1>3

\* The steps of the views.
LEMMA ViewSteps ==
  ASSUME DisplayInv,
         \/ \E a \in Areas, k \in Colours : UiDraws(a, k) \/ FrameDraws(a, k)
         \/ \E areas \in (SUBSET Areas) \ {{}} : FramePresent(areas)
         \/ FrameAcquire \/ FrameCancel
  PROVE  DisplayInv' /\ UNCHANGED scriptVars
<1>1. PanelSound /\ SoundStage(stage)
  BY DEF DisplayInv, PanelSound, StageSound
<1>2. ASSUME PanelSound', UNCHANGED scriptVars
      PROVE  DisplayInv' /\ UNCHANGED scriptVars
  BY <1>1, <1>2 DEF DisplayInv, PanelSound, StageSound, scriptVars
<1>3. \A area, colour : \A c \in Cells : c \notin area => Drawn(area, colour)[c] = shadow[c]
  BY DEF Drawn
<1>4. ASSUME NEW a \in Areas, NEW k \in Colours, UiDraws(a, k)
      PROVE  PanelSound' /\ UNCHANGED scriptVars
  <2>1. /\ Usable /\ shadow' = Drawn(a, k) /\ SurfacePresented({a}, shadow', a)
        /\ UNCHANGED scriptVars /\ overlay' = overlay
    BY <1>4 DEF UiDraws, scriptVars
  <2>2. \A c \in Cells : c \notin a => shadow'[c] = shadow[c]
    BY <1>3, <2>1
  <2>3. {a} \in SUBSET Areas
    OBVIOUS
  <2>4. PanelSound'
    BY <1>1, <2>1, <2>2, <2>3, ViewPresents
  <2> QED BY <2>1, <2>4
<1>5. ASSUME NEW a \in Areas, NEW k \in Colours, FrameDraws(a, k)
      PROVE  PanelSound' /\ UNCHANGED scriptVars
  <2>1. /\ shadow' = Drawn(a, k) /\ stale' = stale \cup a
        /\ UNCHANGED <<panel, repair, unrecorded, overlay>>
        /\ UNCHANGED scriptVars /\ (Usable' => Usable)
    BY <1>5 DEF FrameDraws, scriptVars, Usable
  <2>2. \A c \in Cells : c \notin a => shadow'[c] = shadow[c]
    BY <1>3, <2>1
  <2> QED BY <1>1, <2>1, <2>2, DrawingLeavesStale
<1>6. ASSUME NEW areas \in (SUBSET Areas) \ {{}}, FramePresent(areas)
      PROVE  PanelSound' /\ UNCHANGED scriptVars
  <2>1. /\ Usable /\ shadow' = shadow /\ UNCHANGED scriptVars /\ overlay' = overlay
        /\ (Usable' => Usable)
        /\ SurfacePresented(areas, shadow, {}) \/ UNCHANGED panelVars
    BY <1>6 DEF FramePresent, scriptVars, Usable
  <2>2. CASE SurfacePresented(areas, shadow, {})
    <3>1. SurfacePresented(areas, shadow', {})
      BY <2>1, <2>2
    <3>2. \A c \in Cells : c \notin {} => shadow'[c] = shadow[c]
      BY <2>1
    <3>3. PanelSound'
      BY <1>1, <2>1, <3>1, <3>2, ViewPresents
    <3> QED BY <2>1, <3>3
  <2>3. CASE UNCHANGED panelVars
    BY <1>1, <2>1, <2>3, CallLeavesPanel
  <2> QED BY <2>1, <2>2, <2>3
<1>7. CASE FrameAcquire \/ FrameCancel
  <2>1. UNCHANGED <<panelVars, shadow, overlay>> /\ UNCHANGED scriptVars
        /\ (Usable' => Usable)
    BY <1>7 DEF FrameAcquire, FrameCancel, scriptVars, Usable
  <2>2. PanelSound'
    BY <1>1, <2>1, CallLeavesPanel
  <2> QED BY <1>2, <2>1, <2>2
<1> QED BY <1>2, <1>4, <1>5, <1>6, <1>7

\* Every step keeps the invariant.
LEMMA DisplayStep ==
  ASSUME DisplayInv, [DisplayNext]_displayVars
  PROVE  DisplayInv'
<1>1. PanelSound /\ SoundStage(stage)
  BY DEF DisplayInv, PanelSound, StageSound
<1>2. CASE \/ \E a \in Areas, k \in Colours : UiDraws(a, k) \/ FrameDraws(a, k)
           \/ \E areas \in (SUBSET Areas) \ {{}} : FramePresent(areas)
           \/ FrameAcquire \/ FrameCancel
  BY <1>2, ViewSteps
<1>3. CASE OtherBorrows \/ OtherReturns \/ UNCHANGED displayVars
  <2>1. UNCHANGED <<panelVars, shadow, overlay>> /\ stage' = stage
        /\ (Usable' => Usable)
    BY <1>3 DEF OtherBorrows, OtherReturns, displayVars, uiVars, scriptVars, Usable
  <2>2. PanelSound'
    BY <1>1, <2>1, CallLeavesPanel
  <2> QED BY <1>1, <2>1, <2>2 DEF DisplayInv, PanelSound, StageSound
<1>4. CASE ScriptStarts
  <2>1. UNCHANGED <<panelVars, shadow, overlay>> /\ stage' = NoStage
        /\ (Usable' => Usable)
    BY <1>4 DEF ScriptStarts, uiVars, Usable, None
  <2>2. PanelSound'
    BY <1>1, <2>1, CallLeavesPanel
  <2> QED BY <2>1, <2>2, NoStageSound DEF DisplayInv, PanelSound, StageSound
<1>5. CASE ScriptPresents
  BY <1>5, ScriptPresentsSound
<1>6. CASE ScriptEnds
  BY <1>6, ScriptEndsSound
<1>7. CASE Restart
  BY <1>7, RestartSound
<1>8. CASE \E k \in ScriptColours, undone \in BOOLEAN : ScriptClears(k, undone)
  BY <1>8, ClearSound
<1>9. CASE \E a \in Areas, k \in ScriptColours, undone \in BOOLEAN :
             ScriptRect(a, k, undone) \/ ScriptText(a, k, undone)
  BY <1>9, RectSound, TextSound
<1> QED BY <1>2, <1>3, <1>4, <1>5, <1>6, <1>7, <1>8, <1>9 DEF DisplayNext

(***************************************************************************)
(* Wherever no plane has a repair recorded and no view has drawn without   *)
(* presenting, the panel shows the committed overlay on the backing store, *)
(* however many transfers stopped on their way, but for the cells that a   *)
(* transfer changed which was cut off in its first slice                   *)
(* (display_adapter.c:578), for any screen, rectangles, slices and sizes of*)
(* the command and dirty lists.                                            *)
(***************************************************************************)
THEOREM PanelShowsCommittedHolds == DisplaySpec => []PanelShowsCommitted
<1>1. DisplayInit => DisplayInv
  BY DisplayStarts
<1>2. DisplayInv /\ [DisplayNext]_displayVars => DisplayInv'
  BY DisplayStep
<1>3. DisplayInv => PanelShowsCommitted
  BY DEF DisplayInv
<1> QED BY <1>1, <1>2, <1>3, PTL DEF DisplaySpec

(***************************************************************************)
(* The lists the adapter keeps are sound: the dirty list of the batch is   *)
(* the one its commands determine, the committed overlay paints only within*)
(* its own, and a pending repair of the overlay contains it.               *)
(***************************************************************************)
THEOREM DisplayListsSound == DisplaySpec => [](StageSound /\ OverlaySound /\ RepairSound)
<1>1. DisplayInit => DisplayInv
  BY DisplayStarts
<1>2. DisplayInv /\ [DisplayNext]_displayVars => DisplayInv'
  BY DisplayStep
<1>3. DisplayInv => StageSound /\ OverlaySound /\ RepairSound
  BY DEF DisplayInv
<1> QED BY <1>1, <1>2, <1>3, PTL DEF DisplaySpec

\* A call that is undone, or a present, leaves the script's drawing.
LEMMA UndoneStep ==
  ASSUME DisplayInv,
         \/ \E k \in ScriptColours : ScriptClears(k, TRUE)
         \/ \E a \in Areas, k \in ScriptColours :
              ScriptRect(a, k, TRUE) \/ ScriptText(a, k, TRUE)
         \/ ScriptPresents
  PROVE  Drawing' = Drawing
<1>1. TRUE \in BOOLEAN
  OBVIOUS
<1> QED BY <1>1, ClearSound, RectSound, TextSound, ScriptPresentsSound

(***************************************************************************)
(* A display call that is refused or cancelled leaves the script's drawing *)
(* as it was, command for command, and so does a present, for any number of*)
(* commands and rectangles.                                                *)
(***************************************************************************)
THEOREM UndoneCallsLeaveNoTraceHolds == DisplaySpec => UndoneCallsLeaveNoTrace
<1>1. DisplayInit => DisplayInv
  BY DisplayStarts
<1>2. DisplayInv /\ [DisplayNext]_displayVars => DisplayInv'
  BY DisplayStep
<1>3. DisplayInv /\ [DisplayNext]_displayVars =>
        [Drawing' # Drawing =>
           ~ \/ \E k \in ScriptColours : ScriptClears(k, TRUE)
             \/ \E a \in Areas, k \in ScriptColours :
                  ScriptRect(a, k, TRUE) \/ ScriptText(a, k, TRUE)
             \/ ScriptPresents]_stage
  BY UndoneStep
<1> QED BY <1>1, <1>2, <1>3, PTL DEF DisplaySpec, UndoneCallsLeaveNoTrace
=============================================================================
