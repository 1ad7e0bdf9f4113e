---------------------------- MODULE Core1Executor -----------------------------
(***************************************************************************)
(* services/core1_executor.c: the mailbox through which hart 0 gives hart 1 *)
(* one job at a time.  The two harts are not cache coherent and share only  *)
(* this record, in uncached memory.  A job is published by its ticket and   *)
(* finished when hart 1 copies the ticket back.                             *)
(***************************************************************************)
EXTENDS Integers

CONSTANT MaxTickets   \* bound of the model on request_ticket (uint32_t)

VARIABLES
  executor,   \* core1_executor_control_t
  boot        \* where hal_core1_start has brought hart 1

executor_vars == <<executor, boot>>

ExecutorInit ==
  /\ executor = [started |-> FALSE, start_failed |-> FALSE, online |-> FALSE,
                 request_ticket |-> 0, complete_ticket |-> 0, job |-> "none"]
  /\ boot = "off"

-----------------------------------------------------------------------------
(* Hart 0                                                                  *)

core1_executor_idle ==
  executor.online /\ executor.request_ticket = executor.complete_ticket

core1_executor_complete(ticket) ==
  ticket # 0 /\ executor.complete_ticket >= ticket

NextTicket == executor.request_ticket + 1

\* core1_executor_submit once it found the executor idle: the job is stored
\* before the ticket that publishes it.
Submit(job) ==
  executor' = [executor EXCEPT !.job = job, !.request_ticket = NextTicket]

\* The first part of core1_executor_init: start hart 1 once.
StartCore1(result) ==
  /\ ~executor.online /\ ~executor.start_failed /\ ~executor.started
  /\ executor' = [executor EXCEPT !.started = TRUE, !.start_failed = ~result]
  /\ boot' = IF result THEN "starting" ELSE "off"

\* Its last part: 250 ms have passed and hart 1 has not come online.
Core1StartTimeout ==
  /\ executor.started /\ ~executor.online
  /\ executor' = [executor EXCEPT !.start_failed = TRUE]
  /\ UNCHANGED boot

-----------------------------------------------------------------------------
(* Hart 1                                                                  *)

\* core1_executor_loop announces itself, however late.
Core1Online ==
  /\ boot = "starting"
  /\ boot' = "looping"
  /\ executor' = [executor EXCEPT !.online = TRUE]

HasJob(job) ==
  /\ boot = "looping"
  /\ executor.request_ticket # executor.complete_ticket
  /\ executor.job = job

CompleteJob ==
  executor' = [executor EXCEPT !.complete_ticket = executor.request_ticket]
===============================================================================
