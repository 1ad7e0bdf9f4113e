----------------------------- MODULE CameraStream -----------------------------
(***************************************************************************)
(* drivers/camera_stream.c over hal/hal_dvp.c: the camera writes frames    *)
(* into the slots of the frame pool by DMA, one conversion at a time, and  *)
(* the main loop leases the newest finished one.                           *)
(*                                                                         *)
(* The main loop touches the slots only with the DVP interrupt masked, so  *)
(* each of its operations is one step; the interrupt handler, which        *)
(* preempts the main loop and is not preempted by it, is another.  The     *)
(* sensor and the DVP block run on their own.  Pixels are not modelled:    *)
(* what counts is who may touch the buffer of a slot.                      *)
(***************************************************************************)
EXTENDS Integers

CONSTANTS
  SlotCount,    \* FRAME_POOL_CAMERA_SLOT_COUNT
  MaxSequence,  \* bound on the frames of one session
  MaxLeaseId    \* UINT32_MAX for lease ids, which wrap past it and skip 0

\* Three lease ids are enough for two leases never to share one, as
\* CameraCaptureProofs shows; the code has 2^32 - 1.
ASSUME StreamAssumption ==
  /\ SlotCount \in Nat \ {0}
  /\ MaxSequence \in Nat \ {0}
  /\ MaxLeaseId \in Nat /\ MaxLeaseId >= 3

Slots == 0 .. SlotCount - 1
None  == -1                     \* no slot

VARIABLES
  stream,   \* g_slots, g_running, g_paused, ... of camera_stream.c
  dvp,      \* the DVP block: interrupt enable, flags, current conversion
  pool      \* the frame pool: who has the memory of the slots

Slot == [state : {"FREE", "CAPTURING", "READY", "LEASED"},
         sequence : 0 .. MaxSequence, lease_id : 0 .. MaxLeaseId]

StreamType ==
  [slots : [Slots -> Slot], running : BOOLEAN, paused : BOOLEAN,
   sync_pending : BOOLEAN, capture_slot : Slots \cup {None},
   next_sequence : 0 .. MaxSequence, next_lease_id : 0 .. MaxLeaseId]

DvpType == [irq : BOOLEAN, start : BOOLEAN, finish : BOOLEAN,
            converting : BOOLEAN, addr : Slots]

FreeSlots == [s \in Slots |-> [state |-> "FREE", sequence |-> 0, lease_id |-> 0]]

StreamInit ==
  /\ stream = [slots |-> FreeSlots, running |-> FALSE, paused |-> FALSE,
               sync_pending |-> FALSE, capture_slot |-> None,
               next_sequence |-> 0, next_lease_id |-> 0]
  /\ dvp = [irq |-> FALSE, start |-> FALSE, finish |-> FALSE,
            converting |-> FALSE, addr |-> 0]

-----------------------------------------------------------------------------
(* The interrupt handler                                                   *)

In(c, state) == {s \in Slots : c.slots[s].state = state}

\* camera_stream_capture_candidate: the first free slot, else the oldest
\* finished frame nobody has asked for; no slot when all are leased.
CaptureCandidates(c) ==
  IF In(c, "FREE") # {}
  THEN {s \in In(c, "FREE") : \A t \in In(c, "FREE") : s <= t}
  ELSE {s \in In(c, "READY") :
          \A t \in In(c, "READY") : c.slots[s].sequence <= c.slots[t].sequence}

\* mutant: a finish that comes while the stream is paused is ignored
OnFinish_NotPaused(c) ==
  IF ~c.running \/ c.paused \/ c.capture_slot = None THEN c
  ELSE [c EXCEPT !.slots[c.capture_slot].sequence = c.next_sequence + 1,
                 !.slots[c.capture_slot].state = "READY",
                 !.next_sequence = @ + 1, !.capture_slot = None]

\* HAL_DVP_EVENT_FRAME_FINISH
OnFinish(c) ==
  IF c.capture_slot # None /\ c.slots[c.capture_slot].state = "CAPTURING"
  THEN [c EXCEPT !.slots[c.capture_slot].sequence = c.next_sequence + 1,
                 !.slots[c.capture_slot].state = "READY",
                 !.next_sequence = @ + 1, !.capture_slot = None]
  ELSE c

\* HAL_DVP_EVENT_FRAME_START: the first one after a start or a resume is
\* let pass, so that no conversion begins in the middle of a frame.
OnStart(c) ==
  IF ~c.running \/ c.paused \/ c.capture_slot # None THEN c
  ELSE IF c.sync_pending THEN [c EXCEPT !.sync_pending = FALSE]
  ELSE IF CaptureCandidates(c) = {} THEN c
  ELSE LET s == CHOOSE s \in CaptureCandidates(c) : TRUE
       IN  [c EXCEPT !.slots[s].state = "CAPTURING", !.capture_slot = s]

\* hal_dvp_irq_handler: one snapshot of the flags, finish before start.  A
\* conversion begun by the start event (hal_dvp_start_convert) writes to
\* the slot just chosen.
Interrupt ==
  LET finished == IF dvp.finish THEN OnFinish(stream) ELSE stream
      started  == IF dvp.start THEN OnStart(finished) ELSE finished
      begins   == finished.capture_slot # started.capture_slot
  IN  /\ dvp.irq
      /\ dvp.start \/ dvp.finish
      /\ stream' = started
      /\ dvp' = [dvp EXCEPT !.start = FALSE, !.finish = FALSE,
                   !.converting = @ \/ begins,
                   !.addr = IF begins THEN started.capture_slot ELSE @]

\* The sensor begins a frame, as long as the frame has a sequence within the
\* bound; the DVP block ends the conversion under way.
FrameStart ==
  /\ ~dvp.start
  /\ stream.next_sequence + (IF stream.capture_slot = None THEN 0 ELSE 1)
       < MaxSequence
  /\ dvp' = [dvp EXCEPT !.start = TRUE]
  /\ UNCHANGED stream

FrameFinish ==
  /\ dvp.converting
  /\ dvp' = [dvp EXCEPT !.finish = TRUE, !.converting = FALSE]
  /\ UNCHANGED stream

-----------------------------------------------------------------------------
(* Operations of the main loop                                             *)

\* hal_dvp_irq_stop and hal_dvp_stop_capture, reached when the stream runs.
DvpStopped == [dvp EXCEPT !.irq = FALSE, !.start = FALSE, !.finish = FALSE,
                          !.converting = FALSE]

\* mutant: stopping the interrupt is taken for stopping the conversion
Stop_Converting ==
  /\ stream' = [stream EXCEPT !.running = FALSE, !.paused = TRUE,
                  !.sync_pending = TRUE, !.capture_slot = None,
                  !.slots = [s \in Slots |->
                    [@[s] EXCEPT !.state = "FREE", !.lease_id = 0]]]
  /\ dvp' = IF stream.running
            THEN [dvp EXCEPT !.irq = FALSE, !.start = FALSE, !.finish = FALSE]
            ELSE dvp
  /\ pool' = [pool EXCEPT !.reserved = FALSE]

\* camera_stream_stop
Stop ==
  /\ stream' = [stream EXCEPT !.running = FALSE, !.paused = TRUE,
                  !.sync_pending = TRUE, !.capture_slot = None,
                  !.slots = [s \in Slots |->
                    [@[s] EXCEPT !.state = "FREE", !.lease_id = 0]]]
  /\ dvp' = IF stream.running THEN DvpStopped ELSE dvp
  /\ pool' = [pool EXCEPT !.reserved = FALSE]

\* camera_stream_start, which stops first and fails when the memory of the
\* slots is lent out (frame_pool_camera_reserve).
Start ==
  IF pool.borrowed # 0
  THEN Stop
  ELSE /\ stream' = [slots |-> FreeSlots, running |-> TRUE, paused |-> FALSE,
                     sync_pending |-> TRUE, capture_slot |-> None,
                     next_sequence |-> 0, next_lease_id |-> 0]
       /\ dvp' = [irq |-> TRUE, start |-> FALSE, finish |-> FALSE,
                  converting |-> FALSE, addr |-> 0]
       /\ pool' = [pool EXCEPT !.reserved = TRUE]

\* camera_stream_pause: a conversion under way is left to finish.
Pause ==
  /\ stream' = IF stream.running THEN [stream EXCEPT !.paused = TRUE] ELSE stream
  /\ UNCHANGED <<dvp, pool>>

\* camera_stream_resume: frames finished before the pause are thrown away.
Resume ==
  /\ stream' =
       IF ~stream.running THEN stream
       ELSE [stream EXCEPT !.paused = FALSE, !.sync_pending = TRUE,
               !.slots = [s \in Slots |->
                 IF @[s].state = "READY" THEN [@[s] EXCEPT !.state = "FREE"]
                 ELSE @[s]]]
  /\ dvp' = IF stream.running THEN [dvp EXCEPT !.start = FALSE] ELSE dvp
  /\ UNCHANGED pool

NewestReady ==
  {s \in In(stream, "READY") :
     \A t \in In(stream, "READY") :
       stream.slots[t].sequence <= stream.slots[s].sequence}

NextLeaseId ==
  IF stream.next_lease_id = MaxLeaseId THEN 1 ELSE stream.next_lease_id + 1

\* mutant: older finished frames stay where they are
AcquireLatest_KeepOlder(s) ==
  /\ stream.running
  /\ s \in NewestReady
  /\ stream' = [stream EXCEPT !.next_lease_id = NextLeaseId,
       !.slots[s].lease_id = NextLeaseId, !.slots[s].state = "LEASED"]
  /\ UNCHANGED <<dvp, pool>>

\* camera_stream_acquire_latest, delivering slot s: the newest frame is
\* leased and every older one freed.
AcquireLatest(s) ==
  /\ stream.running
  /\ s \in NewestReady
  /\ stream' = [stream EXCEPT !.next_lease_id = NextLeaseId,
       !.slots = [t \in Slots |->
         CASE t = s -> [@[t] EXCEPT !.lease_id = NextLeaseId, !.state = "LEASED"]
           [] t \in In(stream, "READY") \ {s} -> [@[t] EXCEPT !.state = "FREE"]
           [] OTHER -> @[t]]]
  /\ UNCHANGED <<dvp, pool>>

\* The slot a call of camera_stream_release gives back: the first leased
\* one with that id.
ReleasedBy(lease) ==
  LET named == {s \in In(stream, "LEASED") : stream.slots[s].lease_id = lease}
  IN  {s \in named : lease # 0 /\ stream.running /\ \A t \in named : s <= t}

\* camera_stream_release
Release(lease) ==
  /\ stream' = [stream EXCEPT !.slots = [s \in Slots |->
       IF s \in ReleasedBy(lease)
       THEN [@[s] EXCEPT !.lease_id = 0, !.state = "FREE"] ELSE @[s]]]
  /\ UNCHANGED <<dvp, pool>>
===============================================================================
