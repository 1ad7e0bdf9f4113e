--------------------------- MODULE ExternalLinkTarget ---------------------------
(***************************************************************************)
(* capabilities/external_link_adapter.c as an I2C target: the interrupt    *)
(* handlers take a master's transactions in two payload buffers and a      *)
(* window of two completed-transaction events, which the main loop polls;  *)
(* the main loop arms the response of the next READ in one of the same     *)
(* buffers.  Each callback of the interrupt and each section the main loop *)
(* runs under the target lock is one step.                                 *)
(*                                                                         *)
(* A payload is a sequence of bytes, its size its length: the sizes kept   *)
(* beside the buffers are not separate.  app keeps what an outside         *)
(* observer knows: the transactions completed and not yet polled, and the  *)
(* response the application armed.                                         *)
(***************************************************************************)
EXTENDS Naturals, Sequences, SequencesExt

CONSTANTS
  Bytes,         \* the bytes a payload is made of
  MaxBytes,      \* K210_EXTERNAL_MAX_BYTES
  Capacity,      \* K210_EXTERNAL_TARGET_EVENT_CAPACITY
  RepeatedStart  \* whether a master may turn a write into a read without a STOP

ASSUME TargetAssumption ==
  /\ Bytes # {}
  /\ MaxBytes \in Nat \ {0} /\ Capacity \in Nat \ {0}
  /\ RepeatedStart \in BOOLEAN

Slots    == {0, 1}
None     == 255
Payloads == UNION {[1 .. n -> Bytes] : n \in 0 .. MaxBytes}
\* A master may go one byte over the limit, in both directions.
Writes   == UNION {[1 .. n -> Bytes] : n \in 0 .. MaxBytes + 1}

VARIABLES
  tgt,      \* the target_* fields of k210_external_state_t but the buffers
  buffers,  \* target_buffer
  bus,      \* the master's transaction under way
  app       \* what the observer knows

vars == <<tgt, buffers, bus, app>>

Events == [type : {"WRITE", "READ"}, slot : Slots \cup {None},
           requested : 0 .. MaxBytes + 1]

TypeOK ==
  /\ tgt \in [events : UNION {[1 .. n -> Events] : n \in 0 .. Capacity},
              overflow : BOOLEAN, rx_discard : BOOLEAN,
              rx_slot : Slots \cup {None}, preload_slot : Slots \cup {None},
              read_active : BOOLEAN, active_slot : Slots \cup {None},
              read_index : 0 .. MaxBytes + 1]
  /\ buffers \in [Slots -> Payloads]
  /\ bus.phase \in {"idle", "write", "read"} /\ bus.sent \in Writes
  /\ bus.excused \in BOOLEAN
  /\ app.armed \in Payloads /\ app.answer \in Payloads

\* clear_target
Cleared == [events |-> <<>>, overflow |-> FALSE, rx_discard |-> FALSE,
            rx_slot |-> None, preload_slot |-> None, read_active |-> FALSE,
            active_slot |-> None, read_index |-> 0]

EmptyBuffers == [s \in Slots |-> <<>>]
IdleBus == [phase |-> "idle", sent |-> <<>>, excused |-> FALSE]
Fresh   == [completed |-> <<>>, armed |-> <<>>, answer |-> <<>>]

Init == tgt = Cleared /\ buffers = EmptyBuffers /\ bus = IdleBus /\ app = Fresh

-----------------------------------------------------------------------------
(* The buffers and the window                                              *)

\* mutant: the buffer of an event still to be polled counts as free
Reserved_Queued(t, s) ==
  \/ t.rx_slot = s
  \/ t.read_active /\ t.active_slot = s
  \/ t.preload_slot = s

\* mutant: the response being sent counts as free
Reserved_Active(t, s) ==
  \/ t.rx_slot = s
  \/ t.preload_slot = s
  \/ \E i \in DOMAIN t.events :
       t.events[i].type = "WRITE" /\ t.events[i].slot = s

\* target_buffer_reserved
Reserved(t, s) ==
  \/ t.rx_slot = s
  \/ t.read_active /\ t.active_slot = s
  \/ t.preload_slot = s
  \/ \E i \in DOMAIN t.events :
       t.events[i].type = "WRITE" /\ t.events[i].slot = s

\* target_find_free_buffer
FreeBuffer(t) ==
  IF ~Reserved(t, 0) THEN 0 ELSE IF ~Reserved(t, 1) THEN 1 ELSE None

\* target_queue_event: when the window is full the loss is latched.
Queue(t, e) ==
  IF t.overflow \/ Len(t.events) >= Capacity
  THEN [t EXCEPT !.overflow = TRUE]
  ELSE [t EXCEPT !.events = Append(@, e)]

-----------------------------------------------------------------------------
(* The interrupt handlers                                                  *)

\* mutant: a write nothing can hold is skipped without a word
Receive_Unlatched(byte) ==
  LET slot == IF tgt.rx_slot = None THEN FreeBuffer(tgt) ELSE tgt.rx_slot
      old  == IF tgt.rx_slot = None THEN <<>> ELSE buffers[slot]
  IN  IF tgt.overflow \/ tgt.rx_discard \/ slot = None
      THEN /\ tgt' = [tgt EXCEPT !.rx_discard = TRUE]
           /\ UNCHANGED buffers
      ELSE IF Len(old) = MaxBytes
      THEN /\ tgt' = [tgt EXCEPT !.overflow = TRUE, !.rx_discard = TRUE]
           /\ UNCHANGED buffers
      ELSE /\ tgt' = [tgt EXCEPT !.rx_slot = slot]
           /\ buffers' = [buffers EXCEPT ![slot] = Append(old, byte)]

\* target_receive: the rest of a write that cannot be kept is discarded.
Receive(byte) ==
  LET slot == IF tgt.rx_slot = None THEN FreeBuffer(tgt) ELSE tgt.rx_slot
      old  == IF tgt.rx_slot = None THEN <<>> ELSE buffers[slot]
  IN  IF tgt.overflow \/ tgt.rx_discard
      THEN /\ tgt' = [tgt EXCEPT !.rx_discard = TRUE]
           /\ UNCHANGED buffers
      ELSE IF slot = None \/ Len(old) = MaxBytes
      THEN /\ tgt' = [tgt EXCEPT !.overflow = TRUE, !.rx_discard = TRUE]
           /\ UNCHANGED buffers
      ELSE /\ tgt' = [tgt EXCEPT !.rx_slot = slot]
           /\ buffers' = [buffers EXCEPT ![slot] = Append(old, byte)]

\* A master writes a byte, the first of a transaction or a later one.
MasterWrite(byte) ==
  /\ bus.phase \in {"idle", "write"}
  /\ Len(bus.sent) <= MaxBytes
  /\ Receive(byte)
  /\ bus' = [bus EXCEPT !.phase = "write", !.sent = Append(@, byte)]
  /\ UNCHANGED app

\* target_transmit: the first byte of a READ takes the armed response, if
\* there is one; the byte itself is that response's or the fill byte.
Transmit ==
  tgt' = IF tgt.read_active
         THEN [tgt EXCEPT !.read_index = @ + 1]
         ELSE [tgt EXCEPT !.active_slot = tgt.preload_slot, !.read_index = 1,
                          !.preload_slot = None, !.read_active = TRUE]

MasterRead ==
  /\ bus.phase = "write" => RepeatedStart
  /\ tgt.read_index <= MaxBytes
  /\ Transmit
  /\ bus' = [bus EXCEPT !.phase = "read"]
  /\ app' = IF tgt.read_active THEN app
            ELSE [app EXCEPT !.answer = app.armed, !.armed = <<>>]
  /\ UNCHANGED buffers

\* target_event on a STOP, after the HAL has drained the bytes received.
StopEvent ==
  IF tgt.read_active
  THEN /\ tgt' = [Queue(tgt, [type |-> "READ", slot |-> None,
                              requested |-> tgt.read_index])
                  EXCEPT !.read_active = FALSE, !.read_index = 0,
                         !.active_slot = None]
       /\ buffers' = IF tgt.active_slot = None THEN buffers
                     ELSE [buffers EXCEPT ![tgt.active_slot] = <<>>]
  ELSE /\ tgt' = [(IF tgt.rx_discard THEN tgt
                   ELSE Queue(tgt, [type |-> "WRITE", slot |-> tgt.rx_slot,
                                    requested |-> 0]))
                  EXCEPT !.rx_discard = FALSE, !.rx_slot = None]
       /\ UNCHANGED buffers

\* The transactions a STOP completes; a write the overflow already polled
\* accounts for is none.
WriteDone == IF bus.sent = <<>> \/ bus.excused THEN <<>>
             ELSE << [type |-> "WRITE", payload |-> bus.sent] >>
ReadDone  == IF bus.phase # "read" THEN <<>>
             ELSE << [type |-> "READ", requested |-> tgt.read_index] >>

MasterStop ==
  /\ bus.phase # "idle"
  /\ StopEvent
  /\ bus' = IdleBus
  /\ app' = [app EXCEPT !.answer = <<>>,
               !.completed = IF tgt.overflow THEN @
                             ELSE @ \o WriteDone \o ReadDone]

-----------------------------------------------------------------------------
(* The main loop                                                           *)

\* k210_external_target_poll once an overflow is latched: the whole window
\* is dropped and the loss reported.
PollOverflow ==
  /\ tgt.overflow
  /\ tgt' = [tgt EXCEPT !.events = <<>>, !.overflow = FALSE]
  /\ bus' = [bus EXCEPT !.excused = @ \/ tgt.rx_discard]
  /\ app' = [app EXCEPT !.completed = <<>>]
  /\ UNCHANGED buffers

\* k210_external_target_poll of the oldest event, with room for its payload
PollEvent ==
  /\ ~tgt.overflow
  /\ tgt.events # <<>>
  /\ tgt' = [tgt EXCEPT !.events = Tail(@)]
  /\ buffers' = IF Head(tgt.events).type = "WRITE"
                THEN [buffers EXCEPT ![Head(tgt.events).slot] = <<>>]
                ELSE buffers
  /\ app' = [app EXCEPT !.completed = Tail(@)]
  /\ UNCHANGED bus

\* Where k210_external_target_preload puts a response: over the one armed,
\* unless a READ is under way.
PreloadBuffer ==
  IF ~tgt.read_active /\ tgt.preload_slot # None THEN tgt.preload_slot
  ELSE FreeBuffer(tgt)

\* k210_external_target_preload of a response; without a buffer the window
\* is given up for one, and without one even then the call is refused
\* (HK_ERR_BUSY).
Preload(response) ==
  LET taken == IF PreloadBuffer # None THEN tgt
               ELSE [tgt EXCEPT !.overflow = TRUE, !.events = <<>>]
      slot  == IF PreloadBuffer # None THEN PreloadBuffer ELSE FreeBuffer(taken)
  IN  IF slot = None
      THEN tgt' = taken /\ UNCHANGED <<buffers, bus, app>>
      ELSE /\ tgt' = [taken EXCEPT !.preload_slot = slot]
           /\ buffers' = [buffers EXCEPT ![slot] = response]
           /\ app' = [app EXCEPT !.armed = response]
           /\ UNCHANGED bus

\* k210_external_target_preload of nothing
PreloadNothing ==
  /\ tgt' = [tgt EXCEPT !.preload_slot = None]
  /\ buffers' = IF tgt.preload_slot = None THEN buffers
                ELSE [buffers EXCEPT ![tgt.preload_slot] = <<>>]
  /\ app' = [app EXCEPT !.armed = <<>>]
  /\ UNCHANGED bus

\* k210_external_configure_i2c_target while it already is one: the block is
\* stopped and everything cleared; the transaction under way is cut off.
Configure ==
  /\ tgt' = Cleared /\ buffers' = EmptyBuffers
  /\ bus' = IdleBus /\ app' = Fresh

Next ==
  \/ \E byte \in Bytes : MasterWrite(byte)
  \/ MasterRead
  \/ MasterStop
  \/ PollOverflow
  \/ PollEvent
  \/ \E response \in Payloads \ {<<>>} : Preload(response)
  \/ PreloadNothing
  \/ Configure

Spec == Init /\ [][Next]_vars

-----------------------------------------------------------------------------
(* Properties                                                              *)

\* The window as the poller would see it.
Window ==
  [i \in DOMAIN tgt.events |->
     IF tgt.events[i].type = "WRITE"
     THEN [type |-> "WRITE", payload |-> buffers[tgt.events[i].slot]]
     ELSE [type |-> "READ", requested |-> tgt.events[i].requested]]

\* What the window holds are transactions the master completed, whole, in
\* their order and without one left out, each once, whatever the interrupt
\* and the main loop did with the buffers meanwhile (target_buffer_reserved).
WindowIntact == IsPrefix(Window, app.completed)

\* A completed transaction is missing from the window only if the next poll
\* reports the overflow (target_latch_overflow at every place that drops);
\* a write already being discarded at that poll is ignored through its STOP,
\* and only that one.
NoSilentLoss == tgt.overflow \/ Len(Window) = Len(app.completed)

\* A READ sends the response that was armed when it began, and no later
\* preload or write touches it; an armed response stays as the application
\* gave it until one READ takes it (target_transmit, k210_external_target_preload).
ResponseIntact ==
  /\ tgt.read_active => app.answer = IF tgt.active_slot = None THEN <<>>
                                     ELSE buffers[tgt.active_slot]
  /\ app.armed = IF tgt.preload_slot = None THEN <<>>
                 ELSE buffers[tgt.preload_slot]

\* "a write already being discarded remains ignored through its STOP.  The
\* next transaction completed after that boundary is the first observable
\* event" (docs/spec/capabilities/EXTERNAL_LINK.md:168): between two
\* transactions target_rx_discard is clear.
DiscardEndsAtStop == bus.phase = "idle" => ~tgt.rx_discard

=============================================================================
