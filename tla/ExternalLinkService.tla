-------------------------- MODULE ExternalLinkService --------------------------
(***************************************************************************)
(* The external UART: a host's requests in two protocols (the HK frames of *)
(* external_link_protocol.c and the Dristy frames of dristy_uart_bridge.c),*)
(* the service that answers them with one asynchronous write at a time     *)
(* (services/external_link_service.c), and below it the facade             *)
(* (capabilities/external_link.c) with the UART half of the adapter        *)
(* (external_link_adapter.c).  The user changes transport and speed, a     *)
(* script takes the link away for a while, and the debug console feeds its *)
(* bytes through the same bridge.                                          *)
(*                                                                         *)
(* The line carries symbols: "H" "K" and "U" "A" are the magic bytes, and  *)
(* what follows them is a payload and a request, which stands for the      *)
(* length and the checksum as well.  An answer is two parts, so that it    *)
(* can be cut or mixed.  As in the code, the parser's data and the answer  *)
(* lie in the same memory.                                                 *)
(***************************************************************************)
EXTENDS Naturals, Sequences, SequencesExt

CONSTANTS
  HkRequests, DlpRequests,  \* what a host can ask for
  Payloads,         \* what an HK frame may hold before its request
  Protocols,        \* a host speaks one of these sets of protocols
  Ring, Chunk,      \* K210_EXTERNAL_MAX_BYTES and the bytes of one read
  MayRetimeAWrite,  \* may the speed be set while an answer is written?
  MaxFaults         \* bound on what disturbs the line and the service

\* A symbol of the line has one meaning, so that a request stands for a length
\* and a checksum that nothing else fits.
ASSUME LinkServiceAssumption ==
  /\ HkRequests \cap DlpRequests = {}
  /\ (HkRequests \cup DlpRequests) \cap {"H", "K", "U", "A", "d", "x", "none"} = {}
  /\ Payloads \subseteq {"x", "U"}
  /\ Protocols \subseteq SUBSET {"HK", "DLP"}
  /\ Ring \in Nat \ {0} /\ Chunk \in Nat \ {0}
  /\ MayRetimeAWrite \in BOOLEAN /\ MaxFaults \in Nat

VARIABLES
  host,     \* protocols, the request it waits for, symbols to send, speed
  uart,     \* k210_external_state_t in its UART mode
  bridge,   \* g_state and g_dlp_rx after the magic bytes
  parser,   \* the length in hk_link_stream_parser_t
  buffer,   \* g_uart_storage: the parser's data, or an answer
  service,  \* the other variables of external_link_service.c
  chunk,    \* data of external_link_service_tick still to be fed
  faults    \* disturbances so far

vars == <<host, uart, bridge, parser, buffer, service, chunk, faults>>

\* The main loop does one thing at a time: while it feeds a chunk, only the
\* line goes on.
LoopIsFree == chunk = <<>>

None   == "none"
Speeds == {"low", "high"}
Blank  == <<"-", "-", "-", "-">>

Frames(r) == IF r \in HkRequests THEN {<<"H", "K", p, r>> : p \in Payloads}
             ELSE {<<"U", "A", "d", r>>}
Requests(protocols) == UNION {IF p = "HK" THEN HkRequests ELSE DlpRequests :
                                p \in protocols}
Answer(r) == <<r, r>>

NoWrite == [state |-> None, sent |-> 0, wire |-> <<>>]
Idling  == [state |-> "IDLE", body |-> <<>>]

Init ==
  /\ \E p \in Protocols :
       host = [protocols |-> p, request |-> None, left |-> <<>>, speed |-> "low"]
  /\ uart = [mode |-> "UART", speed |-> "low", rx |-> <<>>, dropped |-> FALSE,
             op |-> NoWrite]
  /\ bridge = Idling /\ parser = 0 /\ buffer = Blank
  /\ service = [transport |-> "UART", suspended |-> FALSE, leased |-> TRUE,
                speed |-> "low", operation |-> FALSE, answer |-> None,
                early |-> FALSE]
  /\ chunk = <<>> /\ faults = 0

Fault == faults < MaxFaults /\ faults' = faults + 1

-----------------------------------------------------------------------------
(* The host and the line                                                   *)

Asks(r) == \E f \in Frames(r) :
             host' = [host EXCEPT !.request = r, !.left = f]

HostAsks ==
  /\ host.request = None /\ host.left = <<>>
  /\ \E r \in Requests(host.protocols) : Asks(r)
  /\ UNCHANGED <<uart, bridge, parser, buffer, service, chunk, faults>>

\* uart_receive: a symbol arrives if the speeds agree and there is room.
HostByte ==
  /\ host.left # <<>>
  /\ host' = [host EXCEPT !.left = Tail(@)]
  /\ uart' = IF uart.mode # "UART" \/ uart.speed # host.speed THEN uart
             ELSE IF Len(uart.rx) = Ring THEN [uart EXCEPT !.dropped = TRUE]
             ELSE [uart EXCEPT !.rx = Append(@, Head(host.left))]
  /\ UNCHANGED <<bridge, parser, buffer, service, chunk, faults>>

ByteLost ==
  /\ host.left # <<>> /\ Fault
  /\ host' = [host EXCEPT !.left = Tail(@)]
  /\ UNCHANGED <<uart, bridge, parser, buffer, service, chunk>>

Quiet == LoopIsFree /\ uart.rx = <<>> /\ service.answer = None

\* The host repeats a request when no answer came for long, or in a hurry
\* sends it again, or another one, before the answer came.
HostRepeats ==
  /\ host.request # None /\ host.left = <<>> /\ Quiet
  /\ Asks(host.request)
  /\ UNCHANGED <<uart, bridge, parser, buffer, service, chunk, faults>>

HostHurries ==
  /\ host.request # None /\ host.left = <<>> /\ ~Quiet /\ Fault
  /\ \E r \in Requests(host.protocols) : Asks(r)
  /\ UNCHANGED <<uart, bridge, parser, buffer, service, chunk>>

-----------------------------------------------------------------------------
(* The adapter                                                             *)

\* clear_uart_rx and the restart of the UART, at the speed it has
Cleared(u) == [u EXCEPT !.rx = <<>>, !.dropped = FALSE]

\* latch_terminal of a write that went wrong: reset_uart
Aborted(u) == [Cleared(u) EXCEPT !.op = NoWrite]

\* configure_uart or configure_i2c_target, refused while a write is in flight
Configured(u, s) ==
  IF u.op.state = "in flight" THEN u
  ELSE [Cleared(u) EXCEPT !.mode = s.transport, !.op = NoWrite,
                          !.speed = IF s.transport = "UART" THEN s.speed ELSE @]

\* k210_external_close
Closed(u) == [Aborted(u) EXCEPT !.mode = None]

-----------------------------------------------------------------------------
(* The service and what reaches it from elsewhere                          *)

UartInUse(s) == s.transport = "UART" /\ ~s.suspended /\ s.leased

\* service_cancel_uart
NoAnswer(s) == [s EXCEPT !.operation = FALSE, !.answer = None, !.early = FALSE]
Canceled(u) == IF service.operation THEN Aborted(u) ELSE u

\* external_link_service_set_uart_baud, from the settings or from the debug
\* console, with a host that is set to the same speed.
UserSetsSpeed(speed) ==
  /\ LoopIsFree
  /\ MayRetimeAWrite \/ uart.op.state # "in flight"
  /\ speed # service.speed /\ Fault
  /\ LET s == [service EXCEPT !.speed = speed]
     IN  /\ service' = s
         /\ uart' = IF UartInUse(s) THEN Configured(uart, s) ELSE uart
  /\ parser' = 0
  /\ host' = [host EXCEPT !.speed = speed]
  /\ UNCHANGED <<bridge, buffer, chunk>>

\* external_link_service_set_transport
SetTransport(t) ==
  /\ LoopIsFree
  /\ Fault
  /\ LET s == [NoAnswer(service) EXCEPT !.transport = t,
                                        !.leased = @ \/ ~service.suspended]
     IN  /\ service' = s
         /\ uart' = IF s.suspended THEN Canceled(uart)
                    ELSE Configured(Canceled(uart), s)
  /\ parser' = 0
  /\ UNCHANGED <<host, bridge, buffer, chunk>>

\* external_link_service_suspend and _resume, around a script's use of the
\* link; the link may not be free at once.
Suspend ==
  /\ LoopIsFree
  /\ ~service.suspended /\ Fault
  /\ service' = [NoAnswer(service) EXCEPT !.suspended = TRUE, !.leased = FALSE]
  /\ uart' = Closed(Canceled(uart))
  /\ UNCHANGED <<host, bridge, parser, buffer, chunk>>

Acquired(s) ==
  /\ service' = [s EXCEPT !.leased = TRUE]
  /\ uart' = Configured(uart, s)

Resume ==
  /\ LoopIsFree
  /\ service.suspended
  /\ LET s == [service EXCEPT !.suspended = FALSE]
     IN  \/ Acquired(s) /\ UNCHANGED faults
         \/ service' = s /\ Fault /\ UNCHANGED uart
  /\ UNCHANGED <<host, bridge, parser, buffer, chunk>>

-----------------------------------------------------------------------------
(* What a received symbol does.  c holds the variables it may change.      *)

\* A complete Dristy frame gets an answer, unless one is pending.
Dispatch(c, r) ==
  IF r \notin DlpRequests \/ c.service.answer # None THEN c
  ELSE [c EXCEPT !.buffer = Answer(r) \o SubSeq(@, 3, 4),
                 !.service.answer = r, !.service.early = FALSE]

\* dristy_uart_bridge_feed; a symbol it routes on is fed to the parser.
Bridge(c, x) ==
  CASE x = "U" /\ c.bridge.state # "BODY" ->
         [c EXCEPT !.bridge = [state |-> "SYNC1", body |-> <<>>]]
    [] c.bridge.state = "IDLE" /\ x = "H" ->
         [c EXCEPT !.bridge.state = "HK_PASS"]
    [] c.bridge.state = "SYNC1" /\ x # "U" ->
         [c EXCEPT !.bridge.state = IF x = "A" THEN "BODY" ELSE "IDLE"]
    [] c.bridge.state = "BODY" /\ c.bridge.body = <<>> ->
         [c EXCEPT !.bridge.body = <<x>>]
    [] c.bridge.state = "BODY" /\ c.bridge.body # <<>> ->
         LET d == [c EXCEPT !.bridge = Idling]
         IN  IF c.bridge.body = <<"d">> THEN Dispatch(d, x) ELSE d
    [] OTHER -> c

Routed(c, x) == x # "U" /\ Bridge(c, x).bridge.state = "HK_PASS"

\* hk_link_stream_feed and, at the end of a frame, handle_uart_message
Parse(c, x) ==
  LET place == IF c.parser = 1 /\ x # "K" THEN 0 ELSE c.parser
      kept  == [c EXCEPT !.buffer[place + 1] = x, !.parser = place + 1]
      r     == kept.buffer[4]
  IN  CASE place = 0 /\ x # "H" -> [c EXCEPT !.parser = 0,
             !.buffer[1] = IF c.parser = 1 THEN x ELSE @]
        [] place < 3 /\ (x = "H" \/ place # 0) -> kept
        [] place = 3 /\ r \in HkRequests /\ kept.buffer \in Frames(r) ->
             [kept EXCEPT !.parser = 0, !.chunk = <<>>,
                          !.buffer = Answer(r) \o SubSeq(@, 3, 4),
                          !.service.answer = r, !.service.early = TRUE]
        [] OTHER -> [kept EXCEPT !.parser = 0]

\* Mutant: what was lost is reported, and not forgotten.
Read_KeepsDropped(u) ==
  LET count == IF Len(u.rx) < Chunk THEN Len(u.rx) ELSE Chunk
  IN  IF u.dropped THEN uart' = u /\ UNCHANGED chunk
      ELSE /\ uart' = [u EXCEPT !.rx = SubSeq(@, count + 1, Len(@))]
           /\ chunk' = SubSeq(u.rx, 1, count)

\* k210_external_uart_read of a chunk
Read(u) ==
  LET count == IF Len(u.rx) < Chunk THEN Len(u.rx) ELSE Chunk
  IN  IF u.dropped THEN uart' = Cleared(u) /\ UNCHANGED chunk
      ELSE /\ uart' = [u EXCEPT !.rx = SubSeq(@, count + 1, Len(@))]
           /\ chunk' = SubSeq(u.rx, 1, count)

-----------------------------------------------------------------------------
(* external_link_service_tick                                              *)

TickAcquire ==
  /\ LoopIsFree
  /\ ~service.suspended /\ ~service.leased
  /\ Acquired(service)
  /\ UNCHANGED <<host, bridge, parser, buffer, chunk, faults>>

\* The write in flight takes the next part from the service's buffer.
TickSend ==
  /\ LoopIsFree
  /\ UartInUse(service) /\ service.operation
  /\ uart.op.sent < 2
  /\ uart' = [uart EXCEPT !.op.sent = @ + 1,
                          !.op.wire = Append(@, buffer[uart.op.sent + 1])]
  /\ UNCHANGED <<host, bridge, parser, buffer, service, chunk, faults>>

\* It has ended, and the host has what was sent at its speed; the tick goes
\* on to read.
TickSent ==
  /\ LoopIsFree
  /\ UartInUse(service) /\ service.operation
  /\ uart.op.sent = 2
  /\ host' = IF /\ host.speed = uart.speed /\ host.request # None
                /\ uart.op.wire = Answer(host.request)
             THEN [host EXCEPT !.request = None] ELSE host
  /\ service' = NoAnswer(service)
  /\ Read([uart EXCEPT !.op = NoWrite])
  /\ UNCHANGED <<bridge, parser, buffer, faults>>

\* The main loop was held up beyond the deadline of the write.
TickTooLate ==
  /\ LoopIsFree
  /\ UartInUse(service) /\ service.operation /\ Fault
  /\ service' = NoAnswer(service)
  /\ uart' = Aborted(uart)
  /\ UNCHANGED <<host, bridge, parser, buffer, chunk>>

TickWrite ==
  /\ LoopIsFree
  /\ UartInUse(service) /\ ~service.operation
  /\ service.answer # None /\ ~service.early
  /\ uart' = [uart EXCEPT !.op = [NoWrite EXCEPT !.state = "in flight"]]
  /\ service' = [service EXCEPT !.operation = TRUE]
  /\ UNCHANGED <<host, bridge, parser, buffer, chunk, faults>>

\* Mutant: later frames are read while the answer is being written.
TickRead_Always ==
  /\ LoopIsFree
  /\ UartInUse(service)
  /\ uart.rx # <<>> \/ uart.dropped
  /\ Read(uart)
  /\ UNCHANGED <<host, bridge, parser, buffer, service, faults>>

TickRead ==
  /\ LoopIsFree
  /\ UartInUse(service) /\ ~service.operation /\ service.answer = None
  /\ uart.rx # <<>> \/ uart.dropped
  /\ Read(uart)
  /\ UNCHANGED <<host, bridge, parser, buffer, service, faults>>

\* The loop over the chunk; a complete HK frame breaks it, and the rest of
\* the chunk is gone.
TickFeed ==
  /\ chunk # <<>>
  /\ LET now == [service |-> service, bridge |-> bridge, parser |-> parser,
                 buffer |-> buffer, chunk |-> Tail(chunk)]
         c   == IF Routed(now, Head(chunk))
                THEN Parse(Bridge(now, Head(chunk)), Head(chunk))
                ELSE Bridge(now, Head(chunk))
     IN  /\ service' = c.service /\ bridge' = c.bridge /\ parser' = c.parser
         /\ buffer' = c.buffer /\ chunk' = c.chunk
  /\ UNCHANGED <<host, uart, faults>>

Tick == TickAcquire \/ TickSend \/ TickSent \/ TickWrite \/ TickRead \/ TickFeed

\* The turnaround time between a request and its answer.
TurnaroundPasses ==
  /\ service.early
  /\ service' = [service EXCEPT !.early = FALSE]
  /\ UNCHANGED <<host, uart, bridge, parser, buffer, chunk, faults>>

\* dristy_uart_bridge_process_debug_byte: the debug console's own answers
\* leave through its own port.
DebugByte(x) ==
  /\ LoopIsFree
  /\ Fault
  /\ LET c == [uart |-> uart, service |-> [service EXCEPT !.answer = "debug"],
               bridge |-> bridge, parser |-> parser, buffer |-> buffer]
     IN  bridge' = Bridge(c, x).bridge
  /\ UNCHANGED <<host, uart, parser, buffer, service, chunk>>

-----------------------------------------------------------------------------
Next ==
  \/ HostAsks \/ HostByte \/ ByteLost \/ HostRepeats \/ HostHurries
  \/ \E speed \in Speeds : UserSetsSpeed(speed)
  \/ \E t \in {"UART", "I2C"} : SetTransport(t)
  \/ Suspend \/ Resume
  \/ Tick \/ TickTooLate \/ TurnaroundPasses
  \/ \E x \in {"H", "U", "A"} : DebugByte(x)

Spec == Init /\ [][Next]_vars

(***************************************************************************)
(* The main loop calls the tick, time passes, a script ends, and a host    *)
(* sends what it began and repeats what was not answered.                  *)
(***************************************************************************)
FairSpec ==
  /\ Spec
  /\ WF_vars(HostByte) /\ WF_vars(HostRepeats)
  /\ WF_vars(Tick) /\ WF_vars(TurnaroundPasses) /\ WF_vars(Resume)

-----------------------------------------------------------------------------
(* Properties                                                              *)

(***************************************************************************)
(* "One borrowed response buffer backs the asynchronous write.  Leave any  *)
(* later frame in the hardware FIFO until that response reaches a terminal *)
(* state" (external_link_service.c): what is written to the line is, part  *)
(* for part, the answer to one request.                                    *)
(***************************************************************************)
WireIntact ==
  uart.op.wire # <<>> =>
    \E r \in HkRequests \cup DlpRequests : IsPrefix(uart.op.wire, Answer(r))

(***************************************************************************)
(* "UART is a byte stream; the device resynchronizes on HK", and a Dristy  *)
(* host relies on the same: whatever lost bytes, hasty requests, scripts,  *)
(* changes of speed and transport and the debug console left in the bridge,*)
(* the parser and the adapter, a host that repeats its request is answered *)
(* while the UART is the transport.                                        *)
(***************************************************************************)
RequestsAnswered ==
  host.request # None ~> (host.request = None \/ service.transport = "I2C")
===============================================================================
