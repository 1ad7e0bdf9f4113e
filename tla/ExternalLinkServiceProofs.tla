----------------------- MODULE ExternalLinkServiceProofs -----------------------
(***************************************************************************)
(* Proofs about ExternalLinkService for every set of requests and payloads,*)
(* every size of the ring and of a read, and any number of disturbances:   *)
(* what is written to the line is an answer to one request.                *)
(***************************************************************************)
EXTENDS ExternalLinkService, SequenceTheorems, TLAPS

\* A host speaks one protocol: on a line with both, an answer can be
\* overwritten by the next frame's data.
OneProtocolPerHost == {"HK", "DLP"} \notin Protocols

Requested == HkRequests \cup DlpRequests
SpeaksHk  == host.protocols = {"HK"}

\* What can come over the line from the host, and what the bridge can have
\* kept, to which the debug console contributes.
HkSymbols   == {"H", "K"} \cup Payloads \cup HkRequests
DlpSymbols  == {"U", "A", "d"} \cup DlpRequests
LineSymbols == IF SpeaksHk THEN HkSymbols ELSE DlpSymbols
Heard       == LineSymbols \cup {"H", "U", "A"}
Everything  == HkSymbols \cup DlpSymbols \cup {"-"}

Bridges(symbols) ==
  [state : {"IDLE", "HK_PASS", "SYNC1", "BODY"},
   body  : {<<>>} \cup {<<x>> : x \in symbols}]

Buffers  == [1..4 -> Everything]
Services == [transport : {"UART", "I2C"}, suspended : BOOLEAN, leased : BOOLEAN,
             speed : Speeds, operation : BOOLEAN, answer : Requested \cup {None},
             early : BOOLEAN]
Writes   == [state : {None, "in flight"}, sent : 0..2, wire : Seq(Requested)]

HostType ==
  /\ host \in [protocols : Protocols, request : Requested \cup {None},
               left : Seq(LineSymbols), speed : Speeds]
  /\ IF SpeaksHk THEN host.request \in HkRequests \cup {None}
     ELSE host.request \in DlpRequests \cup {None}

UartType ==
  uart \in [mode : {"UART", "I2C", None}, speed : Speeds, rx : Seq(LineSymbols),
            dropped : BOOLEAN, op : Writes]

TypeOK ==
  /\ HostType
  /\ UartType
  /\ bridge \in Bridges(Heard)
  /\ parser \in 0..3
  /\ buffer \in Buffers
  /\ service \in Services
  /\ chunk \in Seq(LineSymbols)
  /\ faults \in Nat

\* A Dristy host never makes the HK parser store anything.
ParserOK == ~SpeaksHk => parser = 0

\* An answer that is kept lies in the buffer as a whole, and an HK host's
\* answer ends the chunk, so that nothing is parsed over it.
AnswerOK ==
  /\ service.answer # None => /\ buffer[1] = service.answer
                              /\ buffer[2] = service.answer
  /\ SpeaksHk => service.answer \in HkRequests \cup {None}
  /\ ~SpeaksHk => service.answer \in DlpRequests \cup {None}
  /\ SpeaksHk /\ chunk # <<>> => service.answer = None

\* The adapter writes while the service knows of the write, the service keeps
\* the answer meanwhile and reads nothing.
WriteOK ==
  /\ ~service.operation => uart.op = NoWrite
  /\ service.operation =>
       /\ service.answer # None
       /\ uart.op.state = "in flight"
       /\ uart.op.wire = [i \in 1 .. uart.op.sent |-> service.answer]
       /\ chunk = <<>>

IInv == TypeOK /\ ParserOK /\ AnswerOK /\ WriteOK
-----------------------------------------------------------------------------
(* What the protocols of the host leave alone                              *)

\* Nobody changes the protocols a host speaks.
LEMMA SymbolsStay ==
  ASSUME host'.protocols = host.protocols
  PROVE  /\ SpeaksHk' <=> SpeaksHk
         /\ LineSymbols' = LineSymbols
         /\ Heard' = Heard
<1>1. (SpeaksHk' <=> SpeaksHk) /\ LineSymbols' = LineSymbols
  BY DEF SpeaksHk, LineSymbols, HkSymbols, DlpSymbols
<1>. QED
  BY <1>1 DEF Heard

\* The requests of one protocol, and the symbols of a frame.
LEMMA RequestSymbols ==
  ASSUME TypeOK, OneProtocolPerHost,
         NEW r \in Requests(host.protocols)
  PROVE  /\ r \in Requested
         /\ SpeaksHk => r \in HkRequests
         /\ ~SpeaksHk => r \in DlpRequests
<1>1. host.protocols \in SUBSET {"HK", "DLP"}
  BY LinkServiceAssumption DEF TypeOK, HostType
<1>2. SpeaksHk => r \in HkRequests
  BY DEF SpeaksHk, Requests
<1>3. ~SpeaksHk => host.protocols \subseteq {"DLP"}
  <2>1. host.protocols # {"HK", "DLP"}
    BY DEF TypeOK, HostType, OneProtocolPerHost
  <2>. QED
    BY <2>1, <1>1 DEF SpeaksHk
<1>4. ~SpeaksHk => r \in DlpRequests
  BY <1>3 DEF Requests
<1>. QED
  BY <1>2, <1>4 DEF Requested

\* The frames of a request are made of the symbols of the line.
LEMMA FrameSymbols ==
  ASSUME NEW r, NEW f \in Frames(r),
         IF SpeaksHk THEN r \in HkRequests ELSE r \in DlpRequests
  PROVE  f \in Seq(LineSymbols)
<1>1. CASE SpeaksHk
  <2>1. PICK p \in Payloads : f = <<"H", "K", p, r>>
    BY <1>1 DEF Frames
  <2>. QED
    BY <1>1, <2>1 DEF LineSymbols, HkSymbols
<1>2. CASE ~SpeaksHk
  <2>1. f = <<"U", "A", "d", r>>
    BY <1>2, LinkServiceAssumption DEF Frames
  <2>. QED
    BY <1>2, <2>1 DEF LineSymbols, DlpSymbols
<1>. QED
  BY <1>1, <1>2

\* Most steps leave the parser and the buffer alone.
LEMMA HostMoves ==
  ASSUME IInv, HostType',
         host'.protocols = host.protocols, UartType', uart'.op = uart.op,
         UNCHANGED <<bridge, parser, buffer, service, chunk>>, faults' \in Nat
  PROVE  IInv'
<1>1. (SpeaksHk' <=> SpeaksHk) /\ LineSymbols' = LineSymbols /\ Heard' = Heard
  BY SymbolsStay
<1>2. TypeOK'
  BY <1>1 DEF IInv, TypeOK, Bridges, Buffers, Everything, HkSymbols, DlpSymbols
<1>3. ParserOK' /\ AnswerOK' /\ WriteOK'
  BY <1>1 DEF IInv, ParserOK, AnswerOK, WriteOK
<1>. QED
  BY <1>2, <1>3 DEF IInv

\* What the host and its line do keeps the invariant.
LEMMA TheHost ==
  ASSUME IInv, OneProtocolPerHost, HostAsks \/ HostByte \/ ByteLost \/ HostRepeats \/ HostHurries
  PROVE  IInv'
<1>. USE DEF IInv, TypeOK
<1>1. ASSUME NEW r, Asks(r), \/ r \in Requests(host.protocols)
                             \/ r = host.request /\ r # None
      PROVE  HostType' /\ host'.protocols = host.protocols
  <2>1. r \in Requested /\ IF SpeaksHk THEN r \in HkRequests ELSE r \in DlpRequests
    BY <1>1, RequestSymbols DEF HostType, Requested
  <2>2. PICK f \in Frames(r) : host' = [host EXCEPT !.request = r, !.left = f]
    BY <1>1 DEF Asks
  <2>3. f \in Seq(LineSymbols)
    BY <2>1, FrameSymbols
  <2>4. /\ host' = [protocols |-> host.protocols, request |-> r, left |-> f,
                    speed |-> host.speed]
        /\ host.protocols \in Protocols /\ host.speed \in Speeds
    BY <2>2 DEF HostType
  <2>5. (SpeaksHk' <=> SpeaksHk) /\ LineSymbols' = LineSymbols
    BY <2>4, SymbolsStay
  <2>. QED
    BY <2>1, <2>3, <2>4, <2>5 DEF HostType
<1>2. ASSUME host.left # <<>>, host' = [host EXCEPT !.left = Tail(@)]
      PROVE  HostType' /\ host'.protocols = host.protocols
  <2>1. Tail(host.left) \in Seq(LineSymbols)
    BY <1>2 DEF HostType
  <2>2. /\ host' = [protocols |-> host.protocols, request |-> host.request,
                    left |-> Tail(host.left), speed |-> host.speed]
        /\ host.protocols \in Protocols /\ host.speed \in Speeds
    BY <1>2 DEF HostType
  <2>3. (SpeaksHk' <=> SpeaksHk) /\ LineSymbols' = LineSymbols
    BY <2>2, SymbolsStay
  <2>. QED
    BY <2>1, <2>2, <2>3 DEF HostType
<1>3. ASSUME host'.protocols = host.protocols
      PROVE  LineSymbols' = LineSymbols
  BY <1>3, SymbolsStay
<1>4. ASSUME UNCHANGED uart, host'.protocols = host.protocols
      PROVE  UartType' /\ uart'.op = uart.op
  BY <1>3, <1>4 DEF UartType
<1>5. CASE HostAsks
  <2>1. PICK r \in Requests(host.protocols) : Asks(r)
    BY <1>5 DEF HostAsks
  <2>. QED
    BY <2>1, <1>1, <1>4, <1>5, HostMoves DEF HostAsks
<1>6. CASE HostByte
  <2>1. HostType' /\ host'.protocols = host.protocols
    BY <1>2, <1>6 DEF HostByte
  <2>2. Head(host.left) \in LineSymbols /\ uart.rx \in Seq(LineSymbols)
    BY <1>6 DEF HostByte, HostType, UartType
  <2>3. UartType' /\ uart'.op = uart.op
    <3>1. Append(uart.rx, Head(host.left)) \in Seq(LineSymbols)
      BY <2>2
    <3>. QED
      BY <2>1, <3>1, <1>3, <1>6 DEF HostByte, UartType
  <2>. QED
    BY <2>1, <2>3, <1>6, HostMoves DEF HostByte
<1>7. CASE ByteLost
  BY <1>2, <1>4, <1>7, HostMoves DEF ByteLost, Fault
<1>8. CASE HostRepeats
  BY <1>1, <1>4, <1>8, HostMoves DEF HostRepeats
<1>9. CASE HostHurries
  <2>1. PICK r \in Requests(host.protocols) : Asks(r)
    BY <1>9 DEF HostHurries
  <2>. QED
    BY <2>1, <1>1, <1>4, <1>9, HostMoves DEF HostHurries, Fault
<1>. QED
  BY <1>5, <1>6, <1>7, <1>8, <1>9
-----------------------------------------------------------------------------
(* The adapter under a change of transport or speed                        *)

UartStates == [mode : {"UART", "I2C", None}, speed : Speeds,
               rx : Seq(LineSymbols), dropped : BOOLEAN, op : Writes]

\* Empty queues and the absent write are of their types.
LEMMA EmptyOfSymbols ==
  /\ <<>> \in Seq(LineSymbols)
  /\ <<>> \in Seq(Requested)
  /\ NoWrite \in Writes
<1>1. <<>> \in Seq(LineSymbols) /\ <<>> \in Seq(Requested)
  OBVIOUS
<1>2. 0 \in 0..2
  OBVIOUS
<1>. QED
  BY <1>1, <1>2 DEF NoWrite, Writes

\* Clearing the receiver leaves the write and the line as they are.
LEMMA ClearedType ==
  ASSUME NEW u \in UartStates, NEW v, v = Cleared(u)
  PROVE  /\ v \in UartStates
         /\ v.op = u.op /\ v.mode = u.mode /\ v.speed = u.speed
  BY EmptyOfSymbols DEF Cleared, UartStates

\* Aborting ends the write.
LEMMA AbortedType ==
  ASSUME NEW u \in UartStates
  PROVE  Aborted(u) \in UartStates /\ Aborted(u).op = NoWrite
<1>1. PICK v : v = Cleared(u)
  OBVIOUS
<1>2. v \in UartStates
  BY <1>1, ClearedType
<1>3. Aborted(u) = [v EXCEPT !.op = NoWrite]
  BY <1>1 DEF Aborted
<1>. QED
  BY <1>2, <1>3, EmptyOfSymbols DEF UartStates

\* Closing the port ends the write.
LEMMA ClosedType ==
  ASSUME NEW u \in UartStates
  PROVE  Closed(u) \in UartStates /\ Closed(u).op = NoWrite
<1>1. PICK v : v = Aborted(u)
  OBVIOUS
<1>2. v \in UartStates /\ v.op = NoWrite
  BY <1>1, AbortedType
<1>3. Closed(u) = [v EXCEPT !.mode = None]
  BY <1>1 DEF Closed
<1>. QED
  BY <1>2, <1>3 DEF UartStates

\* Configuring the port keeps the write that is in flight and drops any other.
LEMMA ConfiguredType ==
  ASSUME NEW u \in UartStates, NEW st \in Services
  PROVE  /\ Configured(u, st) \in UartStates
         /\ Configured(u, st).op = IF u.op.state = "in flight" THEN u.op ELSE NoWrite
<1>1. CASE u.op.state = "in flight"
  BY <1>1 DEF Configured
<1>2. CASE u.op.state # "in flight"
  <2>1. PICK v : v = Cleared(u)
    OBVIOUS
  <2>2. v \in UartStates
    BY <2>1, ClearedType
  <2>3. Configured(u, st) =
          [v EXCEPT !.mode = st.transport, !.op = NoWrite,
                    !.speed = IF st.transport = "UART" THEN st.speed ELSE @]
    BY <2>1, <1>2 DEF Configured
  <2>4. st.transport \in {"UART", "I2C"} /\ st.speed \in Speeds
    BY DEF Services
  <2>. QED
    BY <1>2, <2>2, <2>3, <2>4, EmptyOfSymbols DEF UartStates
<1>. QED
  BY <1>1, <1>2

\* Without an answer and a write the next symbols can be parsed anywhere.
LEMMA NothingToWrite ==
  ASSUME IInv, NEW st \in Services, service' = st,
         st.answer = None, ~st.operation, uart' \in UartStates, uart'.op = NoWrite,
         HostType', host'.protocols = host.protocols,
         UNCHANGED <<bridge, buffer>>, parser' = parser \/ parser' = 0,
         chunk' \in Seq(LineSymbols), faults' \in Nat
  PROVE  IInv'
<1>1. (SpeaksHk' <=> SpeaksHk) /\ LineSymbols' = LineSymbols /\ Heard' = Heard
  BY SymbolsStay
<1>2. parser' \in 0..3 /\ (parser = 0 => parser' = 0)
  BY DEF IInv, TypeOK
<1>3. TypeOK'
  BY <1>1, <1>2 DEF IInv, TypeOK, UartType, UartStates, Services, Bridges, Buffers,
                    Everything, HkSymbols, DlpSymbols
<1>4. ParserOK' /\ AnswerOK' /\ WriteOK'
  BY <1>1, <1>2 DEF IInv, ParserOK, AnswerOK, WriteOK
<1>. QED
  BY <1>3, <1>4 DEF IInv

\* What the service was doing goes on.
LEMMA WriteGoesOn ==
  ASSUME IInv, NEW st \in Services, service' = st,
         st.answer = service.answer, st.operation = service.operation,
         uart' \in UartStates, uart'.op = uart.op,
         HostType', host'.protocols = host.protocols,
         UNCHANGED <<bridge, buffer, chunk>>, parser' = parser \/ parser' = 0,
         faults' \in Nat
  PROVE  IInv'
<1>1. (SpeaksHk' <=> SpeaksHk) /\ LineSymbols' = LineSymbols /\ Heard' = Heard
  BY SymbolsStay
<1>2. parser' \in 0..3 /\ (parser = 0 => parser' = 0)
  BY DEF IInv, TypeOK
<1>3. TypeOK'
  BY <1>1, <1>2 DEF IInv, TypeOK, UartType, UartStates, Services, Bridges, Buffers,
                    Everything, HkSymbols, DlpSymbols
<1>4. ParserOK' /\ AnswerOK' /\ WriteOK'
  BY <1>1, <1>2 DEF IInv, ParserOK, AnswerOK, WriteOK
<1>. QED
  BY <1>3, <1>4 DEF IInv

\* A step that leaves the host alone leaves its protocols alone.
LEMMA SameHost ==
  ASSUME IInv, UNCHANGED host
  PROVE  HostType' /\ host'.protocols = host.protocols
<1>1. host'.protocols = host.protocols
  OBVIOUS
<1>. QED
  BY <1>1, SymbolsStay DEF IInv, TypeOK, HostType

\* Giving up the answer keeps the line, the lease and the suspension.
LEMMA NoAnswerType ==
  ASSUME NEW st \in Services, NEW n, n = NoAnswer(st)
  PROVE  /\ n \in Services
         /\ n.answer = None /\ ~n.operation /\ n.suspended = st.suspended
         /\ n.transport = st.transport /\ n.speed = st.speed /\ n.leased = st.leased
  BY DEF NoAnswer, Services
\* The variables as the lemmas take them.
LEMMA UartState ==
  ASSUME IInv
  PROVE  /\ uart \in UartStates /\ service \in Services
         /\ chunk \in Seq(LineSymbols) /\ faults \in Nat
         /\ service.operation => uart.op.state = "in flight"
         /\ ~service.operation => uart.op = NoWrite
  BY DEF IInv, TypeOK, UartType, UartStates, WriteOK

\* Faults are counted.
LEMMA FaultsCount ==
  ASSUME IInv, faults' = faults \/ faults' = faults + 1
  PROVE  faults' \in Nat
<1>1. faults \in Nat
  BY DEF IInv, TypeOK
<1>. QED
  BY <1>1

\* Configuring leaves a write in flight alone, and there is no other.
LEMMA ConfiguringKeepsTheWrite ==
  ASSUME IInv, NEW st \in Services
  PROVE  Configured(uart, st) \in UartStates /\ Configured(uart, st).op = uart.op
<1>1. uart.op.state # "in flight" => uart.op = NoWrite
  BY UartState
<1>. QED
  BY <1>1, UartState, ConfiguredType

\* The user changes the speed.
LEMMA SpeedIsSet ==
  ASSUME IInv, NEW speed \in Speeds, UserSetsSpeed(speed)
  PROVE  IInv'
<1>1. PICK st : st = [service EXCEPT !.speed = speed]
  OBVIOUS
<1>2. st \in Services /\ st.answer = service.answer /\ st.operation = service.operation
  BY <1>1, UartState DEF Services
<1>3. /\ service' = st
      /\ uart' = uart \/ uart' = Configured(uart, st)
      /\ faults' = faults + 1 /\ parser' = 0
      /\ UNCHANGED <<bridge, buffer, chunk>>
  BY <1>1 DEF UserSetsSpeed, Fault
<1>4. uart' \in UartStates /\ uart'.op = uart.op
  BY <1>2, <1>3, UartState, ConfiguringKeepsTheWrite
<1>5. host' = [host EXCEPT !.speed = speed]
  BY DEF UserSetsSpeed
<1>6. host'.protocols = host.protocols
  BY <1>5 DEF IInv, TypeOK, HostType
<1>7. HostType'
  BY <1>5, <1>6, SymbolsStay DEF IInv, TypeOK, HostType
<1>8. faults' \in Nat
  BY <1>3, FaultsCount
<1>. QED
  BY <1>2, <1>3, <1>4, <1>6, <1>7, <1>8, WriteGoesOn

\* A cancelled write is aborted.
LEMMA CanceledType ==
  ASSUME IInv
  PROVE  Canceled(uart) \in UartStates /\ Canceled(uart).op = NoWrite
  BY UartState, AbortedType DEF Canceled

\* The user changes the transport.
LEMMA TransportIsSet ==
  ASSUME IInv, NEW tr \in {"UART", "I2C"}, SetTransport(tr)
  PROVE  IInv'
<1>1. PICK n : n = NoAnswer(service)
  OBVIOUS
<1>2. n \in Services /\ n.answer = None /\ ~n.operation
  BY <1>1, UartState, NoAnswerType
<1>3. PICK st : st = [n EXCEPT !.transport = tr, !.leased = @ \/ ~service.suspended]
  OBVIOUS
<1>4. (n.leased \/ ~service.suspended) \in BOOLEAN
  BY <1>2, UartState DEF Services
<1>5. st \in Services /\ st.answer = None /\ ~st.operation
  BY <1>2, <1>3, <1>4 DEF Services
<1>6. /\ service' = st
      /\ uart' = Canceled(uart) \/ uart' = Configured(Canceled(uart), st)
      /\ faults' = faults + 1 /\ parser' = 0
      /\ UNCHANGED <<host, bridge, buffer, chunk>>
  BY <1>1, <1>3 DEF SetTransport, Fault
<1>7. uart' \in UartStates /\ uart'.op = NoWrite
  <2>1. CASE uart' = Canceled(uart)
    BY <2>1, CanceledType
  <2>2. CASE uart' = Configured(Canceled(uart), st)
    BY <2>2, <1>5, CanceledType, ConfiguredType
  <2>. QED
    BY <1>6, <2>1, <2>2
<1>8. faults' \in Nat /\ chunk' \in Seq(LineSymbols)
  BY <1>6, UartState, FaultsCount
<1>. QED
  BY <1>5, <1>6, <1>7, <1>8, SameHost, NothingToWrite

\* A script takes the link from the service.
LEMMA ScriptTakesTheLink ==
  ASSUME IInv, Suspend
  PROVE  IInv'
<1>1. PICK n : n = NoAnswer(service)
  OBVIOUS
<1>2. n \in Services /\ n.answer = None /\ ~n.operation
  BY <1>1, UartState, NoAnswerType
<1>3. PICK st : st = [n EXCEPT !.suspended = TRUE, !.leased = FALSE]
  OBVIOUS
<1>4. st \in Services /\ st.answer = None /\ ~st.operation
  BY <1>2, <1>3 DEF Services
<1>5. /\ service' = st
      /\ uart' = Closed(Canceled(uart))
      /\ faults' = faults + 1
      /\ UNCHANGED <<host, bridge, parser, buffer, chunk>>
  BY <1>1, <1>3 DEF Suspend, Fault
<1>6. uart' \in UartStates /\ uart'.op = NoWrite
  BY <1>5, CanceledType, ClosedType
<1>7. faults' \in Nat /\ chunk' \in Seq(LineSymbols)
  BY <1>5, UartState, FaultsCount
<1>. QED
  BY <1>4, <1>5, <1>6, <1>7, SameHost, NothingToWrite

\* The service acquires the port, or fails to and goes on without.
LEMMA LinkIsAcquired ==
  ASSUME IInv, NEW before \in Services,
         before.answer = service.answer, before.operation = service.operation,
         \/ service' = [before EXCEPT !.leased = TRUE] /\ uart' = Configured(uart, before)
         \/ service' = before /\ UNCHANGED uart,
         UNCHANGED <<host, bridge, parser, buffer, chunk>>, faults' \in Nat
  PROVE  IInv'
<1>1. PICK st : st = service'
  OBVIOUS
<1>2. st = [before EXCEPT !.leased = TRUE] \/ st = before
  BY <1>1
<1>3. st \in Services /\ st.answer = service.answer /\ st.operation = service.operation
  BY <1>2 DEF Services
<1>4. uart' \in UartStates /\ uart'.op = uart.op
  BY UartState, ConfiguringKeepsTheWrite
<1>. QED
  BY <1>1, <1>3, <1>4, SameHost, WriteGoesOn

\* The script is over and the service takes the link back.
LEMMA ScriptReturnsTheLink ==
  ASSUME IInv, Resume
  PROVE  IInv'
<1>1. PICK st : st = [service EXCEPT !.suspended = FALSE]
  OBVIOUS
<1>2. st \in Services /\ st.answer = service.answer /\ st.operation = service.operation
  BY <1>1, UartState DEF Services
<1>3. /\ \/ service' = [st EXCEPT !.leased = TRUE] /\ uart' = Configured(uart, st)
         \/ service' = st /\ UNCHANGED uart
      /\ faults' = faults \/ faults' = faults + 1
      /\ UNCHANGED <<host, bridge, parser, buffer, chunk>>
  BY <1>1 DEF Resume, Acquired, Fault
<1>4. faults' \in Nat
  BY <1>3, FaultsCount
<1>. QED
  BY <1>2, <1>3, <1>4, LinkIsAcquired
-----------------------------------------------------------------------------
(* The tick: reading and writing                                           *)

\* A part of what was received is made of the same symbols.
LEMMA PartOfSymbols ==
  ASSUME NEW q \in Seq(LineSymbols), NEW m \in 1 .. Len(q) + 1, NEW n \in 0 .. Len(q)
  PROVE  SubSeq(q, m, n) \in Seq(LineSymbols)
<1>1. m .. n \subseteq 1 .. Len(q)
  OBVIOUS
<1>. QED
  BY <1>1, SubSeqProperties

\* Reading moves symbols from the receiver to the chunk.
LEMMA ReadType ==
  ASSUME IInv, NEW u \in UartStates, Read(u)
  PROVE  uart' \in UartStates /\ uart'.op = u.op /\ chunk' \in Seq(LineSymbols)
<1>. DEFINE count == IF Len(u.rx) < Chunk THEN Len(u.rx) ELSE Chunk
<1>1. u.rx \in Seq(LineSymbols) /\ Len(u.rx) \in Nat
  BY DEF UartStates
<1>2. count \in 0 .. Len(u.rx) /\ count + 1 \in 1 .. Len(u.rx) + 1
  BY <1>1, LinkServiceAssumption
<1>3. CASE u.dropped
  BY <1>3, UartState, ClearedType DEF Read
<1>4. CASE ~u.dropped
  <2>1. /\ uart' = [u EXCEPT !.rx = SubSeq(u.rx, count + 1, Len(u.rx))]
        /\ chunk' = SubSeq(u.rx, 1, count)
    BY <1>4 DEF Read
  <2>. HIDE DEF count
  <2>2. 1 \in 1 .. Len(u.rx) + 1 /\ Len(u.rx) \in 0 .. Len(u.rx)
    BY <1>1
  <2>3. /\ SubSeq(u.rx, count + 1, Len(u.rx)) \in Seq(LineSymbols)
        /\ SubSeq(u.rx, 1, count) \in Seq(LineSymbols)
    BY <1>1, <1>2, <2>2, PartOfSymbols
  <2>. QED
    BY <2>1, <2>3 DEF UartStates
<1>. QED
  BY <1>3, <1>4

\* A tick takes a link it has not yet got.
LEMMA LinkIsTakenAgain ==
  ASSUME IInv, TickAcquire
  PROVE  IInv'
<1>1. /\ service' = [service EXCEPT !.leased = TRUE] /\ uart' = Configured(uart, service)
      /\ UNCHANGED <<host, bridge, parser, buffer, chunk, faults>>
  BY DEF TickAcquire, Acquired
<1>. QED
  BY <1>1, UartState, LinkIsAcquired

\* The next part of a write is the next part of the answer.
LEMMA PartIsSent ==
  ASSUME IInv, TickSend
  PROVE  IInv'
<1>1. /\ service.operation /\ uart.op.sent < 2
      /\ UNCHANGED <<host, bridge, parser, buffer, service, chunk, faults>>
  BY DEF TickSend
<1>. DEFINE k == uart.op.sent
<1>2. /\ uart.op \in Writes /\ k \in {0, 1}
      /\ uart.op.wire = [i \in 1..k |-> service.answer]
      /\ service.answer # None /\ service.answer \in Requested
      /\ buffer[k + 1] = service.answer
  <2>1. uart.op \in Writes /\ k \in 0..2 /\ service.answer \in Requested \cup {None}
    BY UartState DEF UartStates, Writes, Services
  <2>2. k \in {0, 1}
    BY <2>1, <1>1
  <2>3. /\ service.answer # None
        /\ uart.op.wire = [i \in 1..k |-> service.answer]
        /\ buffer[1] = service.answer /\ buffer[2] = service.answer
    BY <1>1 DEF IInv, AnswerOK, WriteOK
  <2>. QED
    BY <2>1, <2>2, <2>3
<1>3. PICK op : op = [uart.op EXCEPT !.sent = k + 1,
                                     !.wire = Append(uart.op.wire, service.answer)]
  OBVIOUS
<1>4. uart' = [uart EXCEPT !.op = op]
  BY <1>2, <1>3 DEF TickSend
<1>5. /\ Append(uart.op.wire, service.answer) = [i \in 1 .. k + 1 |-> service.answer]
      /\ Append(uart.op.wire, service.answer) \in Seq(Requested)
  BY <1>2
<1>6. /\ op \in Writes /\ op.state = uart.op.state /\ op.sent = k + 1
      /\ op.wire = [i \in 1 .. k + 1 |-> service.answer]
  <2>1. k + 1 \in 0..2
    BY <1>2
  <2>. QED
    BY <1>2, <1>3, <1>5, <2>1 DEF Writes
<1>7. uart' \in UartStates /\ uart'.op = op
  BY <1>4, <1>6, UartState DEF UartStates
<1>8. (SpeaksHk' <=> SpeaksHk) /\ LineSymbols' = LineSymbols /\ Heard' = Heard
  BY <1>1, SymbolsStay
<1>9. TypeOK'
  BY <1>1, <1>7, <1>8 DEF IInv, TypeOK, HostType, UartType, UartStates, Services,
       Bridges, Buffers, Everything, HkSymbols, DlpSymbols
<1>10. WriteOK'
  BY <1>1, <1>6, <1>7 DEF IInv, WriteOK
<1>. QED
  BY <1>1, <1>8, <1>9, <1>10 DEF IInv, ParserOK, AnswerOK

\* The tick sees its write complete.
LEMMA WriteEnds ==
  ASSUME IInv, TickSent
  PROVE  IInv'
<1>1. PICK st : st = NoAnswer(service)
  OBVIOUS
<1>2. st \in Services /\ st.answer = None /\ ~st.operation
  BY <1>1, UartState, NoAnswerType
<1>3. PICK u : u = [uart EXCEPT !.op = NoWrite]
  OBVIOUS
<1>4. u \in UartStates /\ u.op = NoWrite
  BY <1>3, UartState, EmptyOfSymbols DEF UartStates
<1>5. /\ service' = st /\ Read(u)
      /\ host' = [host EXCEPT !.request = None] \/ host' = host
      /\ UNCHANGED <<bridge, parser, buffer, faults>>
  BY <1>1, <1>3 DEF TickSent
<1>6. uart' \in UartStates /\ uart'.op = NoWrite /\ chunk' \in Seq(LineSymbols)
  BY <1>4, <1>5, ReadType
<1>7. host'.protocols = host.protocols
  BY <1>5 DEF IInv, TypeOK, HostType
<1>8. HostType'
  BY <1>5, <1>7, SymbolsStay DEF IInv, TypeOK, HostType
<1>. QED
  BY <1>2, <1>5, <1>6, <1>7, <1>8, FaultsCount, NothingToWrite

\* The tick gives up a write that takes too long.
LEMMA WriteIsGivenUp ==
  ASSUME IInv, TickTooLate
  PROVE  IInv'
<1>1. PICK st : st = NoAnswer(service)
  OBVIOUS
<1>2. st \in Services /\ st.answer = None /\ ~st.operation
  BY <1>1, UartState, NoAnswerType
<1>3. /\ service' = st /\ uart' = Aborted(uart) /\ faults' = faults + 1
      /\ UNCHANGED <<host, bridge, parser, buffer, chunk>>
  BY <1>1 DEF TickTooLate, Fault
<1>4. uart' \in UartStates /\ uart'.op = NoWrite
  BY <1>3, UartState, AbortedType
<1>. QED
  BY <1>2, <1>3, <1>4, UartState, FaultsCount, SameHost, NothingToWrite

\* The tick starts to write the answer.
LEMMA WriteBegins ==
  ASSUME IInv, TickWrite
  PROVE  IInv'
<1>1. PICK st : st = [service EXCEPT !.operation = TRUE]
  OBVIOUS
<1>2. st \in Services /\ st.answer = service.answer /\ st.operation
  BY <1>1, UartState DEF Services
<1>3. PICK op : op = [NoWrite EXCEPT !.state = "in flight"]
  OBVIOUS
<1>4. /\ op \in Writes /\ op.state = "in flight" /\ op.sent = 0 /\ op.wire = <<>>
  BY <1>3, EmptyOfSymbols DEF NoWrite, Writes
<1>5. /\ service' = st /\ uart' = [uart EXCEPT !.op = op]
      /\ chunk = <<>> /\ service.answer # None
      /\ UNCHANGED <<host, bridge, parser, buffer, chunk, faults>>
  BY <1>1, <1>3 DEF TickWrite, LoopIsFree
<1>6. uart' \in UartStates /\ uart'.op = op
  BY <1>4, <1>5, UartState DEF UartStates
<1>7. (SpeaksHk' <=> SpeaksHk) /\ LineSymbols' = LineSymbols /\ Heard' = Heard
  BY <1>5, SymbolsStay
<1>8. TypeOK'
  BY <1>2, <1>5, <1>6, <1>7 DEF IInv, TypeOK, HostType, UartType, UartStates, Services,
       Bridges, Buffers, Everything, HkSymbols, DlpSymbols
<1>9. op.wire = [i \in 1 .. op.sent |-> st.answer]
  <2>0. 1..0 = {}
    OBVIOUS
  <2>1. 1 .. op.sent = {}
    BY <1>4, <2>0, Zenon
  <2>2. [i \in {} |-> st.answer] = <<>>
    OBVIOUS
  <2>. QED
    BY <1>4, <2>1, <2>2
<1>10. WriteOK'
  BY <1>2, <1>4, <1>5, <1>6, <1>9 DEF WriteOK
<1>11. ParserOK' /\ AnswerOK'
  BY <1>2, <1>5, <1>7 DEF IInv, ParserOK, AnswerOK
<1>. QED
  BY <1>8, <1>10, <1>11 DEF IInv

\* The tick reads a chunk.
LEMMA ChunkIsRead ==
  ASSUME IInv, TickRead
  PROVE  IInv'
<1>1. /\ service' = service /\ ~service.operation /\ service.answer = None
      /\ Read(uart) /\ UNCHANGED <<host, bridge, parser, buffer, faults>>
  BY DEF TickRead
<1>2. uart' \in UartStates /\ uart'.op = NoWrite /\ chunk' \in Seq(LineSymbols)
  BY <1>1, UartState, ReadType
<1>. QED
  BY <1>1, <1>2, UartState, FaultsCount, SameHost, NothingToWrite

\* The time between two transfers passes.
LEMMA TimePasses ==
  ASSUME IInv, TurnaroundPasses
  PROVE  IInv'
<1>1. PICK st : st = [service EXCEPT !.early = FALSE]
  OBVIOUS
<1>2. st \in Services /\ st.answer = service.answer /\ st.operation = service.operation
  BY <1>1, UartState DEF Services
<1>3. service' = st /\ UNCHANGED <<host, uart, bridge, parser, buffer, chunk, faults>>
  BY <1>1 DEF TurnaroundPasses
<1>. QED
  BY <1>2, <1>3, UartState, FaultsCount, SameHost, WriteGoesOn
-----------------------------------------------------------------------------
(* What a received symbol does                                             *)

\* An answer takes the first half of the buffer.
LEMMA AnswerStored ==
  ASSUME NEW b \in Buffers, NEW r \in Requested, NEW n, n = Answer(r) \o SubSeq(b, 3, 4)
  PROVE  n \in Buffers /\ n[1] = r /\ n[2] = r
<1>1. r \in Everything /\ \A i \in 3..4 : b[i] \in Everything
  BY DEF Buffers, Requested, Everything, HkSymbols, DlpSymbols
<1>2. /\ Answer(r) \in Seq(Everything) /\ Len(Answer(r)) = 2
      /\ Answer(r)[1] = r /\ Answer(r)[2] = r
  BY <1>1 DEF Answer
<1>3. PICK rest : rest = SubSeq(b, 3, 4)
  OBVIOUS
<1>4. rest \in Seq(Everything) /\ Len(rest) = 2
  BY <1>1, <1>3, SubSeqProperties
<1>5. /\ n \in Seq(Everything) /\ Len(n) = 4
      /\ \A i \in 1..4 : n[i] = IF i <= 2 THEN Answer(r)[i] ELSE rest[i - 2]
  <2>1. PICK a : a = Answer(r)
    OBVIOUS
  <2>2. a \in Seq(Everything) /\ Len(a) = 2 /\ n = a \o rest
    BY <1>2, <1>3, <2>1
  <2>3. n \in Seq(Everything)
    BY <1>4, <2>2, ConcatProperties
  <2>4. Len(a \o rest) = Len(a) + Len(rest)
    BY <1>4, <2>2, ConcatProperties
  <2>5. \A i \in 1 .. Len(a) + Len(rest) :
           (a \o rest)[i] = IF i <= Len(a) THEN a[i] ELSE rest[i - Len(a)]
    BY <1>4, <2>2, ConcatProperties
  <2>6. Len(a) + Len(rest) = 4
    BY <1>4, <2>2
  <2>7. Len(n) = 4
    BY <2>2, <2>4, <2>6
  <2>8. \A i \in 1..4 : n[i] = IF i <= 2 THEN a[i] ELSE rest[i - 2]
    BY <2>2, <2>5, <2>6
  <2>. QED
    BY <2>1, <2>3, <2>7, <2>8
<1>6. n \in Buffers
  BY <1>5, LenProperties DEF Buffers
<1>7. n[1] = Answer(r)[1] /\ n[2] = Answer(r)[2]
  BY <1>5
<1>. QED
  BY <1>2, <1>6, <1>7

\* The variables a symbol can change, as one record.
Fed == [service : Services, bridge : Bridges(Heard), parser : 0..3, buffer : Buffers,
        chunk : Seq(LineSymbols)]

\* A request is answered only when no answer is waiting, and from its own protocol.
LEMMA DispatchType ==
  ASSUME NEW c \in Fed, NEW x, NEW d, d = Dispatch(c, x)
  PROVE  /\ d \in Fed
         /\ d.bridge = c.bridge /\ d.parser = c.parser /\ d.chunk = c.chunk
         /\ d.service.operation = c.service.operation
         /\ \/ d.service.answer = c.service.answer /\ d.buffer = c.buffer
            \/ /\ x \in DlpRequests /\ c.service.answer = None
               /\ d.service.answer = x /\ d.buffer[1] = x /\ d.buffer[2] = x
<1>1. CASE x \notin DlpRequests \/ c.service.answer # None
  BY <1>1 DEF Dispatch
<1>2. CASE x \in DlpRequests /\ c.service.answer = None
  <2>1. PICK st : st = [c.service EXCEPT !.answer = x, !.early = FALSE]
    OBVIOUS
  <2>2. c.service \in Services /\ c.buffer \in Buffers
    BY DEF Fed
  <2>3. st \in Services /\ st.answer = x /\ st.operation = c.service.operation
    BY <1>2, <2>1, <2>2 DEF Services, Requested
  <2>4. PICK b : b = Answer(x) \o SubSeq(c.buffer, 3, 4)
    OBVIOUS
  <2>5. b \in Buffers /\ b[1] = x /\ b[2] = x
    BY <1>2, <2>2, <2>4, AnswerStored DEF Requested
  <2>6. d = [c EXCEPT !.buffer = b, !.service = st]
    BY <1>2, <2>1, <2>4 DEF Dispatch, Fed
  <2>. QED
    BY <1>2, <2>3, <2>5, <2>6 DEF Fed
<1>. QED
  BY <1>1, <1>2

\* The bridge keeps the variables typed, and only the end of a Dristy frame
\* reaches the answer.
LEMMA BridgeType ==
  ASSUME NEW c \in Fed, NEW x \in LineSymbols, NEW d, d = Bridge(c, x)
  PROVE  /\ d \in Fed
         /\ d.parser = c.parser /\ d.chunk = c.chunk
         /\ d.service.operation = c.service.operation
         /\ \/ d.service.answer = c.service.answer /\ d.buffer = c.buffer
            \/ /\ x \in DlpRequests /\ c.service.answer = None
               /\ c.bridge.body = <<"d">>
               /\ d.service.answer = x /\ d.buffer[1] = x /\ d.buffer[2] = x
<1>0. c.bridge \in Bridges(Heard) /\ x \in Heard
  BY DEF Fed, Heard
<1>1. ASSUME NEW e \in Bridges(Heard), d = [c EXCEPT !.bridge = e]
      PROVE  /\ d \in Fed /\ d.parser = c.parser /\ d.chunk = c.chunk
             /\ d.service = c.service /\ d.buffer = c.buffer
  BY <1>1 DEF Fed
<1>2. ASSUME NEW state \in {"IDLE", "HK_PASS", "SYNC1", "BODY"},
             d = [c EXCEPT !.bridge.state = state]
      PROVE  /\ d \in Fed /\ d.parser = c.parser /\ d.chunk = c.chunk
             /\ d.service = c.service /\ d.buffer = c.buffer
  <2>1. PICK e : e = [c.bridge EXCEPT !.state = state]
    OBVIOUS
  <2>2. e \in Bridges(Heard)
    BY <1>0, <2>1 DEF Bridges
  <2>3. d = [c EXCEPT !.bridge = e]
    BY <1>2, <2>1
  <2>. QED
    BY <1>1, <2>2, <2>3
<1>3. CASE x = "U" /\ c.bridge.state # "BODY"
  <2>1. [state |-> "SYNC1", body |-> <<>>] \in Bridges(Heard)
    BY DEF Bridges
  <2>. QED
    BY <1>1, <1>3, <2>1 DEF Bridge
<1>4. CASE x # "U" /\ c.bridge.state = "IDLE" /\ x = "H"
  BY <1>2, <1>4 DEF Bridge
<1>5. CASE x # "U" /\ c.bridge.state = "SYNC1"
  <2>1. d = [c EXCEPT !.bridge.state = IF x = "A" THEN "BODY" ELSE "IDLE"]
    BY <1>5 DEF Bridge
  <2>. QED
    BY <1>2, <2>1
<1>6. CASE c.bridge.state = "BODY" /\ c.bridge.body = <<>>
  <2>1. d = [c EXCEPT !.bridge.body = <<x>>]
    BY <1>6 DEF Bridge
  <2>2. PICK e : e = [c.bridge EXCEPT !.body = <<x>>]
    OBVIOUS
  <2>3. e \in Bridges(Heard)
    BY <1>0, <2>2 DEF Bridges
  <2>4. d = [c EXCEPT !.bridge = e]
    BY <2>1, <2>2
  <2>. QED
    BY <1>1, <2>3, <2>4
<1>7. CASE c.bridge.state = "BODY" /\ c.bridge.body # <<>>
  <2>1. PICK e : e = [c EXCEPT !.bridge = Idling]
    OBVIOUS
  <2>2. d = IF c.bridge.body = <<"d">> THEN Dispatch(e, x) ELSE e
    BY <1>7, <2>1 DEF Bridge
  <2>3. Idling \in Bridges(Heard)
    BY DEF Idling, Bridges
  <2>4. e \in Fed /\ e.parser = c.parser /\ e.chunk = c.chunk
        /\ e.service = c.service /\ e.buffer = c.buffer
    BY <2>1, <2>3 DEF Fed
  <2>5. CASE c.bridge.body = <<"d">>
    BY <2>2, <2>4, <2>5, DispatchType
  <2>6. CASE c.bridge.body # <<"d">>
    BY <2>2, <2>4, <2>6
  <2>. QED
    BY <2>5, <2>6
<1>8. CASE /\ x # "U" \/ c.bridge.state = "BODY"
           /\ x # "H" \/ c.bridge.state # "IDLE"
           /\ c.bridge.state \notin {"SYNC1", "BODY"}
  <2>1. d = c
    BY <1>8 DEF Bridge
  <2>. QED
    BY <2>1
<1>. QED
  BY <1>3, <1>4, <1>5, <1>6, <1>7, <1>8

\* The symbols of the line are among all symbols.
LEMMA LineIsEverything == LineSymbols \subseteq Everything
  BY DEF LineSymbols, Everything

\* A Dristy host never sends the "H" that the HK parser waits for.
LEMMA ParseOfDristyHost ==
  ASSUME ~SpeaksHk, NEW c \in Fed, NEW x \in LineSymbols, c.parser = 0,
         NEW d, d = Parse(c, x)
  PROVE  /\ d \in Fed /\ d.parser = 0 /\ d.bridge = c.bridge
         /\ d.service = c.service /\ d.buffer = c.buffer /\ d.chunk = c.chunk
<1>1. x # "H"
  BY LinkServiceAssumption DEF LineSymbols, DlpSymbols
<1>2. d = [c EXCEPT !.parser = 0, !.buffer[1] = c.buffer[1]]
  BY <1>1 DEF Parse
<1>3. PICK b : b = [c.buffer EXCEPT ![1] = c.buffer[1]]
  OBVIOUS
<1>4. b = c.buffer
  BY <1>3 DEF Fed, Buffers
<1>5. d = [c EXCEPT !.parser = 0, !.buffer = b]
  BY <1>2, <1>3 DEF Fed
<1>. QED
  BY <1>4, <1>5 DEF Fed

\* A complete HK frame is answered in the place of its data, and the rest of the
\* chunk is dropped.
LEMMA ParseOfHkHost ==
  ASSUME SpeaksHk, NEW c \in Fed, NEW x \in LineSymbols, NEW d, d = Parse(c, x)
  PROVE  /\ d \in Fed /\ d.bridge = c.bridge
         /\ d.service.operation = c.service.operation
         /\ \/ d.service = c.service /\ d.chunk = c.chunk
            \/ /\ d.service.answer \in HkRequests /\ d.chunk = <<>>
               /\ d.buffer[1] = d.service.answer /\ d.buffer[2] = d.service.answer
<1>. DEFINE place == IF c.parser = 1 /\ x # "K" THEN 0 ELSE c.parser
            kept  == [c EXCEPT !.buffer[place + 1] = x, !.parser = place + 1]
            r     == kept.buffer[4]
<1>0. /\ place \in 0..3 /\ x \in Everything /\ c.buffer \in Buffers
      /\ c.chunk \in Seq(LineSymbols) /\ 0 \in 0..3
  BY LineIsEverything DEF Fed
<1>1. PICK b : b = [c.buffer EXCEPT ![place + 1] = x]
  OBVIOUS
<1>2. b \in Buffers
  BY <1>0, <1>1 DEF Buffers
<1>3. PICK k : k = kept
  OBVIOUS
<1>4. /\ k = [c EXCEPT !.buffer = b, !.parser = place + 1]
      /\ k.buffer = b /\ k.parser = place + 1 /\ k.service = c.service
      /\ k.chunk = c.chunk /\ k.bridge = c.bridge
      /\ k \in [service : Services, bridge : Bridges(Heard), parser : Nat,
                buffer : Buffers, chunk : Seq(LineSymbols)]
  <2>1. k = [c EXCEPT !.buffer = b, !.parser = place + 1]
    BY <1>1, <1>3 DEF Fed
  <2>2. place + 1 \in Nat
    BY <1>0
  <2>. QED
    BY <2>1, <2>2, <1>2 DEF Fed
<1>5. CASE place = 0 /\ x # "H"
  <2>1. d = [c EXCEPT !.parser = 0, !.buffer[1] = IF c.parser = 1 THEN x ELSE @]
    BY <1>5 DEF Parse
  <2>2. PICK e : e = [c.buffer EXCEPT ![1] = IF c.parser = 1 THEN x ELSE @]
    OBVIOUS
  <2>3. e \in Buffers
    BY <1>0, <2>2 DEF Buffers
  <2>4. d = [c EXCEPT !.parser = 0, !.buffer = e]
    BY <2>1, <2>2
  <2>. HIDE DEF place, kept, r
  <2>5. d \in Fed
    BY <1>0, <2>3, <2>4 DEF Fed
  <2>6. d.service = c.service /\ d.chunk = c.chunk /\ d.bridge = c.bridge
    BY <2>4 DEF Fed
  <2>. QED
    BY <2>5, <2>6
<1>6. CASE place < 3 /\ (x = "H" \/ place # 0)
  <2>1. d = k
    BY <1>3, <1>6 DEF Parse
  <2>2. k.parser \in 0..3
    BY <1>0, <1>4, <1>6
  <2>. HIDE DEF place, kept, r
  <2>3. d \in Fed
    BY <1>4, <2>1, <2>2 DEF Fed
  <2>. QED
    BY <1>4, <2>1, <2>3
<1>7. CASE place = 3 /\ r \in HkRequests /\ kept.buffer \in Frames(r)
  <2>1. PICK h \in HkRequests : h = r
    BY <1>7
  <2>2. d = [k EXCEPT !.parser = 0, !.chunk = <<>>,
                      !.buffer = Answer(h) \o SubSeq(b, 3, 4),
                      !.service.answer = h, !.service.early = TRUE]
    <3>1. d = [kept EXCEPT !.parser = 0, !.chunk = <<>>,
                           !.buffer = Answer(r) \o SubSeq(@, 3, 4),
                           !.service.answer = r, !.service.early = TRUE]
      BY <1>7 DEF Parse
    <3>. HIDE DEF place, kept, r
    <3>. QED
      BY <1>3, <1>4, <2>1, <3>1
  <2>3. PICK st : st = [c.service EXCEPT !.answer = h, !.early = TRUE]
    OBVIOUS
  <2>4. c.service \in Services
    BY DEF Fed
  <2>5. st \in Services /\ st.answer = h /\ st.operation = c.service.operation
    BY <2>3, <2>4 DEF Services, Requested
  <2>6. PICK e : e = Answer(h) \o SubSeq(b, 3, 4)
    OBVIOUS
  <2>7. e \in Buffers /\ e[1] = h /\ e[2] = h
    BY <1>2, <2>6, AnswerStored DEF Requested
  <2>8. d = [k EXCEPT !.parser = 0, !.chunk = <<>>, !.buffer = e, !.service = st]
    BY <1>4, <2>2, <2>3, <2>6
  <2>9. <<>> \in Seq(LineSymbols)
    OBVIOUS
  <2>. HIDE DEF place, kept, r
  <2>10. d \in Fed
    BY <1>0, <1>4, <2>5, <2>7, <2>8, <2>9 DEF Fed
  <2>11. d.service = st /\ d.chunk = <<>> /\ d.bridge = c.bridge /\ d.buffer = e
    BY <1>4, <2>8
  <2>. QED
    BY <2>1, <2>5, <2>7, <2>10, <2>11
<1>8. CASE place = 3 /\ ~(r \in HkRequests /\ kept.buffer \in Frames(r))
  <2>1. d = [k EXCEPT !.parser = 0]
    BY <1>3, <1>8 DEF Parse
  <2>. HIDE DEF place, kept, r
  <2>2. d \in Fed
    BY <1>0, <1>4, <2>1 DEF Fed
  <2>3. d.service = c.service /\ d.chunk = c.chunk /\ d.bridge = c.bridge
    BY <1>4, <2>1
  <2>. QED
    BY <2>2, <2>3
<1>. QED
  BY <1>0, <1>5, <1>6, <1>7, <1>8

\* One symbol of the chunk is fed to the bridge, and perhaps to the parser.
LEMMA SymbolIsFed ==
  ASSUME IInv, TickFeed
  PROVE  IInv'
<1>1. PICK x : x = Head(chunk)
  OBVIOUS
<1>2. PICK now : now = [service |-> service, bridge |-> bridge, parser |-> parser,
                        buffer |-> buffer, chunk |-> Tail(chunk)]
  OBVIOUS
<1>3. PICK b : b = Bridge(now, x)
  OBVIOUS
<1>4. PICK c : c = IF Routed(now, x) THEN Parse(b, x) ELSE b
  OBVIOUS
<1>5. /\ chunk # <<>>
      /\ service' = c.service /\ bridge' = c.bridge /\ parser' = c.parser
      /\ buffer' = c.buffer /\ chunk' = c.chunk
      /\ UNCHANGED <<host, uart, faults>>
  BY <1>1, <1>2, <1>3, <1>4 DEF TickFeed
<1>6. /\ x \in LineSymbols /\ now \in Fed /\ ~now.service.operation
      /\ now.service = service /\ now.buffer = buffer /\ now.parser = parser
      /\ now.bridge = bridge
  <2>1. x \in LineSymbols /\ Tail(chunk) \in Seq(LineSymbols)
    BY <1>1, <1>5, UartState, HeadTailProperties
  <2>2. ~service.operation
    BY <1>5 DEF IInv, WriteOK
  <2>. QED
    BY <1>2, <2>1, <2>2 DEF IInv, TypeOK, Fed
<1>7. /\ b \in Fed /\ b.parser = parser /\ ~b.service.operation
      /\ \/ b.service.answer = service.answer /\ b.buffer = buffer
         \/ /\ x \in DlpRequests /\ bridge.body = <<"d">>
            /\ b.service.answer = x /\ b.buffer[1] = x /\ b.buffer[2] = x
  BY <1>3, <1>6, BridgeType
<1>8. /\ c \in Fed /\ ~c.service.operation
      /\ ~SpeaksHk => c.parser = 0
      /\ c.service.answer # None => /\ c.buffer[1] = c.service.answer
                                    /\ c.buffer[2] = c.service.answer
      /\ SpeaksHk => c.service.answer \in HkRequests \cup {None}
      /\ ~SpeaksHk => c.service.answer \in DlpRequests \cup {None}
      /\ SpeaksHk /\ c.chunk # <<>> => c.service.answer = None
  <2>1. CASE SpeaksHk
    <3>1. x \notin DlpRequests
      BY <2>1, <1>6, LinkServiceAssumption DEF LineSymbols, HkSymbols
    <3>2. service.answer = None
      BY <2>1, <1>5 DEF IInv, AnswerOK
    <3>3. b.service.answer = None
      BY <1>7, <3>1, <3>2
    <3>4. CASE c = b
      BY <1>7, <2>1, <3>3, <3>4
    <3>5. CASE c = Parse(b, x)
      <4>1. /\ c \in Fed /\ ~c.service.operation
            /\ \/ c.service = b.service /\ c.chunk = b.chunk
               \/ /\ c.service.answer \in HkRequests /\ c.chunk = <<>>
                  /\ c.buffer[1] = c.service.answer /\ c.buffer[2] = c.service.answer
        BY <1>6, <1>7, <2>1, <3>5, ParseOfHkHost
      <4>. QED
        BY <2>1, <3>3, <4>1
    <3>. QED
      BY <1>4, <3>4, <3>5
  <2>2. CASE ~SpeaksHk
    <3>1. b.parser = 0
      BY <1>7, <2>2 DEF IInv, ParserOK
    <3>2. /\ c \in Fed /\ ~c.service.operation /\ c.parser = 0
          /\ c.service = b.service /\ c.buffer = b.buffer
      <4>1. CASE c = b
        BY <1>7, <3>1, <4>1
      <4>2. CASE c = Parse(b, x)
        BY <1>6, <1>7, <2>2, <3>1, <4>2, ParseOfDristyHost
      <4>. QED
        BY <1>4, <4>1, <4>2
    <3>. QED
      BY <1>7, <2>2, <3>2 DEF IInv, AnswerOK
  <2>. QED
    BY <2>1, <2>2
<1>9. (SpeaksHk' <=> SpeaksHk) /\ LineSymbols' = LineSymbols /\ Heard' = Heard
  BY <1>5, SymbolsStay
<1>10. TypeOK'
  BY <1>5, <1>8, <1>9 DEF IInv, TypeOK, HostType, UartType, Fed, Services, Bridges,
       Buffers, Everything, HkSymbols, DlpSymbols
<1>11. ParserOK' /\ AnswerOK'
  BY <1>5, <1>8, <1>9 DEF ParserOK, AnswerOK
<1>12. WriteOK'
  BY <1>5, <1>6, <1>8 DEF IInv, WriteOK
<1>. QED
  BY <1>10, <1>11, <1>12 DEF IInv
\* The debug console moves the bridge only: its own answer is pending, so that the
\* service's is left alone.
LEMMA DebugMovesTheBridge ==
  ASSUME IInv, NEW x \in {"H", "U", "A"}, DebugByte(x)
  PROVE  IInv'
<1>1. PICK st : st = [service EXCEPT !.answer = "debug"]
  OBVIOUS
<1>2. st.answer = "debug"
  BY <1>1 DEF IInv, TypeOK, Services
<1>3. PICK c : c = [uart |-> uart, service |-> st, bridge |-> bridge,
                    parser |-> parser, buffer |-> buffer]
  OBVIOUS
<1>4. c.bridge = bridge /\ c.service.answer = "debug" /\ DOMAIN c =
        {"uart", "service", "bridge", "parser", "buffer"}
  BY <1>2, <1>3
<1>5. /\ bridge' = Bridge(c, x).bridge /\ chunk = <<>> /\ faults' = faults + 1
      /\ UNCHANGED <<host, uart, parser, buffer, service, chunk>>
  BY <1>1, <1>3 DEF DebugByte, LoopIsFree, Fault
<1>6. bridge \in Bridges(Heard) /\ x \in Heard
  BY DEF IInv, TypeOK, Heard
<1>7. Bridge(c, x).bridge \in Bridges(Heard)
  <2>1. ASSUME NEW d, NEW e \in Bridges(Heard), d = [c EXCEPT !.bridge = e]
        PROVE  d.bridge \in Bridges(Heard)
    BY <2>1, <1>3
  <2>2. ASSUME NEW d, NEW state \in {"IDLE", "HK_PASS", "SYNC1", "BODY"},
               d = [c EXCEPT !.bridge.state = state]
        PROVE  d.bridge \in Bridges(Heard)
    <3>1. PICK e : e = [bridge EXCEPT !.state = state]
      OBVIOUS
    <3>2. e \in Bridges(Heard)
      BY <1>6, <3>1 DEF Bridges
    <3>3. d.bridge = e
      BY <1>3, <2>2, <3>1
    <3>. QED
      BY <3>2, <3>3
  <2>3. CASE x = "U" /\ bridge.state # "BODY"
    <3>1. [state |-> "SYNC1", body |-> <<>>] \in Bridges(Heard)
      BY DEF Bridges
    <3>. QED
      BY <1>4, <2>1, <2>3, <3>1 DEF Bridge
  <2>4. CASE x # "U" /\ bridge.state = "IDLE" /\ x = "H"
    <3>1. Bridge(c, x) = [c EXCEPT !.bridge.state = "HK_PASS"]
      BY <1>4, <2>4 DEF Bridge
    <3>. QED
      BY <2>2, <3>1
  <2>5. CASE x # "U" /\ bridge.state = "SYNC1"
    <3>1. Bridge(c, x) = [c EXCEPT !.bridge.state = IF x = "A" THEN "BODY" ELSE "IDLE"]
      BY <1>4, <2>5 DEF Bridge
    <3>. QED
      BY <2>2, <3>1
  <2>6. CASE bridge.state = "BODY" /\ bridge.body = <<>>
    <3>1. Bridge(c, x) = [c EXCEPT !.bridge.body = <<x>>]
      BY <1>4, <2>6 DEF Bridge
    <3>2. PICK e : e = [bridge EXCEPT !.body = <<x>>]
      OBVIOUS
    <3>3. e \in Bridges(Heard)
      BY <1>6, <3>2 DEF Bridges
    <3>4. Bridge(c, x).bridge = e
      BY <1>3, <3>1, <3>2
    <3>. QED
      BY <3>3, <3>4
  <2>7. CASE bridge.state = "BODY" /\ bridge.body # <<>>
    <3>1. PICK d : d = [c EXCEPT !.bridge = Idling]
      OBVIOUS
    <3>2. d.service = st
      BY <1>3, <3>1
    <3>3. d.service.answer # None
      BY <1>2, <3>2 DEF None
    <3>4. Dispatch(d, x) = d
      BY <3>3 DEF Dispatch
    <3>5. Bridge(c, x) = d
      BY <1>4, <2>7, <3>1, <3>4 DEF Bridge
    <3>6. Idling \in Bridges(Heard)
      BY DEF Idling, Bridges
    <3>. QED
      BY <2>1, <3>1, <3>5, <3>6
  <2>8. CASE /\ x # "U" \/ bridge.state = "BODY"
             /\ x # "H" \/ bridge.state # "IDLE"
             /\ bridge.state \notin {"SYNC1", "BODY"}
    <3>1. Bridge(c, x) = c
      BY <1>4, <2>8 DEF Bridge
    <3>. QED
      BY <1>4, <1>6, <3>1
  <2>. QED
    BY <2>3, <2>4, <2>5, <2>6, <2>7, <2>8
<1>8. (SpeaksHk' <=> SpeaksHk) /\ LineSymbols' = LineSymbols /\ Heard' = Heard
  BY <1>5, SymbolsStay
<1>9. bridge' \in Bridges(Heard)
  BY <1>5, <1>7
<1>10. faults' \in Nat
  BY <1>5, FaultsCount
<1>11. TypeOK'
  BY <1>5, <1>8, <1>9, <1>10 DEF IInv, TypeOK, HostType, UartType, Services,
       Bridges, Buffers, Everything, HkSymbols, DlpSymbols
<1>. QED
  BY <1>5, <1>8, <1>11 DEF IInv, ParserOK, AnswerOK, WriteOK

-----------------------------------------------------------------------------
(* The theorems                                                            *)

\* The service starts with the UART and with nothing to answer.
LEMMA InitHolds == Init => IInv
<1>. SUFFICES ASSUME Init PROVE IInv
  OBVIOUS
<1>1. PICK p \in Protocols : host = [protocols |-> p, request |-> None,
                                     left |-> <<>>, speed |-> "low"]
  BY DEF Init
<1>2. <<>> \in Seq(LineSymbols) /\ 0 \in 0..3 /\ 0 \in Nat
  OBVIOUS
<1>3. HostType
  BY <1>1, <1>2 DEF HostType, Speeds
<1>4. UartType
  BY <1>2, EmptyOfSymbols DEF Init, UartType, Speeds
<1>5. bridge \in Bridges(Heard)
  BY DEF Init, Bridges, Idling
<1>6. buffer \in Buffers
  <2>1. "-" \in Everything
    BY DEF Everything
  <2>. QED
    BY <2>1 DEF Init, Blank, Buffers
<1>7. service \in Services
  BY DEF Init, Services, Speeds
<1>8. TypeOK
  BY <1>2, <1>3, <1>4, <1>5, <1>6, <1>7 DEF TypeOK, Init
<1>9. ParserOK /\ AnswerOK /\ WriteOK
  BY DEF Init, ParserOK, AnswerOK, WriteOK
<1>. QED
  BY <1>8, <1>9 DEF IInv

\* Every step keeps the invariant, if the host speaks one protocol.
LEMMA NextKeeps ==
  ASSUME OneProtocolPerHost, IInv, [Next]_vars
  PROVE  IInv'
<1>1. CASE HostAsks \/ HostByte \/ ByteLost \/ HostRepeats \/ HostHurries
  BY <1>1, TheHost
<1>2. ASSUME NEW speed \in Speeds, UserSetsSpeed(speed) PROVE IInv'
  BY <1>2, SpeedIsSet
<1>3. ASSUME NEW tr \in {"UART", "I2C"}, SetTransport(tr) PROVE IInv'
  BY <1>3, TransportIsSet
<1>4. CASE Suspend
  BY <1>4, ScriptTakesTheLink
<1>5. CASE Resume
  BY <1>5, ScriptReturnsTheLink
<1>6. CASE Tick
  BY <1>6, LinkIsTakenAgain, PartIsSent, WriteEnds, WriteBegins, ChunkIsRead,
     SymbolIsFed DEF Tick
<1>7. CASE TickTooLate
  BY <1>7, WriteIsGivenUp
<1>8. CASE TurnaroundPasses
  BY <1>8, TimePasses
<1>9. ASSUME NEW x \in {"H", "U", "A"}, DebugByte(x) PROVE IInv'
  BY <1>9, DebugMovesTheBridge
<1>10. CASE UNCHANGED vars
  <2>1. UNCHANGED <<host, uart, bridge, parser, buffer, service, chunk, faults>>
    BY <1>10 DEF vars
  <2>. QED
    BY <2>1, UartState, SameHost, WriteGoesOn DEF IInv, TypeOK
<1>. QED
  BY <1>1, <1>2, <1>3, <1>4, <1>5, <1>6, <1>7, <1>8, <1>9, <1>10 DEF Next

\* The invariant says what was meant: the parts of a write that were sent are
\* the parts of the answer.
LEMMA IntactFromInv ==
  ASSUME IInv
  PROVE  WireIntact
<1>. SUFFICES ASSUME uart.op.wire # <<>>
              PROVE  \E r \in Requested : IsPrefix(uart.op.wire, Answer(r))
  BY DEF WireIntact, Requested
<1>1. service.operation
  <2>1. NoWrite.wire = <<>>
    BY DEF NoWrite
  <2>2. ~service.operation => uart.op.wire = NoWrite.wire
    BY DEF IInv, WriteOK
  <2>. QED
    BY <2>1, <2>2
<1>. DEFINE r == service.answer
            k == uart.op.sent
            w == uart.op.wire
<1>2. r \in Requested /\ k \in 0..2 /\ w = [i \in 1..k |-> r]
  BY <1>1, UartState DEF IInv, WriteOK, Services, UartStates, Writes
<1>. HIDE DEF r, k, w
<1>3. w \in Seq(Requested) /\ Len(w) = k /\ \A i \in 1..k : w[i] = r
  BY <1>2
<1>4. Answer(r) \in Seq(Requested) /\ Len(Answer(r)) = 2
      /\ \A i \in 1..2 : Answer(r)[i] = r
  BY <1>2 DEF Answer
<1>5. PICK a : a = Answer(r)
  OBVIOUS
<1>6. SubSeq(w, 1, k) = w
  BY <1>3, SubSeqFull
<1>7. SubSeq(a, 1, k) = w
  <2>1. k \in Int /\ 1 \in Int /\ \A i \in 1..k : a[i] = r /\ a[i] \in Requested
    BY <1>2, <1>4, <1>5
  <2>2. PICK p : p = SubSeq(a, 1, k)
    OBVIOUS
  <2>3. /\ p \in Seq(Requested) /\ Len(p) = IF 1 <= k THEN k - 1 + 1 ELSE 0
        /\ \A i \in 1 .. k - 1 + 1 : p[i] = a[1 + i - 1]
    BY <2>1, <2>2, SubSeqProperties
  <2>4. Len(p) = k
    BY <1>2, <2>3
  <2>5. \A i \in 1..k : p[i] = w[i]
    BY <1>2, <1>3, <2>1, <2>3
  <2>6. p = w
    BY <1>3, <2>3, <2>4, <2>5, SeqEqual
  <2>. QED
    BY <2>2, <2>6
<1>8. IsPrefix(w, Answer(r))
  <2>1. Len(w) <= Len(a)
    BY <1>2, <1>3, <1>4, <1>5
  <2>. QED
    BY <1>3, <1>5, <1>6, <1>7, <2>1 DEF IsPrefix
<1>. QED
  BY <1>2, <1>8 DEF r, w

\* What the variables hold, whatever a host of one protocol, the user, scripts
\* and the console do.
THEOREM TypeCorrect == OneProtocolPerHost => (Spec => []TypeOK)
<1>. SUFFICES ASSUME OneProtocolPerHost PROVE Spec => []TypeOK
  OBVIOUS
<1>1. Init => IInv
  BY InitHolds
<1>2. IInv /\ [Next]_vars => IInv'
  BY NextKeeps
<1>3. IInv => TypeOK
  BY DEF IInv
<1>. QED
  BY <1>1, <1>2, <1>3, PTL DEF Spec

\* The one response buffer of external_link_service.c: while it is written to
\* the line, no later frame, suspension or setting puts anything else there.
THEOREM WireIntactHolds == OneProtocolPerHost => (Spec => []WireIntact)
<1>. SUFFICES ASSUME OneProtocolPerHost PROVE Spec => []WireIntact
  OBVIOUS
<1>1. Init => IInv
  BY InitHolds
<1>2. IInv /\ [Next]_vars => IInv'
  BY NextKeeps
<1>3. IInv => WireIntact
  BY IntactFromInv
<1>. QED
  BY <1>1, <1>2, <1>3, PTL DEF Spec
================================================================================
