--------------------------- MODULE ExternalLinkProofs ---------------------------
(***************************************************************************)
(* Proofs about ExternalLinkTarget for any payload size and any capacity   *)
(* of the window, when a master ends each transaction with a STOP: what    *)
(* the window holds is what the master did, no loss is silent, and a READ  *)
(* sends the response that was armed for it.                               *)
(***************************************************************************)
EXTENDS ExternalLinkTarget, SequenceTheorems, TLAPS

Transactions ==
  [type : {"WRITE"}, payload : Seq(Bytes)] \cup [type : {"READ"}, requested : Nat]

TgtType ==
  /\ tgt \in [events : Seq(Events), overflow : BOOLEAN, rx_discard : BOOLEAN,
              rx_slot : Slots \cup {None}, preload_slot : Slots \cup {None},
              read_active : BOOLEAN, active_slot : Slots \cup {None},
              read_index : 0 .. MaxBytes + 1]
  /\ Len(tgt.events) <= Capacity

BuffersType ==
  /\ buffers \in [Slots -> Seq(Bytes)]
  /\ \A s \in Slots : Len(buffers[s]) <= MaxBytes

BusType ==
  /\ bus \in [phase : {"idle", "write", "read"}, sent : Seq(Bytes), excused : BOOLEAN]
  /\ Len(bus.sent) <= MaxBytes + 1

AppType ==
  /\ app \in [completed : Seq(Transactions), armed : Seq(Bytes), answer : Seq(Bytes)]
  /\ Len(app.armed) <= MaxBytes /\ Len(app.answer) <= MaxBytes

Queued(i) == tgt.events[i].type = "WRITE"

\* Nothing of a write is under way.
Quiet == tgt.rx_slot = None /\ ~tgt.rx_discard /\ bus.sent = <<>> /\ ~bus.excused

\* Between transactions and in a READ no write is under way; in a write the
\* bytes are in the receive buffer, or are discarded under an overflow that
\* the next poll reports or that the last one did.
PhaseOK ==
  /\ bus.phase = "idle" => Quiet /\ ~tgt.read_active
  /\ bus.phase = "read" => Quiet /\ tgt.read_active
  /\ bus.phase = "write" =>
       /\ ~tgt.read_active /\ bus.sent # <<>>
       /\ tgt.rx_discard => tgt.overflow \/ bus.excused
       /\ ~tgt.rx_discard =>
            ~bus.excused /\ tgt.rx_slot # None /\ buffers[tgt.rx_slot] = bus.sent
  /\ ~tgt.read_active => tgt.active_slot = None /\ tgt.read_index = 0
  /\ tgt.read_active => tgt.read_index > 0

\* A buffer has one use: the write being received, the response being sent,
\* the response armed, or one event of the window.
OneUse ==
  /\ tgt.rx_slot # None =>
       tgt.rx_slot # tgt.active_slot /\ tgt.rx_slot # tgt.preload_slot
  /\ tgt.active_slot # None => tgt.active_slot # tgt.preload_slot
  /\ \A i \in 1 .. Len(tgt.events) : Queued(i) =>
       /\ tgt.events[i].slot \in Slots
       /\ tgt.events[i].slot # tgt.rx_slot /\ tgt.events[i].slot # tgt.active_slot
       /\ tgt.events[i].slot # tgt.preload_slot
       /\ \A j \in 1 .. Len(tgt.events) :
            Queued(j) /\ tgt.events[i].slot = tgt.events[j].slot => i = j

\* The event at i of the window is the transaction at i of those completed.
EventIs(i) ==
  app.completed[i] =
    IF Queued(i) THEN [type |-> "WRITE", payload |-> buffers[tgt.events[i].slot]]
    ELSE [type |-> "READ", requested |-> tgt.events[i].requested]

WindowOK ==
  /\ Len(tgt.events) <= Len(app.completed)
  /\ ~tgt.overflow => Len(tgt.events) = Len(app.completed)
  /\ \A i \in 1 .. Len(tgt.events) : EventIs(i)

IInv == /\ TgtType /\ BuffersType /\ BusType /\ AppType
        /\ PhaseOK /\ OneUse /\ WindowOK /\ ResponseIntact

-----------------------------------------------------------------------------
(* Sequences                                                               *)

(***************************************************************************)
(* A sequence of at most n elements, in the two ways it is written.        *)
(***************************************************************************)
LEMMA SequencesUpTo ==
  \A S, s : \A n \in Nat :
    s \in UNION {[1 .. m -> S] : m \in 0 .. n} <=> s \in Seq(S) /\ Len(s) <= n
<1> SUFFICES ASSUME NEW S, NEW s, NEW n \in Nat
             PROVE  s \in UNION {[1 .. m -> S] : m \in 0 .. n}
                      <=> s \in Seq(S) /\ Len(s) <= n
  OBVIOUS
<1>1. ASSUME s \in UNION {[1 .. m -> S] : m \in 0 .. n}
      PROVE  s \in Seq(S) /\ Len(s) <= n
  <2>1. PICK m \in 0 .. n : s \in [1 .. m -> S]
    BY <1>1
  <2>2. QED
    BY <2>1, IsASeq
<1>2. ASSUME s \in Seq(S), Len(s) <= n
      PROVE  s \in UNION {[1 .. m -> S] : m \in 0 .. n}
  <2>1. Len(s) \in 0 .. n /\ s \in [1 .. Len(s) -> S]
    BY <1>2, LenProperties
  <2>2. QED
    BY <2>1
<1>3. QED
  BY <1>1, <1>2

(***************************************************************************)
(* A payload of no bytes fits a buffer.                                    *)
(***************************************************************************)
LEMMA NoBytes == <<>> \in Seq(Bytes) /\ Len(<<>>) <= MaxBytes
BY EmptySeq, TargetAssumption

(***************************************************************************)
(* A buffer found free is in no use.                                       *)
(***************************************************************************)
LEMMA FreeIsUnused ==
  ASSUME NEW t, FreeBuffer(t) # None
  PROVE  FreeBuffer(t) \in Slots /\ ~Reserved(t, FreeBuffer(t))
BY DEF FreeBuffer, Slots

(***************************************************************************)
(* The window stays true while its events and their buffers are let alone. *)
(***************************************************************************)
LEMMA WindowKept ==
  ASSUME WindowOK, tgt'.events = tgt.events, app'.completed = app.completed,
         tgt.overflow => tgt'.overflow,
         \A i \in 1 .. Len(tgt.events) :
           Queued(i) => buffers'[tgt.events[i].slot] = buffers[tgt.events[i].slot]
  PROVE  WindowOK'
<1>1. ASSUME NEW i \in 1 .. Len(tgt.events)
      PROVE  EventIs(i)'
  BY DEF WindowOK, EventIs, Queued
<1>2. QED
  BY <1>1 DEF WindowOK

-----------------------------------------------------------------------------
(* The interrupt handlers                                                  *)

(***************************************************************************)
(* A byte written by the master is kept in the buffer of its write, or the *)
(* rest of the write is discarded under an overflow.                       *)
(***************************************************************************)
LEMMA MasterWriteKeeps ==
  ASSUME IInv, NEW byte \in Bytes, MasterWrite(byte)
  PROVE  IInv'
<1> DEFINE slot == IF tgt.rx_slot = None THEN FreeBuffer(tgt) ELSE tgt.rx_slot
           old  == IF tgt.rx_slot = None THEN <<>> ELSE buffers[slot]
<1>1. /\ bus.phase # "read" /\ Len(bus.sent) <= MaxBytes
      /\ bus' = [bus EXCEPT !.phase = "write", !.sent = Append(bus.sent, byte)]
      /\ app' = app
  BY DEF MasterWrite
<1>2. /\ bus'.phase = "write" /\ bus'.sent = Append(bus.sent, byte)
      /\ bus'.excused = bus.excused /\ bus'.sent # <<>> /\ BusType'
  <2>1. /\ Append(bus.sent, byte) \in Seq(Bytes) /\ Append(bus.sent, byte) # <<>>
        /\ Len(Append(bus.sent, byte)) = Len(bus.sent) + 1
        /\ Len(bus.sent) \in Nat
    BY AppendProperties DEF IInv, BusType
  <2>2. Len(Append(bus.sent, byte)) <= MaxBytes + 1
    BY <1>1, <2>1, TargetAssumption
  <2>3. /\ bus'.phase = "write" /\ bus'.sent = Append(bus.sent, byte)
        /\ bus'.excused = bus.excused
        /\ bus' \in [phase : {"idle", "write", "read"}, sent : Seq(Bytes), excused : BOOLEAN]
    BY <1>1, <2>1 DEF IInv, BusType
  <2>4. QED
    BY <2>1, <2>2, <2>3 DEF BusType
<1>3. /\ ~tgt.read_active /\ tgt.active_slot = None /\ tgt.read_index = 0
      /\ tgt.rx_discard => tgt.overflow \/ bus.excused
      /\ ~tgt.rx_discard => ~bus.excused
      /\ tgt.rx_slot # None /\ ~tgt.rx_discard => buffers[tgt.rx_slot] = bus.sent
      /\ tgt.rx_slot = None /\ ~tgt.rx_discard => bus.sent = <<>>
  BY <1>1 DEF IInv, PhaseOK, Quiet, BusType
<1>4. \/ /\ tgt' = [tgt EXCEPT !.rx_discard = TRUE]
         /\ tgt.overflow \/ tgt.rx_discard
         /\ buffers' = buffers
      \/ /\ tgt' = [tgt EXCEPT !.overflow = TRUE, !.rx_discard = TRUE]
         /\ buffers' = buffers
      \/ /\ ~tgt.overflow /\ ~tgt.rx_discard /\ slot # None /\ Len(old) # MaxBytes
         /\ tgt' = [tgt EXCEPT !.rx_slot = slot]
         /\ buffers' = [buffers EXCEPT ![slot] = Append(old, byte)]
  BY DEF MasterWrite, Receive
<1> HIDE DEF slot, old
<1>5. ASSUME NEW overflow \in BOOLEAN,
             tgt' = [tgt EXCEPT !.overflow = overflow, !.rx_discard = TRUE],
             overflow \/ tgt.rx_discard, tgt.overflow => overflow, buffers' = buffers
      PROVE  IInv'
  <2>1. /\ TgtType' /\ tgt'.rx_discard /\ tgt'.overflow = overflow
        /\ tgt'.events = tgt.events /\ tgt'.rx_slot = tgt.rx_slot
        /\ tgt'.preload_slot = tgt.preload_slot /\ tgt'.active_slot = tgt.active_slot
        /\ tgt'.read_active = tgt.read_active /\ tgt'.read_index = tgt.read_index
    BY <1>5 DEF IInv, TgtType
  <2>2. PhaseOK'
    BY <1>2, <1>3, <1>5, <2>1 DEF PhaseOK
  <2>3. OneUse'
    BY <2>1 DEF IInv, OneUse, Queued
  <2>4. WindowOK'
    BY <1>1, <1>5, <2>1, WindowKept DEF IInv
  <2>5. ResponseIntact'
    BY <1>1, <1>5, <2>1 DEF IInv, ResponseIntact
  <2>6. QED
    BY <1>1, <1>2, <1>5, <2>1, <2>2, <2>3, <2>4, <2>5 DEF IInv, BuffersType, AppType
<1>6. ASSUME ~tgt.overflow, ~tgt.rx_discard, slot # None, Len(old) # MaxBytes,
             tgt' = [tgt EXCEPT !.rx_slot = slot],
             buffers' = [buffers EXCEPT ![slot] = Append(old, byte)]
      PROVE  IInv'
  <2>1. slot \in Slots /\ (tgt.rx_slot # None => slot = tgt.rx_slot)
    BY <1>6, FreeIsUnused DEF slot, IInv, TgtType
  <2>2. /\ slot # tgt.active_slot /\ slot # tgt.preload_slot
        /\ \A i \in 1 .. Len(tgt.events) : Queued(i) => tgt.events[i].slot # slot
    <3>1. CASE tgt.rx_slot = None
      <4>1. ~Reserved(tgt, slot) /\ slot \in Slots
        BY <1>6, <3>1, FreeIsUnused DEF slot
      <4>2. QED
        BY <1>3, <1>6, <4>1 DEF Reserved, Queued, IInv, TgtType
    <3>2. CASE tgt.rx_slot # None
      BY <2>1, <3>2 DEF IInv, OneUse
    <3>3. QED
      BY <3>1, <3>2
  <2>3. /\ old = bus.sent /\ old \in Seq(Bytes) /\ Len(old) < MaxBytes
    <3>1. old = bus.sent
      BY <1>3, <1>6, <2>1 DEF old
    <3>2. bus.sent \in Seq(Bytes) /\ Len(bus.sent) \in Nat
      BY DEF IInv, BusType
    <3>3. QED
      BY <1>1, <1>6, <3>1, <3>2, TargetAssumption
  <2>4. /\ Append(old, byte) \in Seq(Bytes) /\ Len(Append(old, byte)) <= MaxBytes
        /\ Append(old, byte) = bus'.sent
    BY <1>2, <2>3, AppendProperties, TargetAssumption
  <2>5. /\ TgtType' /\ tgt'.rx_slot = slot /\ tgt'.overflow = tgt.overflow
        /\ tgt'.rx_discard = tgt.rx_discard
        /\ tgt'.events = tgt.events
        /\ tgt'.preload_slot = tgt.preload_slot /\ tgt'.active_slot = tgt.active_slot
        /\ tgt'.read_active = tgt.read_active /\ tgt'.read_index = tgt.read_index
    BY <1>6, <2>1 DEF IInv, TgtType
  <2>6. /\ BuffersType' /\ buffers'[slot] = bus'.sent
        /\ \A s \in Slots \ {slot} : buffers'[s] = buffers[s]
    BY <1>6, <2>1, <2>4 DEF IInv, BuffersType
  <2>7. PhaseOK'
    BY <1>2, <1>3, <1>6, <2>5, <2>6 DEF PhaseOK
  <2>8. OneUse'
    BY <1>6, <2>2, <2>5 DEF IInv, OneUse, Queued
  <2>9. WindowOK'
    <3>1. \A i \in 1 .. Len(tgt.events) :
            Queued(i) => buffers'[tgt.events[i].slot] = buffers[tgt.events[i].slot]
      BY <2>2, <2>6 DEF IInv, OneUse
    <3>2. QED
      BY <1>1, <2>5, <3>1, WindowKept DEF IInv
  <2>10. ResponseIntact'
    <3>1. tgt.preload_slot \in Slots \cup {None}
      BY DEF IInv, TgtType
    <3>2. QED
      BY <1>1, <1>3, <2>2, <2>5, <2>6, <3>1 DEF IInv, ResponseIntact
  <2>11. QED
    BY <1>1, <1>2, <2>5, <2>6, <2>7, <2>8, <2>9, <2>10 DEF IInv, AppType
<1>7. CASE tgt' = [tgt EXCEPT !.rx_discard = TRUE] /\ (tgt.overflow \/ tgt.rx_discard)
           /\ buffers' = buffers
  <2>1. tgt' = [tgt EXCEPT !.overflow = tgt.overflow, !.rx_discard = TRUE]
        /\ tgt.overflow \in BOOLEAN
    BY <1>7 DEF IInv, TgtType
  <2>2. QED
    BY <1>5, <1>7, <2>1
<1>8. QED
  BY <1>4, <1>5, <1>6, <1>7

(***************************************************************************)
(* A byte read by the master takes the armed response, on the first of a   *)
(* READ, or is another byte of it.  A master that turns a write into a     *)
(* read without a STOP is excluded.                                        *)
(***************************************************************************)
LEMMA MasterReadKeeps ==
  ASSUME ~RepeatedStart, IInv, MasterRead
  PROVE  IInv'
<1>1. /\ bus.phase # "write" /\ tgt.read_index <= MaxBytes
      /\ bus' = [bus EXCEPT !.phase = "read"]
      /\ buffers' = buffers
  BY DEF MasterRead
<1>2. /\ bus'.phase = "read" /\ bus'.sent = bus.sent /\ bus'.excused = bus.excused
      /\ BusType'
  BY <1>1 DEF IInv, BusType
<1>3. /\ Quiet
      /\ bus.phase = "idle" <=> ~tgt.read_active
  BY <1>1 DEF IInv, PhaseOK, BusType
<1>4. CASE tgt.read_active
  <2>1. tgt' = [tgt EXCEPT !.read_index = tgt.read_index + 1] /\ app' = app
    BY <1>4 DEF MasterRead, Transmit
  <2>2. tgt.read_index + 1 \in 0 .. MaxBytes + 1 /\ tgt.read_index + 1 > 0
    BY <1>1, TargetAssumption DEF IInv, TgtType
  <2>3. /\ TgtType' /\ tgt'.overflow = tgt.overflow /\ tgt'.events = tgt.events
        /\ tgt'.rx_slot = tgt.rx_slot /\ tgt'.rx_discard = tgt.rx_discard
        /\ tgt'.preload_slot = tgt.preload_slot /\ tgt'.active_slot = tgt.active_slot
        /\ tgt'.read_active = tgt.read_active /\ tgt'.read_index = tgt.read_index + 1
    BY <2>1, <2>2 DEF IInv, TgtType
  <2>4. PhaseOK'
    BY <1>2, <1>3, <1>4, <2>2, <2>3 DEF PhaseOK, Quiet
  <2>5. OneUse'
    BY <2>3 DEF IInv, OneUse, Queued
  <2>6. WindowOK'
    BY <1>1, <2>1, <2>3, WindowKept DEF IInv
  <2>7. ResponseIntact'
    BY <1>1, <2>1, <2>3 DEF IInv, ResponseIntact
  <2>8. QED
    BY <1>1, <1>2, <2>1, <2>3, <2>4, <2>5, <2>6, <2>7 DEF IInv, BuffersType, AppType
<1>5. CASE ~tgt.read_active
  <2>1. /\ tgt' = [tgt EXCEPT !.active_slot = tgt.preload_slot, !.read_index = 1,
                              !.preload_slot = None, !.read_active = TRUE]
        /\ app' = [app EXCEPT !.answer = app.armed, !.armed = <<>>]
    BY <1>5 DEF MasterRead, Transmit
  <2>2. 1 \in 0 .. MaxBytes + 1 /\ None \in Slots \cup {None}
    BY TargetAssumption
  <2>3. /\ TgtType' /\ tgt'.overflow = tgt.overflow /\ tgt'.events = tgt.events
        /\ tgt'.rx_slot = tgt.rx_slot /\ tgt'.rx_discard = tgt.rx_discard
        /\ tgt'.preload_slot = None /\ tgt'.active_slot = tgt.preload_slot
        /\ tgt'.read_active = TRUE /\ tgt'.read_index = 1
    BY <2>1, <2>2 DEF IInv, TgtType
  <2>4. /\ AppType' /\ app'.completed = app.completed
        /\ app'.answer = app.armed /\ app'.armed = <<>>
    BY <2>1, NoBytes DEF IInv, AppType
  <2>5. PhaseOK'
    BY <1>2, <1>3, <2>3 DEF PhaseOK, Quiet
  <2>6. OneUse'
    <3>1. tgt.rx_slot = None
      BY <1>3 DEF Quiet
    <3>2. QED
      BY <2>3, <3>1 DEF IInv, OneUse, Queued, Slots, None
  <2>7. WindowOK'
    BY <1>1, <2>3, <2>4, WindowKept DEF IInv
  <2>8. ResponseIntact'
    BY <1>1, <2>3, <2>4 DEF IInv, ResponseIntact
  <2>9. QED
    BY <1>1, <1>2, <2>3, <2>4, <2>5, <2>6, <2>7, <2>8 DEF IInv, BuffersType
<1>6. QED
  BY <1>4, <1>5

(***************************************************************************)
(* Queuing an event appends it, or latches the overflow and leaves the     *)
(* window as it was.                                                       *)
(***************************************************************************)
LEMMA QueueStep ==
  ASSUME TgtType, NEW e \in Events
  PROVE  LET t == Queue(tgt, e)
         IN  /\ t \in [events : Seq(Events), overflow : BOOLEAN, rx_discard : BOOLEAN,
                       rx_slot : Slots \cup {None}, preload_slot : Slots \cup {None},
                       read_active : BOOLEAN, active_slot : Slots \cup {None},
                       read_index : 0 .. MaxBytes + 1]
             /\ Len(t.events) <= Capacity
             /\ t.rx_discard = tgt.rx_discard /\ t.rx_slot = tgt.rx_slot
             /\ t.preload_slot = tgt.preload_slot /\ t.read_active = tgt.read_active
             /\ t.active_slot = tgt.active_slot /\ t.read_index = tgt.read_index
             /\ \/ t.overflow /\ t.events = tgt.events
                \/ /\ ~tgt.overflow /\ ~t.overflow
                   /\ t.events = Append(tgt.events, e)
<1>1. /\ Append(tgt.events, e) \in Seq(Events)
      /\ Len(Append(tgt.events, e)) = Len(tgt.events) + 1
      /\ Len(tgt.events) \in Nat /\ Capacity \in Nat
  BY AppendProperties, TargetAssumption DEF TgtType
<1>2. CASE tgt.overflow \/ Len(tgt.events) >= Capacity
  <2>1. Queue(tgt, e) = [tgt EXCEPT !.overflow = TRUE]
    BY <1>2 DEF Queue
  <2>2. QED
    BY <2>1 DEF TgtType
<1>3. CASE ~(tgt.overflow \/ Len(tgt.events) >= Capacity)
  <2>1. Queue(tgt, e) = [tgt EXCEPT !.events = Append(tgt.events, e)]
    BY <1>3 DEF Queue
  <2>2. Len(Append(tgt.events, e)) <= Capacity
    BY <1>1, <1>3
  <2>3. QED
    BY <1>1, <1>3, <2>1, <2>2 DEF TgtType
<1>4. QED
  BY <1>2, <1>3

(***************************************************************************)
(* An event appended with the transaction it stands for, or dropped with   *)
(* the overflow latched, leaves the window true.                           *)
(***************************************************************************)
LEMMA WindowExtended ==
  ASSUME TgtType, AppType, WindowOK, NEW e \in Events, NEW x \in Transactions,
         x = IF e.type = "WRITE" THEN [type |-> "WRITE", payload |-> buffers[e.slot]]
             ELSE [type |-> "READ", requested |-> e.requested],
         app'.completed = IF tgt.overflow THEN app.completed
                          ELSE Append(app.completed, x),
         \/ tgt'.overflow /\ tgt'.events = tgt.events
         \/ ~tgt.overflow /\ ~tgt'.overflow /\ tgt'.events = Append(tgt.events, e),
         e.type = "WRITE" => buffers'[e.slot] = buffers[e.slot],
         \A i \in 1 .. Len(tgt.events) :
           Queued(i) => buffers'[tgt.events[i].slot] = buffers[tgt.events[i].slot]
  PROVE  WindowOK'
<1>1. /\ Len(tgt.events) \in Nat /\ Len(app.completed) \in Nat
      /\ tgt.events \in Seq(Events) /\ app.completed \in Seq(Transactions)
  BY DEF TgtType, AppType
<1>2. /\ Len(Append(app.completed, x)) = Len(app.completed) + 1
      /\ \A i \in 1 .. Len(app.completed) : Append(app.completed, x)[i] = app.completed[i]
      /\ Append(app.completed, x)[Len(app.completed) + 1] = x
  BY <1>1, AppendProperties
<1>3. /\ Len(Append(tgt.events, e)) = Len(tgt.events) + 1
      /\ \A i \in 1 .. Len(tgt.events) : Append(tgt.events, e)[i] = tgt.events[i]
      /\ Append(tgt.events, e)[Len(tgt.events) + 1] = e
  BY <1>1, AppendProperties
<1>4. Len(tgt.events) <= Len(app.completed)
  BY DEF WindowOK
<1>5. ASSUME NEW i \in 1 .. Len(tgt.events), tgt'.events[i] = tgt.events[i]
      PROVE  EventIs(i)'
  <2>1. app'.completed[i] = app.completed[i]
    BY <1>1, <1>2, <1>4
  <2>2. EventIs(i)
    BY DEF WindowOK
  <2>3. QED
    BY <1>5, <2>1, <2>2 DEF EventIs, Queued
<1>6. CASE tgt'.overflow /\ tgt'.events = tgt.events
  BY <1>1, <1>2, <1>4, <1>5, <1>6 DEF WindowOK
<1>7. CASE ~tgt.overflow /\ ~tgt'.overflow /\ tgt'.events = Append(tgt.events, e)
  <2>1. PICK n \in Nat : n = Len(tgt.events)
    BY <1>1
  <2>2. n = Len(app.completed) /\ app'.completed = Append(app.completed, x)
    BY <1>7, <2>1 DEF WindowOK
  <2>3. Len(tgt'.events) = n + 1 /\ Len(app'.completed) = n + 1
    BY <1>2, <1>3, <1>7, <2>1, <2>2
  <2>4. tgt'.events[n + 1] = e /\ app'.completed[n + 1] = x
    BY <1>2, <1>3, <1>7, <2>1, <2>2
  <2>5. EventIs(n + 1)'
    BY <2>4 DEF EventIs, Queued
  <2>6. \A i \in 1 .. n : EventIs(i)'
    BY <1>3, <1>5, <1>7, <2>1
  <2>7. \A i \in 1 .. n + 1 : i \in 1 .. n \/ i = n + 1
    OBVIOUS
  <2>8. \A i \in 1 .. n + 1 : EventIs(i)'
    BY <2>5, <2>6, <2>7
  <2>9. QED
    BY <2>3, <2>8 DEF WindowOK
<1>8. QED
  BY <1>6, <1>7

(***************************************************************************)
(* An event appended takes a buffer of its own, and ends the use of the    *)
(* receive buffer and of the response sent.                                *)
(***************************************************************************)
LEMMA OneUseExtended ==
  ASSUME TgtType, OneUse, NEW e \in Events,
         \/ tgt'.events = tgt.events
         \/ tgt'.events = Append(tgt.events, e),
         tgt'.rx_slot = None, tgt'.active_slot = None,
         tgt'.preload_slot = tgt.preload_slot,
         e.type = "WRITE" =>
           /\ e.slot \in Slots /\ e.slot # tgt.preload_slot
           /\ \A i \in 1 .. Len(tgt.events) : Queued(i) => tgt.events[i].slot # e.slot
  PROVE  OneUse'
<1>1. \A s \in Slots : s # None
  BY DEF Slots, None
<1>2. CASE tgt'.events = tgt.events
  BY <1>1, <1>2 DEF OneUse, Queued
<1>3. CASE tgt'.events = Append(tgt.events, e)
  <2>1. PICK n \in Nat : n = Len(tgt.events)
    BY DEF TgtType
  <2>2. /\ Len(tgt'.events) = n + 1 /\ tgt'.events[n + 1] = e
        /\ \A i \in 1 .. n : tgt'.events[i] = tgt.events[i]
    BY <1>3, <2>1, AppendProperties DEF TgtType
  <2>3. \A i \in 1 .. n + 1 : i \in 1 .. n \/ i = n + 1
    OBVIOUS
  <2>4. ASSUME NEW i \in 1 .. n + 1, tgt'.events[i].type = "WRITE"
        PROVE  /\ tgt'.events[i].slot \in Slots
               /\ tgt'.events[i].slot # tgt.preload_slot
               /\ i \in 1 .. n => tgt'.events[i].slot # e.slot \/ e.type # "WRITE"
    BY <2>1, <2>2, <2>3, <2>4 DEF OneUse, Queued
  <2>5. ASSUME NEW i \in 1 .. n + 1, tgt'.events[i].type = "WRITE",
               NEW j \in 1 .. n + 1, tgt'.events[j].type = "WRITE",
               tgt'.events[i].slot = tgt'.events[j].slot
        PROVE  i = j
    <3>1. CASE i \in 1 .. n /\ j \in 1 .. n
      BY <2>1, <2>2, <2>5, <3>1 DEF OneUse, Queued
    <3>2. CASE i = n + 1 /\ j \in 1 .. n
      BY <2>2, <2>4, <2>5, <3>2
    <3>3. CASE i \in 1 .. n /\ j = n + 1
      BY <2>2, <2>4, <2>5, <3>3
    <3>4. QED
      BY <2>3, <3>1, <3>2, <3>3
  <2>6. QED
    BY <1>1, <2>2, <2>4, <2>5 DEF OneUse, Queued
<1>4. QED
  BY <1>2, <1>3

(***************************************************************************)
(* A STOP puts the transaction in the window, or accounts for its loss.    *)
(***************************************************************************)
LEMMA MasterStopKeeps ==
  ASSUME IInv, MasterStop
  PROVE  IInv'
<1>1. /\ bus.phase # "idle" /\ bus' = IdleBus
      /\ app' = [app EXCEPT !.answer = <<>>,
                   !.completed = IF tgt.overflow THEN app.completed
                                 ELSE app.completed \o WriteDone \o ReadDone]
  BY DEF MasterStop
<1>2. /\ bus'.phase = "idle" /\ bus'.sent = <<>> /\ ~bus'.excused /\ BusType'
  BY <1>1, EmptySeq, TargetAssumption DEF IdleBus, BusType
<1>3. /\ app.completed \in Seq(Transactions) /\ None \in Slots \cup {None}
      /\ 0 \in 0 .. MaxBytes + 1
      /\ \A s \in Slots : s # None
  BY TargetAssumption DEF IInv, AppType, Slots, None
<1>4. CASE bus.phase = "read"
  <2> DEFINE e == [type |-> "READ", slot |-> None, requested |-> tgt.read_index]
             x == [type |-> "READ", requested |-> tgt.read_index]
             q == Queue(tgt, e)
  <2>1. tgt.read_active /\ Quiet
    BY <1>4 DEF IInv, PhaseOK
  <2>2. e \in Events /\ e.type = "READ" /\ x \in Transactions
    BY DEF IInv, TgtType, Events, Transactions
  <2>3. /\ tgt' = [q EXCEPT !.read_active = FALSE, !.read_index = 0, !.active_slot = None]
        /\ buffers' = IF tgt.active_slot = None THEN buffers
                      ELSE [buffers EXCEPT ![tgt.active_slot] = <<>>]
    BY <2>1 DEF MasterStop, StopEvent
  <2>4. app'.completed = IF tgt.overflow THEN app.completed ELSE Append(app.completed, x)
    <3>1. app.completed \o WriteDone \o ReadDone = Append(app.completed, x)
      <4>1. WriteDone = <<>> /\ ReadDone = << x >>
        BY <1>4, <2>1 DEF WriteDone, ReadDone, Quiet
      <4>2. QED
        BY <1>3, <2>2, <4>1, ConcatEmptySeq, AppendIsConcat
    <3>2. QED
      BY <1>1, <3>1 DEF IInv, AppType
  <2>5. AppType' /\ app'.armed = app.armed
    <3>1. Append(app.completed, x) \in Seq(Transactions)
      BY <1>3, <2>2, AppendProperties
    <3>2. app'.completed \in Seq(Transactions)
      BY <1>3, <2>4, <3>1
    <3>3. QED
      BY <1>1, <3>2, NoBytes DEF IInv, AppType
  <2> HIDE DEF x
  <2>6. /\ TgtType' /\ ~tgt'.rx_discard /\ tgt'.rx_slot = None
        /\ tgt'.preload_slot = tgt.preload_slot
        /\ ~tgt'.read_active /\ tgt'.active_slot = None /\ tgt'.read_index = 0
        /\ \/ tgt'.overflow /\ tgt'.events = tgt.events
           \/ ~tgt.overflow /\ ~tgt'.overflow /\ tgt'.events = Append(tgt.events, e)
    <3>1. /\ q \in [events : Seq(Events), overflow : BOOLEAN, rx_discard : BOOLEAN,
                    rx_slot : Slots \cup {None}, preload_slot : Slots \cup {None},
                    read_active : BOOLEAN, active_slot : Slots \cup {None},
                    read_index : 0 .. MaxBytes + 1]
          /\ Len(q.events) <= Capacity
          /\ q.rx_discard = tgt.rx_discard /\ q.rx_slot = tgt.rx_slot
          /\ q.preload_slot = tgt.preload_slot
          /\ \/ q.overflow /\ q.events = tgt.events
             \/ ~tgt.overflow /\ ~q.overflow /\ q.events = Append(tgt.events, e)
      BY <2>2, QueueStep DEF IInv
    <3> HIDE DEF q, e
    <3>2. QED
      BY <1>3, <2>1, <2>3, <3>1 DEF TgtType, Quiet
  <2>7. /\ BuffersType'
        /\ \A s \in Slots : s # tgt.active_slot => buffers'[s] = buffers[s]
    <3>1. <<>> \in Seq(Bytes) /\ Len(<<>>) <= MaxBytes
      BY EmptySeq, TargetAssumption
    <3>2. tgt.active_slot # None => tgt.active_slot \in Slots
      BY DEF IInv, TgtType
    <3>3. QED
      BY <2>3, <3>1, <3>2 DEF IInv, BuffersType
  <2>8. PhaseOK'
    BY <1>2, <2>6 DEF PhaseOK, Quiet
  <2>9. OneUse'
    BY <2>2, <2>6, OneUseExtended DEF IInv
  <2>10. WindowOK'
    <3>1. \A i \in 1 .. Len(tgt.events) :
            Queued(i) => buffers'[tgt.events[i].slot] = buffers[tgt.events[i].slot]
      BY <2>7 DEF IInv, OneUse
    <3>2. x = [type |-> "READ", requested |-> e.requested]
      BY DEF x
    <3> HIDE DEF e
    <3>3. QED
      BY <2>2, <2>4, <2>6, <3>1, <3>2, WindowExtended DEF IInv
  <2>11. ResponseIntact'
    <3>1. tgt.preload_slot # None => buffers'[tgt.preload_slot] = buffers[tgt.preload_slot]
      BY <1>3, <2>7 DEF IInv, TgtType, OneUse
    <3>2. QED
      BY <2>5, <2>6, <3>1 DEF IInv, ResponseIntact
  <2>12. QED
    BY <1>2, <2>5, <2>6, <2>7, <2>8, <2>9, <2>10, <2>11 DEF IInv
<1>5. CASE bus.phase = "write" /\ tgt.rx_discard
  <2>1. /\ ~tgt.read_active /\ tgt.active_slot = None /\ tgt.read_index = 0
        /\ tgt.overflow \/ bus.excused
    BY <1>5 DEF IInv, PhaseOK
  <2>2. tgt' = [tgt EXCEPT !.rx_discard = FALSE, !.rx_slot = None] /\ buffers' = buffers
    BY <1>5, <2>1 DEF MasterStop, StopEvent
  <2>3. /\ TgtType' /\ ~tgt'.rx_discard /\ tgt'.rx_slot = None
        /\ tgt'.preload_slot = tgt.preload_slot /\ tgt'.events = tgt.events
        /\ tgt'.overflow = tgt.overflow
        /\ ~tgt'.read_active /\ tgt'.active_slot = None /\ tgt'.read_index = 0
    BY <1>3, <2>1, <2>2 DEF IInv, TgtType
  <2>4. AppType' /\ app'.armed = app.armed /\ app'.completed = app.completed
    <3>1. tgt.overflow \/ app.completed \o WriteDone \o ReadDone = app.completed
      <4>1. ~tgt.overflow => WriteDone = <<>> /\ ReadDone = <<>>
        BY <1>5, <2>1 DEF WriteDone, ReadDone
      <4>2. QED
        BY <1>3, <4>1, ConcatEmptySeq
    <3>2. QED
      BY <1>1, <3>1, NoBytes DEF IInv, AppType
  <2>5. PhaseOK'
    BY <1>2, <2>3 DEF PhaseOK, Quiet
  <2>6. OneUse'
    BY <1>3, <2>3 DEF IInv, OneUse, Queued
  <2>7. WindowOK'
    BY <2>2, <2>3, <2>4, WindowKept DEF IInv
  <2>8. ResponseIntact'
    BY <2>2, <2>3, <2>4 DEF IInv, ResponseIntact
  <2>9. QED
    BY <1>2, <2>2, <2>3, <2>4, <2>5, <2>6, <2>7, <2>8 DEF IInv, BuffersType
<1>6. CASE bus.phase = "write" /\ ~tgt.rx_discard
  <2> DEFINE e == [type |-> "WRITE", slot |-> tgt.rx_slot, requested |-> 0]
             x == [type |-> "WRITE", payload |-> bus.sent]
             q == Queue(tgt, e)
  <2>1. /\ ~tgt.read_active /\ tgt.active_slot = None /\ tgt.read_index = 0
        /\ ~bus.excused /\ bus.sent # <<>> /\ tgt.rx_slot # None
        /\ buffers[tgt.rx_slot] = bus.sent
    BY <1>6 DEF IInv, PhaseOK
  <2>2. /\ e \in Events /\ e.type = "WRITE" /\ e.slot = tgt.rx_slot /\ e.slot \in Slots
        /\ x \in Transactions
    BY <1>3, <2>1 DEF IInv, TgtType, BusType, Events, Transactions
  <2>3. tgt' = [q EXCEPT !.rx_discard = FALSE, !.rx_slot = None] /\ buffers' = buffers
    BY <1>6, <2>1 DEF MasterStop, StopEvent
  <2>4. app'.completed = IF tgt.overflow THEN app.completed ELSE Append(app.completed, x)
    <3>1. app.completed \o WriteDone \o ReadDone = Append(app.completed, x)
      <4>1. WriteDone = << x >> /\ ReadDone = <<>>
        BY <1>6, <2>1 DEF WriteDone, ReadDone
      <4>2. app.completed \o << x >> = Append(app.completed, x)
        BY <1>3, <2>2, AppendIsConcat
      <4>3. Append(app.completed, x) \in Seq(Transactions)
        BY <1>3, <2>2, AppendProperties
      <4>4. QED
        BY <4>1, <4>2, <4>3, ConcatEmptySeq
    <3>2. QED
      BY <1>1, <3>1 DEF IInv, AppType
  <2>5. AppType' /\ app'.armed = app.armed
    <3>1. Append(app.completed, x) \in Seq(Transactions)
      BY <1>3, <2>2, AppendProperties
    <3>2. app'.completed \in Seq(Transactions)
      BY <1>3, <2>4, <3>1
    <3>3. QED
      BY <1>1, <3>2, NoBytes DEF IInv, AppType
  <2>6. x = [type |-> "WRITE", payload |-> buffers[e.slot]]
    BY <2>1
  <2> HIDE DEF x
  <2>7. /\ TgtType' /\ ~tgt'.rx_discard /\ tgt'.rx_slot = None
        /\ tgt'.preload_slot = tgt.preload_slot
        /\ ~tgt'.read_active /\ tgt'.active_slot = None /\ tgt'.read_index = 0
        /\ \/ tgt'.overflow /\ tgt'.events = tgt.events
           \/ ~tgt.overflow /\ ~tgt'.overflow /\ tgt'.events = Append(tgt.events, e)
    <3>1. /\ q \in [events : Seq(Events), overflow : BOOLEAN, rx_discard : BOOLEAN,
                    rx_slot : Slots \cup {None}, preload_slot : Slots \cup {None},
                    read_active : BOOLEAN, active_slot : Slots \cup {None},
                    read_index : 0 .. MaxBytes + 1]
          /\ Len(q.events) <= Capacity
          /\ q.preload_slot = tgt.preload_slot /\ q.read_active = tgt.read_active
          /\ q.active_slot = tgt.active_slot /\ q.read_index = tgt.read_index
          /\ \/ q.overflow /\ q.events = tgt.events
             \/ ~tgt.overflow /\ ~q.overflow /\ q.events = Append(tgt.events, e)
      BY <2>2, QueueStep DEF IInv
    <3> HIDE DEF q, e
    <3>2. QED
      BY <1>3, <2>1, <2>3, <3>1 DEF TgtType
  <2> HIDE DEF e
  <2>8. PhaseOK'
    BY <1>2, <2>7 DEF PhaseOK, Quiet
  <2>9. OneUse'
    <3>1. /\ e.slot # tgt.preload_slot
          /\ \A i \in 1 .. Len(tgt.events) : Queued(i) => tgt.events[i].slot # e.slot
      BY <2>1, <2>2 DEF IInv, OneUse
    <3>2. QED
      BY <2>2, <2>7, <3>1, OneUseExtended DEF IInv
  <2>10. WindowOK'
    BY <2>2, <2>3, <2>4, <2>6, <2>7, WindowExtended DEF IInv
  <2>11. ResponseIntact'
    BY <2>3, <2>5, <2>7 DEF IInv, ResponseIntact
  <2>12. QED
    BY <1>2, <2>3, <2>5, <2>7, <2>8, <2>9, <2>10, <2>11 DEF IInv, BuffersType
<1>7. QED
  BY <1>1, <1>4, <1>5, <1>6 DEF IInv, BusType

-----------------------------------------------------------------------------
(* The main loop                                                           *)

(***************************************************************************)
(* The poll that reports an overflow drops the window with what the master *)
(* completed, and excuses the write being discarded.                       *)
(***************************************************************************)
LEMMA PollOverflowKeeps ==
  ASSUME IInv, PollOverflow
  PROVE  IInv'
<1>1. /\ tgt' = [tgt EXCEPT !.events = <<>>, !.overflow = FALSE]
      /\ bus' = [bus EXCEPT !.excused = bus.excused \/ tgt.rx_discard]
      /\ app' = [app EXCEPT !.completed = <<>>]
      /\ buffers' = buffers
  BY DEF PollOverflow
<1>2. /\ <<>> \in Seq(Events) /\ <<>> \in Seq(Transactions) /\ Len(<<>>) = 0
      /\ 0 <= Capacity
  BY EmptySeq, TargetAssumption
<1>3. /\ TgtType' /\ tgt'.events = <<>> /\ tgt'.rx_slot = tgt.rx_slot
      /\ tgt'.rx_discard = tgt.rx_discard /\ tgt'.read_active = tgt.read_active
      /\ tgt'.preload_slot = tgt.preload_slot /\ tgt'.active_slot = tgt.active_slot
      /\ tgt'.read_index = tgt.read_index
  BY <1>1, <1>2 DEF IInv, TgtType
<1>4. AppType' /\ app'.completed = <<>> /\ app'.armed = app.armed
      /\ app'.answer = app.answer
  BY <1>1, <1>2 DEF IInv, AppType
<1>5. /\ BusType' /\ bus'.phase = bus.phase /\ bus'.sent = bus.sent
      /\ bus'.excused = (bus.excused \/ tgt.rx_discard)
  <2>1. (bus.excused \/ tgt.rx_discard) \in BOOLEAN
    OBVIOUS
  <2>2. QED
    BY <1>1, <2>1 DEF IInv, BusType
<1>6. PhaseOK'
  BY <1>1, <1>3, <1>5 DEF IInv, PhaseOK, Quiet
<1>7. OneUse' /\ WindowOK'
  BY <1>2, <1>3, <1>4 DEF IInv, OneUse, WindowOK
<1>8. ResponseIntact'
  BY <1>1, <1>3, <1>4 DEF IInv, ResponseIntact
<1>9. QED
  BY <1>1, <1>3, <1>4, <1>5, <1>6, <1>7, <1>8 DEF IInv, BuffersType

(***************************************************************************)
(* The poll of an event takes the oldest transaction and clears its buffer *)
(* and no other.                                                           *)
(***************************************************************************)
LEMMA PollEventKeeps ==
  ASSUME IInv, PollEvent
  PROVE  IInv'
<1>1. /\ ~tgt.overflow /\ tgt.events # <<>>
      /\ tgt' = [tgt EXCEPT !.events = Tail(tgt.events)]
      /\ app' = [app EXCEPT !.completed = Tail(app.completed)]
      /\ bus' = bus
      /\ buffers' = IF Head(tgt.events).type = "WRITE"
                    THEN [buffers EXCEPT ![Head(tgt.events).slot] = <<>>] ELSE buffers
  BY DEF PollEvent
<1>2. PICK n \in Nat : n = Len(tgt.events)
  BY DEF IInv, TgtType
<1>3. /\ n = Len(app.completed) /\ n > 0 /\ app.completed # <<>>
      /\ n <= Capacity /\ Capacity \in Nat
  <2>1. n = Len(app.completed) /\ n > 0 /\ n <= Capacity
    BY <1>1, <1>2, EmptySeq DEF IInv, TgtType, WindowOK
  <2>2. QED
    BY <2>1, EmptySeq, TargetAssumption
<1>4. /\ Tail(tgt.events) \in Seq(Events) /\ Len(Tail(tgt.events)) = n - 1
      /\ \A i \in 1 .. n - 1 : Tail(tgt.events)[i] = tgt.events[i + 1]
      /\ Head(tgt.events) = tgt.events[1]
  BY <1>1, <1>2, HeadTailProperties DEF IInv, TgtType
<1>5. /\ Tail(app.completed) \in Seq(Transactions) /\ Len(Tail(app.completed)) = n - 1
      /\ \A i \in 1 .. n - 1 : Tail(app.completed)[i] = app.completed[i + 1]
  BY <1>3, HeadTailProperties DEF IInv, AppType
<1>6. /\ TgtType' /\ tgt'.events = Tail(tgt.events) /\ tgt'.rx_slot = tgt.rx_slot
      /\ tgt'.rx_discard = tgt.rx_discard /\ tgt'.read_active = tgt.read_active
      /\ tgt'.overflow = tgt.overflow
      /\ tgt'.preload_slot = tgt.preload_slot /\ tgt'.active_slot = tgt.active_slot
      /\ tgt'.read_index = tgt.read_index
  <2>1. n - 1 <= Capacity
    BY <1>3
  <2>2. QED
    BY <1>1, <1>4, <2>1 DEF IInv, TgtType
<1>7. AppType' /\ app'.completed = Tail(app.completed) /\ app'.armed = app.armed
      /\ app'.answer = app.answer
  BY <1>1, <1>5 DEF IInv, AppType
<1>8. /\ BuffersType'
      /\ \A s \in Slots : s # tgt.events[1].slot \/ ~Queued(1) => buffers'[s] = buffers[s]
  <2>1. <<>> \in Seq(Bytes) /\ Len(<<>>) <= MaxBytes
    BY EmptySeq, TargetAssumption
  <2>2. buffers' = IF Queued(1) THEN [buffers EXCEPT ![tgt.events[1].slot] = <<>>]
                   ELSE buffers
    BY <1>1, <1>4 DEF Queued
  <2>3. QED
    BY <2>1, <2>2 DEF IInv, BuffersType
<1>9. /\ Queued(1) => /\ tgt.events[1].slot # tgt.rx_slot
                      /\ tgt.events[1].slot # tgt.active_slot
                      /\ tgt.events[1].slot # tgt.preload_slot
      /\ \A i \in 1 .. n : Queued(1) /\ Queued(i) /\ i # 1 =>
           tgt.events[i].slot # tgt.events[1].slot
  BY <1>2, <1>3 DEF IInv, OneUse
<1>10. PhaseOK'
  <2>1. tgt.rx_slot # None => buffers'[tgt.rx_slot] = buffers[tgt.rx_slot]
    BY <1>8, <1>9 DEF IInv, TgtType
  <2>2. QED
    BY <1>1, <1>6, <2>1 DEF IInv, PhaseOK, Quiet
<1>11. OneUse'
  <2>1. ASSUME NEW i \in 1 .. n - 1
        PROVE  i + 1 \in 1 .. n /\ tgt'.events[i] = tgt.events[i + 1]
    BY <1>4, <1>6
  <2>2. ASSUME NEW i \in 1 .. n - 1, tgt'.events[i].type = "WRITE"
        PROVE  /\ tgt'.events[i].slot \in Slots
               /\ tgt'.events[i].slot # tgt.rx_slot /\ tgt'.events[i].slot # tgt.active_slot
               /\ tgt'.events[i].slot # tgt.preload_slot
    BY <1>2, <2>1, <2>2 DEF IInv, OneUse, Queued
  <2>3. ASSUME NEW i \in 1 .. n - 1, tgt'.events[i].type = "WRITE",
               NEW j \in 1 .. n - 1, tgt'.events[j].type = "WRITE",
               tgt'.events[i].slot = tgt'.events[j].slot
        PROVE  i = j
    <3>1. i + 1 = j + 1
      BY <1>2, <2>1, <2>3 DEF IInv, OneUse, Queued
    <3>2. QED
      BY <3>1
  <2>4. QED
    BY <1>4, <1>6, <2>2, <2>3 DEF IInv, OneUse, Queued
<1>12. WindowOK'
  <2>1. ASSUME NEW i \in 1 .. n - 1
        PROVE  EventIs(i)'
    <3>1. /\ i + 1 \in 1 .. n /\ i + 1 # 1
          /\ tgt'.events[i] = tgt.events[i + 1]
          /\ app'.completed[i] = app.completed[i + 1]
      BY <1>4, <1>5, <1>6, <1>7
    <3>2. EventIs(i + 1)
      BY <1>2, <3>1 DEF IInv, WindowOK
    <3>3. Queued(i + 1) =>
            buffers'[tgt.events[i + 1].slot] = buffers[tgt.events[i + 1].slot]
      BY <1>2, <1>8, <1>9, <3>1 DEF IInv, OneUse
    <3>4. QED
      BY <3>1, <3>2, <3>3 DEF EventIs, Queued
  <2>2. QED
    BY <1>4, <1>5, <1>6, <1>7, <2>1 DEF WindowOK
<1>13. ResponseIntact'
  <2>1. ASSUME NEW s \in {tgt.active_slot, tgt.preload_slot}, s # None
        PROVE  buffers'[s] = buffers[s]
    BY <1>8, <1>9, <2>1 DEF IInv, TgtType
  <2>2. QED
    BY <1>1, <1>6, <1>7, <2>1 DEF IInv, ResponseIntact
<1>14. QED
  BY <1>1, <1>6, <1>7, <1>8, <1>10, <1>11, <1>12, <1>13 DEF IInv, BusType

(***************************************************************************)
(* A response armed takes a buffer in no other use, or the window is given *)
(* up for one and the loss latched, or the call is refused.                *)
(***************************************************************************)
LEMMA PreloadKeeps ==
  ASSUME IInv, NEW response \in Payloads, Preload(response)
  PROVE  IInv'
<1> DEFINE taken == IF PreloadBuffer # None THEN tgt
                    ELSE [tgt EXCEPT !.overflow = TRUE, !.events = <<>>]
           slot  == IF PreloadBuffer # None THEN PreloadBuffer ELSE FreeBuffer(taken)
<1>1. /\ bus' = bus
      /\ slot = None => tgt' = taken /\ UNCHANGED <<buffers, app>>
      /\ slot # None => /\ tgt' = [taken EXCEPT !.preload_slot = slot]
                        /\ buffers' = [buffers EXCEPT ![slot] = response]
                        /\ app' = [app EXCEPT !.armed = response]
  BY DEF Preload
<1>2. response \in Seq(Bytes) /\ Len(response) <= MaxBytes
  BY SequencesUpTo, TargetAssumption DEF Payloads
<1>3. /\ taken \in [events : Seq(Events), overflow : BOOLEAN, rx_discard : BOOLEAN,
                    rx_slot : Slots \cup {None}, preload_slot : Slots \cup {None},
                    read_active : BOOLEAN, active_slot : Slots \cup {None},
                    read_index : 0 .. MaxBytes + 1]
      /\ Len(taken.events) <= Capacity
      /\ taken.rx_slot = tgt.rx_slot /\ taken.rx_discard = tgt.rx_discard
      /\ taken.preload_slot = tgt.preload_slot /\ taken.active_slot = tgt.active_slot
      /\ taken.read_active = tgt.read_active /\ taken.read_index = tgt.read_index
      /\ \/ taken.overflow = tgt.overflow /\ taken.events = tgt.events
         \/ taken.overflow = TRUE /\ taken.events = <<>>
  <2>1. <<>> \in Seq(Events) /\ Len(<<>>) <= Capacity
    BY EmptySeq, TargetAssumption
  <2>2. QED
    BY <2>1 DEF IInv, TgtType
<1>4. slot # None =>
        /\ slot \in Slots /\ slot # tgt.rx_slot /\ slot # tgt.active_slot
        /\ \A i \in 1 .. Len(taken.events) :
             taken.events[i].type = "WRITE" => taken.events[i].slot # slot
  <2>1. ASSUME slot # None, ~Reserved(taken, slot), slot \in Slots
        PROVE  /\ slot # tgt.rx_slot /\ slot # tgt.active_slot
               /\ \A i \in 1 .. Len(taken.events) :
                    taken.events[i].type = "WRITE" => taken.events[i].slot # slot
    <3> HIDE DEF taken, slot
    <3>1. DOMAIN taken.events = 1 .. Len(taken.events)
      BY <1>3
    <3>2. ~tgt.read_active => tgt.active_slot = None
      BY DEF IInv, PhaseOK
    <3>3. QED
      BY <1>3, <2>1, <3>1, <3>2 DEF Reserved
  <2>2. ASSUME PreloadBuffer # None, PreloadBuffer = tgt.preload_slot
        PROVE  /\ slot \in Slots /\ slot # tgt.rx_slot /\ slot # tgt.active_slot
               /\ \A i \in 1 .. Len(taken.events) :
                    taken.events[i].type = "WRITE" => taken.events[i].slot # slot
    BY <2>2 DEF IInv, TgtType, OneUse, Queued
  <2>3. ASSUME PreloadBuffer # None, PreloadBuffer # tgt.preload_slot
        PROVE  slot \in Slots /\ ~Reserved(taken, slot)
    BY <2>3, FreeIsUnused DEF PreloadBuffer
  <2>4. ASSUME PreloadBuffer = None, slot # None
        PROVE  slot \in Slots /\ ~Reserved(taken, slot)
    BY <2>4, FreeIsUnused
  <2>5. QED
    BY <2>1, <2>2, <2>3, <2>4
<1> HIDE DEF taken, slot
<1>5. /\ TgtType'
      /\ tgt'.rx_slot = tgt.rx_slot /\ tgt'.rx_discard = tgt.rx_discard
      /\ tgt'.active_slot = tgt.active_slot
      /\ tgt'.read_active = tgt.read_active /\ tgt'.read_index = tgt.read_index
      /\ tgt'.preload_slot = IF slot = None THEN tgt.preload_slot ELSE slot
      /\ tgt'.overflow = taken.overflow /\ tgt'.events = taken.events
  <2>1. slot = None \/ slot \in Slots
    BY <1>4
  <2>2. QED
    BY <1>1, <1>3, <2>1 DEF TgtType
<1>6. /\ AppType' /\ app'.completed = app.completed /\ app'.answer = app.answer
      /\ app'.armed = IF slot = None THEN app.armed ELSE response
  BY <1>1, <1>2 DEF IInv, AppType
<1>7. /\ BuffersType'
      /\ \A s \in Slots : s # slot => buffers'[s] = buffers[s]
      /\ slot # None => buffers'[slot] = response
  BY <1>1, <1>2, <1>4 DEF IInv, BuffersType
<1>8. PhaseOK'
  <2>1. tgt.rx_slot # None => buffers'[tgt.rx_slot] = buffers[tgt.rx_slot]
    BY <1>4, <1>7 DEF IInv, TgtType
  <2>2. ~(taken.overflow = tgt.overflow) => taken.overflow
    BY <1>3
  <2>3. tgt.overflow => tgt'.overflow
    BY <1>3, <1>5
  <2>4. QED
    BY <1>1, <1>5, <2>1, <2>3 DEF IInv, PhaseOK, Quiet
<1>9. OneUse'
  <2>1. CASE taken.events = <<>>
    BY <1>4, <1>5, <2>1, EmptySeq DEF IInv, OneUse
  <2>2. CASE taken.events = tgt.events
    BY <1>4, <1>5, <2>2 DEF IInv, OneUse, Queued
  <2>3. QED
    BY <1>3, <2>1, <2>2
<1>10. WindowOK'
  <2>1. CASE taken.overflow = TRUE /\ taken.events = <<>>
    <3>1. Len(app.completed) \in Nat /\ Len(<<>>) = 0
      BY EmptySeq DEF IInv, AppType
    <3>2. QED
      BY <1>5, <1>6, <2>1, <3>1 DEF WindowOK
  <2>2. CASE taken.overflow = tgt.overflow /\ taken.events = tgt.events
    <3>1. \A i \in 1 .. Len(tgt.events) :
            Queued(i) => buffers'[tgt.events[i].slot] = buffers[tgt.events[i].slot]
      BY <1>4, <1>7, <2>2 DEF IInv, OneUse, Queued, Slots, None
    <3>2. QED
      BY <1>5, <1>6, <2>2, <3>1, WindowKept DEF IInv
  <2>3. QED
    BY <1>3, <2>1, <2>2
<1>11. ResponseIntact'
  <2>1. tgt.active_slot # None => buffers'[tgt.active_slot] = buffers[tgt.active_slot]
    BY <1>4, <1>7 DEF IInv, TgtType
  <2>2. slot = None => buffers' = buffers
    BY <1>1
  <2>3. QED
    BY <1>5, <1>6, <1>7, <2>1, <2>2 DEF IInv, ResponseIntact
<1>12. QED
  BY <1>1, <1>5, <1>6, <1>7, <1>8, <1>9, <1>10, <1>11 DEF IInv, BusType

(***************************************************************************)
(* Arming nothing takes the armed response back.                           *)
(***************************************************************************)
LEMMA PreloadNothingKeeps ==
  ASSUME IInv, PreloadNothing
  PROVE  IInv'
<1>1. /\ tgt' = [tgt EXCEPT !.preload_slot = None]
      /\ buffers' = IF tgt.preload_slot = None THEN buffers
                    ELSE [buffers EXCEPT ![tgt.preload_slot] = <<>>]
      /\ app' = [app EXCEPT !.armed = <<>>]
      /\ bus' = bus
  BY DEF PreloadNothing
<1>2. <<>> \in Seq(Bytes) /\ Len(<<>>) <= MaxBytes
  BY EmptySeq, TargetAssumption
<1>3. /\ TgtType' /\ tgt'.preload_slot = None
      /\ tgt'.events = tgt.events /\ tgt'.overflow = tgt.overflow
      /\ tgt'.rx_slot = tgt.rx_slot /\ tgt'.rx_discard = tgt.rx_discard
      /\ tgt'.active_slot = tgt.active_slot
      /\ tgt'.read_active = tgt.read_active /\ tgt'.read_index = tgt.read_index
  BY <1>1 DEF IInv, TgtType
<1>4. /\ BuffersType'
      /\ \A s \in Slots : s # tgt.preload_slot => buffers'[s] = buffers[s]
  BY <1>1, <1>2 DEF IInv, BuffersType
<1>5. /\ AppType' /\ app'.completed = app.completed /\ app'.answer = app.answer
      /\ app'.armed = <<>>
  BY <1>1, <1>2 DEF IInv, AppType
<1>6. PhaseOK'
  <2>1. tgt.rx_slot # None => buffers'[tgt.rx_slot] = buffers[tgt.rx_slot]
    BY <1>4 DEF IInv, TgtType, OneUse
  <2>2. QED
    BY <1>1, <1>3, <2>1 DEF IInv, PhaseOK, Quiet
<1>7. OneUse'
  BY <1>3 DEF IInv, OneUse, Queued, Slots, None
<1>8. WindowOK'
  <2>1. \A i \in 1 .. Len(tgt.events) :
          Queued(i) => buffers'[tgt.events[i].slot] = buffers[tgt.events[i].slot]
    BY <1>4 DEF IInv, OneUse
  <2>2. QED
    BY <1>3, <1>5, <2>1, WindowKept DEF IInv
<1>9. ResponseIntact'
  <2>1. tgt.active_slot # None => buffers'[tgt.active_slot] = buffers[tgt.active_slot]
    BY <1>4 DEF IInv, TgtType, OneUse
  <2>2. QED
    BY <1>3, <1>5, <2>1 DEF IInv, ResponseIntact
<1>10. QED
  BY <1>1, <1>3, <1>4, <1>5, <1>6, <1>7, <1>8, <1>9 DEF IInv, BusType

-----------------------------------------------------------------------------
(* The invariant                                                           *)

(***************************************************************************)
(* A target just configured has nothing under way and nothing to report.   *)
(***************************************************************************)
LEMMA ClearedIInv ==
  tgt = Cleared /\ buffers = EmptyBuffers /\ bus = IdleBus /\ app = Fresh => IInv
<1> SUFFICES ASSUME tgt = Cleared, buffers = EmptyBuffers, bus = IdleBus, app = Fresh
             PROVE  IInv
  OBVIOUS
<1>1. /\ \A S : <<>> \in Seq(S)
      /\ Len(<<>>) = 0 /\ 0 <= Capacity /\ 0 <= MaxBytes /\ 0 <= MaxBytes + 1
      /\ 0 \in 0 .. MaxBytes + 1
  BY EmptySeq, TargetAssumption
<1>2. TgtType
  BY <1>1 DEF TgtType, Cleared
<1>3. BuffersType
  BY <1>1 DEF BuffersType, EmptyBuffers
<1>4. BusType /\ AppType
  BY <1>1 DEF BusType, IdleBus, AppType, Fresh
<1>5. PhaseOK /\ OneUse /\ ResponseIntact
  BY <1>1 DEF PhaseOK, Quiet, OneUse, ResponseIntact, Cleared, IdleBus, Fresh
<1>6. WindowOK
  BY <1>1 DEF WindowOK, Cleared, Fresh
<1>7. QED
  BY <1>2, <1>3, <1>4, <1>5, <1>6 DEF IInv

(***************************************************************************)
(* Configuring the target again, in whatever state, leaves it so too.      *)
(***************************************************************************)
LEMMA ConfigureKeeps == Configure => IInv'
<1>1. Configure => (tgt = Cleared /\ buffers = EmptyBuffers /\ bus = IdleBus /\ app = Fresh)'
  BY DEF Configure, Cleared, EmptyBuffers, IdleBus, Fresh
<1>2. QED
  BY <1>1, ClearedIInv, PTL

(***************************************************************************)
(* Every step keeps the invariant.                                         *)
(***************************************************************************)
LEMMA NextIInv == ~RepeatedStart /\ IInv /\ [Next]_vars => IInv'
<1> SUFFICES ASSUME ~RepeatedStart, IInv, [Next]_vars PROVE IInv'
  OBVIOUS
<1>1. CASE UNCHANGED vars
  BY <1>1 DEF vars, IInv, TgtType, BuffersType, BusType, AppType, PhaseOK, Quiet, OneUse,
     WindowOK, EventIs, Queued, ResponseIntact
<1>2. CASE \E response \in Payloads \ {<<>>} : Preload(response)
  BY <1>2, PreloadKeeps
<1>3. QED
  BY <1>1, <1>2, MasterWriteKeeps, MasterReadKeeps, MasterStopKeeps, PollOverflowKeeps,
     PollEventKeeps, PreloadNothingKeeps, ConfigureKeeps DEF Next

(***************************************************************************)
(* The invariant holds of every behaviour.                                 *)
(***************************************************************************)
LEMMA IInvHolds == ~RepeatedStart => (Spec => []IInv)
<1> SUFFICES ASSUME ~RepeatedStart PROVE Spec => []IInv
  OBVIOUS
<1>1. Init => IInv
  BY ClearedIInv DEF Init
<1>2. IInv /\ [Next]_vars => IInv'
  BY NextIInv
<1>3. QED
  BY <1>1, <1>2, PTL DEF Spec

-----------------------------------------------------------------------------
(* The properties                                                          *)

(***************************************************************************)
(* The target, its buffers and the bus keep their types: no payload grows  *)
(* past its buffer, and the window never holds more than its capacity.     *)
(***************************************************************************)
THEOREM TypeCorrect == ~RepeatedStart => (Spec => []TypeOK)
<1>1. IInv => TypeOK
  <2> SUFFICES ASSUME IInv PROVE TypeOK
    OBVIOUS
  <2>1. tgt.events \in UNION {[1 .. n -> Events] : n \in 0 .. Capacity}
    BY SequencesUpTo, TargetAssumption DEF IInv, TgtType
  <2>2. \A s \in Slots : buffers[s] \in Payloads
    BY SequencesUpTo, TargetAssumption DEF IInv, BuffersType, Payloads
  <2>3. bus.sent \in Writes
    <3>1. MaxBytes + 1 \in Nat
      BY TargetAssumption
    <3>2. QED
      BY <3>1, SequencesUpTo DEF IInv, BusType, Writes
  <2>4. app.armed \in Payloads /\ app.answer \in Payloads
    BY SequencesUpTo, TargetAssumption DEF IInv, AppType, Payloads
  <2>5. QED
    BY <2>1, <2>2, <2>3, <2>4 DEF IInv, TgtType, BuffersType, BusType, TypeOK
<1>2. QED
  BY <1>1, IInvHolds, PTL

(***************************************************************************)
(* The window as the poller sees it is a sequence as long as its events,   *)
(* and agrees with the transactions completed as far as it goes.           *)
(***************************************************************************)
LEMMA WindowIsSeq ==
  ASSUME IInv, NEW n \in Nat, n = Len(tgt.events)
  PROVE  /\ Window \in Seq(Transactions) /\ Len(Window) = n
         /\ \A i \in 1 .. n : Window[i] = app.completed[i]
<1>1. /\ DOMAIN tgt.events = 1 .. n
      /\ n <= Len(app.completed) /\ app.completed \in Seq(Transactions)
  BY DEF IInv, TgtType, WindowOK, AppType
<1>2. \A i \in 1 .. n : Window[i] = app.completed[i]
  BY <1>1 DEF Window, IInv, WindowOK, EventIs, Queued
<1>3. \A i \in 1 .. n : Window[i] \in Transactions
  BY <1>1, <1>2
<1>4. Window \in [1 .. n -> Transactions]
  BY <1>1, <1>3 DEF Window
<1>5. Window \in Seq(Transactions) /\ Len(Window) = n
  BY <1>4, SeqDef, LenProperties
<1>6. QED
  BY <1>2, <1>5

(***************************************************************************)
(* What the window holds are transactions the master completed, whole, in  *)
(* their order and each once.                                              *)
(***************************************************************************)
THEOREM WindowIntactHolds == ~RepeatedStart => (Spec => []WindowIntact)
<1>1. IInv => WindowIntact
  <2> SUFFICES ASSUME IInv PROVE WindowIntact
    OBVIOUS
  <2>1. PICK n \in Nat : n = Len(tgt.events)
    BY DEF IInv, TgtType
  <2>2. /\ Window \in Seq(Transactions) /\ Len(Window) = n
        /\ \A i \in 1 .. n : Window[i] = app.completed[i]
    BY <2>1, WindowIsSeq
  <2>3. n <= Len(app.completed) /\ app.completed \in Seq(Transactions)
    BY <2>1 DEF IInv, WindowOK, AppType
  <2> HIDE DEF Window
  <2>4. SubSeq(Window, 1, n) = SubSeq(app.completed, 1, n)
    <3>1. /\ Len(SubSeq(Window, 1, n)) = n /\ Len(SubSeq(app.completed, 1, n)) = n
          /\ SubSeq(Window, 1, n) \in Seq(Transactions)
          /\ SubSeq(app.completed, 1, n) \in Seq(Transactions)
          /\ \A i \in 1 .. n : SubSeq(Window, 1, n)[i] = Window[i]
          /\ \A i \in 1 .. n : SubSeq(app.completed, 1, n)[i] = app.completed[i]
      BY <2>2, <2>3
    <3>2. QED
      BY <2>2, <3>1, SeqEqual
  <2>5. QED
    BY <2>2, <2>3, <2>4 DEF WindowIntact, IsPrefix
<1>2. QED
  BY <1>1, IInvHolds, PTL

(***************************************************************************)
(* A completed transaction is missing from the window only when the next   *)
(* poll reports the overflow.                                              *)
(***************************************************************************)
THEOREM NoSilentLossHolds == ~RepeatedStart => (Spec => []NoSilentLoss)
<1>1. IInv => NoSilentLoss
  <2> SUFFICES ASSUME IInv PROVE NoSilentLoss
    OBVIOUS
  <2>1. PICK n \in Nat : n = Len(tgt.events)
    BY DEF IInv, TgtType
  <2>2. Len(Window) = n
    BY <2>1, WindowIsSeq
  <2>3. QED
    BY <2>1, <2>2 DEF NoSilentLoss, IInv, WindowOK
<1>2. QED
  BY <1>1, IInvHolds, PTL

(***************************************************************************)
(* A READ sends the response that was armed when it began, and an armed    *)
(* response stays as the application gave it.                              *)
(***************************************************************************)
THEOREM ResponseIntactHolds == ~RepeatedStart => (Spec => []ResponseIntact)
<1>1. IInv => ResponseIntact
  BY DEF IInv
<1>2. QED
  BY <1>1, IInvHolds, PTL
===============================================================================
