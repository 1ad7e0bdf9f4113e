-------------------------- MODULE CameraCaptureProofs --------------------------
(***************************************************************************)
(* Proofs about CameraCapture for any number of slots, frames, lease ids   *)
(* (from three on) and borrows: one user per buffer of the camera.         *)
(*                                                                         *)
(* The conjuncts about the stream take its record as a parameter, because  *)
(* the interrupt handler goes through an intermediate one between the      *)
(* finish event and the start event.                                       *)
(***************************************************************************)
EXTENDS CameraCapture, AiPipeline, Integers, SequenceTheorems, TLAPS

Succ(id) == IF id = MaxLeaseId THEN 1 ELSE id + 1

HasReady(c) == \E s \in Slots : c.slots[s].state = "READY"

\* One slot is captured into, and only while the stream runs.
CaptureOK(c) ==
  /\ c.capture_slot # None =>
       c.running /\ c.slots[c.capture_slot].state = "CAPTURING"
  /\ \A s \in Slots : c.slots[s].state = "CAPTURING" => s = c.capture_slot

\* The slots leased are those of the clients' leases, under their ids.
LeasesOK(c) ==
  /\ \A f \in {snapshot, preview} : f.lease_id # 0 =>
       /\ f.slot \in Slots /\ c.running
       /\ c.slots[f.slot].state = "LEASED"
       /\ c.slots[f.slot].lease_id = f.lease_id
  /\ \A s \in Slots : c.slots[s].state = "LEASED" =>
       \E f \in {snapshot, preview} : f.lease_id # 0 /\ f.slot = s

\* The leases given since the snapshot's: none until the stream is paused,
\* and after it at most two, one for the frames ready at the pause and one
\* for the conversion under way.  Its id is therefore not given again.
IdsOK(c) ==
  /\ preview.lease_id \in {0, c.next_lease_id}
  /\ snapshot.lease_id # 0 =>
       \/ c.next_lease_id = snapshot.lease_id /\ preview.lease_id = 0
       \/ /\ main # "pause" /\ c.next_lease_id = Succ(snapshot.lease_id)
          /\ ~HasReady(c) \/ c.capture_slot = None
       \/ /\ main # "pause" /\ c.next_lease_id = Succ(Succ(snapshot.lease_id))
          /\ ~HasReady(c) /\ c.capture_slot = None
  /\ snapshot.lease_id # 0 /\ main # "pause" => c.paused

\* A frame that is ready is newer than any shown.
NewerOK(c) ==
  /\ last_shown <= c.next_sequence
  /\ \A s \in Slots : c.slots[s].state = "READY" =>
       /\ last_shown < c.slots[s].sequence
       /\ c.slots[s].sequence <= c.next_sequence

StreamInv(c) ==
  /\ c \in StreamType
  /\ CaptureOK(c) /\ LeasesOK(c) /\ IdsOK(c) /\ NewerOK(c)
  /\ c.running = pool.reserved

\* Sequences stay within the bound of the model: frames begun and requested
\* are counted in.
InBound ==
  stream.next_sequence + (IF stream.capture_slot = None THEN 0 ELSE 1)
    + (IF dvp.start THEN 1 ELSE 0) <= MaxSequence

\* The conversion under way writes the slot captured into.
DvpOK == dvp.converting => dvp.addr = stream.capture_slot /\ ~dvp.finish

\* What the two clients hold, and when.
ClientsOK ==
  /\ snapshot.slot = None <=> snapshot.lease_id = 0
  /\ preview.slot # None => main = "preview"
  /\ preview.lease_id # 0 => preview.slot # None
  /\ preview.slot # None /\ preview.lease_id = 0 => preview.slot = snapshot.slot
  /\ snapshot.lease_id # 0 /\ preview.lease_id # 0 => snapshot.slot # preview.slot
  /\ main \in {"stop", "start", "resume"} => snapshot = NoFrame
  /\ main = "pause" => snapshot.lease_id # 0

IInv == /\ TypeOK
        /\ StreamInv(stream)
        /\ InBound
        /\ DvpOK
        /\ ClientsOK
        /\ pool.borrowed # 0 => ~pool.reserved

-----------------------------------------------------------------------------
(* The interrupt handler                                                   *)

(***************************************************************************)
(* The finish event makes the captured slot ready, or finds none.          *)
(***************************************************************************)
LEMMA FinishStep ==
  ASSUME NEW c \in StreamType, CaptureOK(c), c.capture_slot # None,
         c.next_sequence < MaxSequence
  PROVE  LET d == OnFinish(c)
             k == c.capture_slot
         IN  /\ d \in StreamType
             /\ d.slots[k].state = "READY" /\ d.slots[k].sequence = c.next_sequence + 1
             /\ \A s \in Slots \ {k} : d.slots[s] = c.slots[s]
             /\ d.capture_slot = None /\ d.next_sequence = c.next_sequence + 1
             /\ d.running = c.running /\ d.paused = c.paused
             /\ d.next_lease_id = c.next_lease_id
<1> DEFINE k == c.capture_slot
           d == OnFinish(c)
           n == c.next_sequence + 1
<1>1. /\ k \in Slots /\ c.slots \in [Slots -> Slot] /\ n \in 0 .. MaxSequence
      /\ None \in Slots \cup {None}
  BY StreamAssumption DEF StreamType
<1>2. d = [c EXCEPT !.slots[k].sequence = n, !.slots[k].state = "READY",
                    !.next_sequence = n, !.capture_slot = None]
  BY DEF OnFinish, CaptureOK
<1>3. /\ d.slots = [[c.slots EXCEPT ![k].sequence = n] EXCEPT ![k].state = "READY"]
      /\ d.next_sequence = n /\ d.capture_slot = None
      /\ d.running = c.running /\ d.paused = c.paused
      /\ d.next_lease_id = c.next_lease_id /\ d.sync_pending = c.sync_pending
  BY <1>2 DEF StreamType
<1>4. /\ d.slots \in [Slots -> Slot]
      /\ d.slots[k].state = "READY" /\ d.slots[k].sequence = n
      /\ \A s \in Slots \ {k} : d.slots[s] = c.slots[s]
  BY <1>1, <1>3 DEF Slot
<1>5. d \in StreamType
  BY <1>1, <1>2, <1>3, <1>4 DEF StreamType
<1>6. QED
  BY <1>3, <1>4, <1>5

(***************************************************************************)
(* The start event captures into a slot nobody has leased, or into none.   *)
(***************************************************************************)
LEMMA StartStep ==
  ASSUME NEW c \in StreamType
  PROVE  LET d == OnStart(c)
         IN  /\ d \in StreamType
             /\ d.running = c.running /\ d.paused = c.paused
             /\ d.next_lease_id = c.next_lease_id
             /\ d.next_sequence = c.next_sequence
             /\ \/ d.slots = c.slots /\ d.capture_slot = c.capture_slot
                \/ /\ c.running /\ ~c.paused /\ c.capture_slot = None
                   /\ d.capture_slot \in Slots
                   /\ c.slots[d.capture_slot].state \in {"FREE", "READY"}
                   /\ d.slots[d.capture_slot].state = "CAPTURING"
                   /\ \A s \in Slots \ {d.capture_slot} : d.slots[s] = c.slots[s]
<1> DEFINE d == OnStart(c)
           s == CHOOSE s \in CaptureCandidates(c) : TRUE
<1>1. CASE d = c
  BY <1>1
<1>2. CASE d = [c EXCEPT !.sync_pending = FALSE]
  BY <1>2 DEF StreamType
<1>3. CASE /\ c.running /\ ~c.paused /\ c.capture_slot = None
           /\ CaptureCandidates(c) # {}
           /\ d = [c EXCEPT !.slots[s].state = "CAPTURING", !.capture_slot = s]
  <2>1. s \in CaptureCandidates(c)
    BY <1>3
  <2>2. s \in Slots /\ c.slots[s].state \in {"FREE", "READY"}
    BY <2>1 DEF CaptureCandidates, In
  <2> HIDE DEF s
  <2>3. c.slots \in [Slots -> Slot] /\ s \in Slots \cup {None}
    BY <2>2 DEF StreamType
  <2>4. /\ d.slots = [c.slots EXCEPT ![s].state = "CAPTURING"]
        /\ d.capture_slot = s /\ d.sync_pending = c.sync_pending
        /\ d.running = c.running /\ d.paused = c.paused
        /\ d.next_lease_id = c.next_lease_id /\ d.next_sequence = c.next_sequence
    BY <1>3 DEF StreamType
  <2>5. /\ d.slots \in [Slots -> Slot]
        /\ d.slots[s].state = "CAPTURING"
        /\ \A t \in Slots \ {s} : d.slots[t] = c.slots[t]
    BY <2>2, <2>3, <2>4 DEF Slot
  <2>6. d \in StreamType
    BY <1>3, <2>3, <2>4, <2>5 DEF StreamType
  <2>7. QED
    BY <1>3, <2>2, <2>4, <2>5, <2>6
<1>4. QED
  BY <1>1, <1>2, <1>3 DEF OnStart

(***************************************************************************)
(* The finish event keeps what is known of the stream.                     *)
(***************************************************************************)
LEMMA FinishKeeps ==
  ASSUME NEW c, StreamInv(c), ClientsOK, last_shown \in Nat,
         c.capture_slot # None => c.next_sequence < MaxSequence
  PROVE  LET d == OnFinish(c)
         IN  /\ StreamInv(d)
             /\ d.capture_slot = None
             /\ IF c.capture_slot = None THEN d = c
                ELSE d.next_sequence = c.next_sequence + 1
<1> DEFINE d == OnFinish(c)
           k == c.capture_slot
<1>1. CASE k = None
  BY <1>1 DEF OnFinish
<1>2. CASE k # None
  <2>1. /\ d \in StreamType /\ k \in Slots
        /\ d.slots[k].state = "READY" /\ d.slots[k].sequence = c.next_sequence + 1
        /\ \A s \in Slots \ {k} : d.slots[s] = c.slots[s]
        /\ d.capture_slot = None /\ d.next_sequence = c.next_sequence + 1
        /\ d.running = c.running /\ d.paused = c.paused
        /\ d.next_lease_id = c.next_lease_id
    BY <1>2, FinishStep DEF StreamInv, StreamType
  <2> HIDE DEF d
  <2>2. CaptureOK(d)
    BY <2>1 DEF StreamInv, CaptureOK
  <2>3. LeasesOK(d)
    <3>1. c.slots[k].state # "LEASED"
      BY <1>2 DEF StreamInv, CaptureOK
    <3>2. QED
      BY <2>1, <3>1 DEF StreamInv, LeasesOK
  <2>4. IdsOK(d)
    BY <1>2, <2>1 DEF StreamInv, IdsOK
  <2>5. NewerOK(d)
    <3>1. c.next_sequence \in Nat
      BY DEF StreamInv, StreamType
    <3>2. \A s \in Slots : c.slots[s].sequence \in Nat
      BY DEF StreamInv, StreamType, Slot
    <3>3. QED
      BY <2>1, <3>1, <3>2 DEF StreamInv, NewerOK
  <2>6. QED
    BY <1>2, <2>1, <2>2, <2>3, <2>4, <2>5 DEF StreamInv, d
<1>3. QED
  BY <1>1, <1>2

(***************************************************************************)
(* The start event keeps what is known of the stream, and a slot it begins *)
(* to capture into was not captured into before.                           *)
(***************************************************************************)
LEMMA StartKeeps ==
  ASSUME NEW c, StreamInv(c)
  PROVE  LET d == OnStart(c)
         IN  /\ StreamInv(d)
             /\ d.next_sequence = c.next_sequence
             /\ d.capture_slot # c.capture_slot => c.capture_slot = None
<1> DEFINE d == OnStart(c)
           k == d.capture_slot
<1>1. /\ d \in StreamType
      /\ d.running = c.running /\ d.paused = c.paused
      /\ d.next_lease_id = c.next_lease_id /\ d.next_sequence = c.next_sequence
      /\ \/ d.slots = c.slots /\ d.capture_slot = c.capture_slot
         \/ /\ c.running /\ ~c.paused /\ c.capture_slot = None
            /\ k \in Slots
            /\ c.slots[k].state \in {"FREE", "READY"}
            /\ d.slots[k].state = "CAPTURING"
            /\ \A s \in Slots \ {k} : d.slots[s] = c.slots[s]
  BY StartStep DEF StreamInv
<1> HIDE DEF d
<1>2. CaptureOK(d)
  BY <1>1 DEF StreamInv, CaptureOK, Slots, None
<1>3. LeasesOK(d)
  BY <1>1 DEF StreamInv, LeasesOK
<1>4. IdsOK(d)
  BY <1>1 DEF StreamInv, IdsOK, HasReady
<1>5. NewerOK(d)
  BY <1>1 DEF StreamInv, NewerOK
<1>6. StreamInv(d) /\ (k # c.capture_slot => c.capture_slot = None)
  BY <1>1, <1>2, <1>3, <1>4, <1>5 DEF StreamInv
<1>7. QED
  BY <1>1, <1>6 DEF d

(***************************************************************************)
(* The interrupt handler keeps the invariant.                              *)
(***************************************************************************)
LEMMA IrqKeeps == IInv /\ Irq => IInv'
<1> SUFFICES ASSUME IInv, Irq PROVE IInv'
  OBVIOUS
<1> DEFINE finished == IF dvp.finish THEN OnFinish(stream) ELSE stream
           started  == IF dvp.start THEN OnStart(finished) ELSE finished
           begins   == finished.capture_slot # started.capture_slot
<1>1. /\ stream' = started
      /\ dvp' = [dvp EXCEPT !.start = FALSE, !.finish = FALSE,
                    !.converting = @ \/ begins,
                    !.addr = IF begins THEN started.capture_slot ELSE @]
      /\ UNCHANGED <<pool, snapshot, preview, main, last_shown>>
  BY DEF Irq, Interrupt, Clients
<1>2. /\ stream.next_sequence \in Nat /\ stream.capture_slot \in Slots \cup {None}
      /\ last_shown \in Nat /\ MaxSequence \in Nat
  BY StreamAssumption DEF IInv, TypeOK, StreamType
<1>3. /\ StreamInv(finished)
      /\ dvp.finish => finished.capture_slot = None
      /\ ~dvp.finish => finished = stream
      /\ stream.capture_slot = None => finished = stream
      /\ finished.capture_slot # None => finished = stream
      /\ finished.capture_slot = None /\ stream.capture_slot # None =>
           finished.next_sequence = stream.next_sequence + 1
  <2>1. stream.capture_slot # None => stream.next_sequence < MaxSequence
    BY <1>2 DEF IInv, InBound
  <2>2. QED
    BY <1>2, <2>1, FinishKeeps DEF IInv
<1> HIDE DEF finished
<1>4. /\ StreamInv(started)
      /\ started.next_sequence = finished.next_sequence
      /\ started.capture_slot # finished.capture_slot =>
           finished.capture_slot = None /\ dvp.start
  BY <1>3, StartKeeps
<1> HIDE DEF started
<1>5. StreamInv(stream)'
  BY <1>1, <1>4 DEF StreamInv, LeasesOK, IdsOK, NewerOK
<1>6. started.capture_slot \in Slots \cup {None}
  BY <1>4 DEF StreamInv, StreamType
<1>7. dvp' \in DvpType
  <2>1. begins => started.capture_slot \in Slots
    BY <1>4, <1>6
  <2>2. dvp.converting \in BOOLEAN /\ dvp.addr \in Slots /\ dvp \in DvpType
    BY DEF IInv, TypeOK, DvpType
  <2> HIDE DEF begins
  <2>3. (dvp.converting \/ begins) \in BOOLEAN
    OBVIOUS
  <2>4. (IF begins THEN started.capture_slot ELSE dvp.addr) \in Slots
    BY <2>1, <2>2
  <2>5. QED
    BY <1>1, <2>2, <2>3, <2>4 DEF DvpType
<1>8. TypeOK'
  BY <1>1, <1>5, <1>7 DEF IInv, TypeOK, StreamInv
<1>9. /\ dvp'.start = FALSE /\ dvp'.finish = FALSE
      /\ dvp'.converting = (dvp.converting \/ begins)
      /\ dvp'.addr = (IF begins THEN started.capture_slot ELSE dvp.addr)
  BY <1>1 DEF IInv, TypeOK, DvpType
<1>10. InBound'
  BY <1>1, <1>2, <1>3, <1>4, <1>6, <1>9 DEF IInv, InBound
<1>11. DvpOK'
  BY <1>1, <1>3, <1>4, <1>9 DEF IInv, DvpOK
<1>12. ClientsOK'
  BY <1>1 DEF IInv, ClientsOK
<1>13. QED
  BY <1>1, <1>5, <1>8, <1>10, <1>11, <1>12 DEF IInv

-----------------------------------------------------------------------------
(* The operations of the main loop                                         *)

(***************************************************************************)
(* Acquiring the newest frame leases one slot and leaves none ready.       *)
(***************************************************************************)
LEMMA AcquireStep ==
  ASSUME stream \in StreamType, NEW s \in Slots, AcquireLatest(s)
  PROVE  /\ stream' \in StreamType
         /\ stream.running /\ stream.slots[s].state = "READY"
         /\ \A t \in Slots : stream.slots[t].state = "READY" =>
              stream.slots[t].sequence <= stream.slots[s].sequence
         /\ stream'.slots[s].state = "LEASED" /\ stream'.slots[s].lease_id = NextLeaseId
         /\ \A t \in Slots \ {s} :
              IF stream.slots[t].state = "READY" THEN stream'.slots[t].state = "FREE"
              ELSE stream'.slots[t] = stream.slots[t]
         /\ stream'.running = stream.running /\ stream'.paused = stream.paused
         /\ stream'.capture_slot = stream.capture_slot
         /\ stream'.next_sequence = stream.next_sequence
         /\ stream'.next_lease_id = NextLeaseId
         /\ NextLeaseId = Succ(stream.next_lease_id)
         /\ NextLeaseId \in 1 .. MaxLeaseId
         /\ UNCHANGED <<dvp, pool>>
<1> DEFINE new == [t \in Slots |->
             CASE t = s -> [stream.slots[t] EXCEPT !.lease_id = NextLeaseId,
                    !.state = "LEASED"]
               [] t \in In(stream,
                      "READY") \ {s} -> [stream.slots[t] EXCEPT !.state = "FREE"]
               [] OTHER -> stream.slots[t]]
<1>1. stream' = [stream EXCEPT !.next_lease_id = NextLeaseId, !.slots = new]
  BY DEF AcquireLatest
<1>2. NextLeaseId \in 1 .. MaxLeaseId /\ NextLeaseId = Succ(stream.next_lease_id)
  BY StreamAssumption DEF NextLeaseId, Succ, StreamType
<1>3. stream.slots \in [Slots -> Slot]
  BY DEF StreamType
<1>4. /\ new[s] = [stream.slots[s] EXCEPT !.lease_id = NextLeaseId, !.state = "LEASED"]
      /\ \A t \in Slots \ {s} :
           new[t] = IF stream.slots[t].state = "READY"
                    THEN [stream.slots[t] EXCEPT !.state = "FREE"] ELSE stream.slots[t]
  BY DEF In
<1>5. DOMAIN new = Slots /\ new = [t \in Slots |-> new[t]]
  OBVIOUS
<1> HIDE DEF new
<1>6. ASSUME NEW t \in Slots
      PROVE  /\ new[t] \in Slot
             /\ t = s => new[t].state = "LEASED" /\ new[t].lease_id = NextLeaseId
             /\ t # s /\ stream.slots[t].state = "READY" => new[t].state = "FREE"
             /\ t # s /\ stream.slots[t].state # "READY" => new[t] = stream.slots[t]
  <2>1. stream.slots[t] \in Slot /\ NextLeaseId \in 0 .. MaxLeaseId
    BY <1>2, <1>3
  <2>2. CASE t = s
    <3>1. new[t] = [stream.slots[t] EXCEPT !.lease_id = NextLeaseId, !.state = "LEASED"]
      BY <1>4, <2>2
    <3>2. new[t] \in Slot /\ new[t].state = "LEASED" /\ new[t].lease_id = NextLeaseId
      BY <2>1, <3>1 DEF Slot
    <3>3. QED
      BY <2>2, <3>2
  <2>3. CASE t # s /\ stream.slots[t].state = "READY"
    <3>1. new[t] = [stream.slots[t] EXCEPT !.state = "FREE"]
      BY <1>4, <2>3
    <3>2. new[t] \in Slot /\ new[t].state = "FREE"
      BY <2>1, <3>1 DEF Slot
    <3>3. QED
      BY <2>3, <3>2
  <2>4. CASE t # s /\ stream.slots[t].state # "READY"
    BY <1>4, <2>1, <2>4
  <2>5. QED
    BY <2>2, <2>3, <2>4
<1>7. new \in [Slots -> Slot]
  BY <1>5, <1>6
<1>8. /\ stream' \in StreamType /\ stream'.slots = new
      /\ stream'.running = stream.running /\ stream'.paused = stream.paused
      /\ stream'.capture_slot = stream.capture_slot
      /\ stream'.next_sequence = stream.next_sequence
      /\ stream'.next_lease_id = NextLeaseId
  <2>1. NextLeaseId \in 0 .. MaxLeaseId
    BY <1>2
  <2>2. QED
    BY <1>1, <1>7, <2>1 DEF StreamType
<1>9. /\ new[s].state = "LEASED" /\ new[s].lease_id = NextLeaseId
      /\ \A t \in Slots \ {s} :
           IF stream.slots[t].state = "READY" THEN new[t].state = "FREE"
           ELSE new[t] = stream.slots[t]
  BY <1>6
<1>10. /\ stream.running /\ stream.slots[s].state = "READY"
       /\ \A t \in Slots : stream.slots[t].state = "READY" =>
            stream.slots[t].sequence <= stream.slots[s].sequence
       /\ UNCHANGED <<dvp, pool>>
  BY DEF AcquireLatest, NewestReady, In
<1>11. QED
  BY <1>2, <1>8, <1>9, <1>10

(***************************************************************************)
(* Releasing the lease of a client frees its slot, when leases differ, and *)
(* releasing none changes nothing.                                         *)
(***************************************************************************)
LEMMA ReleaseStep ==
  ASSUME stream \in StreamType, NEW f \in Frame, Release(f.lease_id),
         f.lease_id # 0 =>
           /\ f.slot \in Slots /\ stream.running
           /\ stream.slots[f.slot].state = "LEASED"
           /\ \A s \in Slots : stream.slots[s].state = "LEASED" =>
                (stream.slots[s].lease_id = f.lease_id <=> s = f.slot)
  PROVE  /\ stream' \in StreamType
         /\ stream'.running = stream.running /\ stream'.paused = stream.paused
         /\ stream'.capture_slot = stream.capture_slot
         /\ stream'.next_sequence = stream.next_sequence
         /\ stream'.next_lease_id = stream.next_lease_id
         /\ \A s \in Slots : (f.lease_id = 0 \/ s # f.slot) =>
              stream'.slots[s] = stream.slots[s]
         /\ f.lease_id # 0 => stream'.slots[f.slot].state = "FREE"
         /\ UNCHANGED <<dvp, pool>>
<1> DEFINE new == [s \in Slots |->
             IF s \in ReleasedBy(f.lease_id)
             THEN [stream.slots[s] EXCEPT !.lease_id = 0, !.state = "FREE"]
             ELSE stream.slots[s]]
<1>1. stream' = [stream EXCEPT !.slots = new] /\ UNCHANGED <<dvp, pool>>
  BY DEF Release
<1>2. \A s \in Slots : s \in ReleasedBy(f.lease_id) <=> f.lease_id # 0 /\ s = f.slot
  BY DEF ReleasedBy, In, Slots
<1>3. stream.slots \in [Slots -> Slot] /\ 0 \in 0 .. MaxLeaseId
  BY StreamAssumption DEF StreamType
<1>4. \A s \in Slots :
        new[s] = IF f.lease_id # 0 /\ s = f.slot
                 THEN [stream.slots[s] EXCEPT !.lease_id = 0, !.state = "FREE"]
                 ELSE stream.slots[s]
  BY <1>2
<1>5. new = [s \in Slots |-> new[s]]
  OBVIOUS
<1> HIDE DEF new
<1>6. ASSUME NEW s \in Slots
      PROVE  /\ new[s] \in Slot
             /\ (f.lease_id = 0 \/ s # f.slot) => new[s] = stream.slots[s]
             /\ f.lease_id # 0 /\ s = f.slot => new[s].state = "FREE"
  <2>1. stream.slots[s] \in Slot
    BY <1>3
  <2>2. CASE f.lease_id # 0 /\ s = f.slot
    <3>1. new[s] = [stream.slots[s] EXCEPT !.lease_id = 0, !.state = "FREE"]
      BY <1>4, <2>2
    <3>2. new[s] \in Slot /\ new[s].state = "FREE"
      BY <1>3, <2>1, <3>1 DEF Slot
    <3>3. QED
      BY <2>2, <3>2
  <2>3. CASE ~(f.lease_id # 0 /\ s = f.slot)
    BY <1>4, <2>1, <2>3
  <2>4. QED
    BY <2>2, <2>3
<1>7. new \in [Slots -> Slot]
  BY <1>5, <1>6
<1>8. /\ stream' \in StreamType /\ stream'.slots = new
      /\ stream'.running = stream.running /\ stream'.paused = stream.paused
      /\ stream'.capture_slot = stream.capture_slot
      /\ stream'.next_sequence = stream.next_sequence
      /\ stream'.next_lease_id = stream.next_lease_id
  BY <1>1, <1>7 DEF StreamType
<1>9. /\ \A s \in Slots : (f.lease_id = 0 \/ s # f.slot) => new[s] = stream.slots[s]
      /\ f.lease_id # 0 => new[f.slot].state = "FREE"
  BY <1>6
<1>10. QED
  BY <1>1, <1>8, <1>9

(***************************************************************************)
(* The clients' leases never share an id, because there are three: the     *)
(* ids of later leases are the two that follow the snapshot's.             *)
(***************************************************************************)
LEMMA LeasesDiffer ==
  ASSUME TypeOK, LeasesOK(stream), IdsOK(stream), ClientsOK,
         NEW f \in {snapshot, preview}, f.lease_id # 0
  PROVE  /\ f \in Frame /\ f.slot \in Slots /\ stream.running
         /\ stream.slots[f.slot].state = "LEASED"
         /\ \A s \in Slots : stream.slots[s].state = "LEASED" =>
              (stream.slots[s].lease_id = f.lease_id <=> s = f.slot)
<1>1. /\ snapshot.lease_id # 0 => snapshot.lease_id \in 1 .. MaxLeaseId
      /\ f \in Frame
  BY StreamAssumption DEF TypeOK, Frame
<1>2. snapshot.lease_id # 0 /\ preview.lease_id # 0 =>
        snapshot.lease_id # preview.lease_id
  BY <1>1, StreamAssumption DEF IdsOK, Succ
<1>3. \A g \in {snapshot, preview} : g.lease_id # 0 =>
        /\ g.slot \in Slots /\ stream.running
        /\ stream.slots[g.slot].state = "LEASED"
        /\ stream.slots[g.slot].lease_id = g.lease_id
  BY DEF LeasesOK
<1>4. ASSUME NEW s \in Slots, stream.slots[s].state = "LEASED"
      PROVE  stream.slots[s].lease_id = f.lease_id <=> s = f.slot
  <2>1. PICK g \in {snapshot, preview} : g.lease_id # 0 /\ g.slot = s
    BY <1>4 DEF LeasesOK
  <2>2. g.lease_id = f.lease_id => g = f
    BY <1>2, <2>1
  <2>3. g.slot = f.slot => g.lease_id = f.lease_id
    BY <1>3, <2>1
  <2>4. QED
    BY <1>3, <2>1, <2>2, <2>3
<1>5. QED
  BY <1>1, <1>3, <1>4

(***************************************************************************)
(* What acquiring, from the idle main loop, keeps whoever the client is.   *)
(***************************************************************************)
LEMMA AcquireKeeps ==
  ASSUME IInv, main = "idle", NEW s \in Slots, AcquireLatest(s),
         last_shown' = stream.slots[s].sequence
  PROVE  /\ stream' \in StreamType /\ dvp' \in DvpType /\ pool' = pool
         /\ last_shown' \in 0 .. MaxSequence
         /\ last_shown < last_shown'
         /\ preview = NoFrame
         /\ CaptureOK(stream')
         /\ \A t \in Slots : stream'.slots[t].state # "READY"
         /\ last_shown' <= stream'.next_sequence
         /\ stream'.running = pool'.reserved
         /\ InBound' /\ DvpOK'
         /\ FrameOf(s) \in Frame
<1>1. /\ stream' \in StreamType
      /\ stream.running /\ stream.slots[s].state = "READY"
      /\ stream'.slots[s].state = "LEASED"
      /\ \A t \in Slots \ {s} :
           IF stream.slots[t].state = "READY" THEN stream'.slots[t].state = "FREE"
           ELSE stream'.slots[t] = stream.slots[t]
      /\ stream'.running = stream.running
      /\ stream'.capture_slot = stream.capture_slot
      /\ stream'.next_sequence = stream.next_sequence
      /\ NextLeaseId \in 1 .. MaxLeaseId
      /\ UNCHANGED <<dvp, pool>>
  BY AcquireStep DEF IInv, TypeOK
<1>2. \A t \in Slots : stream'.slots[t].state # "READY"
  BY <1>1
<1>3. CaptureOK(stream')
  <2>1. stream.capture_slot \in Slots \cup {None}
    BY DEF IInv, TypeOK, StreamType
  <2>2. QED
    BY <1>1, <2>1 DEF IInv, StreamInv, CaptureOK
<1>4. preview = NoFrame
  <2>1. preview.slot = None /\ preview.lease_id = 0
    BY DEF IInv, ClientsOK
  <2>2. QED
    BY <2>1 DEF IInv, TypeOK, Frame, NoFrame
<1>5. /\ last_shown < stream.slots[s].sequence
      /\ stream.slots[s].sequence <= stream.next_sequence
  BY <1>1 DEF IInv, StreamInv, NewerOK
<1>6. stream.slots[s].sequence \in 0 .. MaxSequence
  BY DEF IInv, TypeOK, StreamType, Slot
<1>7. FrameOf(s) \in Frame
  <2>1. NextLeaseId \in 0 .. MaxLeaseId
    BY <1>1
  <2>2. QED
    BY <2>1 DEF FrameOf, Frame
<1>8. InBound' /\ DvpOK'
  BY <1>1 DEF IInv, InBound, DvpOK
<1>9. QED
  BY <1>1, <1>2, <1>3, <1>4, <1>5, <1>6, <1>7, <1>8 DEF IInv, TypeOK, StreamInv

(***************************************************************************)
(* Beginning a preview keeps the invariant.                                *)
(***************************************************************************)
LEMMA PreviewBeginKeeps == IInv /\ PreviewBegin => IInv'
<1> SUFFICES ASSUME IInv, PreviewBegin PROVE IInv'
  OBVIOUS
<1>1. main = "idle" /\ main' = "preview" /\ snapshot' = snapshot
  BY DEF PreviewBegin
<1>2. ASSUME NEW s \in Slots, AcquireLatest(s), preview' = FrameOf(s),
             last_shown' = stream.slots[s].sequence
      PROVE  IInv'
  <2>1. /\ stream' \in StreamType /\ dvp' \in DvpType /\ pool' = pool
        /\ last_shown' \in 0 .. MaxSequence
        /\ preview = NoFrame
        /\ CaptureOK(stream')
        /\ \A t \in Slots : stream'.slots[t].state # "READY"
        /\ last_shown' <= stream'.next_sequence
        /\ stream'.running = pool'.reserved
        /\ InBound' /\ DvpOK'
        /\ FrameOf(s) \in Frame
    BY <1>1, <1>2, AcquireKeeps
  <2>2. /\ stream.running /\ stream.slots[s].state = "READY"
        /\ stream'.slots[s].state = "LEASED" /\ stream'.slots[s].lease_id = NextLeaseId
        /\ \A t \in Slots \ {s} :
             IF stream.slots[t].state = "READY" THEN stream'.slots[t].state = "FREE"
             ELSE stream'.slots[t] = stream.slots[t]
        /\ stream'.running = stream.running /\ stream'.paused = stream.paused
        /\ stream'.capture_slot = stream.capture_slot
        /\ stream'.next_lease_id = NextLeaseId
        /\ NextLeaseId = Succ(stream.next_lease_id)
        /\ NextLeaseId \in 1 .. MaxLeaseId
    BY <1>2, AcquireStep DEF IInv, TypeOK
  <2>3. /\ preview'.slot = s /\ preview'.lease_id = NextLeaseId
        /\ preview.lease_id = 0 /\ preview.slot = None
    BY <1>2, <2>1 DEF FrameOf, NoFrame
  <2>4. TypeOK'
    BY <1>1, <1>2, <2>1 DEF IInv, TypeOK
  <2>5. LeasesOK(stream)'
    <3>1. LeasesOK(stream)
      BY DEF IInv, StreamInv
    <3>2. snapshot.lease_id # 0 => snapshot.slot # s
      BY <2>2, <3>1 DEF LeasesOK
    <3>3. ASSUME NEW f \in {snapshot', preview'}, f.lease_id # 0
          PROVE  /\ f.slot \in Slots /\ stream'.running
                 /\ stream'.slots[f.slot].state = "LEASED"
                 /\ stream'.slots[f.slot].lease_id = f.lease_id
      BY <1>1, <2>2, <2>3, <3>1, <3>2, <3>3 DEF LeasesOK
    <3>4. ASSUME NEW t \in Slots, stream'.slots[t].state = "LEASED"
          PROVE  \E f \in {snapshot', preview'} : f.lease_id # 0 /\ f.slot = t
      BY <1>1, <2>2, <2>3, <3>1, <3>4 DEF LeasesOK
    <3>5. QED
      BY <3>3, <3>4 DEF LeasesOK
  <2>6. IdsOK(stream)'
    <3>1. ~HasReady(stream') /\ HasReady(stream)
      BY <2>1, <2>2 DEF HasReady
    <3>2. QED
      BY <1>1, <2>2, <2>3, <3>1 DEF IInv, StreamInv, IdsOK, HasReady
  <2>7. NewerOK(stream)'
    BY <2>1 DEF NewerOK
  <2>8. ClientsOK'
    <3>1. snapshot.lease_id # 0 => snapshot.slot # s
      BY <2>2 DEF IInv, StreamInv, LeasesOK
    <3>2. s # None /\ NextLeaseId # 0
      BY <2>2 DEF Slots, None
    <3>3. QED
      BY <1>1, <2>3, <3>1, <3>2 DEF IInv, ClientsOK
  <2>9. QED
    BY <2>1, <2>4, <2>5, <2>6, <2>7, <2>8 DEF IInv, StreamInv, CaptureOK
<1>3. ASSUME snapshot.slot # None,
             preview' = [slot |-> snapshot.slot, lease_id |-> 0],
             UNCHANGED <<stream, dvp, pool, last_shown>>
      PROVE  IInv'
  <2>1. preview'.slot = snapshot.slot /\ preview'.lease_id = 0 /\ preview' \in Frame
    BY <1>3, StreamAssumption DEF IInv, TypeOK, Frame
  <2>2. preview.lease_id = 0
    BY <1>1 DEF IInv, ClientsOK
  <2>3. TypeOK'
    BY <1>1, <1>3, <2>1 DEF IInv, TypeOK
  <2>4. StreamInv(stream)'
    BY <1>1, <1>3, <2>1, <2>2
    DEF IInv, StreamInv, CaptureOK, LeasesOK, IdsOK, HasReady, NewerOK
  <2>5. ClientsOK'
    BY <1>1, <1>3, <2>1 DEF IInv, ClientsOK
  <2>6. QED
    BY <1>3, <2>3, <2>4, <2>5 DEF IInv, InBound, DvpOK
<1>4. QED
  BY <1>2, <1>3 DEF PreviewBegin

(***************************************************************************)
(* Taking a snapshot keeps the invariant.                                  *)
(***************************************************************************)
LEMMA SnapshotTakeKeeps == IInv /\ SnapshotTake => IInv'
<1> SUFFICES ASSUME IInv, SnapshotTake PROVE IInv'
  OBVIOUS
<1>1. main = "idle" /\ main' = "pause" /\ preview' = preview /\ snapshot.lease_id = 0
  BY DEF SnapshotTake
<1>2. PICK s \in Slots : /\ AcquireLatest(s) /\ snapshot' = FrameOf(s)
                         /\ last_shown' = stream.slots[s].sequence
  BY DEF SnapshotTake
<1>3. /\ stream' \in StreamType /\ dvp' \in DvpType /\ pool' = pool
      /\ last_shown' \in 0 .. MaxSequence
      /\ preview = NoFrame
      /\ CaptureOK(stream')
      /\ \A t \in Slots : stream'.slots[t].state # "READY"
      /\ last_shown' <= stream'.next_sequence
      /\ stream'.running = pool'.reserved
      /\ InBound' /\ DvpOK'
      /\ FrameOf(s) \in Frame
  BY <1>1, <1>2, AcquireKeeps
<1>4. /\ stream.running /\ stream.slots[s].state = "READY"
      /\ stream'.slots[s].state = "LEASED" /\ stream'.slots[s].lease_id = NextLeaseId
      /\ \A t \in Slots \ {s} :
           IF stream.slots[t].state = "READY" THEN stream'.slots[t].state = "FREE"
           ELSE stream'.slots[t] = stream.slots[t]
      /\ stream'.running = stream.running
      /\ stream'.next_lease_id = NextLeaseId
      /\ NextLeaseId \in 1 .. MaxLeaseId
  BY <1>2, AcquireStep DEF IInv, TypeOK
<1>5. /\ snapshot'.slot = s /\ snapshot'.lease_id = NextLeaseId
      /\ preview.lease_id = 0 /\ preview.slot = None
  BY <1>2, <1>3 DEF FrameOf, NoFrame
<1>6. TypeOK'
  BY <1>1, <1>2, <1>3 DEF IInv, TypeOK
<1>7. LeasesOK(stream)'
  <2>1. LeasesOK(stream)
    BY DEF IInv, StreamInv
  <2>2. ASSUME NEW f \in {snapshot', preview'}, f.lease_id # 0
        PROVE  /\ f.slot \in Slots /\ stream'.running
               /\ stream'.slots[f.slot].state = "LEASED"
               /\ stream'.slots[f.slot].lease_id = f.lease_id
    BY <1>1, <1>4, <1>5, <2>2
  <2>3. ASSUME NEW t \in Slots, stream'.slots[t].state = "LEASED"
        PROVE  \E f \in {snapshot', preview'} : f.lease_id # 0 /\ f.slot = t
    BY <1>1, <1>4, <1>5, <2>1, <2>3 DEF LeasesOK
  <2>4. QED
    BY <2>2, <2>3 DEF LeasesOK
<1>8. IdsOK(stream)'
  BY <1>1, <1>4, <1>5 DEF IdsOK
<1>9. NewerOK(stream)'
  BY <1>3 DEF NewerOK
<1>10. ClientsOK'
  <2>1. s # None /\ NextLeaseId # 0
    BY <1>4 DEF Slots, None
  <2>2. QED
    BY <1>1, <1>5, <2>1 DEF IInv, ClientsOK
<1>11. QED
  BY <1>3, <1>6, <1>7, <1>8, <1>9, <1>10 DEF IInv, StreamInv, CaptureOK

(***************************************************************************)
(* Giving back a client's lease keeps what is known of the stream's slots. *)
(***************************************************************************)
LEMMA ReleaseKeeps ==
  ASSUME IInv, NEW f \in {snapshot, preview}, Release(f.lease_id)
  PROVE  /\ stream' \in StreamType /\ UNCHANGED <<dvp, pool>>
         /\ CaptureOK(stream')
         /\ stream'.running = stream.running /\ stream'.paused = stream.paused
         /\ stream'.capture_slot = stream.capture_slot
         /\ stream'.next_lease_id = stream.next_lease_id
         /\ HasReady(stream') => HasReady(stream)
         /\ last_shown' = last_shown => NewerOK(stream)'
         /\ \A s \in Slots : f.lease_id = 0 \/ s # f.slot => stream'.slots[s] = stream.slots[s]
         /\ f.lease_id # 0 => stream'.slots[f.slot].state = "FREE"
         /\ InBound' /\ DvpOK'
<1>1. /\ f \in Frame
      /\ f.lease_id # 0 =>
           /\ f.slot \in Slots /\ stream.running
           /\ stream.slots[f.slot].state = "LEASED"
           /\ \A s \in Slots : stream.slots[s].state = "LEASED" =>
                (stream.slots[s].lease_id = f.lease_id <=> s = f.slot)
  BY LeasesDiffer DEF IInv, StreamInv, TypeOK
<1>2. /\ stream' \in StreamType
      /\ stream'.running = stream.running /\ stream'.paused = stream.paused
      /\ stream'.capture_slot = stream.capture_slot
      /\ stream'.next_sequence = stream.next_sequence
      /\ stream'.next_lease_id = stream.next_lease_id
      /\ \A s \in Slots : (f.lease_id = 0 \/ s # f.slot) =>
           stream'.slots[s] = stream.slots[s]
      /\ f.lease_id # 0 => stream'.slots[f.slot].state = "FREE"
      /\ UNCHANGED <<dvp, pool>>
  BY <1>1, ReleaseStep DEF IInv, TypeOK
<1>3. CaptureOK(stream')
  <2>1. stream.capture_slot \in Slots \cup {None}
    BY DEF IInv, TypeOK, StreamType
  <2>2. CaptureOK(stream)
    BY DEF IInv, StreamInv
  <2>3. f.lease_id # 0 => stream.capture_slot # f.slot
    BY <1>1, <2>1, <2>2 DEF CaptureOK, Slots, None
  <2>4. QED
    BY <1>2, <2>1, <2>2, <2>3 DEF CaptureOK
<1>4. HasReady(stream') => HasReady(stream)
  BY <1>2 DEF HasReady
<1>5. last_shown' = last_shown => NewerOK(stream)'
  BY <1>2 DEF IInv, StreamInv, NewerOK
<1>6. InBound' /\ DvpOK'
  BY <1>2 DEF IInv, InBound, DvpOK
<1>7. QED
  BY <1>2, <1>3, <1>4, <1>5, <1>6

(***************************************************************************)
(* Ending a preview keeps the invariant.                                   *)
(***************************************************************************)
LEMMA PreviewEndKeeps == IInv /\ PreviewEnd => IInv'
<1> SUFFICES ASSUME IInv, PreviewEnd PROVE IInv'
  OBVIOUS
<1>1. /\ main = "preview" /\ main' = "idle" /\ preview' = NoFrame
      /\ snapshot' = snapshot /\ last_shown' = last_shown
      /\ Release(preview.lease_id)
  BY DEF PreviewEnd
<1>2. /\ stream' \in StreamType /\ UNCHANGED <<dvp, pool>>
      /\ CaptureOK(stream')
      /\ stream'.running = stream.running /\ stream'.paused = stream.paused
      /\ stream'.capture_slot = stream.capture_slot
      /\ stream'.next_lease_id = stream.next_lease_id
      /\ HasReady(stream') => HasReady(stream)
      /\ NewerOK(stream)'
      /\ \A s \in Slots : preview.lease_id = 0 \/ s # preview.slot =>
           stream'.slots[s] = stream.slots[s]
      /\ preview.lease_id # 0 => stream'.slots[preview.slot].state = "FREE"
      /\ InBound' /\ DvpOK'
  BY <1>1, ReleaseKeeps
<1>3. preview'.slot = None /\ preview'.lease_id = 0 /\ preview' \in Frame
  BY <1>1, StreamAssumption DEF NoFrame, Frame
<1>4. TypeOK'
  BY <1>1, <1>2, <1>3 DEF IInv, TypeOK
<1>5. LeasesOK(stream)'
  <2>1. LeasesOK(stream)
    BY DEF IInv, StreamInv
  <2>2. ASSUME snapshot.lease_id # 0
        PROVE  /\ snapshot.slot \in Slots /\ stream'.running
               /\ stream'.slots[snapshot.slot].state = "LEASED"
               /\ stream'.slots[snapshot.slot].lease_id = snapshot.lease_id
    <3>1. preview.lease_id # 0 => preview.slot # snapshot.slot
      BY <2>2 DEF IInv, ClientsOK
    <3>2. QED
      BY <1>2, <2>1, <2>2, <3>1 DEF LeasesOK
  <2>3. ASSUME NEW t \in Slots, stream'.slots[t].state = "LEASED"
        PROVE  snapshot.lease_id # 0 /\ snapshot.slot = t
    <3>1. (preview.lease_id = 0 \/ t # preview.slot) /\ stream.slots[t].state = "LEASED"
      BY <1>2, <2>3
    <3>2. QED
      BY <2>1, <3>1 DEF LeasesOK
  <2>4. QED
    BY <1>1, <1>3, <2>2, <2>3 DEF LeasesOK
<1>6. IdsOK(stream)'
  BY <1>1, <1>2, <1>3 DEF IInv, StreamInv, IdsOK
<1>7. ClientsOK'
  BY <1>1, <1>3 DEF IInv, ClientsOK
<1>8. QED
  BY <1>2, <1>4, <1>5, <1>6, <1>7 DEF IInv, StreamInv, CaptureOK

(***************************************************************************)
(* Giving a snapshot up keeps the invariant, whatever call comes next.     *)
(***************************************************************************)
LEMMA GiveUpKeeps ==
  ASSUME IInv, NEW next \in {"resume", "idle", "stop", "start"}, GiveUpSnapshot(next)
  PROVE  IInv'
<1>1. /\ main = "idle" /\ main' = next /\ snapshot' = NoFrame
      /\ preview' = preview /\ last_shown' = last_shown
      /\ Release(snapshot.lease_id)
  BY DEF GiveUpSnapshot
<1>2. /\ stream' \in StreamType /\ UNCHANGED <<dvp, pool>>
      /\ CaptureOK(stream')
      /\ stream'.running = stream.running
      /\ stream'.next_lease_id = stream.next_lease_id
      /\ NewerOK(stream)'
      /\ \A s \in Slots : snapshot.lease_id = 0 \/ s # snapshot.slot =>
           stream'.slots[s] = stream.slots[s]
      /\ snapshot.lease_id # 0 => stream'.slots[snapshot.slot].state = "FREE"
      /\ InBound' /\ DvpOK'
  BY <1>1, ReleaseKeeps
<1>3. /\ snapshot'.slot = None /\ snapshot'.lease_id = 0 /\ snapshot' \in Frame
      /\ preview.slot = None /\ preview.lease_id = 0
  BY <1>1, StreamAssumption DEF NoFrame, Frame, IInv, ClientsOK
<1>4. TypeOK'
  BY <1>1, <1>2, <1>3 DEF IInv, TypeOK
<1>5. LeasesOK(stream)'
  <2>1. ASSUME NEW t \in Slots, stream'.slots[t].state = "LEASED"
        PROVE  FALSE
    <3>1. /\ snapshot.lease_id = 0 \/ t # snapshot.slot
          /\ stream.slots[t].state = "LEASED"
      BY <1>2, <2>1
    <3>2. QED
      BY <1>3, <3>1 DEF IInv, StreamInv, LeasesOK
  <2>2. QED
    BY <1>1, <1>3, <2>1 DEF LeasesOK
<1>6. IdsOK(stream)'
  BY <1>1, <1>3 DEF IdsOK
<1>7. ClientsOK'
  BY <1>1, <1>3 DEF ClientsOK
<1>8. QED
  BY <1>2, <1>4, <1>5, <1>6, <1>7 DEF IInv, StreamInv, CaptureOK

(***************************************************************************)
(* Pausing, from the idle loop or after a snapshot, keeps the invariant.   *)
(***************************************************************************)
LEMMA PauseKeeps ==
  ASSUME IInv, Pause, main \in {"idle", "pause"}, main' = "idle",
         UNCHANGED <<snapshot, preview, last_shown>>
  PROVE  IInv'
<1>1. /\ stream' = IF stream.running THEN [stream EXCEPT !.paused = TRUE] ELSE stream
      /\ UNCHANGED <<dvp, pool>>
  BY DEF Pause
<1>2. /\ stream' \in StreamType /\ stream'.slots = stream.slots
      /\ stream'.running = stream.running
      /\ stream.running => stream'.paused
      /\ stream.paused => stream'.paused
      /\ stream'.capture_slot = stream.capture_slot
      /\ stream'.next_sequence = stream.next_sequence
      /\ stream'.next_lease_id = stream.next_lease_id
  BY <1>1 DEF IInv, TypeOK, StreamType
<1>3. TypeOK'
  BY <1>1, <1>2 DEF IInv, TypeOK
<1>4. CaptureOK(stream)' /\ LeasesOK(stream)' /\ NewerOK(stream)'
  BY <1>2 DEF IInv, StreamInv, CaptureOK, LeasesOK, NewerOK
<1>5. IdsOK(stream)'
  BY <1>2 DEF IInv, StreamInv, IdsOK, LeasesOK, HasReady
<1>6. ClientsOK'
  BY DEF IInv, ClientsOK
<1>7. QED
  BY <1>1, <1>2, <1>3, <1>4, <1>5, <1>6 DEF IInv, StreamInv, InBound, DvpOK

(***************************************************************************)
(* Resuming, which frees the frames that were ready, keeps the invariant.  *)
(***************************************************************************)
LEMMA ResumeKeeps == IInv /\ CaptureResume => IInv'
<1> SUFFICES ASSUME IInv, CaptureResume PROVE IInv'
  OBVIOUS
<1> DEFINE new == [s \in Slots |->
             IF stream.slots[s].state = "READY"
             THEN [stream.slots[s] EXCEPT !.state = "FREE"] ELSE stream.slots[s]]
<1>1. /\ main = "resume" /\ main' = "idle"
      /\ UNCHANGED <<snapshot, preview, last_shown, pool>>
      /\ stream' = IF ~stream.running THEN stream
                   ELSE [stream EXCEPT !.paused = FALSE, !.sync_pending = TRUE,
                                       !.slots = new]
      /\ dvp' = IF stream.running THEN [dvp EXCEPT !.start = FALSE] ELSE dvp
  BY DEF CaptureResume, Resume
<1>2. ASSUME NEW s \in Slots
      PROVE  /\ new[s] \in Slot
             /\ new[s].state # "READY"
             /\ IF stream.slots[s].state = "READY" THEN new[s].state = "FREE"
                ELSE new[s] = stream.slots[s]
  <2>1. stream.slots[s] \in Slot
    BY DEF IInv, TypeOK, StreamType
  <2>2. QED
    BY <2>1 DEF Slot
<1>3. new \in [Slots -> Slot]
  BY <1>2
<1> HIDE DEF new
<1>4. CASE ~stream.running
  BY <1>1, <1>4 DEF IInv, TypeOK, StreamInv, CaptureOK, LeasesOK, IdsOK, HasReady,
     NewerOK, InBound, DvpOK, ClientsOK, NoFrame
<1>5. CASE stream.running
  <2>1. /\ stream' \in StreamType /\ stream'.slots = new
        /\ stream'.running = stream.running
        /\ stream'.capture_slot = stream.capture_slot
        /\ stream'.next_sequence = stream.next_sequence
        /\ stream'.next_lease_id = stream.next_lease_id
    BY <1>1, <1>3, <1>5 DEF IInv, TypeOK, StreamType
  <2>2. /\ dvp' \in DvpType /\ dvp'.start = FALSE /\ dvp'.finish = dvp.finish
        /\ dvp'.converting = dvp.converting /\ dvp'.addr = dvp.addr
    BY <1>1, <1>5 DEF IInv, TypeOK, DvpType
  <2>3. /\ snapshot = NoFrame /\ snapshot.lease_id = 0
        /\ preview.lease_id = 0 /\ preview.slot = None
    BY <1>1 DEF IInv, ClientsOK, NoFrame
  <2>4. TypeOK'
    BY <1>1, <2>1, <2>2 DEF IInv, TypeOK
  <2>5. CaptureOK(stream)'
    <3>1. stream.capture_slot \in Slots \cup {None}
      BY DEF IInv, TypeOK, StreamType
    <3>2. QED
      BY <1>2, <2>1, <3>1 DEF IInv, StreamInv, CaptureOK
  <2>6. LeasesOK(stream)'
    BY <1>1, <1>2, <2>1, <2>3 DEF IInv, StreamInv, LeasesOK
  <2>7. IdsOK(stream)' /\ NewerOK(stream)'
    BY <1>1, <1>2, <2>1, <2>3 DEF IInv, StreamInv, IdsOK, NewerOK
  <2>8. InBound'
    <3>1. stream.next_sequence \in Nat /\ MaxSequence \in Nat
      BY StreamAssumption DEF IInv, TypeOK, StreamType
    <3>2. QED
      BY <2>1, <2>2, <3>1 DEF IInv, InBound
  <2>9. DvpOK' /\ ClientsOK'
    BY <1>1, <2>1, <2>2, <2>3 DEF IInv, DvpOK, ClientsOK
  <2>10. QED
    BY <1>1, <2>1, <2>4, <2>5, <2>6, <2>7, <2>8, <2>9 DEF IInv, StreamInv
<1>6. QED
  BY <1>4, <1>5

(***************************************************************************)
(* Stopping the stream, with no client's lease left, keeps the invariant.  *)
(***************************************************************************)
LEMMA StopKeeps ==
  ASSUME IInv, Stop, main \in {"stop", "start"}, main' = "idle",
         last_shown' \in {0, last_shown}, UNCHANGED <<snapshot, preview>>
  PROVE  IInv'
<1> DEFINE new == [s \in Slots |->
             [stream.slots[s] EXCEPT !.state = "FREE", !.lease_id = 0]]
<1>1. /\ stream' = [stream EXCEPT !.running = FALSE, !.paused = TRUE,
                      !.sync_pending = TRUE, !.capture_slot = None, !.slots = new]
      /\ dvp' = IF stream.running THEN DvpStopped ELSE dvp
      /\ pool' = [pool EXCEPT !.reserved = FALSE]
  BY DEF Stop
<1>2. ASSUME NEW s \in Slots
      PROVE  new[s] \in Slot /\ new[s].state = "FREE"
  <2>1. stream.slots[s] \in Slot /\ 0 \in 0 .. MaxLeaseId
    BY StreamAssumption DEF IInv, TypeOK, StreamType
  <2>2. QED
    BY <2>1 DEF Slot
<1>3. new \in [Slots -> Slot]
  BY <1>2
<1> HIDE DEF new
<1>4. /\ stream' \in StreamType /\ stream'.slots = new
      /\ stream'.running = FALSE /\ stream'.capture_slot = None
      /\ stream'.next_sequence = stream.next_sequence
      /\ stream'.next_lease_id = stream.next_lease_id
  BY <1>1, <1>3 DEF IInv, TypeOK, StreamType
<1>5. /\ dvp' \in DvpType /\ dvp'.addr = dvp.addr
      /\ dvp'.start => dvp.start
      /\ ~dvp'.converting
  <2>1. stream.running => ~dvp'.converting /\ ~dvp'.start
    BY <1>1 DEF IInv, TypeOK, DvpType, DvpStopped
  <2>2. ~stream.running => ~dvp.converting
    <3>1. ~stream.running => stream.capture_slot = None
      BY DEF IInv, StreamInv, CaptureOK
    <3>2. dvp.addr # None
      BY DEF IInv, TypeOK, DvpType, Slots, None
    <3>3. QED
      BY <3>1, <3>2 DEF IInv, DvpOK
  <2>3. QED
    BY <1>1, <2>1, <2>2 DEF IInv, TypeOK, DvpType, DvpStopped
<1>6. /\ pool'.reserved = FALSE /\ pool'.borrowed = pool.borrowed
      /\ pool' \in [reserved : BOOLEAN, generation : 0 .. MaxBorrows,
                    borrowed : 0 .. MaxBorrows]
  BY <1>1 DEF IInv, TypeOK
<1>7. /\ snapshot = NoFrame /\ snapshot.lease_id = 0
      /\ preview.lease_id = 0 /\ preview.slot = None
  BY DEF IInv, ClientsOK, NoFrame
<1>8. last_shown \in 0 .. MaxSequence /\ last_shown' \in 0 .. MaxSequence
  BY StreamAssumption DEF IInv, TypeOK
<1>9. TypeOK'
  BY <1>4, <1>5, <1>6, <1>8 DEF IInv, TypeOK
<1>10. CaptureOK(stream)' /\ LeasesOK(stream)' /\ IdsOK(stream)'
  BY <1>2, <1>4, <1>7 DEF IInv, CaptureOK, LeasesOK, IdsOK
<1>11. NewerOK(stream)'
  <2>1. last_shown' <= stream.next_sequence
    BY <1>8 DEF IInv, TypeOK, StreamType, StreamInv, NewerOK
  <2>2. QED
    BY <1>2, <1>4, <2>1 DEF NewerOK
<1>12. InBound'
  <2>1. stream.next_sequence \in Nat /\ MaxSequence \in Nat
    BY StreamAssumption DEF IInv, TypeOK, StreamType
  <2>2. QED
    BY <1>4, <1>5, <2>1 DEF IInv, InBound
<1>13. DvpOK' /\ ClientsOK'
  BY <1>5, <1>7 DEF DvpOK, ClientsOK, IInv
<1>14. QED
  BY <1>4, <1>6, <1>9, <1>10, <1>11, <1>12, <1>13 DEF IInv, StreamInv

(***************************************************************************)
(* Starting the stream keeps the invariant: it takes the slots only when   *)
(* their memory is not lent out.                                           *)
(***************************************************************************)
LEMMA StartKeepsAll == IInv /\ SessionStart => IInv'
<1> SUFFICES ASSUME IInv, SessionStart PROVE IInv'
  OBVIOUS
<1>1. /\ main = "start" /\ main' = "idle" /\ last_shown' = 0 /\ Start
      /\ UNCHANGED <<snapshot, preview>>
  BY DEF SessionStart
<1>2. CASE pool.borrowed # 0
  BY <1>1, <1>2, StopKeeps DEF Start
<1>3. CASE pool.borrowed = 0
  <2>1. /\ stream' = [slots |-> FreeSlots, running |-> TRUE, paused |-> FALSE,
                      sync_pending |-> TRUE, capture_slot |-> None,
                      next_sequence |-> 0, next_lease_id |-> 0]
        /\ dvp' = [irq |-> TRUE, start |-> FALSE, finish |-> FALSE,
                   converting |-> FALSE, addr |-> 0]
        /\ pool' = [pool EXCEPT !.reserved = TRUE]
    BY <1>1, <1>3 DEF Start
  <2>2. /\ 0 \in Slots /\ 0 \in 0 .. MaxSequence /\ 0 \in 0 .. MaxLeaseId
        /\ MaxSequence \in Nat
    BY StreamAssumption DEF Slots
  <2>3. /\ FreeSlots \in [Slots -> Slot]
        /\ \A s \in Slots : FreeSlots[s].state = "FREE"
    BY <2>2 DEF FreeSlots, Slot
  <2>4. stream' \in StreamType /\ dvp' \in DvpType
    BY <2>1, <2>2, <2>3 DEF StreamType, DvpType
  <2>5. /\ pool'.reserved = TRUE /\ pool'.borrowed = 0
        /\ pool' \in [reserved : BOOLEAN, generation : 0 .. MaxBorrows,
                      borrowed : 0 .. MaxBorrows]
    BY <1>3, <2>1 DEF IInv, TypeOK
  <2>6. /\ snapshot = NoFrame /\ snapshot.lease_id = 0
        /\ preview.lease_id = 0 /\ preview.slot = None
    BY <1>1 DEF IInv, ClientsOK, NoFrame
  <2>7. TypeOK'
    BY <1>1, <2>2, <2>4, <2>5 DEF IInv, TypeOK
  <2>8. /\ CaptureOK(stream)' /\ LeasesOK(stream)' /\ IdsOK(stream)'
        /\ NewerOK(stream)'
    BY <1>1, <2>1, <2>3, <2>6 DEF CaptureOK, LeasesOK, IdsOK, NewerOK
  <2>9. InBound' /\ DvpOK'
    BY <2>1, <2>2 DEF InBound, DvpOK
  <2>10. ClientsOK'
    BY <1>1, <2>6 DEF IInv, ClientsOK
  <2>11. QED
    BY <2>1, <2>4, <2>5, <2>7, <2>8, <2>9, <2>10 DEF IInv, StreamInv
<1>4. QED
  BY <1>2, <1>3 DEF IInv, TypeOK

-----------------------------------------------------------------------------
(* The invariant                                                           *)

(***************************************************************************)
(* The camera starts stopped, with nothing leased.                         *)
(***************************************************************************)
LEMMA InitIInv == Init => IInv
<1> SUFFICES ASSUME Init PROVE IInv
  OBVIOUS
<1>1. /\ 0 \in Slots /\ 0 \in 0 .. MaxSequence /\ 0 \in 0 .. MaxLeaseId
      /\ 0 \in 0 .. MaxBorrows /\ MaxSequence \in Nat
  BY StreamAssumption, CaptureAssumption DEF Slots
<1>2. /\ FreeSlots \in [Slots -> Slot]
      /\ \A s \in Slots : FreeSlots[s].state = "FREE"
  BY <1>1 DEF FreeSlots, Slot
<1>3. stream \in StreamType /\ dvp \in DvpType
  BY <1>1, <1>2 DEF Init, StreamInit, StreamType, DvpType
<1>4. snapshot \in Frame /\ preview \in Frame
  BY <1>1 DEF Init, Frame, NoFrame
<1>5. TypeOK
  BY <1>1, <1>3, <1>4 DEF Init, TypeOK
<1>6. /\ CaptureOK(stream) /\ LeasesOK(stream) /\ IdsOK(stream) /\ NewerOK(stream)
      /\ ClientsOK
  BY <1>2 DEF Init, StreamInit, NoFrame, CaptureOK, LeasesOK, IdsOK, NewerOK, ClientsOK
<1>7. InBound /\ DvpOK
  BY <1>1 DEF Init, StreamInit, InBound, DvpOK
<1>8. QED
  BY <1>3, <1>5, <1>6, <1>7 DEF Init, StreamInit, IInv, StreamInv

(***************************************************************************)
(* The sensor and the DVP block keep the invariant.                        *)
(***************************************************************************)
LEMMA HardwareKeeps == IInv /\ Hardware => IInv'
<1> SUFFICES ASSUME IInv, Hardware PROVE IInv'
  OBVIOUS
<1>1. UNCHANGED <<stream, pool, snapshot, preview, main, last_shown>>
  BY DEF Hardware, FrameStart, FrameFinish, Clients
<1>2. StreamInv(stream)' /\ ClientsOK'
  BY <1>1 DEF IInv, StreamInv, CaptureOK, LeasesOK, IdsOK, HasReady, NewerOK, ClientsOK
<1>3. CASE FrameStart
  <2>1. /\ dvp' \in DvpType /\ dvp'.finish = dvp.finish
        /\ dvp'.converting = dvp.converting /\ dvp'.addr = dvp.addr
    BY <1>3 DEF FrameStart, IInv, TypeOK, DvpType
  <2>2. InBound'
    <3>1. stream.next_sequence \in Nat /\ MaxSequence \in Nat
      BY StreamAssumption DEF IInv, TypeOK, StreamType
    <3>2. stream.next_sequence + (IF stream.capture_slot = None THEN 0 ELSE 1)
            < MaxSequence
      BY <1>3 DEF FrameStart
    <3>3. QED
      BY <1>1, <3>1, <3>2 DEF InBound
  <2>3. DvpOK' /\ TypeOK'
    BY <1>1, <2>1 DEF IInv, DvpOK, TypeOK
  <2>4. QED
    BY <1>1, <1>2, <2>2, <2>3 DEF IInv
<1>4. CASE FrameFinish
  <2>1. /\ dvp' \in DvpType /\ dvp'.start = dvp.start /\ ~dvp'.converting
    BY <1>4 DEF FrameFinish, IInv, TypeOK, DvpType
  <2>2. InBound' /\ DvpOK' /\ TypeOK'
    BY <1>1, <2>1 DEF IInv, InBound, DvpOK, TypeOK
  <2>3. QED
    BY <1>1, <1>2, <2>2 DEF IInv
<1>5. QED
  BY <1>3, <1>4 DEF Hardware

(***************************************************************************)
(* Lending and returning the workspace keeps the invariant.                *)
(***************************************************************************)
LEMMA WorkspaceKeeps == IInv /\ (Borrow \/ ReturnWorkspace) => IInv'
<1> SUFFICES ASSUME IInv, Borrow \/ ReturnWorkspace PROVE IInv'
  OBVIOUS
<1>1. UNCHANGED <<stream, dvp, snapshot, preview, main, last_shown>>
  BY DEF Borrow, ReturnWorkspace
<1>2. /\ pool' \in [reserved : BOOLEAN, generation : 0 .. MaxBorrows,
                    borrowed : 0 .. MaxBorrows]
      /\ pool'.reserved = pool.reserved
      /\ pool'.borrowed # 0 => ~pool.reserved
  <2>1. CASE Borrow
    <3>1. pool.generation + 1 \in 0 .. MaxBorrows
      BY <2>1, CaptureAssumption DEF Borrow, IInv, TypeOK
    <3>2. QED
      BY <2>1, <3>1 DEF Borrow, IInv, TypeOK
  <2>2. CASE ReturnWorkspace
    <3>1. 0 \in 0 .. MaxBorrows
      BY CaptureAssumption
    <3>2. QED
      BY <2>2, <3>1 DEF ReturnWorkspace, IInv, TypeOK
  <2>3. QED
    BY <2>1, <2>2
<1>3. TypeOK' /\ ClientsOK' /\ InBound' /\ DvpOK'
  BY <1>1, <1>2 DEF IInv, TypeOK, ClientsOK, InBound, DvpOK
<1>4. StreamInv(stream)'
  BY <1>1, <1>2 DEF IInv, StreamInv, CaptureOK, LeasesOK, IdsOK, HasReady, NewerOK
<1>5. QED
  BY <1>2, <1>3, <1>4 DEF IInv

(***************************************************************************)
(* Every step keeps the invariant.                                         *)
(***************************************************************************)
LEMMA NextIInv == IInv /\ [Next]_vars => IInv'
<1> SUFFICES ASSUME IInv, [Next]_vars PROVE IInv'
  OBVIOUS
<1>1. CASE Main
  <2>1. CASE SnapshotDone \/ SessionReset
    BY <2>1, GiveUpKeeps DEF SnapshotDone, SessionReset
  <2>2. CASE CapturePause
    <3>1. Pause /\ main = "idle" /\ main' = "idle" /\ UNCHANGED <<snapshot, preview,
           last_shown>>
      BY <2>2 DEF CapturePause
    <3>2. QED
      BY <3>1, PauseKeeps
  <2>3. CASE SnapshotPause
    BY <2>3, PauseKeeps DEF SnapshotPause
  <2>4. CASE SessionStop
    BY <2>4, StopKeeps DEF SessionStop
  <2>5. QED
    BY <1>1, <2>1, <2>2, <2>3, <2>4, PreviewBeginKeeps, PreviewEndKeeps,
       SnapshotTakeKeeps,
       ResumeKeeps, StartKeepsAll, WorkspaceKeeps DEF Main, Continue
<1>2. CASE UNCHANGED vars
  BY <1>2 DEF vars, IInv, TypeOK, StreamInv, CaptureOK, LeasesOK, IdsOK, HasReady,
     NewerOK, InBound, DvpOK, ClientsOK
<1>3. QED
  BY <1>1, <1>2, HardwareKeeps, IrqKeeps DEF Next

(***************************************************************************)
(* The invariant holds of every behaviour.                                 *)
(***************************************************************************)
LEMMA IInvHolds == Spec => []IInv
BY InitIInv, NextIInv, PTL DEF Spec

-----------------------------------------------------------------------------
(* The properties                                                          *)

(***************************************************************************)
(* The stream, the frame pool and their users keep their types.            *)
(***************************************************************************)
THEOREM TypeCorrect == Spec => []TypeOK
<1>1. IInv => TypeOK
  BY DEF IInv
<1>2. QED
  BY <1>1, IInvHolds, PTL

(***************************************************************************)
(* The DVP block never writes a buffer a client reads, and the workspace   *)
(* is lent only while the camera neither writes nor is read.               *)
(***************************************************************************)
THEOREM OneUserPerBufferHolds == Spec => []OneUserPerBuffer
<1>1. IInv => OneUserPerBuffer
  <2> SUFFICES ASSUME IInv PROVE OneUserPerBuffer
    OBVIOUS
  <2>1. dvp.addr \in Slots /\ dvp.addr # None
    BY DEF IInv, TypeOK, DvpType, Slots, None
  <2>2. /\ stream.running = pool.reserved
        /\ CaptureOK(stream) /\ LeasesOK(stream) /\ ClientsOK
        /\ dvp.converting => dvp.addr = stream.capture_slot
        /\ pool.borrowed # 0 => ~pool.reserved
    BY DEF IInv, StreamInv, DvpOK
  <2>3. ASSUME NEW s \in Reading
        PROVE  s \in Slots /\ stream.running /\ stream.slots[s].state = "LEASED"
    <3>1. \/ snapshot.slot # None /\ s = snapshot.slot
          \/ preview.slot # None /\ s = preview.slot
      BY <2>3 DEF Reading
    <3>2. QED
      BY <2>2, <3>1 DEF LeasesOK, ClientsOK
  <2>4. ASSUME dvp.converting
        PROVE  /\ dvp.addr = stream.capture_slot
               /\ stream.slots[dvp.addr].state = "CAPTURING"
               /\ stream.running
    BY <2>1, <2>2, <2>4 DEF CaptureOK
  <2>5. QED
    BY <2>2, <2>3, <2>4 DEF OneUserPerBuffer
<1>2. QED
  BY <1>1, IInvHolds, PTL

(***************************************************************************)
(* The leases the clients hold are the leased slots, each under its own    *)
(* id, when there are three ids or more.                                   *)
(***************************************************************************)
THEOREM LeasesAgreeHolds == Spec => []LeasesAgree
<1>1. IInv => LeasesAgree
  BY DEF IInv, StreamInv, LeasesOK, LeasesAgree, Held, In
<1>2. QED
  BY <1>1, IInvHolds, PTL

(***************************************************************************)
(* Within a session the frames given to clients only get newer.            *)
(***************************************************************************)
THEOREM FramesGetNewerHolds == Spec => FramesGetNewer
<1>1. IInv /\ [Next]_vars => [last_shown' # 0 /\ last_shown' # last_shown
                                => last_shown < last_shown']_vars
  <2> SUFFICES ASSUME IInv, Next, last_shown' # 0, last_shown' # last_shown
               PROVE  last_shown < last_shown'
    BY DEF vars
  <2>1. PICK s \in Slots : AcquireLatest(s) /\ last_shown' = stream.slots[s].sequence
    BY DEF Next, Hardware, Irq, Clients, Main, Continue, PreviewBegin, PreviewEnd,
       SnapshotTake, SnapshotPause, SnapshotDone, GiveUpSnapshot, CaptureResume,
       CapturePause, SessionReset, SessionStop, SessionStart, Borrow, ReturnWorkspace
  <2>2. stream.slots[s].state = "READY"
    BY <2>1, AcquireStep DEF IInv, TypeOK
  <2>3. QED
    BY <2>1, <2>2 DEF IInv, StreamInv, NewerOK
<1>2. QED
  BY <1>1, IInvHolds, PTL DEF Spec, FramesGetNewer

-----------------------------------------------------------------------------
(* AiPipeline *)

\* What may be left of a call.
NoSteps == <<>>
OnlyDisable == <<"disable">>
OffDisable == <<"output off", "disable">>
OnlyArm == <<"arm">>
OffArm == <<"output off", "arm">>
DisableArm == <<"disable", "output off", "arm">>
CancelArm == <<"output off", "disable", "output off", "arm">>
OnlyDecide == <<"decide">>
ForgetDecide == <<"forget completion", "decide">>
DisableUnload == <<"disable", "forget completion", "decide">>
CancelUnload == <<"output off", "disable", "forget completion", "decide">>
OnlyWait == <<"wait">>
OnlyFree == <<"free">>

Disabling ==
  {OnlyDisable, OffDisable, DisableArm, CancelArm, DisableUnload, CancelUnload}
Arming == {OnlyArm, OffArm, DisableArm, CancelArm}
Unloading ==
  {OnlyDecide, ForgetDecide, DisableUnload, CancelUnload, OnlyWait, OnlyFree}
StepLists == {NoSteps} \cup Disabling \cup Arming \cup Unloading

WillDisable == todo.steps \in Disabling
WillArm == todo.steps \in Arming
Unloads == todo.steps \in Unloading

Settled == ~WillDisable /\ ~WillArm
Loaded(d) == runtime[d].state \in {"READY", "RUNNING"}
OnScreen(d) == app.name = d /\ app.phase \in {"open", "settings"}

Results == {Nothing, "outdated", "fresh"}

CameraStates ==
  [running : BOOLEAN, paused : BOOLEAN, sync : BOOLEAN, capturing : BOOLEAN,
   ready : BOOLEAN, output : BOOLEAN, hooks : Detectors \cup {Nothing},
   writing : {Nothing, "fresh", "stale"}]
InputStates ==
  [owner : Detectors \cup {Nothing},
   state : {"DISABLED", "ARMED", "CAPTURING", "READY", "BUSY"},
   image : {"torn", "fresh", "stale"}]
KpuStates == [owner : Detectors \cup {Nothing}, busy : BOOLEAN, late : BOOLEAN]
RuntimeStates ==
  [Detectors -> [state : {"UNLOADED", "READY", "RUNNING", "UNLOAD_PENDING", "FAULT"},
                 completion : BOOLEAN, ok : BOOLEAN]]
ObjectStates ==
  [active : BOOLEAN, paused : BOOLEAN, unload : BOOLEAN, run : Results,
         result : Results]
AppStates ==
  [name : Detectors \cup {"menu", "camera"},
   phase : {"open", "waiting", "error", "settings"}, frame : BOOLEAN]
TodoStates == [who : Detectors \cup {Nothing}, steps : StepLists]

PipelineType ==
  /\ camera \in CameraStates /\ input \in InputStates /\ kpu \in KpuStates
  /\ runtime \in RuntimeStates /\ object \in ObjectStates
  /\ app \in AppStates /\ todo \in TodoStates

\* A loaded model belongs to the app on the screen, or is being unloaded.
LoadedOnScreen ==
  /\ \A d \in Detectors : OnScreen(d) => Loaded(d)
  /\ \A d \in Detectors : Loaded(d) => OnScreen(d) \/ (Unloads /\ todo.who = d)
  /\ Unloads => todo.who \in Detectors /\ ~OnScreen(todo.who)

\* The input works for the app on the screen, or is about to be disabled; it
\* is armed only while the KPU does not read it.
InputOnScreen ==
  /\ camera.hooks = input.owner
  /\ input.state # "DISABLED" => OnScreen(input.owner) \/ WillDisable
  /\ WillArm => app.name = input.owner /\ app.phase = "open" /\ ~kpu.busy
  /\ app.phase = "settings" => /\ app.name = "object" /\ object.paused /\ ~WillArm
                               /\ input.state \in {"DISABLED", "BUSY"} \/ WillDisable

\* The KPU reads the input of the detector that owns it.
KpuOwnsInput ==
  kpu.busy => /\ kpu.owner \in Detectors /\ input.owner = kpu.owner
              /\ input.state \in {"BUSY", "DISABLED"}
              /\ ~runtime[kpu.owner].completion
              /\ runtime[kpu.owner].state \in {"RUNNING", "UNLOAD_PENDING", "FAULT"}

Quiet == ~camera.output /\ camera.writing = Nothing

\* What is written, waits to be taken, or is read.
ImageSound ==
  /\ input.state = "CAPTURING" /\ Settled =>
       camera.capturing /\ camera.writing = "fresh"
  /\ input.state = "READY" /\ Settled => Quiet /\ input.image = "fresh"
  /\ input.state = "BUSY" \/ kpu.busy => Quiet /\ input.image # "torn"

AiInv ==
  PipelineType /\ LoadedOnScreen /\ InputOnScreen /\ KpuOwnsInput /\ ImageSound


\* The stores that are left after one more.
LEMMA TailOf1 == ASSUME NEW a PROVE Head(<<a>>) = a /\ <<>> \o Tail(<<a>>) = <<>>
OBVIOUS
\* The same for two stores,
LEMMA TailOf2 ==
  ASSUME NEW a, NEW b
  PROVE  Head(<<a, b>>) = a /\ <<>> \o Tail(<<a, b>>) = <<b>>
<1>1. Tail(<<a, b>>) = <<b>>
  OBVIOUS
<1> QED BY <1>1
\* for three,
LEMMA TailOf3 ==
  ASSUME NEW a, NEW b, NEW c
  PROVE  Head(<<a, b, c>>) = a /\ <<>> \o Tail(<<a, b, c>>) = <<b, c>>
<1>1. Tail(<<a, b, c>>) = <<b, c>>
  OBVIOUS
<1> QED BY <1>1
\* and for four, as a predicate the provers can match.
IsRest(s, rest) == Tail(s) = rest

LEMMA TailOf4 ==
  ASSUME NEW a, NEW b, NEW c, NEW d
  PROVE  IsRest(<<a, b, c, d>>, <<b, c, d>>)
BY DEF IsRest

\* Two lists of two stores make one of four.
LEMMA TwoAndTwo ==
  ASSUME NEW a, NEW b, NEW c, NEW d
  PROVE  <<a, b>> \o <<c, d>> = <<a, b, c, d>>
<1> DEFINE X == {a, b, c, d}
           s == <<a, b>> \o <<c, d>>
           t == <<a, b, c, d>>
<1>1. <<a, b>> \in Seq(X) /\ <<c, d>> \in Seq(X) /\ t \in Seq(X)
  OBVIOUS
<1>2. Len(<<a, b>>) = 2 /\ Len(<<c, d>>) = 2 /\ Len(t) = 4
  OBVIOUS
<1>3. s \in Seq(X) /\ Len(s) = 4
  BY <1>1, <1>2, ConcatProperties
<1>4. s[1] = a /\ s[2] = b /\ s[3] = c /\ s[4] = d
  <2>1. \A i \in 1..4 : s[i] = IF i <= 2 THEN <<a, b>>[i] ELSE <<c, d>>[i - 2]
    BY <1>1, <1>2, ConcatProperties
  <2> QED BY <2>1
<1>5. \A i \in 1..4 : s[i] = t[i]
  <2>1. \A i \in 1..4 : i = 1 \/ i = 2 \/ i = 3 \/ i = 4
    OBVIOUS
  <2> HIDE DEF s
  <2> QED BY <1>4, <2>1
<1> HIDE DEF X, s, t
<1>6. s = t
  BY <1>1, <1>2, <1>3, <1>5, SeqEqual
<1> QED BY <1>6 DEF s, t

\* Each list: its first store, the others, and what it will do.
Row(s, first, others, disables, arms, unloads) ==
  /\ s # NoSteps => Head(s) = first /\ <<>> \o Tail(s) = others
  /\ s \in Disabling <=> disables
  /\ s \in Arming <=> arms
  /\ s \in Unloading <=> unloads

\* The lists are different ones.
LEMMA ListsDiffer ==
  /\ NoSteps \notin {OnlyDisable, OffDisable, OnlyArm, OffArm, DisableArm, CancelArm,
         OnlyDecide, ForgetDecide, DisableUnload, CancelUnload, OnlyWait, OnlyFree}
  /\ OnlyDisable \notin {OffDisable, OnlyArm, OffArm, DisableArm, CancelArm,
         OnlyDecide, ForgetDecide, DisableUnload, CancelUnload, OnlyWait, OnlyFree}
  /\ OffDisable \notin {OnlyArm, OffArm, DisableArm, CancelArm, OnlyDecide,
         ForgetDecide, DisableUnload, CancelUnload, OnlyWait, OnlyFree}
  /\ OnlyArm \notin {OffArm, DisableArm, CancelArm, OnlyDecide, ForgetDecide,
         DisableUnload, CancelUnload, OnlyWait, OnlyFree}
  /\ OffArm \notin {DisableArm, CancelArm, OnlyDecide, ForgetDecide, DisableUnload,
         CancelUnload, OnlyWait, OnlyFree}
  /\ DisableArm \notin {CancelArm, OnlyDecide, ForgetDecide, DisableUnload,
         CancelUnload, OnlyWait, OnlyFree}
  /\ CancelArm \notin {OnlyDecide, ForgetDecide, DisableUnload, CancelUnload,
         OnlyWait, OnlyFree}
  /\ OnlyDecide \notin {ForgetDecide, DisableUnload, CancelUnload, OnlyWait, OnlyFree}
  /\ ForgetDecide \notin {DisableUnload, CancelUnload, OnlyWait, OnlyFree}
  /\ DisableUnload \notin {CancelUnload, OnlyWait, OnlyFree}
  /\ CancelUnload \notin {OnlyWait, OnlyFree}
  /\ OnlyWait \notin {OnlyFree}
<1>1. NoSteps \notin {OnlyDisable, OffDisable, OnlyArm, OffArm, DisableArm,
       CancelArm, OnlyDecide, ForgetDecide, DisableUnload, CancelUnload, OnlyWait,
              OnlyFree}
  BY DEF NoSteps, OnlyDisable, OffDisable, OnlyArm, OffArm, DisableArm, CancelArm,
     OnlyDecide, ForgetDecide, DisableUnload, CancelUnload, OnlyWait, OnlyFree
<1>2. OnlyDisable \notin {OffDisable, OnlyArm, OffArm, DisableArm, CancelArm,
       OnlyDecide, ForgetDecide, DisableUnload, CancelUnload, OnlyWait, OnlyFree}
  BY DEF OnlyDisable, OffDisable, OnlyArm, OffArm, DisableArm, CancelArm, OnlyDecide,
     ForgetDecide, DisableUnload, CancelUnload, OnlyWait, OnlyFree
<1>3. OffDisable \notin {OnlyArm, OffArm, DisableArm, CancelArm, OnlyDecide,
       ForgetDecide, DisableUnload, CancelUnload, OnlyWait, OnlyFree}
  BY DEF OffDisable, OnlyArm, OffArm, DisableArm, CancelArm, OnlyDecide,
     ForgetDecide, DisableUnload, CancelUnload, OnlyWait, OnlyFree
<1>4. OnlyArm \notin {OffArm, DisableArm, CancelArm, OnlyDecide, ForgetDecide,
       DisableUnload, CancelUnload, OnlyWait, OnlyFree}
  BY DEF OnlyArm, OffArm, DisableArm, CancelArm, OnlyDecide, ForgetDecide,
     DisableUnload, CancelUnload, OnlyWait, OnlyFree
<1>5. OffArm \notin {DisableArm, CancelArm, OnlyDecide, ForgetDecide, DisableUnload,
       CancelUnload, OnlyWait, OnlyFree}
  BY DEF OffArm, DisableArm, CancelArm, OnlyDecide, ForgetDecide, DisableUnload,
     CancelUnload, OnlyWait, OnlyFree
<1>6. DisableArm \notin {CancelArm, OnlyDecide, ForgetDecide, DisableUnload,
       CancelUnload, OnlyWait, OnlyFree}
  BY DEF DisableArm, CancelArm, OnlyDecide, ForgetDecide, DisableUnload,
     CancelUnload, OnlyWait, OnlyFree
<1>7. CancelArm \notin {OnlyDecide, ForgetDecide, DisableUnload, CancelUnload,
       OnlyWait, OnlyFree}
  BY DEF CancelArm, OnlyDecide, ForgetDecide, DisableUnload, CancelUnload, OnlyWait,
     OnlyFree
<1>8. OnlyDecide \notin {ForgetDecide, DisableUnload, CancelUnload, OnlyWait, OnlyFree}
  BY DEF OnlyDecide, ForgetDecide, DisableUnload, CancelUnload, OnlyWait, OnlyFree
<1>9. ForgetDecide \notin {DisableUnload, CancelUnload, OnlyWait, OnlyFree}
  BY DEF ForgetDecide, DisableUnload, CancelUnload, OnlyWait, OnlyFree
<1>10. DisableUnload \notin {CancelUnload, OnlyWait, OnlyFree}
  BY DEF DisableUnload, CancelUnload, OnlyWait, OnlyFree
<1>11. CancelUnload \notin {OnlyWait, OnlyFree}
  BY DEF CancelUnload, OnlyWait, OnlyFree
<1>12. OnlyWait \notin {OnlyFree}
  BY DEF OnlyWait, OnlyFree
<1> QED
  BY <1>1, <1>2, <1>3, <1>4, <1>5, <1>6, <1>7, <1>8, <1>9, <1>10, <1>11, <1>12

\* The table of the lists.
LEMMA ListTable ==
  /\ Row(NoSteps, Nothing, NoSteps, FALSE, FALSE, FALSE)
  /\ Row(OnlyDisable, "disable", NoSteps, TRUE, FALSE, FALSE)
  /\ Row(OffDisable, "output off", OnlyDisable, TRUE, FALSE, FALSE)
  /\ Row(OnlyArm, "arm", NoSteps, FALSE, TRUE, FALSE)
  /\ Row(OffArm, "output off", OnlyArm, FALSE, TRUE, FALSE)
  /\ Row(DisableArm, "disable", OffArm, TRUE, TRUE, FALSE)
  /\ Row(CancelArm, "output off", DisableArm, TRUE, TRUE, FALSE)
  /\ Row(OnlyDecide, "decide", NoSteps, FALSE, FALSE, TRUE)
  /\ Row(ForgetDecide, "forget completion", OnlyDecide, FALSE, FALSE, TRUE)
  /\ Row(DisableUnload, "disable", ForgetDecide, TRUE, FALSE, TRUE)
  /\ Row(CancelUnload, "output off", DisableUnload, TRUE, FALSE, TRUE)
  /\ Row(OnlyWait, "wait", NoSteps, FALSE, FALSE, TRUE)
  /\ Row(OnlyFree, "free", NoSteps, FALSE, FALSE, TRUE)
<1>1. /\ Head(OnlyDisable) = "disable" /\ <<>> \o Tail(OnlyDisable) = NoSteps
      /\ Head(OnlyArm) = "arm" /\ <<>> \o Tail(OnlyArm) = NoSteps
      /\ Head(OnlyDecide) = "decide" /\ <<>> \o Tail(OnlyDecide) = NoSteps
      /\ Head(OnlyWait) = "wait" /\ <<>> \o Tail(OnlyWait) = NoSteps
      /\ Head(OnlyFree) = "free" /\ <<>> \o Tail(OnlyFree) = NoSteps
  BY TailOf1 DEF OnlyDisable, OnlyArm, OnlyDecide, OnlyWait, OnlyFree, NoSteps
<1>2. /\ Head(OffDisable) = "output off" /\ <<>> \o Tail(OffDisable) = OnlyDisable
      /\ Head(OffArm) = "output off" /\ <<>> \o Tail(OffArm) = OnlyArm
      /\ Head(ForgetDecide) = "forget completion" /\ <<>> \o Tail(ForgetDecide) = OnlyDecide
  BY TailOf2 DEF OffDisable, OffArm, ForgetDecide, OnlyDisable, OnlyArm, OnlyDecide
<1>3. /\ Head(DisableArm) = "disable" /\ <<>> \o Tail(DisableArm) = OffArm
      /\ Head(DisableUnload) = "disable" /\ <<>> \o Tail(DisableUnload) = ForgetDecide
  BY TailOf3 DEF DisableArm, DisableUnload, OffArm, ForgetDecide
<1>4. Head(CancelArm) = "output off" /\ <<>> \o Tail(CancelArm) = DisableArm
  <2>1. Head(CancelArm) = "output off"
    BY DEF CancelArm
  <2>2. IsRest(CancelArm, DisableArm)
    BY TailOf4, Zenon DEF CancelArm, DisableArm
  <2>3. <<>> \o DisableArm = DisableArm
    BY DEF DisableArm
  <2> QED BY <2>1, <2>2, <2>3 DEF IsRest
<1>5. Head(CancelUnload) = "output off" /\ <<>> \o Tail(CancelUnload) = DisableUnload
  <2>1. Head(CancelUnload) = "output off"
    BY DEF CancelUnload
  <2>2. IsRest(CancelUnload, DisableUnload)
    BY TailOf4, Zenon DEF CancelUnload, DisableUnload
  <2>3. <<>> \o DisableUnload = DisableUnload
    BY DEF DisableUnload
  <2> QED BY <2>1, <2>2, <2>3 DEF IsRest
<1>6. Row(NoSteps, Nothing, NoSteps, FALSE, FALSE, FALSE)
  BY ListsDiffer DEF Row, Disabling, Arming, Unloading
<1>7. Row(OnlyDisable, "disable", NoSteps, TRUE, FALSE, FALSE)
  BY <1>1, ListsDiffer DEF Row, Disabling, Arming, Unloading
<1>8. Row(OffDisable, "output off", OnlyDisable, TRUE, FALSE, FALSE)
  BY <1>2, ListsDiffer DEF Row, Disabling, Arming, Unloading
<1>9. Row(OnlyArm, "arm", NoSteps, FALSE, TRUE, FALSE)
  BY <1>1, ListsDiffer DEF Row, Disabling, Arming, Unloading
<1>10. Row(OffArm, "output off", OnlyArm, FALSE, TRUE, FALSE)
  BY <1>2, ListsDiffer DEF Row, Disabling, Arming, Unloading
<1>11. Row(DisableArm, "disable", OffArm, TRUE, TRUE, FALSE)
  BY <1>3, ListsDiffer DEF Row, Disabling, Arming, Unloading
<1>12. Row(CancelArm, "output off", DisableArm, TRUE, TRUE, FALSE)
  BY <1>4, ListsDiffer DEF Row, Disabling, Arming, Unloading
<1>13. Row(OnlyDecide, "decide", NoSteps, FALSE, FALSE, TRUE)
  BY <1>1, ListsDiffer DEF Row, Disabling, Arming, Unloading
<1>14. Row(ForgetDecide, "forget completion", OnlyDecide, FALSE, FALSE, TRUE)
  BY <1>2, ListsDiffer DEF Row, Disabling, Arming, Unloading
<1>15. Row(DisableUnload, "disable", ForgetDecide, TRUE, FALSE, TRUE)
  BY <1>3, ListsDiffer DEF Row, Disabling, Arming, Unloading
<1>16. Row(CancelUnload, "output off", DisableUnload, TRUE, FALSE, TRUE)
  BY <1>5, ListsDiffer DEF Row, Disabling, Arming, Unloading
<1>17. Row(OnlyWait, "wait", NoSteps, FALSE, FALSE, TRUE)
  BY <1>1, ListsDiffer DEF Row, Disabling, Arming, Unloading
<1>18. Row(OnlyFree, "free", NoSteps, FALSE, FALSE, TRUE)
  BY <1>1, ListsDiffer DEF Row, Disabling, Arming, Unloading
<1> QED
  BY <1>6, <1>7, <1>8, <1>9, <1>10, <1>11, <1>12, <1>13, <1>14, <1>15, <1>16, <1>17,
     <1>18

\* What is left after the first store of a list.
LEMMA Left ==
  ASSUME NEW s \in StepLists, NEW first, s # <<>>, Head(s) = first,
         NEW rest, rest = <<>> \o Tail(s)
  PROVE  /\ first = "output off" =>
              /\ rest \in StepLists
              /\ rest \in Disabling <=> s \in Disabling
              /\ rest \in Arming <=> s \in Arming
              /\ rest \in Unloading <=> s \in Unloading
              /\ s \in Disabling \/ s \in Arming
         /\ first = "disable" =>
              /\ rest \in StepLists
              /\ s \in Disabling /\ rest \notin Disabling
              /\ rest \in Arming <=> s \in Arming
              /\ rest \in Unloading <=> s \in Unloading
         /\ first = "arm" =>
              /\ rest \in StepLists
              /\ s \in Arming /\ s \notin Disabling /\ s \notin Unloading
              /\ rest \notin Disabling /\ rest \notin Arming /\ rest \notin Unloading
         /\ first \in {"forget completion", "wait", "free"} =>
              /\ rest \in StepLists
              /\ s \in Unloading /\ s \notin Disabling /\ s \notin Arming
              /\ rest \notin Disabling /\ rest \notin Arming
         /\ first = "forget completion" => rest \in Unloading
         /\ first \in {"wait", "free"} => rest \notin Unloading
         /\ first = "decide" =>
              s = OnlyDecide /\ s \in Unloading /\ s \notin Disabling /\ s \notin Arming
<1>1. s # NoSteps
  BY DEF NoSteps
<1>2. \/ s = OnlyDisable \/ s = OffDisable \/ s = OnlyArm \/ s = OffArm
      \/ s = DisableArm \/ s = CancelArm \/ s = OnlyDecide \/ s = ForgetDecide
      \/ s = DisableUnload \/ s = CancelUnload \/ s = OnlyWait \/ s = OnlyFree
  BY <1>1 DEF StepLists, Disabling, Arming, Unloading
<1>3. \A t : t \in StepLists <=> t = NoSteps \/ t \in Disabling \/ t \in Arming \/ t \in Unloading
  BY DEF StepLists
<1>4. /\ s = OnlyDisable => first = "disable" /\ rest = NoSteps
      /\ s = OffDisable => first = "output off" /\ rest = OnlyDisable
      /\ s = OnlyArm => first = "arm" /\ rest = NoSteps
      /\ s = OffArm => first = "output off" /\ rest = OnlyArm
      /\ s = DisableArm => first = "disable" /\ rest = OffArm
      /\ s = CancelArm => first = "output off" /\ rest = DisableArm
      /\ s = OnlyDecide => first = "decide" /\ rest = NoSteps
      /\ s = ForgetDecide => first = "forget completion" /\ rest = OnlyDecide
      /\ s = DisableUnload => first = "disable" /\ rest = ForgetDecide
      /\ s = CancelUnload => first = "output off" /\ rest = DisableUnload
      /\ s = OnlyWait => first = "wait" /\ rest = NoSteps
      /\ s = OnlyFree => first = "free" /\ rest = NoSteps
  BY <1>1, ListTable DEF Row
<1> QED BY <1>2, <1>3, <1>4, ListTable DEF Row

\* What the lists a call begins with, and those DecideUnload adds, will do.
LEMMA ListMeans ==
  /\ NoSteps \in StepLists /\ NoSteps \notin Disabling /\ NoSteps \notin Arming
     /\ NoSteps \notin Unloading
  /\ OffDisable \in StepLists /\ OffDisable \in Disabling /\ OffDisable \notin Arming
     /\ OffDisable \notin Unloading
  /\ OffArm \in StepLists /\ OffArm \notin Disabling /\ OffArm \in Arming
     /\ OffArm \notin Unloading
  /\ CancelArm \in StepLists /\ CancelArm \in Disabling /\ CancelArm \in Arming
     /\ CancelArm \notin Unloading
  /\ ForgetDecide \in StepLists /\ ForgetDecide \notin Disabling /\ ForgetDecide \notin Arming
     /\ ForgetDecide \in Unloading
  /\ CancelUnload \in StepLists /\ CancelUnload \in Disabling /\ CancelUnload \notin Arming
     /\ CancelUnload \in Unloading
  /\ OnlyWait \in StepLists /\ OnlyWait \notin Disabling /\ OnlyWait \notin Arming
     /\ OnlyWait \in Unloading
  /\ OnlyFree \in StepLists /\ OnlyFree \notin Disabling /\ OnlyFree \notin Arming
     /\ OnlyFree \in Unloading
BY ListTable DEF Row, StepLists

\* Between two calls of the main loop nothing is left to do.
LEMMA IdleMeans ==
  ASSUME Idle
  PROVE  ~WillDisable /\ ~WillArm /\ ~Unloads /\ Settled
BY ListMeans DEF Idle, NoSteps, WillDisable, WillArm, Unloads, Settled

\* st is s and then t.
IsJoin(s, t, st) == s \o t = st
\* TwoAndTwo, in that form.
LEMMA JoinTwoTwo ==
  ASSUME NEW a, NEW b, NEW c, NEW d
  PROVE  IsJoin(<<a, b>>, <<c, d>>, <<a, b, c, d>>)
BY TwoAndTwo DEF IsJoin

\* The lists the calls are joined from.
LEMMA CallLists ==
  /\ OffDisable \o OffArm = CancelArm
  /\ OffDisable \o ForgetDecide = CancelUnload
  /\ OffDisable \o <<>> = OffDisable
  /\ <<>> \o ForgetDecide = ForgetDecide
  /\ <<>> \o <<>> = <<>>
<1>1. IsJoin(OffDisable, OffArm, CancelArm)
  BY JoinTwoTwo, Zenon DEF OffDisable, OffArm, CancelArm
<1>2. IsJoin(OffDisable, ForgetDecide, CancelUnload)
  BY JoinTwoTwo, Zenon DEF OffDisable, ForgetDecide, CancelUnload
<1>3. OffDisable \o <<>> = OffDisable
  BY DEF OffDisable
<1>4. <<>> \o ForgetDecide = ForgetDecide
  BY DEF ForgetDecide
<1>5. <<>> \o <<>> = <<>>
  OBVIOUS
<1> QED BY <1>1, <1>2, <1>3, <1>4, <1>5 DEF IsJoin

\* What cancelling, arming and unloading leave to do.
LEMMA CancelLeft ==
  ASSUME NEW d
  PROVE  /\ Cancel(d) = IF input.owner = d THEN OffDisable ELSE NoSteps
         /\ Arm(d) = IF input.owner = d THEN OffArm ELSE NoSteps
         /\ Cancel(d) \o Arm(d) = IF input.owner = d THEN CancelArm ELSE NoSteps
<1>1. /\ Cancel(d) = IF input.owner = d THEN OffDisable ELSE NoSteps
      /\ Arm(d) = IF input.owner = d THEN OffArm ELSE NoSteps
  BY DEF Cancel, Arm, Owned, OffDisable, OffArm, NoSteps
<1>2. NoSteps = <<>>
  BY DEF NoSteps
<1> QED BY <1>1, <1>2, CallLists

\* What an unload leaves to do depends on whether a model is loaded.
LEMMA UnloadLeft ==
  ASSUME NEW d
  PROVE  Cancel(d) \o Request(d) =
           IF input.owner = d
           THEN IF runtime[d].state = "UNLOADED" THEN OffDisable ELSE CancelUnload
           ELSE IF runtime[d].state = "UNLOADED" THEN NoSteps ELSE ForgetDecide
<1>1. Cancel(d) = IF input.owner = d THEN OffDisable ELSE NoSteps
  BY CancelLeft
<1>2. Request(d) = IF runtime[d].state = "UNLOADED" THEN NoSteps ELSE ForgetDecide
  BY DEF Request, NoSteps, ForgetDecide
<1>3. NoSteps = <<>>
  BY DEF NoSteps
<1> QED BY <1>1, <1>2, <1>3, CallLists

\* The same for the next state of todo.
LEMMA UnloadCalled ==
  ASSUME NEW d \in Detectors, Call(d, Cancel(d) \o Request(d))
  PROVE  /\ todo' \in TodoStates
         /\ todo'.who = d
         /\ WillDisable' <=> input.owner = d
         /\ ~WillArm'
         /\ Unloads' <=> runtime[d].state # "UNLOADED"
<1>1. todo' = [who |-> d, steps |-> Cancel(d) \o Request(d)]
  BY DEF Call
<1> QED BY <1>1, UnloadLeft, ListMeans DEF TodoStates, WillDisable, WillArm, Unloads

\* After the call of a cancel.
LEMMA CancelCalled ==
  ASSUME NEW d \in Detectors, Call(d, Cancel(d))
  PROVE  /\ todo' \in TodoStates
         /\ WillDisable' <=> input.owner = d
         /\ ~WillArm' /\ ~Unloads'
<1>1. todo' = [who |-> d, steps |-> Cancel(d)]
  BY DEF Call
<1> QED BY <1>1, CancelLeft, ListMeans DEF TodoStates, WillDisable, WillArm, Unloads

\* After the call of an arm.
LEMMA ArmCalled ==
  ASSUME NEW d \in Detectors, Call(d, Arm(d))
  PROVE  /\ todo' \in TodoStates
         /\ WillArm' <=> input.owner = d
         /\ ~WillDisable' /\ ~Unloads'
<1>1. todo' = [who |-> d, steps |-> Arm(d)]
  BY DEF Call
<1> QED BY <1>1, CancelLeft, ListMeans DEF TodoStates, WillDisable, WillArm, Unloads

\* After the call of a cancel and an arm.
LEMMA CancelArmCalled ==
  ASSUME NEW d \in Detectors, Call(d, Cancel(d) \o Arm(d))
  PROVE  /\ todo' \in TodoStates
         /\ WillArm' <=> input.owner = d
         /\ WillDisable' <=> input.owner = d
         /\ ~Unloads'
<1>1. todo' = [who |-> d, steps |-> Cancel(d) \o Arm(d)]
  BY DEF Call
<1> QED BY <1>1, CancelLeft, ListMeans DEF TodoStates, WillDisable, WillArm, Unloads

\* After a call without stores.
LEMMA NothingCalled ==
  ASSUME NEW d \in Detectors, Call(d, <<>>)
  PROVE  /\ todo' \in TodoStates
         /\ ~WillDisable' /\ ~WillArm' /\ ~Unloads'
<1>1. todo' = [who |-> d, steps |-> NoSteps]
  BY DEF Call, NoSteps
<1> QED BY <1>1, ListMeans DEF TodoStates, WillDisable, WillArm, Unloads

\* A step that leaves todo alone leaves what will be done alone.
LEMMA TodoUnchanged ==
  ASSUME todo' = todo
  PROVE  /\ WillDisable' <=> WillDisable
         /\ WillArm' <=> WillArm
         /\ Unloads' <=> Unloads
         /\ Settled' <=> Settled
BY DEF WillDisable, WillArm, Unloads, Settled

\* The start of a frame: an armed input becomes the one that is written.
LEMMA ConvertStartKeeps ==
  ASSUME AiInv, ConvertStart
  PROVE  AiInv'
<1> USE DEF AiInv
<1>1. todo' = todo /\ runtime' = runtime /\ kpu' = kpu /\ object' = object /\ app' = app
  BY DEF ConvertStart
<1>2. /\ WillDisable' <=> WillDisable
      /\ WillArm' <=> WillArm
      /\ Unloads' <=> Unloads
      /\ Settled' <=> Settled
  BY <1>1, TodoUnchanged
<1>3. PipelineType'
  <2>1. camera' \in CameraStates
    <3>1. CASE camera.sync
      BY <3>1 DEF ConvertStart, PipelineType, CameraStates, InputStates
    <3>2. CASE ~camera.sync
      <4> DEFINE on == camera.output \/ (Hooked /\ input.state = "ARMED")
      <4>1. camera' = [camera EXCEPT !.capturing = TRUE, !.output = on,
                                     !.writing = IF on THEN "fresh" ELSE Nothing]
        BY <3>2 DEF ConvertStart
      <4>2. on \in BOOLEAN
        BY ZenonT(20)
      <4> HIDE DEF on
      <4> QED BY <4>1, <4>2 DEF PipelineType, CameraStates, InputStates
    <3> QED BY <3>1, <3>2
  <2>2. input' \in InputStates
    BY DEF ConvertStart, PipelineType, CameraStates, InputStates
  <2> QED BY <1>1, <2>1, <2>2 DEF PipelineType
<1>4. /\ input'.owner = input.owner /\ camera'.hooks = camera.hooks
      /\ input'.state # input.state => input.state = "ARMED" /\ input'.state = "CAPTURING"
  BY DEF ConvertStart, PipelineType, CameraStates, InputStates
<1>5. LoadedOnScreen'
  BY <1>1, <1>2 DEF LoadedOnScreen, OnScreen, Loaded
<1>6. InputOnScreen'
  BY <1>1, <1>2, <1>4 DEF InputOnScreen, OnScreen
<1>7. KpuOwnsInput'
  BY <1>1, <1>4 DEF KpuOwnsInput
<1>8. ImageSound'
  BY <1>1, <1>2, <1>4 DEF ConvertStart, PipelineType, CameraStates, InputStates,
     ImageSound, Quiet, KpuOwnsInput
<1> QED BY <1>3, <1>5, <1>6, <1>7, <1>8

\* The end of a frame: what was written belongs to the owner of the input.
LEMMA ConvertFinishKeeps ==
  ASSUME AiInv, ConvertFinish
  PROVE  AiInv'
<1> USE DEF AiInv
<1>1. todo' = todo /\ runtime' = runtime /\ kpu' = kpu /\ object' = object /\ app' = app
  BY DEF ConvertFinish
<1>2. /\ WillDisable' <=> WillDisable
      /\ WillArm' <=> WillArm
      /\ Unloads' <=> Unloads
      /\ Settled' <=> Settled
  BY <1>1, TodoUnchanged
<1>3. PipelineType'
  <2>1. camera' \in CameraStates
    BY DEF ConvertFinish, PipelineType, CameraStates
  <2>2. input' \in InputStates
    BY DEF ConvertFinish, PipelineType, CameraStates, InputStates
  <2> QED BY <1>1, <2>1, <2>2 DEF PipelineType
<1>4. /\ input'.owner = input.owner /\ camera'.hooks = camera.hooks
      /\ input'.state # input.state => input.state = "CAPTURING" /\ input'.state = "READY"
  BY DEF ConvertFinish, PipelineType, CameraStates, InputStates
<1>5. LoadedOnScreen'
  BY <1>1, <1>2 DEF LoadedOnScreen, OnScreen, Loaded
<1>6. InputOnScreen'
  BY <1>1, <1>2, <1>4 DEF InputOnScreen, OnScreen
<1>7. KpuOwnsInput'
  BY <1>1, <1>4 DEF KpuOwnsInput
<1>8. input.state = "CAPTURING" /\ Settled => Hooked
  BY DEF Hooked, InputOnScreen, OnScreen, Settled, PipelineType, AppStates,
     Detectors, Nothing
<1>9. ImageSound'
  <2>1. ~(input'.state = "CAPTURING" /\ Settled')
    BY <1>2, <1>4, <1>8 DEF ConvertFinish, PipelineType, CameraStates, InputStates
  <2>2. input'.state = "READY" /\ Settled' => Quiet' /\ input'.image = "fresh"
    BY <1>2, <1>8 DEF ConvertFinish, PipelineType, CameraStates, InputStates,
       ImageSound, Quiet, Nothing
  <2>3. input'.state = "BUSY" \/ kpu'.busy => Quiet' /\ input'.image # "torn"
    BY <1>1, <1>4 DEF ConvertFinish, PipelineType, CameraStates, InputStates,
       ImageSound, Quiet, Nothing
  <2> QED BY <2>1, <2>2, <2>3 DEF ImageSound
<1> QED BY <1>3, <1>5, <1>6, <1>7, <1>9

\* The KPU ends: what it read is the detector's again.
LEMMA KpuDoneKeeps ==
  ASSUME AiInv, KpuDone
  PROVE  AiInv'
<1> USE DEF AiInv
<1>1. todo' = todo /\ camera' = camera /\ input' = input /\ object' = object /\ app' = app
  BY DEF KpuDone
<1>2. /\ WillDisable' <=> WillDisable
      /\ WillArm' <=> WillArm
      /\ Unloads' <=> Unloads
      /\ Settled' <=> Settled
  BY <1>1, TodoUnchanged
<1>3. PipelineType'
  <2>1. kpu' \in KpuStates
    BY DEF KpuDone, PipelineType, KpuStates
  <2>2. runtime' \in RuntimeStates
    BY DEF KpuDone, PipelineType, RuntimeStates, KpuOwnsInput
  <2> QED BY <1>1, <2>1, <2>2 DEF PipelineType
<1>4. ~kpu'.busy
  BY DEF KpuDone, PipelineType, KpuStates
<1>5. \A d \in Detectors : Loaded(d)' <=> Loaded(d)
  BY DEF KpuDone, PipelineType, RuntimeStates, Loaded, KpuOwnsInput
<1>6. LoadedOnScreen'
  BY <1>1, <1>2, <1>5 DEF LoadedOnScreen, OnScreen
<1>7. InputOnScreen'
  BY <1>1, <1>2, <1>4 DEF InputOnScreen, OnScreen
<1>8. KpuOwnsInput'
  BY <1>4 DEF KpuOwnsInput
<1>9. ImageSound'
  BY <1>1, <1>2, <1>4 DEF ImageSound, Quiet
<1> QED BY <1>3, <1>6, <1>7, <1>8, <1>9

\* Time passes.
LEMMA UnloadTimePassesKeeps ==
  ASSUME AiInv, UnloadTimePasses
  PROVE  AiInv'
<1> USE DEF AiInv
<1>1. /\ todo' = todo /\ camera' = camera /\ input' = input /\ object' = object
      /\ app' = app /\ runtime' = runtime
  BY DEF UnloadTimePasses
<1>2. /\ WillDisable' <=> WillDisable
      /\ WillArm' <=> WillArm
      /\ Unloads' <=> Unloads
      /\ Settled' <=> Settled
  BY <1>1, TodoUnchanged
<1>3. kpu' \in KpuStates
      /\ kpu'.busy = kpu.busy /\ kpu'.owner = kpu.owner
  BY DEF UnloadTimePasses, PipelineType, KpuStates
<1>4. PipelineType'
  BY <1>1, <1>3 DEF PipelineType
<1>5. LoadedOnScreen'
  BY <1>1, <1>2 DEF LoadedOnScreen, OnScreen, Loaded
<1>6. InputOnScreen'
  BY <1>1, <1>2, <1>3 DEF InputOnScreen, OnScreen
<1>7. KpuOwnsInput'
  BY <1>1, <1>3 DEF KpuOwnsInput
<1>8. ImageSound'
  BY <1>1, <1>2, <1>3 DEF ImageSound, Quiet
<1> QED BY <1>4, <1>5, <1>6, <1>7, <1>8

\* No model at all.
LEMMA NoModelType == NoModel \in KpuStates /\ ~NoModel.busy
BY DEF NoModel, KpuStates

\* A store leaves the others of its list.
LEMMA StoreLeft ==
  ASSUME PipelineType, NEW first, Doing(first), Then(<<>>)
  PROVE  /\ todo.steps \in StepLists /\ todo.steps # <<>> /\ Head(todo.steps) = first
         /\ todo'.steps = <<>> \o Tail(todo.steps)
         /\ todo'.who = todo.who
         /\ todo'.steps \in StepLists =>
              todo' \in TodoStates
BY DEF PipelineType, TodoStates, Doing, Then

\* Switching the conversion off.
LEMMA StoreOutputKeeps ==
  ASSUME AiInv, StoreOutput
  PROVE  AiInv'
<1> USE DEF AiInv
<1>1. /\ runtime' = runtime /\ kpu' = kpu /\ object' = object /\ app' = app
      /\ input' = input /\ camera' = OutputOff(camera)
  BY DEF StoreOutput
<1>2. Doing("output off") /\ Then(<<>>)
  BY DEF StoreOutput
<1>3. /\ todo.steps \in StepLists /\ todo.steps # <<>> /\ Head(todo.steps) = "output off"
      /\ todo'.steps = <<>> \o Tail(todo.steps)
      /\ todo'.who = todo.who
      /\ todo'.steps \in StepLists =>
           todo' \in TodoStates
  BY <1>2, StoreLeft
<1>4. /\ todo'.steps \in StepLists
      /\ WillDisable' <=> WillDisable
      /\ WillArm' <=> WillArm
      /\ Unloads' <=> Unloads
      /\ ~Settled'
  BY <1>3, Left DEF WillDisable, WillArm, Unloads, Settled
<1>5. PipelineType'
  <2>1. camera' \in CameraStates
    BY <1>1 DEF OutputOff, PipelineType, CameraStates
  <2> QED BY <1>1, <1>3, <1>4, <2>1 DEF PipelineType
<1>6. LoadedOnScreen'
  BY <1>1, <1>3, <1>4 DEF LoadedOnScreen, OnScreen, Loaded
<1>7. InputOnScreen'
  BY <1>1, <1>4 DEF InputOnScreen, OnScreen, OutputOff, PipelineType, CameraStates
<1>8. KpuOwnsInput'
  BY <1>1 DEF KpuOwnsInput
<1>9. ImageSound'
  BY <1>1, <1>4 DEF ImageSound, Quiet, OutputOff, PipelineType, CameraStates
<1> QED BY <1>5, <1>6, <1>7, <1>8, <1>9

\* Disabling the input, and arming it.
LEMMA StoreStateKeeps ==
  ASSUME AiInv, StoreState
  PROVE  AiInv'
<1> USE DEF AiInv
<1>1. /\ runtime' = runtime /\ kpu' = kpu /\ object' = object /\ app' = app
      /\ camera' = camera
  BY DEF StoreState
<1>2. ASSUME Doing("disable"), input' = [input EXCEPT !.state = "DISABLED"], Then(<<>>)
      PROVE  AiInv'
  <2>1. /\ todo.steps \in StepLists /\ todo.steps # <<>> /\ Head(todo.steps) = "disable"
        /\ todo'.steps = <<>> \o Tail(todo.steps)
        /\ todo'.who = todo.who
        /\ todo'.steps \in StepLists =>
             todo' \in TodoStates
    BY <1>2, StoreLeft
  <2>2. /\ todo'.steps \in StepLists
        /\ WillDisable /\ ~WillDisable'
        /\ WillArm' <=> WillArm
        /\ Unloads' <=> Unloads
    BY <2>1, Left DEF WillDisable, WillArm, Unloads
  <2>3. /\ input'.state = "DISABLED" /\ input'.owner = input.owner
        /\ input'.image = input.image
        /\ input' \in InputStates
    BY <1>2 DEF PipelineType, InputStates
  <2>4. PipelineType'
    BY <1>1, <2>1, <2>2, <2>3 DEF PipelineType
  <2>5. LoadedOnScreen'
    BY <1>1, <2>1, <2>2 DEF LoadedOnScreen, OnScreen, Loaded
  <2>6. InputOnScreen'
    BY <1>1, <2>2, <2>3 DEF InputOnScreen
  <2>7. KpuOwnsInput'
    BY <1>1, <2>3 DEF KpuOwnsInput
  <2>8. ImageSound'
    BY <1>1, <2>3 DEF ImageSound, Quiet
  <2> QED BY <2>4, <2>5, <2>6, <2>7, <2>8
<1>3. ASSUME Doing("arm"), input' = [input EXCEPT !.state = "ARMED"], Then(<<>>)
      PROVE  AiInv'
  <2>1. /\ todo.steps \in StepLists /\ todo.steps # <<>> /\ Head(todo.steps) = "arm"
        /\ todo'.steps = <<>> \o Tail(todo.steps)
        /\ todo'.who = todo.who
        /\ todo'.steps \in StepLists =>
             todo' \in TodoStates
    BY <1>3, StoreLeft
  <2>2. /\ todo'.steps \in StepLists
        /\ ~WillDisable'
        /\ WillArm /\ ~WillArm'
        /\ ~Unloads /\ ~Unloads'
    BY <2>1, Left DEF WillDisable, WillArm, Unloads
  <2>3. /\ input'.state = "ARMED" /\ input'.owner = input.owner
        /\ input'.image = input.image
        /\ input' \in InputStates
    BY <1>3 DEF PipelineType, InputStates
  <2>4. PipelineType'
    BY <1>1, <2>1, <2>2, <2>3 DEF PipelineType
  <2>5. LoadedOnScreen'
    BY <1>1, <2>1, <2>2 DEF LoadedOnScreen, OnScreen, Loaded
  <2>6. InputOnScreen'
    BY <1>1, <2>2, <2>3 DEF InputOnScreen, OnScreen
  <2>7. KpuOwnsInput'
    BY <1>1, <2>2 DEF KpuOwnsInput, InputOnScreen
  <2>8. ImageSound'
    BY <1>1, <2>2, <2>3 DEF ImageSound, InputOnScreen
  <2> QED BY <2>4, <2>5, <2>6, <2>7, <2>8
<1> QED BY <1>2, <1>3 DEF StoreState

\* The completion of the model that is unloaded is forgotten.
LEMMA ForgetCompletionKeeps ==
  ASSUME AiInv, ForgetCompletion
  PROVE  AiInv'
<1> USE DEF AiInv
<1>1. /\ input' = input /\ kpu' = kpu /\ object' = object /\ app' = app
      /\ camera' = camera /\ runtime' = [runtime EXCEPT ![todo.who].completion = FALSE]
  BY DEF ForgetCompletion
<1>2. /\ todo.steps \in StepLists /\ todo.steps # <<>>
      /\ Head(todo.steps) = "forget completion"
      /\ todo'.steps = <<>> \o Tail(todo.steps)
      /\ todo'.who = todo.who
      /\ todo'.steps \in StepLists =>
           todo' \in TodoStates
  BY StoreLeft DEF ForgetCompletion
<1>3. /\ todo'.steps \in StepLists
      /\ ~WillDisable /\ ~WillDisable' /\ ~WillArm /\ ~WillArm'
      /\ Unloads /\ Unloads'
  BY <1>2, Left DEF WillDisable, WillArm, Unloads
<1>4. todo.who \in Detectors
  BY <1>3 DEF LoadedOnScreen
<1>5. /\ runtime' \in RuntimeStates
      /\ \A d \in Detectors : /\ runtime'[d].state = runtime[d].state
                              /\ runtime'[d].completion => runtime[d].completion
  BY <1>1, <1>4 DEF PipelineType, RuntimeStates
<1>6. PipelineType'
  BY <1>1, <1>2, <1>3, <1>5 DEF PipelineType
<1>7. LoadedOnScreen'
  BY <1>1, <1>2, <1>3, <1>5 DEF LoadedOnScreen, OnScreen, Loaded
<1>8. InputOnScreen'
  BY <1>1, <1>3 DEF InputOnScreen, OnScreen
<1>9. KpuOwnsInput'
  BY <1>1, <1>5 DEF KpuOwnsInput
<1>10. ImageSound'
  BY <1>1, <1>3 DEF ImageSound, Quiet, Settled
<1> QED BY <1>6, <1>7, <1>8, <1>9, <1>10

\* Whether to wait for the KPU is decided by the state read here.
LEMMA DecideUnloadKeeps ==
  ASSUME AiInv, DecideUnload
  PROVE  AiInv'
<1> USE DEF AiInv
<1>1. /\ input' = input /\ kpu' = kpu /\ object' = object /\ app' = app
      /\ camera' = camera /\ runtime' = runtime
  BY DEF DecideUnload
<1>2. /\ todo.steps \in StepLists /\ todo.steps # <<>> /\ Head(todo.steps) = "decide"
  BY DEF DecideUnload, Doing, PipelineType, TodoStates
<1>3. todo.steps = OnlyDecide /\ Unloads /\ ~WillDisable /\ ~WillArm
  BY <1>2, Left DEF WillDisable, WillArm, Unloads
<1>4. <<"wait">> \o Tail(OnlyDecide) = OnlyWait /\ <<"free">> \o Tail(OnlyDecide) = OnlyFree
  BY DEF OnlyDecide, OnlyWait, OnlyFree
<1>5. /\ todo' \in TodoStates
      /\ todo'.who = todo.who
      /\ todo'.steps \in {OnlyWait, OnlyFree}
  BY <1>3, <1>4, ListMeans DEF DecideUnload, Then, PipelineType, TodoStates
<1>6. Unloads' /\ ~WillDisable' /\ ~WillArm'
  BY <1>5, ListMeans DEF WillDisable, WillArm, Unloads
<1>7. PipelineType'
  BY <1>1, <1>5 DEF PipelineType
<1>8. LoadedOnScreen'
  BY <1>1, <1>3, <1>5, <1>6 DEF LoadedOnScreen, OnScreen, Loaded
<1>9. InputOnScreen'
  BY <1>1, <1>3, <1>6 DEF InputOnScreen, OnScreen
<1>10. KpuOwnsInput'
  BY <1>1 DEF KpuOwnsInput
<1>11. ImageSound'
  BY <1>1, <1>3, <1>6 DEF ImageSound, Quiet, Settled
<1> QED BY <1>7, <1>8, <1>9, <1>10, <1>11

\* The last store of an unload: the model is unloaded, pending or faulty.
LEMMA UnloadStoreKeeps ==
  ASSUME AiInv, WaitToUnload \/ FreeModel
  PROVE  AiInv'
<1> USE DEF AiInv
<1>1. /\ input' = input /\ object' = object /\ app' = app /\ camera' = camera
  BY DEF WaitToUnload, FreeModel
<1>2. PICK first \in {"wait", "free"} : Doing(first) /\ Then(<<>>)
  BY DEF WaitToUnload, FreeModel
<1>3. /\ todo.steps \in StepLists /\ todo.steps # <<>> /\ Head(todo.steps) = first
      /\ todo'.steps = <<>> \o Tail(todo.steps)
      /\ todo'.who = todo.who
      /\ todo'.steps \in StepLists =>
           todo' \in TodoStates
  BY <1>2, StoreLeft
<1>4. /\ todo'.steps \in StepLists
      /\ ~WillDisable /\ ~WillDisable' /\ ~WillArm /\ ~WillArm'
      /\ Unloads /\ ~Unloads'
  BY <1>3, Left DEF WillDisable, WillArm, Unloads
<1>5. todo.who \in Detectors /\ ~OnScreen(todo.who)
  BY <1>4 DEF LoadedOnScreen
<1>6. /\ runtime' \in RuntimeStates
      /\ kpu' \in KpuStates
  <2>1. CASE WaitToUnload
    BY <1>5, <2>1 DEF PipelineType, RuntimeStates, KpuStates, WaitToUnload
  <2>2. CASE FreeModel
    <3>1. kpu' \in KpuStates
      BY <2>2, NoModelType DEF PipelineType, FreeModel
    <3>2. runtime' \in RuntimeStates
      BY <1>5, <2>2 DEF PipelineType, RuntimeStates, FreeModel, Freed
    <3> QED BY <3>1, <3>2
  <2> QED BY <2>1, <2>2
<1>7. /\ runtime'[todo.who].state \notin {"READY", "RUNNING"}
      /\ \A d \in Detectors : d # todo.who => runtime'[d] = runtime[d]
  BY <1>5 DEF PipelineType, RuntimeStates, WaitToUnload, FreeModel, Freed
<1>8. kpu'.busy => /\ kpu.busy /\ kpu'.owner = kpu.owner
                   /\ runtime'[todo.who].completion = runtime[todo.who].completion
                   /\ runtime'[todo.who].state \in {"UNLOAD_PENDING", "FAULT"}
  BY <1>5 DEF PipelineType, RuntimeStates, KpuStates, WaitToUnload, FreeModel, Freed,
     NoModel
<1>9. PipelineType'
  BY <1>1, <1>3, <1>4, <1>6 DEF PipelineType
<1>10. LoadedOnScreen'
  BY <1>1, <1>3, <1>4, <1>5, <1>7 DEF LoadedOnScreen, OnScreen, Loaded
<1>11. InputOnScreen'
  BY <1>1, <1>4 DEF InputOnScreen, OnScreen
<1>12. KpuOwnsInput'
  BY <1>1, <1>7, <1>8 DEF KpuOwnsInput
<1>13. ImageSound'
  BY <1>1, <1>4, <1>8 DEF ImageSound, Quiet, Settled
<1> QED BY <1>9, <1>10, <1>11, <1>12, <1>13

\* The app on the screen stays; its frame may have been processed.
SameScreen ==
  app' \in AppStates /\ app'.name = app.name /\ app'.phase = app.phase

\* Then the same detectors are on the screen.
LEMMA SameScreenOnScreen ==
  ASSUME SameScreen, NEW d
  PROVE  OnScreen(d)' <=> OnScreen(d)
BY DEF SameScreen, OnScreen

\* An unloaded detector gives back what it has.
LEMMA ServiceKeeps ==
  ASSUME AiInv, Idle, NEW d \in Detectors, Service(d), SameScreen
  PROVE  AiInv'
<1> USE DEF AiInv
<1>1. todo' = todo
  BY DEF Service
<1>2. /\ ~WillDisable /\ ~WillArm /\ ~Unloads /\ Settled
      /\ ~WillDisable' /\ ~WillArm' /\ ~Unloads' /\ Settled'
  BY <1>1, IdleMeans, TodoUnchanged
<1>3. ~Loaded(d) /\ ~OnScreen(d)
  BY DEF Service, Loaded, LoadedOnScreen
<1>4. /\ runtime' \in RuntimeStates /\ kpu' \in KpuStates
      /\ ~Loaded(d)'
      /\ \A e \in Detectors : e # d => runtime'[e] = runtime[e]
      /\ kpu'.busy => ~Frees(d) /\ kpu' = kpu /\ runtime' = runtime /\ kpu.busy
  <2>1. CASE Frees(d)
    <3>1. runtime' = Freed(d) /\ kpu' = NoModel
      BY <2>1 DEF Service
    <3> QED BY <3>1, NoModelType DEF Freed, PipelineType, RuntimeStates, Loaded
  <2>2. CASE ~Frees(d)
    BY <2>2, <1>3 DEF Service, PipelineType, Loaded
  <2> QED BY <2>1, <2>2
<1>5. \/ /\ Unloaded(d) /\ input.owner = d
         /\ input' = NoInput /\ camera' = Released(d)
      \/ input' = input /\ camera' = camera
  BY DEF Service
<1>6. Released(d) \in CameraStates /\ (camera.hooks = d => Released(d).hooks = Nothing)
  BY DEF PipelineType, CameraStates, Released, OutputOff
<1>7. NoInput \in InputStates /\ NoInput.owner = Nothing /\ NoInput.state = "DISABLED"
  BY DEF NoInput, InputStates
<1>8. object' \in ObjectStates /\ object'.paused = object.paused
  BY DEF Service, PipelineType, ObjectStates
<1>9. PipelineType'
  BY <1>1, <1>4, <1>5, <1>6, <1>7, <1>8 DEF PipelineType, SameScreen
<1>10. LoadedOnScreen'
  BY <1>2, <1>3, <1>4, SameScreenOnScreen DEF LoadedOnScreen, Loaded
<1>11. InputOnScreen'
  BY <1>2, <1>5, <1>6, <1>7, <1>8, SameScreenOnScreen DEF InputOnScreen, SameScreen
<1>12. KpuOwnsInput'
  <2>1. CASE Unloaded(d) /\ input.owner = d
    <3>1. ~kpu'.busy
      BY <1>4, <2>1 DEF Unloaded, KpuOwnsInput
    <3> QED BY <3>1 DEF KpuOwnsInput
  <2>2. CASE ~(Unloaded(d) /\ input.owner = d)
    BY <1>4, <1>5, <2>2 DEF KpuOwnsInput
  <2> QED BY <2>1, <2>2
<1>13. ImageSound'
  <2>1. CASE Unloaded(d) /\ input.owner = d
    <3>1. ~kpu'.busy
      BY <1>4, <2>1 DEF Unloaded, KpuOwnsInput
    <3>2. input' = NoInput
      BY <2>1 DEF Service
    <3> QED BY <1>7, <3>1, <3>2 DEF ImageSound
  <2>2. CASE ~(Unloaded(d) /\ input.owner = d)
    BY <1>2, <1>4, <1>5, <2>2 DEF ImageSound, Quiet
  <2> QED BY <2>1, <2>2
<1> QED BY <1>9, <1>10, <1>11, <1>12, <1>13

\* A result is decoded and the input armed again, or cancelled.
LEMMA FinishInferenceKeeps ==
  ASSUME AiInv, Idle, NEW d \in Detectors, Ready(d), FinishInference(d), SameScreen
  PROVE  AiInv'
<1> USE DEF AiInv
<1>1. camera' = camera /\ input' = input /\ kpu' = kpu
  BY DEF FinishInference
<1>2. ~WillDisable /\ ~WillArm /\ ~Unloads /\ Settled
  BY IdleMeans
<1>3. OnScreen(d) /\ ~kpu.busy
  BY <1>2 DEF Ready, FinishInference, LoadedOnScreen, Loaded, KpuOwnsInput
<1>4. app.name = d /\ (app.phase = "open" \/ (d = "object" /\ object.paused))
  BY <1>3 DEF OnScreen, InputOnScreen
<1>5. /\ runtime' \in RuntimeStates
      /\ \A e \in Detectors : runtime'[e].state = runtime[e].state
  <2>1. PICK decoded \in BOOLEAN :
          runtime' = [runtime EXCEPT ![d].completion = FALSE,
                                     ![d].ok = @ /\ decoded]
    BY DEF FinishInference
  <2> DEFINE ok == runtime[d].ok /\ decoded
  <2>2. ok \in BOOLEAN
    BY ZenonT(20)
  <2>3. runtime' = [runtime EXCEPT ![d] = [@ EXCEPT !.completion = FALSE, !.ok = ok]]
    BY <2>1 DEF PipelineType, RuntimeStates
  <2> HIDE DEF ok
  <2> QED BY <2>2, <2>3 DEF PipelineType, RuntimeStates
<1>6. object' \in ObjectStates /\ object'.paused = object.paused
  BY DEF FinishInference, PipelineType, ObjectStates
<1>7. \/ Call(d, Cancel(d))
      \/ ~(d = "object" /\ object.paused) /\ Call(d, Arm(d))
      \/ ~(d = "object" /\ object.paused) /\ Call(d, Cancel(d) \o Arm(d))
  BY DEF FinishInference, Detectors
<1>8. /\ todo' \in TodoStates /\ ~Unloads'
      /\ WillArm' => input.owner = d /\ app.phase = "open"
  BY <1>4, <1>7, CancelCalled, ArmCalled, CancelArmCalled
<1>9. PipelineType'
  BY <1>1, <1>5, <1>6, <1>8 DEF PipelineType, SameScreen
<1>10. LoadedOnScreen'
  BY <1>2, <1>5, <1>8, SameScreenOnScreen DEF LoadedOnScreen, Loaded
<1>11. InputOnScreen'
  BY <1>1, <1>2, <1>3, <1>4, <1>6, <1>8, SameScreenOnScreen DEF InputOnScreen,
     SameScreen
<1>12. KpuOwnsInput'
  BY <1>1, <1>3 DEF KpuOwnsInput
<1>13. ImageSound'
  BY <1>1, <1>2 DEF ImageSound, Quiet
<1> QED BY <1>9, <1>10, <1>11, <1>12, <1>13

\* The image that was captured is taken, and the KPU begins or refuses.
LEMMA RunInferenceKeeps ==
  ASSUME AiInv, Idle, NEW d \in Detectors, Ready(d), RunInference(d), SameScreen
  PROVE  AiInv'
<1> USE DEF AiInv
<1>1. camera' = camera /\ input.owner = d /\ input.state = "READY"
      /\ input' = [input EXCEPT !.state = "BUSY"] /\ ~runtime[d].completion
      /\ runtime[d].state = "READY"
  BY DEF RunInference
<1>2. ~WillDisable /\ ~WillArm /\ ~Unloads /\ Settled
  BY IdleMeans
<1>3. /\ input' \in InputStates /\ input'.owner = input.owner /\ input'.state = "BUSY"
      /\ input'.image = input.image
  BY <1>1 DEF PipelineType, InputStates
<1>4. ~kpu.busy /\ Quiet /\ input.image = "fresh"
  BY <1>1, <1>2 DEF KpuOwnsInput, ImageSound
<1>5. app.name = d /\ app.phase = "open"
  BY <1>1, <1>2 DEF LoadedOnScreen, Loaded, OnScreen, InputOnScreen
<1>6. object' \in ObjectStates /\ object'.paused = object.paused
  BY <1>4 DEF RunInference, PipelineType, ObjectStates, Results
<1>7. Quiet'
  BY <1>1, <1>4 DEF Quiet
<1>8. OnScreen(d)'
  BY <1>5, SameScreenOnScreen DEF OnScreen
<1>9. CASE /\ kpu' = [kpu EXCEPT !.busy = TRUE]
           /\ runtime' = [runtime EXCEPT ![d].state = "RUNNING"]
           /\ UNCHANGED todo
  <2>1. /\ ~WillDisable' /\ ~WillArm' /\ ~Unloads'
    BY <1>2, <1>9, TodoUnchanged
  <2>2. kpu' \in KpuStates /\ kpu'.owner = d
    BY <1>9 DEF PipelineType, KpuStates, Ready
  <2>3. /\ runtime' \in RuntimeStates
        /\ runtime'[d].state = "RUNNING" /\ ~runtime'[d].completion
        /\ \A e \in Detectors : Loaded(e)' <=> Loaded(e)
    BY <1>1, <1>9 DEF PipelineType, RuntimeStates, Loaded
  <2>4. PipelineType'
    BY <1>1, <1>3, <1>6, <1>9, <2>2, <2>3 DEF PipelineType, SameScreen
  <2>5. LoadedOnScreen'
    BY <1>2, <2>1, <2>3, SameScreenOnScreen DEF LoadedOnScreen
  <2>6. InputOnScreen'
    BY <1>1, <1>3, <1>5, <1>8, <2>1 DEF InputOnScreen, SameScreen
  <2>7. KpuOwnsInput'
    BY <1>1, <1>3, <2>2, <2>3 DEF KpuOwnsInput
  <2>8. ImageSound'
    BY <1>3, <1>4, <1>7 DEF ImageSound
  <2> QED BY <2>4, <2>5, <2>6, <2>7, <2>8
<1>10. CASE /\ runtime' = [runtime EXCEPT ![d].ok = FALSE]
            /\ Call(d, IF d = "object" /\ object.paused THEN <<>> ELSE Arm(d))
            /\ UNCHANGED kpu
  <2>1. /\ todo' \in TodoStates /\ ~Unloads' /\ ~WillDisable'
    BY <1>10, NothingCalled, ArmCalled
  <2>2. /\ runtime' \in RuntimeStates
        /\ \A e \in Detectors : Loaded(e)' <=> Loaded(e)
    BY <1>1, <1>10 DEF PipelineType, RuntimeStates, Loaded
  <2>3. PipelineType'
    BY <1>1, <1>3, <1>6, <1>10, <2>1, <2>2 DEF PipelineType, SameScreen
  <2>4. LoadedOnScreen'
    BY <1>2, <2>1, <2>2, SameScreenOnScreen DEF LoadedOnScreen
  <2>5. InputOnScreen'
    BY <1>1, <1>3, <1>4, <1>5, <1>8, <1>10, <2>1 DEF InputOnScreen, SameScreen
  <2>6. KpuOwnsInput'
    BY <1>4, <1>10 DEF KpuOwnsInput
  <2>7. ImageSound'
    BY <1>3, <1>4, <1>7 DEF ImageSound
  <2> QED BY <2>3, <2>4, <2>5, <2>6, <2>7
<1> QED BY <1>9, <1>10 DEF RunInference

\* A frame for which there is nothing to do.
LEMMA NothingToRunKeeps ==
  ASSUME AiInv, NEW d \in Detectors, NothingToRun(d), SameScreen
  PROVE  AiInv'
<1> USE DEF AiInv
<1>1. /\ camera' = camera /\ input' = input /\ kpu' = kpu /\ runtime' = runtime
      /\ object' = object /\ todo' = todo
  BY DEF NothingToRun
<1>2. /\ WillDisable' <=> WillDisable
      /\ WillArm' <=> WillArm
      /\ Unloads' <=> Unloads
      /\ Settled' <=> Settled
  BY <1>1, TodoUnchanged
<1>3. PipelineType'
  BY <1>1 DEF PipelineType, SameScreen
<1>4. LoadedOnScreen'
  BY <1>1, <1>2, SameScreenOnScreen DEF LoadedOnScreen, Loaded
<1>5. InputOnScreen'
  BY <1>1, <1>2, SameScreenOnScreen DEF InputOnScreen, SameScreen
<1>6. KpuOwnsInput'
  BY <1>1 DEF KpuOwnsInput
<1>7. ImageSound'
  BY <1>1, <1>2 DEF ImageSound, Quiet
<1> QED BY <1>3, <1>4, <1>5, <1>6, <1>7

\* The background ticks.
LEMMA BackgroundKeeps ==
  ASSUME AiInv, FaceBackground \/ ObjectBackground
  PROVE  AiInv'
<1>1. Idle /\ SameScreen
  <2>1. app \in AppStates
    BY DEF AiInv, PipelineType
  <2> QED BY <2>1 DEF FaceBackground, ObjectBackground, SameScreen, AppStates
<1>2. \E d \in Detectors : Service(d) \/ ProcessFrame(d)
  BY DEF FaceBackground, ObjectBackground, Detectors
<1> QED
  BY <1>1, <1>2, ServiceKeeps, FinishInferenceKeeps, RunInferenceKeeps,
     NothingToRunKeeps
     DEF ProcessFrame

\* The detector of the app that opens, or waits, is not the one on the screen.
Starting(d) == Idle /\ ~OnScreen(d) /\ \A e \in Detectors : ~OnScreen(e)

\* Waiting, or an error, is all the screen shows.
LEMMA WaitForModelKeeps ==
  ASSUME AiInv, NEW d \in Detectors, Starting(d), WaitForModel(d)
  PROVE  AiInv'
<1> USE DEF AiInv
<1>1. /\ camera' = camera /\ input' = input /\ kpu' = kpu /\ runtime' = runtime
      /\ todo' = todo
  BY DEF WaitForModel
<1>2. /\ ~WillDisable /\ ~WillArm /\ ~Unloads /\ Settled
      /\ ~WillDisable' /\ ~WillArm' /\ ~Unloads' /\ Settled'
  BY <1>1, IdleMeans, TodoUnchanged DEF Starting
<1>3. app' \in AppStates /\ app'.phase = "waiting"
  BY DEF WaitForModel, Show, PipelineType, AppStates
<1>4. object' \in ObjectStates
  BY DEF WaitForModel, Reset, PipelineType, ObjectStates, Results
<1>5. \A e : ~OnScreen(e)'
  BY <1>3 DEF OnScreen
<1>6. \A e \in Detectors : ~Loaded(e)
  BY <1>2 DEF Starting, LoadedOnScreen
<1>7. input.state = "DISABLED"
  BY <1>2 DEF Starting, InputOnScreen, OnScreen, PipelineType, AppStates,
     InputStates, Detectors, Nothing
<1>8. PipelineType'
  BY <1>1, <1>3, <1>4 DEF PipelineType
<1>9. LoadedOnScreen'
  BY <1>1, <1>2, <1>5, <1>6 DEF LoadedOnScreen, Loaded
<1>10. InputOnScreen'
  BY <1>1, <1>2, <1>3, <1>7 DEF InputOnScreen
<1>11. KpuOwnsInput'
  BY <1>1 DEF KpuOwnsInput
<1>12. ImageSound'
  BY <1>1, <1>2 DEF ImageSound, Quiet
<1> QED BY <1>8, <1>9, <1>10, <1>11, <1>12

\* A load that fails leaves no model and no input of its own.
LEMMA LoadFailsKeeps ==
  ASSUME AiInv, NEW d \in Detectors, Starting(d), LoadFails(d)
  PROVE  AiInv'
<1> USE DEF AiInv
<1>1. todo' = todo
  BY DEF LoadFails
<1>2. /\ ~WillDisable /\ ~WillArm /\ ~Unloads /\ Settled
      /\ ~WillDisable' /\ ~WillArm' /\ ~Unloads' /\ Settled'
  BY <1>1, IdleMeans, TodoUnchanged DEF Starting
<1>3. app' \in AppStates /\ app'.phase = "error"
  BY DEF LoadFails, Show, PipelineType, AppStates
<1>4. object' \in ObjectStates
  BY DEF LoadFails, Reset, PipelineType, ObjectStates, Results
<1>5. \A e : ~OnScreen(e)'
  BY <1>3 DEF OnScreen
<1>6. \A e \in Detectors : ~Loaded(e)
  BY <1>2 DEF Starting, LoadedOnScreen
<1>7. input.state = "DISABLED"
  BY <1>2 DEF Starting, InputOnScreen, OnScreen, PipelineType, AppStates,
     InputStates, Detectors, Nothing
<1>8. NoInput \in InputStates /\ NoInput.owner = Nothing /\ NoInput.state = "DISABLED"
  BY DEF NoInput, InputStates
<1>9. CASE Unloaded(d)
  <2>1. /\ runtime' = [Freed(d) EXCEPT ![d].ok = FALSE]
        /\ kpu' = NoModel
        /\ input' = NoInput /\ camera' = Released(d)
    BY <1>9 DEF LoadFails
  <2>2. runtime' \in RuntimeStates /\ \A e \in Detectors : ~Loaded(e)'
    BY <1>6, <2>1 DEF Freed, PipelineType, RuntimeStates, Loaded
  <2>3. camera.hooks \in {d, Nothing}
    BY DEF LoadFails, Busy, InputOnScreen
  <2>4. camera' \in CameraStates /\ camera'.hooks = Nothing
    BY <2>1, <2>3 DEF PipelineType, CameraStates, Released, OutputOff
  <2>5. PipelineType'
    BY <1>1, <1>3, <1>4, <1>8, <2>1, <2>2, <2>4, NoModelType DEF PipelineType
  <2>6. LoadedOnScreen'
    BY <1>2, <1>5, <2>2 DEF LoadedOnScreen
  <2>7. InputOnScreen'
    BY <1>2, <1>3, <1>8, <2>1, <2>4 DEF InputOnScreen
  <2>8. KpuOwnsInput'
    BY <2>1, NoModelType DEF KpuOwnsInput
  <2>9. ImageSound'
    BY <1>8, <2>1, NoModelType DEF ImageSound
  <2> QED BY <2>5, <2>6, <2>7, <2>8, <2>9
<1>10. CASE ~Unloaded(d)
  <2>1. runtime' = runtime /\ kpu' = kpu /\ input' = input /\ camera' = camera
    BY <1>10 DEF LoadFails
  <2>2. PipelineType'
    BY <1>1, <1>3, <1>4, <2>1 DEF PipelineType
  <2>3. LoadedOnScreen'
    BY <1>2, <1>5, <1>6, <2>1 DEF LoadedOnScreen, Loaded
  <2>4. InputOnScreen'
    BY <1>2, <1>3, <1>7, <2>1 DEF InputOnScreen
  <2>5. KpuOwnsInput'
    BY <2>1 DEF KpuOwnsInput
  <2>6. ImageSound'
    BY <1>2, <2>1 DEF ImageSound, Quiet
  <2> QED BY <2>2, <2>3, <2>4, <2>5, <2>6
<1> QED BY <1>9, <1>10

\* A model is loaded only into a KPU that rests.
LEMMA LoadWorksKeeps ==
  ASSUME AiInv, NEW d \in Detectors, Starting(d), LoadWorks(d)
  PROVE  AiInv'
<1> USE DEF AiInv
<1>1. todo' = todo
  BY DEF LoadWorks
<1>2. /\ ~WillDisable /\ ~WillArm /\ ~Unloads /\ Settled
      /\ ~WillDisable' /\ ~WillArm' /\ ~Unloads' /\ Settled'
  BY <1>1, IdleMeans, TodoUnchanged DEF Starting
<1>3. app' \in AppStates /\ app'.phase = "open" /\ app'.name = d
  BY DEF LoadWorks, Show, PipelineType, AppStates
<1>4. object' \in ObjectStates
  BY DEF LoadWorks, Reset, PipelineType, ObjectStates, Results
<1>5. \A e \in Detectors : ~Loaded(e)
  BY <1>2 DEF Starting, LoadedOnScreen
<1>6. /\ runtime' \in RuntimeStates /\ Loaded(d)'
      /\ \A e \in Detectors : e # d => ~Loaded(e)'
  BY <1>5 DEF LoadWorks, Freed, PipelineType, RuntimeStates, Loaded
<1>7. kpu' \in KpuStates /\ ~kpu'.busy
  BY DEF LoadWorks, NoModel, KpuStates
<1>8. input' \in InputStates /\ input'.owner = d /\ input'.state = "ARMED"
  BY DEF LoadWorks, InputStates
<1>9. camera' \in CameraStates /\ camera'.hooks = d
  <2>1. PICK starts \in BOOLEAN :
          camera' = [Stopped(camera) EXCEPT !.hooks = d, !.running = starts,
                                            !.paused = FALSE, !.sync = TRUE]
    BY DEF LoadWorks
  <2>2. Stopped(camera) \in CameraStates
    BY DEF Stopped, OutputOff, PipelineType, CameraStates
  <2> QED BY <2>1, <2>2 DEF CameraStates
<1>10. PipelineType'
  BY <1>1, <1>3, <1>4, <1>6, <1>7, <1>8, <1>9 DEF PipelineType
<1>11. \A e \in Detectors : OnScreen(e)' <=> e = d
  BY <1>3 DEF OnScreen
<1>12. LoadedOnScreen'
  BY <1>2, <1>6, <1>11 DEF LoadedOnScreen
<1>13. InputOnScreen'
  BY <1>2, <1>3, <1>8, <1>9, <1>11 DEF InputOnScreen
<1>14. KpuOwnsInput'
  BY <1>7 DEF KpuOwnsInput
<1>15. ImageSound'
  BY <1>7, <1>8 DEF ImageSound
<1> QED BY <1>10, <1>12, <1>13, <1>14, <1>15

\* Opening an app, and its next attempts.
LEMMA OpenRetryKeeps ==
  ASSUME AiInv, NEW d \in Detectors, Open(d) \/ Retry(d)
  PROVE  AiInv'
<1>1. Starting(d)
  BY DEF Open, Retry, Starting, OnScreen, Detectors
<1> QED
  BY <1>1, WaitForModelKeeps, LoadFailsKeeps, LoadWorksKeeps DEF Open, Retry,
     StartDetector

\* The main loop stores into the camera block; the hooks stay.
CameraMoves ==
  camera' \in CameraStates /\ camera'.hooks = camera.hooks /\ (Quiet => Quiet')

\* An image gets older, not torn.
LEMMA OldImage ==
  ASSUME NEW image \in {"torn", "fresh", "stale"}
  PROVE  /\ Old(image) \in {"torn", "fresh", "stale"}
         /\ image # "torn" => Old(image) # "torn"
BY DEF Old

\* camera_stop switches the conversion off.
LEMMA StoppedMoves ==
  ASSUME PipelineType
  PROVE  /\ Stopped(camera) \in CameraStates
         /\ Stopped(camera).hooks = camera.hooks
         /\ ~Stopped(camera).output /\ Stopped(camera).writing = Nothing
BY DEF PipelineType, CameraStates, Stopped, OutputOff

\* Whoever owns an input that is not disabled is on the screen.
LEMMA OwnerOnScreen ==
  ASSUME PipelineType, InputOnScreen, Idle, input.state # "DISABLED"
  PROVE  input.owner = app.name /\ OnScreen(app.name)
BY IdleMeans DEF InputOnScreen, OnScreen

\* A detector's app ends: its model is unloaded and its input cancelled.
LEMMA UnloadKeeps ==
  ASSUME AiInv, Idle, NEW d \in Detectors, app.name = d, Unload(d), CameraMoves,
         app' \in AppStates, app'.phase # "settings",
                \A e \in Detectors : ~OnScreen(e)',
         kpu' = kpu, runtime' = runtime
  PROVE  AiInv'
<1> USE DEF AiInv
<1>1. /\ todo' \in TodoStates /\ todo'.who = d
      /\ WillDisable' <=> input.owner = d
      /\ ~WillArm'
      /\ Unloads' <=> runtime[d].state # "UNLOADED"
  BY UnloadCalled DEF Unload
<1>2. ~WillDisable /\ ~WillArm /\ ~Unloads /\ Settled
  BY IdleMeans
<1>3. object' \in ObjectStates
  <2>1. \A r \in Results : Outdated(r) \in Results
    BY DEF Outdated, Results
  <2> QED BY <2>1 DEF Unload, PipelineType, ObjectStates
<1>4. /\ input' \in InputStates /\ input'.owner = input.owner /\ input'.state = input.state
      /\ input.image # "torn" => input'.image # "torn"
  <2>1. input.image \in {"torn", "fresh", "stale"}
    BY DEF PipelineType, InputStates
  <2> QED BY <2>1, OldImage DEF Unload, PipelineType, InputStates
<1>5. input.state # "DISABLED" => WillDisable'
  BY <1>1, OwnerOnScreen
<1>6. PipelineType'
  BY <1>1, <1>3, <1>4 DEF PipelineType, CameraMoves
<1>7. LoadedOnScreen'
  <2>1. \A e \in Detectors : Loaded(e) => e = d
    BY <1>2 DEF LoadedOnScreen, OnScreen
  <2>2. Loaded(d) => runtime[d].state # "UNLOADED"
    BY DEF Loaded
  <2> QED BY <1>1, <2>1, <2>2 DEF LoadedOnScreen, Loaded
<1>8. InputOnScreen'
  BY <1>1, <1>4, <1>5 DEF InputOnScreen, CameraMoves
<1>9. KpuOwnsInput'
  BY <1>4 DEF KpuOwnsInput
<1>10. ImageSound'
  BY <1>4, <1>5 DEF ImageSound, CameraMoves, Settled
<1> QED BY <1>6, <1>7, <1>8, <1>9, <1>10

\* The tick of a detector's app.
LEMMA TickKeeps ==
  ASSUME AiInv, NEW d \in Detectors, Tick(d)
  PROVE  AiInv'
<1> USE DEF AiInv
<1>1. Idle /\ app.name = d /\ app.phase = "open" /\ kpu' = kpu /\ runtime' = runtime
  BY DEF Tick
<1>2. CASE Ready(d)
  <2>1. /\ app' = [app EXCEPT !.frame = (d = "object")]
        /\ camera' = [camera EXCEPT !.ready = FALSE]
        /\ input' = input /\ object' = object /\ todo' = todo
    BY <1>2 DEF Tick
  <2>2. SameScreen
    <3>1. (d = "object") \in BOOLEAN
      OBVIOUS
    <3> QED BY <2>1, <3>1 DEF SameScreen, PipelineType, AppStates
  <2>3. /\ camera' \in CameraStates /\ camera'.hooks = camera.hooks
        /\ camera'.output = camera.output /\ camera'.writing = camera.writing
        /\ camera'.capturing = camera.capturing
    BY <2>1 DEF PipelineType, CameraStates
  <2>4. /\ WillDisable' <=> WillDisable
        /\ WillArm' <=> WillArm
        /\ Unloads' <=> Unloads
        /\ Settled' <=> Settled
    BY <2>1, TodoUnchanged
  <2>5. PipelineType'
    BY <1>1, <2>1, <2>2, <2>3 DEF PipelineType, SameScreen
  <2>6. LoadedOnScreen'
    BY <1>1, <2>1, <2>2, <2>4, SameScreenOnScreen DEF LoadedOnScreen, Loaded
  <2>7. InputOnScreen'
    BY <1>1, <2>1, <2>2, <2>3, <2>4, SameScreenOnScreen DEF InputOnScreen, SameScreen
  <2>8. KpuOwnsInput'
    BY <1>1, <2>1 DEF KpuOwnsInput
  <2>9. ImageSound'
    BY <1>1, <2>1, <2>3, <2>4 DEF ImageSound, Quiet
  <2> QED BY <2>5, <2>6, <2>7, <2>8, <2>9
<1>3. CASE ~Ready(d)
  <2>1. /\ app' = [app EXCEPT !.phase = "error", !.frame = (d = "object")]
        /\ camera' = Stopped(camera)
        /\ Unload(d)
    BY <1>3 DEF Tick
  <2>2. app' \in AppStates /\ app'.phase = "error"
    <3>1. (d = "object") \in BOOLEAN
      OBVIOUS
    <3> QED BY <2>1, <3>1 DEF PipelineType, AppStates
  <2>3. CameraMoves
    BY <2>1, StoppedMoves DEF CameraMoves, Quiet
  <2>4. \A e \in Detectors : ~OnScreen(e)'
    BY <2>2 DEF OnScreen
  <2> QED BY <1>1, <2>1, <2>2, <2>3, <2>4, UnloadKeeps
<1> QED BY <1>2, <1>3

\* Leaving a detector's app.
LEMMA LeaveKeeps ==
  ASSUME AiInv, NEW d \in Detectors, Leave(d)
  PROVE  AiInv'
<1> USE DEF AiInv
<1>1. Idle /\ app.name = d /\ Unload(d) /\ kpu' = kpu /\ runtime' = runtime
  BY DEF Leave
<1>2. app' \in AppStates /\ app'.phase = "open" /\ app'.name = "menu"
  BY DEF Leave, Show, PipelineType, AppStates
<1>3. CameraMoves
  BY StoppedMoves DEF Leave, CameraMoves, Quiet, PipelineType
<1>4. \A e \in Detectors : ~OnScreen(e)'
  BY <1>2 DEF OnScreen, Detectors
<1> QED BY <1>1, <1>2, <1>3, <1>4, UnloadKeeps

\* Another app of the camera comes and goes while no detector's is open.
LEMMA CameraAppKeeps ==
  ASSUME AiInv, OpenCamera \/ LeaveCamera
  PROVE  AiInv'
<1> USE DEF AiInv
<1>1. /\ Idle /\ input' = input /\ kpu' = kpu /\ runtime' = runtime /\ object' = object
      /\ todo' = todo
  BY DEF OpenCamera, LeaveCamera
<1>2. /\ ~WillDisable /\ ~WillArm /\ ~Unloads
      /\ ~WillDisable' /\ ~WillArm' /\ ~Unloads'
  BY <1>1, IdleMeans, TodoUnchanged
<1>3. /\ app' \in AppStates /\ app'.phase = "open"
      /\ \A e \in Detectors : ~OnScreen(e) /\ ~OnScreen(e)'
  BY DEF OpenCamera, LeaveCamera, Show, PipelineType, AppStates, OnScreen, Detectors
<1>4. CameraMoves
  <2>1. /\ Stopped(camera) \in CameraStates
        /\ Stopped(camera).hooks = camera.hooks
        /\ ~Stopped(camera).output /\ Stopped(camera).writing = Nothing
    BY StoppedMoves
  <2>2. \/ camera' = Stopped(camera)
        \/ camera' = [Stopped(camera) EXCEPT !.running = TRUE, !.paused = FALSE,
               !.sync = TRUE]
    BY DEF OpenCamera, LeaveCamera
  <2> QED BY <2>1, <2>2 DEF CameraMoves, Quiet, CameraStates
<1>5. input.state = "DISABLED"
  BY <1>1, OwnerOnScreen DEF OpenCamera, LeaveCamera, OnScreen, Detectors, PipelineType,
     InputStates, Nothing
<1>6. PipelineType'
  BY <1>1, <1>3, <1>4 DEF PipelineType, CameraMoves
<1>7. LoadedOnScreen'
  BY <1>1, <1>2, <1>3 DEF LoadedOnScreen, Loaded
<1>8. InputOnScreen'
  BY <1>1, <1>2, <1>3, <1>4, <1>5 DEF InputOnScreen, CameraMoves
<1>9. KpuOwnsInput'
  BY <1>1 DEF KpuOwnsInput
<1>10. ImageSound'
  BY <1>1, <1>4, <1>5 DEF ImageSound, CameraMoves
<1> QED BY <1>6, <1>7, <1>8, <1>9, <1>10

\* The settings of the object app open: the input is cancelled.
LEMMA OpenSettingsKeeps ==
  ASSUME AiInv, OpenSettings
  PROVE  AiInv'
<1> USE DEF AiInv
<1>1. /\ Idle /\ kpu' = kpu /\ runtime' = runtime
      /\ app.name = "object" /\ app.phase = "open" /\ object' = Invalidated(TRUE)
      /\ input' = [input EXCEPT !.image = Old(@)]
      /\ camera' = [camera EXCEPT !.paused = @ \/ camera.running, !.writing = Old(@)]
      /\ Call("object", Cancel("object"))
      /\ app' = [app EXCEPT !.name = "object", !.phase = "settings"]
  BY DEF OpenSettings, Show
<1>2. ~WillDisable /\ ~WillArm /\ ~Unloads /\ Settled
  BY <1>1, IdleMeans
<1>3. /\ todo' \in TodoStates
      /\ WillDisable' <=> input.owner = "object"
      /\ ~WillArm' /\ ~Unloads'
  BY <1>1, CancelCalled DEF Detectors
<1>4. app' \in AppStates /\ app'.name = "object" /\ app'.phase = "settings"
  BY <1>1 DEF PipelineType, AppStates, Detectors
<1>5. object' \in ObjectStates /\ object'.paused
  BY <1>1 DEF Invalidated, Outdated, PipelineType, ObjectStates, Results
<1>6. /\ input' \in InputStates /\ input'.owner = input.owner /\ input'.state = input.state
      /\ input.image # "torn" => input'.image # "torn"
  <2>1. input.image \in {"torn", "fresh", "stale"}
    BY DEF PipelineType, InputStates
  <2> QED BY <1>1, <2>1, OldImage DEF PipelineType, InputStates
<1>7. CameraMoves
  <2> DEFINE paused == camera.paused \/ camera.running
  <2>1. camera' = [camera EXCEPT !.paused = paused, !.writing = Old(@)]
    BY <1>1
  <2>2. paused \in BOOLEAN
    BY ZenonT(20)
  <2>3. Old(camera.writing) \in {Nothing, "fresh", "stale"} /\ Old(Nothing) = Nothing
    BY DEF Old, Nothing, PipelineType, CameraStates
  <2> HIDE DEF paused
  <2> QED BY <2>1, <2>2, <2>3 DEF CameraMoves, Quiet, PipelineType, CameraStates
<1>8. \A e : OnScreen(e)' <=> OnScreen(e)
  BY <1>1, <1>4 DEF OnScreen
<1>9. input.state # "DISABLED" => WillDisable'
  BY <1>1, <1>3, OwnerOnScreen
<1>10. PipelineType'
  BY <1>1, <1>3, <1>4, <1>5, <1>6, <1>7 DEF PipelineType, CameraMoves
<1>11. LoadedOnScreen'
  BY <1>1, <1>2, <1>3, <1>8 DEF LoadedOnScreen, Loaded
<1>12. InputOnScreen'
  BY <1>3, <1>4, <1>5, <1>6, <1>7, <1>9 DEF InputOnScreen, CameraMoves
<1>13. KpuOwnsInput'
  BY <1>1, <1>6 DEF KpuOwnsInput
<1>14. ImageSound'
  BY <1>1, <1>6, <1>7, <1>9 DEF ImageSound, CameraMoves, Settled
<1> QED BY <1>10, <1>11, <1>12, <1>13, <1>14

\* The settings close: the input is armed unless the KPU reads it.
LEMMA CloseSettingsKeeps ==
  ASSUME AiInv, CloseSettings
  PROVE  AiInv'
<1> USE DEF AiInv
<1>1. /\ Idle /\ kpu' = kpu /\ runtime' = runtime
      /\ app.name = "object" /\ app.phase = "settings" /\ object' = Invalidated(FALSE)
      /\ input' = [input EXCEPT !.image = Old(@)]
      /\ camera' = [camera EXCEPT !.paused = FALSE, !.sync = @ \/ camera.running,
                              !.ready = FALSE, !.writing = Old(@)]
      /\ Call("object",
             IF runtime["object"].state = "RUNNING" THEN <<>> ELSE Arm("object"))
      /\ app' = [app EXCEPT !.name = "object", !.phase = "open"]
  BY DEF CloseSettings, Show
<1>2. ~WillDisable /\ ~WillArm /\ ~Unloads /\ Settled
  BY <1>1, IdleMeans
<1>3. /\ todo' \in TodoStates
      /\ WillArm' => input.owner = "object" /\ runtime["object"].state # "RUNNING"
      /\ ~WillDisable' /\ ~Unloads'
  BY <1>1, ArmCalled, NothingCalled DEF Detectors
<1>4. app' \in AppStates /\ app'.name = "object" /\ app'.phase = "open"
  BY <1>1 DEF PipelineType, AppStates, Detectors
<1>5. object' \in ObjectStates
  BY <1>1 DEF Invalidated, Outdated, PipelineType, ObjectStates, Results
<1>6. /\ input' \in InputStates /\ input'.owner = input.owner /\ input'.state = input.state
      /\ input.image # "torn" => input'.image # "torn"
  <2>1. input.image \in {"torn", "fresh", "stale"}
    BY DEF PipelineType, InputStates
  <2> QED BY <1>1, <2>1, OldImage DEF PipelineType, InputStates
<1>7. CameraMoves
  <2> DEFINE sync == camera.sync \/ camera.running
  <2>1. camera' = [camera EXCEPT !.paused = FALSE, !.sync = sync,
                              !.ready = FALSE, !.writing = Old(@)]
    BY <1>1
  <2>2. sync \in BOOLEAN
    BY ZenonT(20)
  <2>3. Old(camera.writing) \in {Nothing, "fresh", "stale"} /\ Old(Nothing) = Nothing
    BY DEF Old, Nothing, PipelineType, CameraStates
  <2> HIDE DEF sync
  <2> QED BY <2>1, <2>2, <2>3 DEF CameraMoves, Quiet, PipelineType, CameraStates
<1>8. \A e : OnScreen(e)' <=> OnScreen(e)
  BY <1>1, <1>4 DEF OnScreen
<1>9. input.state \in {"DISABLED", "BUSY"}
  BY <1>1, <1>2 DEF InputOnScreen
<1>10. WillArm' => ~kpu.busy
  <2>1. Loaded("object")
    BY <1>1 DEF LoadedOnScreen, OnScreen, Detectors
  <2> QED BY <1>3, <2>1 DEF Loaded, KpuOwnsInput
<1>11. PipelineType'
  BY <1>1, <1>3, <1>4, <1>5, <1>6, <1>7 DEF PipelineType, CameraMoves
<1>12. LoadedOnScreen'
  BY <1>1, <1>2, <1>3, <1>8 DEF LoadedOnScreen, Loaded
<1>13. InputOnScreen'
  BY <1>1, <1>2, <1>3, <1>4, <1>6, <1>7, <1>8, <1>10 DEF InputOnScreen, CameraMoves
<1>14. KpuOwnsInput'
  BY <1>1, <1>6 DEF KpuOwnsInput
<1>15. ImageSound'
  BY <1>1, <1>6, <1>7, <1>9 DEF ImageSound, CameraMoves
<1> QED BY <1>11, <1>12, <1>13, <1>14, <1>15

\* Nothing is loaded, armed or left to do at the start.
LEMMA AiInvInit == AiInit => AiInv
<1> SUFFICES ASSUME AiInit PROVE AiInv
  OBVIOUS
<1>1. Idle /\ todo = [who |-> Nothing, steps |-> NoSteps]
  BY DEF AiInit, Idle, NoSteps
<1>2. ~WillDisable /\ ~WillArm /\ ~Unloads
  BY <1>1, IdleMeans
<1>3. PipelineType
  <2>1. camera \in CameraStates /\ input \in InputStates /\ kpu \in KpuStates
    BY DEF AiInit, CameraStates, InputStates, KpuStates
  <2>2. runtime \in RuntimeStates /\ object \in ObjectStates /\ app \in AppStates
    BY DEF AiInit, RuntimeStates, ObjectStates, AppStates, Results
  <2>3. todo \in TodoStates
    BY <1>1, ListMeans DEF TodoStates
  <2> QED BY <2>1, <2>2, <2>3 DEF PipelineType
<1>4. \A d \in Detectors : ~OnScreen(d) /\ ~Loaded(d)
  BY DEF AiInit, OnScreen, Loaded, Detectors
<1>5. LoadedOnScreen
  BY <1>2, <1>4 DEF LoadedOnScreen
<1>6. InputOnScreen /\ KpuOwnsInput /\ ImageSound
  BY <1>2 DEF AiInit, InputOnScreen, KpuOwnsInput, ImageSound
<1> QED BY <1>3, <1>5, <1>6 DEF AiInv

\* Every step keeps the invariant.
LEMMA AiInvStep == AiInv /\ [AiNext]_aiVars => AiInv'
<1> SUFFICES ASSUME AiInv, [AiNext]_aiVars PROVE AiInv'
  OBVIOUS
<1>1. CASE UNCHANGED aiVars
  <2>1. /\ camera' = camera /\ input' = input /\ kpu' = kpu /\ runtime' = runtime
        /\ object' = object /\ app' = app /\ todo' = todo
    BY <1>1 DEF aiVars
  <2>2. /\ WillDisable' <=> WillDisable
        /\ WillArm' <=> WillArm
        /\ Unloads' <=> Unloads
        /\ Settled' <=> Settled
    BY <2>1, TodoUnchanged
  <2> QED
    BY <2>1, <2>2 DEF AiInv, PipelineType, LoadedOnScreen, InputOnScreen, KpuOwnsInput,
       ImageSound, Quiet, OnScreen, Loaded
<1>2. CASE ConvertStart \/ ConvertFinish \/ KpuDone \/ UnloadTimePasses
  BY <1>2, ConvertStartKeeps, ConvertFinishKeeps, KpuDoneKeeps, UnloadTimePassesKeeps
<1>3. CASE NextStore
  BY <1>3, StoreOutputKeeps, StoreStateKeeps, ForgetCompletionKeeps, DecideUnloadKeeps,
     UnloadStoreKeeps DEF NextStore
<1>4. CASE FaceBackground \/ ObjectBackground
  BY <1>4, BackgroundKeeps
<1>5. CASE \E d \in Detectors : Open(d) \/ Retry(d) \/ Tick(d) \/ Leave(d)
  BY <1>5, OpenRetryKeeps, TickKeeps, LeaveKeeps
<1>6. CASE OpenCamera \/ LeaveCamera \/ OpenSettings \/ CloseSettings
  BY <1>6, CameraAppKeeps, OpenSettingsKeeps, CloseSettingsKeeps
<1> QED BY <1>1, <1>2, <1>3, <1>4, <1>5, <1>6 DEF AiNext

\* The invariant of the pipeline.
LEMMA AiInvAlways == AiSpec => []AiInv
BY AiInvInit, AiInvStep, PTL DEF AiSpec

\* While the KPU runs no conversion writes the input, and what was taken for
\* it is one whole frame, whichever of the main loop's stores an interrupt
\* of the camera or of the KPU comes between.
THEOREM InputIsOneFrameHolds == AiSpec => [](AiTypeOK /\ InputIsOneFrame)
<1>1. AiInv => AiTypeOK /\ InputIsOneFrame
  BY DEF AiInv, PipelineType, CameraStates, InputStates, KpuStates, AiTypeOK,
     ImageSound,
     Quiet, InputIsOneFrame
<1> QED BY <1>1, AiInvAlways, PTL

\* The results on the object app's screen are of an image that was captured
\* after they were last invalidated: what the epoch lets through is fresh.
THEOREM ResultsAreCurrentHolds == AiSpec => []ResultsAreCurrent
<1>1. AiInv => ResultsAreCurrent
  BY DEF AiInv, PipelineType, ObjectStates, Results, ResultsAreCurrent
<1> QED BY <1>1, AiInvAlways, PTL

\* A detector that has a model is the one on the screen or is being unloaded,
\* and the KPU reads the input only for the detector that owns it.
THEOREM LoadedModelIsInUse == AiSpec => [](LoadedOnScreen /\ KpuOwnsInput)
<1>1. AiInv => LoadedOnScreen /\ KpuOwnsInput
  BY DEF AiInv
<1> QED BY <1>1, AiInvAlways, PTL
===============================================================================
