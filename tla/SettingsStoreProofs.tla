-------------------------- MODULE SettingsStoreProofs --------------------------
(***************************************************************************)
(* Proofs about SettingsStore for every set of values, save delay, number  *)
(* of records and number of flash failures: what a restart finds.  And     *)
(* about Fat32Card for every size of card, number of saves and number of   *)
(* faults: the chains of what the directories list never meet, a file      *)
(* reported saved stays until it is deleted, and as long as every call     *)
(* succeeds each cluster in use belongs to something listed.               *)
(***************************************************************************)
EXTENDS SettingsStore, Fat32Card, FiniteSetTheorems, WellFoundedInduction, TLAPS

FlashRecord == [valid : BOOLEAN, sequence : Nat, payload : Values]
Saved == {"erase", "program", "verify"}   \* the steps of a save under way

TypeOK ==
  /\ flash \in [Slots -> FlashRecord]
  /\ faulted \in BOOLEAN
  /\ store \in [ok : BOOLEAN, slot : Slots \cup {NoSlot}, sequence : Nat]
  /\ settings \in Values /\ dirty \in BOOLEAN /\ ticks \in Nat
  /\ save \in [step : {"off", "idle"} \cup Saved, target : Slots, record : FlashRecord]
  /\ failures \in Nat

\* Records are numbered from 1 on, and two valid ones never bear the same
\* number, so the newer one is defined.
NumbersDiffer ==
  /\ \A s \in Slots : flash[s].valid => flash[s].sequence # 0
  /\ flash[0].valid /\ flash[1].valid => flash[0].sequence # flash[1].sequence

\* What the store remembers of the record in use, and the only newer record
\* there can be: the one of a save that was not acknowledged.
StoreOK ==
  /\ ~store.ok => store = NoStore
  /\ store.slot \in Slots =>
       flash[store.slot].valid /\ flash[store.slot].sequence = store.sequence
  /\ store.ok /\ store.slot = NoSlot => store.sequence = 0 /\ ~flash[1].valid
  /\ store.ok /\ flash[Target].valid =>
       flash[Target].sequence <= store.sequence + 1

\* A save under way writes the slot that is not in use, which holds nothing
\* valid from the end of the erase until it holds the record.
SaveOK ==
  /\ save.step = "off" => ~store.ok
  /\ save.step \in Saved =>
       /\ store.ok /\ save.target = Target
       /\ save.record = Record(store.sequence + 1, settings)
  /\ save.step = "program" => flash[save.target] \in {Blank, Torn}
  /\ save.step = "verify" => flash[save.target] \in {save.record, Torn}

\* Settings that are not dirty are those in use, and those of any newer
\* record as well.
CleanOK ==
  store.ok /\ ~dirty => /\ InUse = settings
                        /\ Unacknowledged \subseteq {settings}

IInv == /\ TypeOK
        /\ NumbersDiffer
        /\ StoreOK
        /\ SaveOK
        /\ CleanOK

-----------------------------------------------------------------------------
(* What a restart finds                                                    *)

\* What settings_store_init loads from two slots that hold f.
LoadedFrom(f) ==
  LET valid == {s \in Slots : f[s].valid}
  IN  IF valid = {} THEN Default
      ELSE IF valid = Slots
      THEN f[IF f[1].sequence > f[0].sequence THEN 1 ELSE 0].payload
      ELSE f[CHOOSE s \in valid : TRUE].payload

\* f holds the record in use, and a newer one only in the other slot.
Keeps(f) ==
  /\ f \in [Slots -> FlashRecord]
  /\ \A s \in Slots : f[s].valid => f[s].sequence # 0
  /\ f[0].valid /\ f[1].valid => f[0].sequence # f[1].sequence
  /\ store.slot \in Slots =>
       f[store.slot].valid /\ f[store.slot].sequence = store.sequence
  /\ store.slot = NoSlot => store.sequence = 0 /\ ~f[1].valid

\* A save that was not acknowledged has left a record newer than the one in
\* use.
NewerIn(f) == f[Target].valid /\ f[Target].sequence > store.sequence

\* The payload of the record in use.
UsedIn(f) == IF store.slot = NoSlot THEN Default ELSE f[store.slot].payload

\* What a boot would load depends on the flash alone.
LEMMA LoadedIsFrom ==
  /\ Loaded = LoadedFrom(flash)
  /\ Loaded' = LoadedFrom(flash')
<1>1. NoSlot \notin Slots
  BY DEF NoSlot, Slots
<1>2. \A f : LET valid == {s \in Slots : f[s].valid}
             IN  valid # {} => (CHOOSE s \in valid : TRUE) \in Slots
  OBVIOUS
<1>3. QED
  BY <1>1, <1>2 DEF Loaded, Selected, ValidSlots, LoadedFrom, Slots

(***************************************************************************)
(* settings_store_init finds the slot with the highest number.             *)
(***************************************************************************)
LEMMA NewestIsLoaded ==
  ASSUME NEW f \in [Slots -> FlashRecord], NEW s \in Slots, f[s].valid,
         \A t \in Slots : t # s /\ f[t].valid => f[t].sequence < f[s].sequence
  PROVE  LoadedFrom(f) = f[s].payload
<1> DEFINE valid == {t \in Slots : f[t].valid}
<1>1. s \in valid
  OBVIOUS
<1>2. CASE valid = Slots
  <2>1. /\ f[1].sequence \in Nat /\ f[0].sequence \in Nat
        /\ f[0].valid /\ f[1].valid
    BY <1>2 DEF Slots, FlashRecord
  <2>2. (IF f[1].sequence > f[0].sequence THEN 1 ELSE 0) = s
    BY <2>1 DEF Slots
  <2>3. QED
    BY <1>1, <1>2, <2>2 DEF LoadedFrom
<1>3. CASE valid # Slots
  <2>1. valid = {s}
    BY <1>1, <1>3 DEF Slots
  <2>2. (CHOOSE t \in valid : TRUE) = s
    BY <2>1
  <2>3. QED
    BY <1>1, <1>3, <2>2 DEF LoadedFrom
<1>4. QED
  BY <1>2, <1>3

(***************************************************************************)
(* With a store that works, a restart loads the record in use or the newer *)
(* one of an attempt.                                                      *)
(***************************************************************************)
LEMMA RestartLoads ==
  ASSUME store.sequence \in Nat, store.slot \in Slots \cup {NoSlot},
         NEW f, Keeps(f)
  PROVE  /\ LoadedFrom(f) = IF NewerIn(f) THEN f[Target].payload ELSE UsedIn(f)
         /\ {t \in Slots : f[t].valid /\ f[t].sequence > store.sequence}
              = IF NewerIn(f) THEN {Target} ELSE {}
<1>1. /\ f \in [Slots -> FlashRecord]
      /\ \A t \in Slots : f[t].sequence \in Nat
      /\ Slots = {0, 1} /\ NoSlot \notin Slots
      /\ Target \in Slots /\ Target # store.slot
  BY DEF Keeps, FlashRecord, Slots, NoSlot, Target
<1>2. store.slot \in Slots => /\ f[store.slot].valid
                              /\ f[store.slot].sequence = store.sequence
                              /\ \A t \in Slots : t = Target \/ t = store.slot
  BY <1>1 DEF Keeps, Target
<1>3. store.slot = NoSlot => store.sequence = 0 /\ Target = 0 /\ ~f[1].valid
  BY DEF Keeps, Target, NoSlot
<1>4. \A t \in Slots : t # Target /\ f[t].valid => f[t].sequence = store.sequence
  BY <1>1, <1>2, <1>3
<1>5. {t \in Slots : f[t].valid /\ f[t].sequence > store.sequence}
        = IF NewerIn(f) THEN {Target} ELSE {}
  BY <1>1, <1>4 DEF NewerIn
<1>6. CASE NewerIn(f)
  <2>1. \A t \in Slots : t # Target /\ f[t].valid => f[t].sequence < f[Target].sequence
    BY <1>1, <1>4, <1>6 DEF NewerIn
  <2>2. QED
    BY <1>1, <1>5, <1>6, <2>1, NewestIsLoaded DEF NewerIn
<1>7. CASE ~NewerIn(f) /\ store.slot \in Slots
  <2>1. f[Target].valid => f[Target].sequence # store.sequence
    BY <1>1, <1>2, <1>7 DEF Keeps, Target
  <2>2. \A t \in Slots : t # store.slot /\ f[t].valid =>
          f[t].sequence < f[store.slot].sequence
    BY <1>1, <1>2, <1>7, <2>1 DEF NewerIn
  <2>3. LoadedFrom(f) = f[store.slot].payload
    BY <1>1, <1>2, <1>7, <2>2, NewestIsLoaded
  <2>4. QED
    BY <1>1, <1>5, <1>7, <2>3 DEF UsedIn
<1>8. CASE ~NewerIn(f) /\ store.slot = NoSlot
  <2>1. {s \in Slots : f[s].valid} = {}
    BY <1>1, <1>3, <1>8 DEF NewerIn, Keeps
  <2>2. QED
    BY <1>5, <1>8, <2>1 DEF LoadedFrom, UsedIn
<1>9. QED
  BY <1>6, <1>7, <1>8

\* The part of the invariant that says what the flash holds.
Base == TypeOK /\ NumbersDiffer /\ StoreOK

\* What the refinement mapping of SettingsStore is while the store works.
RestartView ==
  store.ok =>
    /\ Loaded = IF NewerIn(flash) THEN flash[Target].payload ELSE InUse
    /\ Unacknowledged =
         (IF NewerIn(flash) THEN {flash[Target].payload} ELSE {})
           \cup (IF save.step \in Saved THEN {save.record.payload} ELSE {})

\* A boot finds one of the payloads the view of the flash allows.
LEMMA RestartFinds == Base => RestartView
<1> SUFFICES ASSUME Base, store.ok
             PROVE  /\ Loaded = IF NewerIn(flash) THEN flash[Target].payload ELSE InUse
                    /\ Unacknowledged =
                         (IF NewerIn(flash) THEN {flash[Target].payload} ELSE {})
                           \cup (IF save.step \in Saved
                                 THEN {save.record.payload} ELSE {})
  BY DEF RestartView
<1>1. /\ store.sequence \in Nat /\ store.slot \in Slots \cup {NoSlot}
      /\ Keeps(flash) /\ UsedIn(flash) = InUse
  BY DEF Base, TypeOK, NumbersDiffer, StoreOK, Keeps, UsedIn, InUse
<1>2. {t \in ValidSlots : flash[t].sequence > store.sequence}
        = IF NewerIn(flash) THEN {Target} ELSE {}
  BY <1>1, RestartLoads DEF ValidSlots
<1>3. QED
  BY <1>1, <1>2, RestartLoads, LoadedIsFrom DEF Unacknowledged, Saved

\* The same of the next state.
LEMMA RestartWillFind == Base' => RestartView'
<1>1. QED
  BY RestartFinds, PTL

-----------------------------------------------------------------------------
\* The erased flash of a new device satisfies the invariant.
LEMMA InitIInv == Init => IInv
<1> SUFFICES ASSUME Init PROVE IInv
  OBVIOUS
<1> USE SettingsAssumption DEF Init, NoStore, NoSave, NoSlot, Blank, Slots
<1>1. TypeOK
  BY DEF TypeOK, FlashRecord, Saved
<1>2. NumbersDiffer /\ StoreOK /\ SaveOK
  BY DEF NumbersDiffer, StoreOK, SaveOK, Saved, Target
<1>3. CleanOK
  BY DEF CleanOK
<1>4. QED
  BY <1>1, <1>2, <1>3 DEF IInv

-----------------------------------------------------------------------------
(* Writing the slot that is not in use                                     *)

(***************************************************************************)
(* Whatever an erase or a program of the target leaves behind, the record  *)
(* in use stays, and a restart loads it or the one being written.          *)
(***************************************************************************)
LEMMA WriteKeeps ==
  ASSUME IInv, save.step \in Saved, NEW r,
         r \in {flash[save.target], Torn, Blank, save.record},
         flash' = [flash EXCEPT ![save.target] = r]
  PROVE  /\ flash' \in [Slots -> FlashRecord]
         /\ NumbersDiffer' /\ Keeps(flash')
         /\ UsedIn(flash') = InUse
         /\ LoadedFrom(flash') \in {InUse} \cup Unacknowledged
         /\ UNCHANGED store =>
              /\ StoreOK' /\ InUse' = InUse
              /\ NewerIn(flash)' =>
                   flash'[Target].payload \in Unacknowledged
<1>1. /\ store.ok /\ save.target = Target
      /\ save.record = Record(store.sequence + 1, settings)
      /\ store.sequence \in Nat /\ store.slot \in Slots \cup {NoSlot}
      /\ Slots = {0, 1} /\ NoSlot \notin Slots
      /\ Target \in Slots /\ Target # store.slot
      /\ flash \in [Slots -> FlashRecord] /\ settings \in Values
  BY DEF IInv, SaveOK, TypeOK, Slots, NoSlot, Target
<1>2. /\ r \in FlashRecord
      /\ r.valid => \/ r = flash[Target] /\ flash[Target].valid
                    \/ r = save.record /\ r.sequence = store.sequence + 1
  <2>1. CASE r = flash[Target]
    BY <1>1, <2>1
  <2>2. CASE r \in {Torn, Blank}
    <3>1. Torn \in FlashRecord /\ ~Torn.valid
      BY SettingsAssumption DEF FlashRecord, Torn
    <3>2. Blank \in FlashRecord /\ ~Blank.valid
      BY SettingsAssumption DEF FlashRecord, Blank
    <3>3. QED
      BY <2>2, <3>1, <3>2
  <2>3. CASE r = save.record
    BY <1>1, <2>3 DEF FlashRecord, Record
  <2>4. QED
    BY <1>1, <2>1, <2>2, <2>3
<1>3. /\ flash' \in [Slots -> FlashRecord]
      /\ flash'[Target] = r
      /\ \A t \in Slots : t # Target => flash'[t] = flash[t]
  BY <1>1, <1>2
<1>4. Keeps(flash)
  BY DEF IInv, TypeOK, NumbersDiffer, StoreOK, Keeps, SaveOK
<1>5. store.slot = NoSlot => Target = 0
  BY DEF Target, NoSlot
<1>6. store.slot \in Slots => flash'[store.slot] = flash[store.slot]
  BY <1>1, <1>3
<1>7. \A s \in Slots : flash'[s].valid => flash'[s].sequence # 0
  BY <1>1, <1>2, <1>3, <1>4 DEF Keeps
<1>8. flash'[0].valid /\ flash'[1].valid => flash'[0].sequence # flash'[1].sequence
  BY <1>1, <1>2, <1>3, <1>4, <1>5 DEF Keeps
<1>9. Keeps(flash') /\ NumbersDiffer'
  <2>1. /\ store.slot \in Slots =>
             flash'[store.slot].valid /\ flash'[store.slot].sequence = store.sequence
        /\ store.slot = NoSlot => store.sequence = 0 /\ ~flash'[1].valid
    BY <1>1, <1>3, <1>4, <1>5, <1>6 DEF Keeps
  <2>2. QED
    BY <1>3, <1>7, <1>8, <2>1 DEF Keeps, NumbersDiffer
<1>10. UsedIn(flash') = InUse
  BY <1>1, <1>6 DEF UsedIn, InUse
<1>11. NewerIn(flash') => flash'[Target].payload \in Unacknowledged
  <2>1. Unacknowledged =
         (IF NewerIn(flash) THEN {flash[Target].payload} ELSE {})
           \cup {save.record.payload}
    BY <1>1, RestartFinds DEF IInv, Base, RestartView
  <2>2. QED
    BY <1>2, <1>3, <2>1 DEF NewerIn
<1>12. LoadedFrom(flash') \in {InUse} \cup Unacknowledged
  BY <1>1, <1>3, <1>9, <1>10, <1>11, RestartLoads
<1>13. ASSUME UNCHANGED store
       PROVE  /\ StoreOK' /\ InUse' = InUse
              /\ NewerIn(flash)' => flash'[Target].payload \in Unacknowledged
  <2>1. Target' = Target
    BY <1>13 DEF Target
  <2>2. flash'[Target].valid => flash'[Target].sequence <= store.sequence + 1
    BY <1>1, <1>2, <1>3 DEF IInv, StoreOK
  <2>3. StoreOK'
    BY <1>9, <1>13, <2>1, <2>2 DEF Keeps, StoreOK, IInv
  <2>4. InUse' = InUse
    BY <1>1, <1>10, <1>13 DEF InUse, UsedIn
  <2>5. QED
    BY <1>11, <1>13, <2>1, <2>3, <2>4 DEF NewerIn
<1>14. QED
  BY <1>3, <1>9, <1>10, <1>12, <1>13

-----------------------------------------------------------------------------
(* The steps                                                               *)

\* The settings are clean in the next state if they were, nothing was added
\* to the attempts, and the record in use is the same.
LEMMA StaysClean ==
  ASSUME IInv, UNCHANGED <<settings, dirty, store>>, InUse' = InUse,
         Unacknowledged' \subseteq Unacknowledged
  PROVE  CleanOK'
<1>1. QED
  BY DEF IInv, CleanOK

(***************************************************************************)
(* An erase or a program that reports success, or fails: the attempts are  *)
(* no more than before, and the record in use is the same.                 *)
(***************************************************************************)
LEMMA FlashStep ==
  ASSUME IInv, TypeOK', save.step \in Saved, NEW r,
         r \in {flash[save.target], Torn, Blank, save.record},
         flash' = [flash EXCEPT ![save.target] = r],
         UNCHANGED <<store, settings, dirty>>,
         save'.step \in Saved => save'.record = save.record
  PROVE  /\ NumbersDiffer' /\ StoreOK' /\ CleanOK'
         /\ InUse' = InUse /\ Unacknowledged' \subseteq Unacknowledged
         /\ Loaded' \in {InUse'} \cup Unacknowledged'
<1>1. /\ NumbersDiffer' /\ StoreOK' /\ InUse' = InUse
      /\ NewerIn(flash)' => flash'[Target].payload \in Unacknowledged
  BY WriteKeeps
<1>2. store.ok /\ store'.ok /\ Target' = Target
  BY DEF IInv, SaveOK, Target
<1>3. RestartView /\ RestartView'
  BY <1>1, RestartFinds, RestartWillFind DEF IInv, Base
<1>4. Unacknowledged' \subseteq Unacknowledged
  BY <1>1, <1>2, <1>3 DEF RestartView
<1>5. Loaded' \in {InUse'} \cup Unacknowledged'
  BY <1>2, <1>3 DEF RestartView
<1>6. QED
  BY <1>1, <1>4, <1>5, StaysClean

\* Erasing or programming the target slot at most settles what a boot may find.
LEMMA EraseKeeps ==
  ASSUME IInv, Erase \/ Program
  PROVE  IInv' /\ Durable!Settle
<1>1. PICK r \in {Torn, Blank, save.record} :
        /\ flash' = [flash EXCEPT ![save.target] = r]
        /\ Erase => r \in {Torn, Blank}
        /\ Program => r \in {Torn, save.record}
  BY DEF Erase, Program
<1>2. /\ UNCHANGED <<faulted, store, settings, dirty, ticks>>
      /\ save.step \in Saved /\ save'.step \in {"program", "verify"}
      /\ save'.target = save.target /\ save'.record = save.record
      /\ Erase => save'.step = "program"
      /\ Program => save'.step = "verify"
  BY DEF Erase, Program, Saved, IInv, TypeOK
<1>3. TypeOK'
  <2>1. flash' \in [Slots -> FlashRecord]
    BY <1>1, <1>2, WriteKeeps
  <2>2. save' \in [step : {"off", "idle"} \cup Saved, target : Slots,
                   record : FlashRecord]
    BY DEF Erase, Program, IInv, TypeOK, Saved
  <2>3. failures' \in Nat
    BY DEF Erase, Program, Fails, IInv, TypeOK
  <2>4. QED
    BY <1>2, <2>1, <2>2, <2>3 DEF IInv, TypeOK
<1>4. /\ NumbersDiffer' /\ StoreOK' /\ CleanOK'
      /\ InUse' = InUse /\ Unacknowledged' \subseteq Unacknowledged
      /\ Loaded' \in {InUse'} \cup Unacknowledged'
  BY <1>1, <1>2, <1>3, FlashStep
<1>5. flash'[save.target] = r
  BY <1>1 DEF IInv, TypeOK
<1>6. SaveOK'
  BY <1>1, <1>2, <1>5 DEF IInv, SaveOK, Saved, Target
<1>7. QED
  BY <1>3, <1>4, <1>6 DEF IInv, Durable!Settle

\* A save that fails or is refused at most settles what a boot may find.
LEMMA RefusalKeeps ==
  ASSUME IInv, FlashError \/ Refused
  PROVE  IInv' /\ Durable!Settle
<1>1. save.step \in Saved /\ faulted' \in BOOLEAN /\ failures' \in Nat
  <2>1. save.step \in Saved
    BY DEF FlashError, Refused, Saved
  <2>2. faulted' \in BOOLEAN
    BY DEF FlashError, Refused, IInv, TypeOK
  <2>3. failures' \in Nat
    BY DEF FlashError, Refused, Fails, IInv, TypeOK
  <2>4. QED
    BY <2>1, <2>2, <2>3
<1>2. PICK r \in {flash[save.target], Torn, Blank, save.record} :
        flash' = [flash EXCEPT ![save.target] = r]
  <2>1. CASE FlashError
    BY <2>1 DEF FlashError, Interrupted
  <2>2. CASE Refused
    <3>1. flash' = [flash EXCEPT ![save.target] = flash[save.target]]
      BY <2>2 DEF Refused, IInv, TypeOK
    <3>2. QED
      BY <3>1
  <2>3. QED
    BY <2>1, <2>2
<1>3. save' = NoSave("idle") /\ UNCHANGED <<store, settings, dirty, ticks>>
  BY DEF FlashError, Refused, SaveRefused
<1>4. TypeOK'
  <2>1. flash' \in [Slots -> FlashRecord]
    BY <1>1, <1>2, WriteKeeps
  <2>2. save' \in [step : {"off", "idle"} \cup Saved, target : Slots,
                   record : FlashRecord]
    BY <1>3, SettingsAssumption DEF NoSave, Blank, FlashRecord, Slots
  <2>3. QED
    BY <1>1, <1>3, <2>1, <2>2 DEF IInv, TypeOK
<1>5. save'.step = "idle" /\ save'.step \notin Saved
  BY <1>3 DEF NoSave, Saved
<1>6. /\ NumbersDiffer' /\ StoreOK' /\ CleanOK'
      /\ InUse' = InUse /\ Unacknowledged' \subseteq Unacknowledged
      /\ Loaded' \in {InUse'} \cup Unacknowledged'
  BY <1>1, <1>2, <1>3, <1>4, <1>5, FlashStep
<1>7. SaveOK'
  BY <1>5 DEF SaveOK, Saved
<1>8. QED
  BY <1>4, <1>6, <1>7 DEF IInv, Durable!Settle

(***************************************************************************)
(* A record read back as valid is the one that was written, of the         *)
(* settings in use: the save acknowledges exactly it.                      *)
(***************************************************************************)
LEMMA VerifyKeeps ==
  ASSUME IInv, Verify
  PROVE  IInv' /\ (Durable!Settle \/ Durable!Acknowledge)
<1> DEFINE read == flash[save.target]
<1>1. /\ save.step \in Saved /\ save.step = "verify"
      /\ store.ok /\ save.target = Target /\ Target \in Slots
      /\ save.record = Record(store.sequence + 1, settings)
      /\ read \in {save.record, Torn}
      /\ UNCHANGED <<flash, faulted, failures>>
  BY DEF Verify, Saved, IInv, SaveOK, Target, Slots
<1>2. CASE read.valid /\ read.sequence = save.record.sequence
  <2>1. /\ store' = [store EXCEPT !.slot = Target, !.sequence = store.sequence + 1]
        /\ dirty' = FALSE /\ ticks' = 0 /\ save' = NoSave("idle")
        /\ UNCHANGED settings
        /\ read = save.record
    <3>1. read = save.record
      BY <1>1, <1>2 DEF Torn
    <3>2. save.record.sequence = store.sequence + 1
      BY <1>1 DEF Record
    <3>3. QED
      BY <1>1, <1>2, <3>1, <3>2 DEF Verify
  <2>2. /\ store.sequence \in Nat /\ store.slot \in Slots \cup {NoSlot}
        /\ store'.sequence = store.sequence + 1 /\ store'.slot = Target
        /\ store'.ok /\ store' \in [ok : BOOLEAN, slot : Slots \cup {NoSlot},
                                    sequence : Nat]
    <3>1. store \in [ok : BOOLEAN, slot : Slots \cup {NoSlot}, sequence : Nat]
      BY DEF IInv, TypeOK
    <3>2. store.sequence + 1 \in Nat /\ Target \in Slots \cup {NoSlot}
      BY <1>1, <3>1
    <3>3. QED
      BY <1>1, <2>1, <3>1, <3>2
  <2>3. save' \in [step : {"off", "idle"} \cup Saved, target : Slots,
                   record : FlashRecord] /\ save'.step = "idle"
    BY <2>1, SettingsAssumption DEF NoSave, Blank, FlashRecord, Slots
  <2>4. TypeOK'
    BY <1>1, <2>1, <2>2, <2>3 DEF IInv, TypeOK
  <2>5. NumbersDiffer'
    BY <1>1 DEF IInv, NumbersDiffer
  <2>6. /\ flash'[store'.slot].valid
        /\ flash'[store'.slot].sequence = store'.sequence
        /\ flash'[store'.slot].payload = settings
    BY <1>1, <1>2, <2>1, <2>2 DEF Record
  <2>7. /\ Target' \in Slots /\ Target' # Target
        /\ Slots = {0, 1} /\ NoSlot \notin Slots
        /\ flash[Target'].valid => flash[Target'].sequence = store.sequence
    <3>1. Target' = IF Target = 0 THEN 1 ELSE 0
      BY <2>2 DEF Target
    <3>2. CASE store.slot = NoSlot
      BY <1>1, <3>1, <3>2 DEF Target, Slots, NoSlot, IInv, StoreOK
    <3>3. CASE store.slot \in Slots
      BY <3>1, <3>3 DEF Target, Slots, NoSlot, IInv, StoreOK
    <3>4. QED
      BY <2>2, <3>2, <3>3
  <2>8. StoreOK'
    BY <1>1, <2>2, <2>6, <2>7 DEF StoreOK
  <2>9. ~NewerIn(flash)'
    BY <1>1, <2>2, <2>7 DEF NewerIn
  <2>10. Unacknowledged' = {} /\ Loaded' = InUse'
    BY <2>2, <2>3, <2>4, <2>5, <2>8, <2>9, RestartWillFind DEF Base, RestartView, Saved
  <2>11. InUse' = settings'
    BY <2>1, <2>2, <2>6, <2>7, <1>1 DEF InUse
  <2>12. SaveOK' /\ CleanOK'
    BY <2>3, <2>10, <2>11 DEF SaveOK, CleanOK, Saved
  <2>13. Loaded' = Loaded
    BY <1>1, LoadedIsFrom
  <2>14. Loaded \in Unacknowledged
    <3>1. settings \in Unacknowledged
      BY <1>1 DEF Unacknowledged, Record
    <3>2. QED
      BY <2>1, <2>10, <2>11, <2>13, <3>1
  <2>15. QED
    BY <2>4, <2>5, <2>8, <2>10, <2>12, <2>13, <2>14 DEF IInv, Durable!Acknowledge
<1>3. CASE ~(read.valid /\ read.sequence = save.record.sequence)
  <2>1. save' = NoSave("idle") /\ UNCHANGED <<store, settings, dirty, ticks>>
    BY <1>3 DEF Verify, SaveRefused
  <2>2. flash' = [flash EXCEPT ![save.target] = flash[save.target]]
    BY <1>1 DEF IInv, TypeOK
  <2>3. save' \in [step : {"off", "idle"} \cup Saved, target : Slots,
                   record : FlashRecord] /\ save'.step = "idle"
    BY <2>1, SettingsAssumption DEF NoSave, Blank, FlashRecord, Slots
  <2>4. TypeOK'
    BY <1>1, <2>1, <2>3 DEF IInv, TypeOK
  <2>5. /\ NumbersDiffer' /\ StoreOK' /\ CleanOK'
        /\ InUse' = InUse /\ Unacknowledged' \subseteq Unacknowledged
        /\ Loaded' \in {InUse'} \cup Unacknowledged'
    BY <1>1, <2>1, <2>2, <2>3, <2>4, FlashStep DEF Saved
  <2>6. SaveOK'
    BY <2>3 DEF SaveOK, Saved
  <2>7. QED
    BY <2>4, <2>5, <2>6 DEF IInv, Durable!Settle
<1>4. QED
  BY <1>2, <1>3

(***************************************************************************)
(* Starting loads what the flash holds, and nothing is pending.            *)
(***************************************************************************)
LEMMA BootKeeps ==
  ASSUME IInv, Boot \/ BootFails
  PROVE  IInv' /\ (Durable!Restart \/ UNCHANGED Durable!vars)
<1>1. /\ ~store.ok /\ flash' = flash /\ faulted' \in BOOLEAN
      /\ dirty' = FALSE /\ ticks' = 0 /\ save' = NoSave("idle")
      /\ flash \in [Slots -> FlashRecord]
  BY DEF Boot, BootFails, IInv, SaveOK, TypeOK
<1>2. /\ save'.step = "idle" /\ failures' \in Nat
      /\ save' \in [step : {"off", "idle"} \cup Saved, target : Slots,
                    record : FlashRecord]
  <2>1. failures' \in Nat
    BY DEF Boot, BootFails, Fails, IInv, TypeOK
  <2>2. QED
    BY <1>1, <2>1, SettingsAssumption DEF NoSave, Blank, FlashRecord, Slots
<1>3. InUse = Loaded /\ Unacknowledged = {} /\ Loaded' = Loaded
  BY <1>1, LoadedIsFrom DEF InUse, Unacknowledged
<1>4. NumbersDiffer'
  BY <1>1 DEF IInv, NumbersDiffer
<1>5. CASE Boot
  <2>1. /\ Selected \in Slots \cup {NoSlot}
        /\ Selected = NoSlot => ValidSlots = {}
        /\ Selected \in Slots =>
             /\ flash[Selected].valid
             /\ \A t \in Slots : t # Selected /\ flash[t].valid =>
                  flash[t].sequence < flash[Selected].sequence
    <3>1. CASE ValidSlots = {}
      BY <3>1 DEF Selected, Slots, NoSlot
    <3>2. CASE ValidSlots = Slots
      <4>1. Selected = IF flash[1].sequence > flash[0].sequence THEN 1 ELSE 0
        BY <3>2 DEF Selected, Slots
      <4>2. QED
        BY <1>1, <3>2, <4>1 DEF Slots, NoSlot, ValidSlots, FlashRecord, IInv,
           NumbersDiffer
    <3>3. CASE ValidSlots # {} /\ ValidSlots # Slots
      <4>1. PICK s \in Slots : ValidSlots = {s}
        BY <3>3 DEF ValidSlots, Slots
      <4>2. Selected = s
        BY <3>3, <4>1 DEF Selected
      <4>3. QED
        BY <4>1, <4>2 DEF ValidSlots, Slots, NoSlot
    <3>4. QED
      BY <3>1, <3>2, <3>3
  <2>2. store' = [ok |-> TRUE, slot |-> Selected,
                  sequence |-> IF Selected = NoSlot THEN 0
                               ELSE flash[Selected].sequence]
    BY <1>5 DEF Boot
  <2>3. store'.sequence \in Nat /\ store'.slot = Selected /\ store'.ok
    BY <1>1, <2>1, <2>2 DEF FlashRecord
  <2>4. store' \in [ok : BOOLEAN, slot : Slots \cup {NoSlot}, sequence : Nat]
    BY <2>1, <2>2, <2>3
  <2>5. settings' = Loaded /\ Loaded \in Values
    BY <1>1, <1>5, <2>1, SettingsAssumption DEF Boot, Loaded, FlashRecord
  <2>6. TypeOK'
    BY <1>1, <1>2, <2>4, <2>5 DEF TypeOK
  <2>7. Target' \in Slots /\ Target' # Selected
    BY <2>3 DEF Target, Slots, NoSlot
  <2>8. StoreOK'
    <3>1. flash[Target'].valid => flash[Target'].sequence <= store'.sequence + 1
      BY <1>1, <2>1, <2>2, <2>3, <2>7 DEF ValidSlots, FlashRecord
    <3>2. QED
      BY <1>1, <2>1, <2>2, <2>3, <3>1 DEF StoreOK, ValidSlots, Slots, NoSlot
  <2>9. ~NewerIn(flash)'
    BY <1>1, <2>1, <2>2, <2>3, <2>7 DEF NewerIn, ValidSlots, FlashRecord
  <2>10. Loaded' = InUse' /\ Unacknowledged' = {}
    BY <1>2, <1>4, <2>3, <2>6, <2>8, <2>9, RestartWillFind DEF Base, RestartView, Saved
  <2>11. SaveOK' /\ CleanOK'
    BY <1>2, <1>3, <2>5, <2>10 DEF SaveOK, CleanOK, Saved
  <2>12. QED
    BY <1>3, <1>4, <2>6, <2>8, <2>10, <2>11 DEF IInv, Durable!vars
<1>6. CASE BootFails
  <2>1. store' = NoStore /\ ~store'.ok /\ settings' = Default
    BY <1>6 DEF BootFails, NoStore
  <2>2. TypeOK'
    BY <1>1, <1>2, <2>1, SettingsAssumption DEF TypeOK, NoStore
  <2>3. StoreOK' /\ SaveOK' /\ CleanOK'
    BY <1>2, <2>1 DEF StoreOK, SaveOK, CleanOK, NoStore, Slots, NoSlot, Saved
  <2>4. InUse' = Loaded' /\ Unacknowledged' = {}
    BY <2>1 DEF InUse, Unacknowledged
  <2>5. QED
    BY <1>3, <1>4, <2>2, <2>3, <2>4 DEF IInv, Durable!vars
<1>7. QED
  BY <1>5, <1>6

(***************************************************************************)
(* The power fails: whatever the write under way leaves, a restart finds   *)
(* the record in use or an attempt.                                        *)
(***************************************************************************)
LEMMA PowerLossKeeps ==
  ASSUME IInv, PowerLoss
  PROVE  IInv' /\ Durable!Restart
<1>1. /\ save' = NoSave("off") /\ store' = NoStore /\ ~store'.ok
      /\ settings' = Default /\ dirty' = FALSE /\ ticks' = 0 /\ faulted' = FALSE
      /\ UNCHANGED failures
  BY DEF PowerLoss, NoStore
<1>2. /\ flash' \in [Slots -> FlashRecord]
      /\ NumbersDiffer'
      /\ Loaded' \in {InUse} \cup Unacknowledged
  <2>1. CASE save.step \in Saved
    <3>1. PICK r \in {flash[save.target], Torn, Blank, save.record} :
            flash' = [flash EXCEPT ![save.target] = r]
      BY DEF PowerLoss, Interrupted
    <3>2. QED
      BY <2>1, <3>1, WriteKeeps, LoadedIsFrom
  <2>2. CASE save.step \notin Saved
    <3>1. flash' = flash
      BY <2>2 DEF PowerLoss, Interrupted, Saved, IInv, TypeOK
    <3>2. NumbersDiffer' /\ Loaded' = Loaded
      BY <3>1, LoadedIsFrom DEF IInv, NumbersDiffer
    <3>3. CASE store.ok
      BY <3>1, <3>2, <3>3, RestartFinds DEF RestartView, Base, IInv, TypeOK
    <3>4. CASE ~store.ok
      BY <3>1, <3>2, <3>4 DEF InUse, IInv, TypeOK
    <3>5. QED
      BY <3>3, <3>4
  <2>3. QED
    BY <2>1, <2>2
<1>3. /\ save'.step = "off"
      /\ save' \in [step : {"off", "idle"} \cup Saved, target : Slots,
                    record : FlashRecord]
  BY <1>1, SettingsAssumption DEF NoSave, Blank, FlashRecord, Slots
<1>4. TypeOK'
  BY <1>1, <1>2, <1>3, SettingsAssumption DEF IInv, TypeOK, NoStore
<1>5. StoreOK' /\ SaveOK' /\ CleanOK'
  BY <1>1, <1>3 DEF StoreOK, SaveOK, CleanOK, NoStore, Slots, NoSlot, Saved
<1>6. InUse' = Loaded' /\ Unacknowledged' = {}
  BY <1>1 DEF InUse, Unacknowledged
<1>7. QED
  BY <1>2, <1>4, <1>5, <1>6 DEF IInv, Durable!Restart

(***************************************************************************)
(* Steps that touch neither the flash nor the store, nor the save: changes *)
(* of the settings mark them dirty.                                        *)
(***************************************************************************)
LEMMA IdleKeeps ==
  ASSUME IInv, TypeOK', UNCHANGED <<flash, store, save>>,
         \/ save.step = "idle" /\ dirty'
         \/ settings' = settings /\ (dirty' = dirty \/ ~store.ok)
  PROVE  IInv' /\ UNCHANGED Durable!vars
<1>1. NumbersDiffer' /\ StoreOK'
  BY DEF IInv, NumbersDiffer, StoreOK, Target
<1>2. SaveOK'
  BY DEF IInv, SaveOK, Saved, Target
<1>3. Loaded' = Loaded /\ InUse' = InUse
  BY DEF Loaded, Selected, ValidSlots, InUse
<1>4. Unacknowledged' = Unacknowledged
  BY DEF Unacknowledged, ValidSlots
<1>5. CleanOK'
  BY <1>3, <1>4 DEF IInv, CleanOK
<1>6. QED
  BY <1>1, <1>2, <1>3, <1>4, <1>5 DEF IInv, Durable!vars

(***************************************************************************)
(* A save begins: the settings in use become an attempt.                   *)
(***************************************************************************)
LEMMA SaveNowKeeps ==
  ASSUME IInv, SaveNow
  PROVE  IInv' /\ (UNCHANGED Durable!vars \/ \E v \in Values : Durable!Attempt(v))
<1>1. CASE ~store.ok
  <2>1. /\ UNCHANGED <<flash, faulted, store, settings, save, failures>>
        /\ dirty' = FALSE /\ ticks' = 0
    BY <1>1 DEF SaveNow
  <2>2. TypeOK'
    BY <2>1 DEF IInv, TypeOK
  <2>3. QED
    BY <1>1, <2>1, <2>2, IdleKeeps
<1>2. CASE store.ok
  <2>1. /\ save.step = "idle"
        /\ save' = [step |-> "erase", target |-> Target,
                    record |-> Record(store.sequence + 1, settings)]
        /\ UNCHANGED <<flash, faulted, store, settings, dirty, ticks, failures>>
    BY <1>2 DEF SaveNow
  <2>2. settings \in Values /\ store.sequence + 1 \in Nat /\ Target \in Slots
    BY DEF IInv, TypeOK, Target, Slots
  <2>3. Record(store.sequence + 1, settings) \in FlashRecord
    BY <2>2 DEF Record, FlashRecord
  <2>4. save' \in [step : {"off", "idle"} \cup Saved, target : Slots,
                   record : FlashRecord]
    BY <2>1, <2>2, <2>3 DEF Saved
  <2>5. TypeOK'
    BY <2>1, <2>4 DEF IInv, TypeOK
  <2>6. NumbersDiffer' /\ StoreOK'
    BY <2>1 DEF IInv, NumbersDiffer, StoreOK, Target
  <2>7. SaveOK'
    BY <1>2, <2>1 DEF SaveOK, Target
  <2>8. Loaded' = Loaded /\ InUse' = InUse
    BY <2>1 DEF Loaded, Selected, ValidSlots, InUse
  <2>9. Unacknowledged' = Unacknowledged \cup {settings}
    BY <1>2, <2>1 DEF Unacknowledged, ValidSlots, Record
  <2>10. CleanOK'
    BY <2>1, <2>8, <2>9 DEF IInv, CleanOK
  <2>11. QED
    BY <2>2, <2>5, <2>6, <2>7, <2>8, <2>9, <2>10 DEF IInv, Durable!Attempt
<1>3. QED
  BY <1>1, <1>2

-----------------------------------------------------------------------------
\* Every step keeps the invariant and is a step of the durable setting.
LEMMA NextKeeps ==
  IInv /\ [Next]_vars => IInv' /\ [Durable!Next]_(Durable!vars)
<1> SUFFICES ASSUME IInv, [Next]_vars
             PROVE  IInv' /\ [Durable!Next]_(Durable!vars)
  OBVIOUS
<1>1. CASE Boot \/ BootFails
  BY <1>1, BootKeeps DEF Durable!Next
<1>2. ASSUME NEW v \in Values, NEW immediate \in BOOLEAN, Change(v, immediate)
      PROVE  IInv' /\ UNCHANGED Durable!vars
  <2>1. TypeOK'
    BY <1>2, SettingsAssumption DEF Change, IInv, TypeOK
  <2>2. QED
    BY <1>2, <2>1, IdleKeeps DEF Change
<1>3. CASE SaveNow
  BY <1>3, SaveNowKeeps DEF Durable!Next
<1>4. CASE Tick
  <2>1. CASE ticks > 0 /\ CountDown
    <3>1. TypeOK'
      BY <2>1 DEF CountDown, IInv, TypeOK
    <3>2. QED
      BY <2>1, <3>1, IdleKeeps DEF CountDown
  <2>2. QED
    BY <1>4, <2>1, SaveNowKeeps DEF Tick, Durable!Next
<1>5. CASE Erase \/ Program
  BY <1>5, EraseKeeps DEF Durable!Next
<1>6. CASE FlashError \/ Refused
  BY <1>6, RefusalKeeps DEF Durable!Next
<1>7. CASE Verify
  BY <1>7, VerifyKeeps DEF Durable!Next
<1>8. CASE OtherFlashError
  <2>1. TypeOK'
    BY <1>8 DEF OtherFlashError, Fails, IInv, TypeOK
  <2>2. QED
    BY <1>8, <2>1, IdleKeeps DEF OtherFlashError
<1>9. CASE PowerLoss
  BY <1>9, PowerLossKeeps DEF Durable!Next
<1>10. CASE UNCHANGED vars
  <2>1. TypeOK'
    BY <1>10 DEF vars, IInv, TypeOK
  <2>2. QED
    BY <1>10, <2>1, IdleKeeps DEF vars
<1>11. QED
  BY <1>1, <1>2, <1>3, <1>4, <1>5, <1>6, <1>7, <1>8, <1>9, <1>10 DEF Next, Saving

\* The inductive invariant holds in every reachable state.
LEMMA IInvHolds == Spec => []IInv
<1>1. IInv /\ [Next]_vars => IInv'
  BY NextKeeps
<1>2. QED
  BY InitIInv, <1>1, PTL DEF Spec

-----------------------------------------------------------------------------
(***************************************************************************)
(* The flash, the store and the save keep their types.                     *)
(***************************************************************************)
THEOREM TypeCorrect == Spec => []TypeOK
<1>1. IInv => TypeOK
  BY DEF IInv
<1>2. QED
  BY <1>1, IInvHolds, PTL

(***************************************************************************)
(* Settings that settings_persistence.c does not hold dirty are the ones a *)
(* restart loads, whatever failed before.                                  *)
(***************************************************************************)
THEOREM CleanMeansStoredHolds == Spec => []CleanMeansStored
<1>1. IInv => CleanMeansStored
  <2> SUFFICES ASSUME IInv, store.ok, ~dirty PROVE Loaded = settings
    BY DEF CleanMeansStored
  <2>1. Loaded \in {InUse} \cup Unacknowledged
    BY RestartFinds DEF RestartView, IInv, Base
  <2>2. QED
    BY <2>1 DEF IInv, CleanOK
<1>2. QED
  BY <1>1, IInvHolds, PTL

(***************************************************************************)
(* settings_store.c over a flash that fails and a supply that goes behaves *)
(* as one atomic cell: a restart finds the last value acknowledged or one  *)
(* attempted since.                                                        *)
(***************************************************************************)
THEOREM OneValueKept == Spec => KeepsOneValue
<1>1. Init => Durable!Init
  <2> SUFFICES ASSUME Init PROVE Durable!Init
    OBVIOUS
  <2>1. ValidSlots = {} /\ ~store.ok
    BY DEF Init, ValidSlots, Blank, NoStore
  <2>2. Loaded = Default /\ InUse = Default /\ Unacknowledged = {}
    BY <2>1 DEF Loaded, Selected, InUse, Unacknowledged
  <2>3. QED
    BY <2>2, SettingsAssumption DEF Durable!Init
<1>2. QED
  BY <1>1, NextKeeps, IInvHolds, PTL DEF Spec, KeepsOneValue, Durable!Spec

-----------------------------------------------------------------------------
(* Fat32Card. Walks along the links, and the chain that Chain chooses.     *)

\* A set of naturals that is not empty has a least element.
LEMMA LeastOf ==
  ASSUME NEW S \in SUBSET Nat, S # {}
  PROVE  \E n \in S : \A m \in S : n <= m
<1>1. PICK n \in S : \A m \in S : ~(<<m, n>> \in OpToRel(<, Nat))
  <2>1. IsWellFoundedOn(OpToRel(<, Nat), Nat)
    BY NatLessThanWellFounded
  <2> QED BY <2>1, WFMin
<1>2. \A m \in S : ~(m < n)
  BY <1>1 DEF OpToRel
<1> QED BY <1>2

\* Min of FiniteSetsExt is that element.
LEMMA MinIsLeast ==
  ASSUME NEW S \in SUBSET Nat, S # {}
  PROVE  Min(S) \in S /\ \A m \in S : Min(S) <= m
<1>1. \E n \in S : \A m \in S : n <= m
  BY LeastOf
<1> QED BY <1>1 DEF Min

Links == Clusters \cup {Free, EOC}
Continues(f, w) == f[w[Len(w)]] \in Clusters /\ Len(w) < LastCluster
Step(f, w) == Append(w, f[w[Len(w)]])
Walks(f, w) ==
  {s \in Seq(Clusters) :
     /\ Len(w) <= Len(s)
     /\ \A i \in 1..Len(w) : s[i] = w[i]
     /\ \A i \in Len(w)..(Len(s) - 1) :
          i < LastCluster /\ f[s[i]] \in Clusters /\ s[i + 1] = f[s[i]]
     /\ ~Continues(f, s)}
ChainIn(f, c) ==
    LET walk[w \in Seq(Clusters)] ==
          LET next == f[w[Len(w)]]
          IN  IF next \in Clusters /\ Len(w) < LastCluster
              THEN walk[Append(w, next)] ELSE w
    IN  walk[<<c>>]

\* A walk that stops is the only one of its kind.
LEMMA StoppedWalk ==
  ASSUME Fat32Assumption, NEW f, NEW w \in Seq(Clusters), w # <<>>, ~Continues(f, w)
  PROVE  Walks(f, w) = {w}
<1>1. w \in Walks(f, w)
  BY DEF Walks
<1>2. ASSUME NEW s \in Walks(f, w)
      PROVE  s = w
  <2>1. CASE Len(s) > Len(w)
    <3>1. Len(w) < LastCluster /\ f[s[Len(w)]] \in Clusters
      BY <2>1 DEF Walks
    <3>2. s[Len(w)] = w[Len(w)]
      BY DEF Walks
    <3> QED BY <3>1, <3>2 DEF Continues
  <2>2. CASE Len(s) = Len(w)
    BY <2>2 DEF Walks
  <2> QED BY <2>1, <2>2 DEF Walks
<1> QED BY <1>1, <1>2

\* A walk that goes on is any of those of one more cluster.
LEMMA LongerWalk ==
  ASSUME Fat32Assumption, NEW f, NEW w \in Seq(Clusters), w # <<>>, Continues(f, w)
  PROVE  Step(f, w) \in Seq(Clusters) /\ Step(f, w) # <<>>
         /\ Walks(f, w) = Walks(f, Step(f, w))
<1> DEFINE u == Step(f, w)
<1>1. u \in Seq(Clusters) /\ u # <<>> /\ Len(u) = Len(w) + 1
      /\ (\A i \in 1..Len(w) : u[i] = w[i]) /\ u[Len(w) + 1] = f[w[Len(w)]]
  BY DEF Step, Continues
<1>2. Len(w) \in Nat \ {0}
  OBVIOUS
<1> HIDE DEF u
<1>3. ASSUME NEW s \in Walks(f, w)
      PROVE  s \in Walks(f, u)
  <2>1. s[Len(w)] = w[Len(w)]
    BY <1>2 DEF Walks
  <2>2. Len(s) > Len(w)
    <3> SUFFICES ASSUME Len(s) = Len(w)
                 PROVE  FALSE
      BY DEF Walks
    <3> QED BY <2>1 DEF Continues, Walks
  <2>3. s[Len(w) + 1] = f[s[Len(w)]]
    BY <1>2, <2>2 DEF Walks
  <2>4. \A i \in 1..Len(u) : s[i] = u[i]
    BY <1>1, <1>2, <2>1, <2>3 DEF Walks
  <2> QED BY <1>1, <1>2, <2>2, <2>4 DEF Walks
<1>4. ASSUME NEW s \in Walks(f, u)
      PROVE  s \in Walks(f, w)
  <2>1. \A i \in 1..Len(w) : s[i] = w[i]
    BY <1>1, <1>2 DEF Walks
  <2>2. s[Len(w) + 1] = f[s[Len(w)]] /\ s[Len(w)] = w[Len(w)]
    BY <1>1, <1>2 DEF Walks
  <2>3. f[s[Len(w)]] \in Clusters /\ Len(w) < LastCluster
    BY <2>2 DEF Continues
  <2> QED BY <1>1, <1>2, <2>1, <2>2, <2>3 DEF Walks
<1> QED BY <1>1, <1>3, <1>4 DEF u

\* What follows the FAT from a cluster, and stops where there is no link to
\* follow or where it has made as many steps as there can be clusters.
IsChain(f, c, s) ==
  /\ s \in Seq(Clusters) /\ Len(s) \in 1..LastCluster /\ s[1] = c
  /\ \A i \in 1..(Len(s) - 1) : f[s[i]] \in Clusters /\ s[i + 1] = f[s[i]]
  /\ f[s[Len(s)]] \notin Clusters \/ Len(s) = LastCluster

\* The recursive definition of Chain has a solution, and each of its
\* solutions walks the links.
LEMMA ChainIsChain ==
  ASSUME Fat32Assumption, NEW f, NEW c \in Clusters
  PROVE  IsChain(f, c, ChainIn(f, c))
<1> DEFINE Body(h, w) == IF Continues(f, w) THEN h[Step(f, w)] ELSE w
           walk == CHOOSE h : h = [w \in Seq(Clusters) |-> Body(h, w)]
           some == [w \in Seq(Clusters) |-> CHOOSE s : s \in Walks(f, w)]
           sol == [w \in Seq(Clusters) |->
                     IF w = <<>> THEN Body(some, w) ELSE some[w]]
<1>1. ChainIn(f, c) = walk[<<c>>]
  BY DEF ChainIn, Continues, Step
<1>2. \E h : h = [w \in Seq(Clusters) |-> Body(h, w)]
  <2>1. ASSUME NEW w \in Seq(Clusters)
        PROVE  sol[w] = Body(sol, w)
    <3>1. CASE w = <<>>
      <4>1. CASE Continues(f, w)
        <5>1. Step(f, w) \in Seq(Clusters) /\ Step(f, w) # <<>>
          BY <4>1 DEF Step, Continues
        <5> QED BY <3>1, <4>1, <5>1
      <4> QED BY <3>1, <4>1
    <3>2. CASE w # <<>> /\ Continues(f, w)
      BY <3>2, LongerWalk
    <3>3. CASE w # <<>> /\ ~Continues(f, w)
      BY <3>3, StoppedWalk
    <3> QED BY <3>1, <3>2, <3>3
  <2>2. sol = [w \in Seq(Clusters) |-> sol[w]]
    OBVIOUS
  <2> HIDE DEF sol
  <2>3. sol = [w \in Seq(Clusters) |-> Body(sol, w)]
    BY <2>1, <2>2, Zenon
  <2> QED BY <2>3
<1>3. walk = [w \in Seq(Clusters) |-> Body(walk, w)]
  BY <1>2
<1> HIDE DEF walk, sol, some
<1>4. \A w \in Seq(Clusters) : walk[w] = Body(walk, w)
  BY <1>3
<1> DEFINE Bad == {n \in Nat : \E w \in Seq(Clusters) :
                     w # <<>> /\ Len(w) + n >= LastCluster /\ walk[w] \notin Walks(f, w)}
<1>5. Bad = {}
  <2> SUFFICES ASSUME Bad # {}
               PROVE  FALSE
    OBVIOUS
  <2>1. PICK n \in Bad : \A m \in Bad : n <= m
    <3>1. Bad \in SUBSET Nat
      OBVIOUS
    <3> HIDE DEF Bad
    <3> QED BY <3>1, LeastOf
  <2>2. PICK w \in Seq(Clusters) :
          w # <<>> /\ Len(w) + n >= LastCluster /\ walk[w] \notin Walks(f, w)
    OBVIOUS
  <2>3. Continues(f, w)
    <3> SUFFICES ASSUME ~Continues(f, w)
                 PROVE  FALSE
      OBVIOUS
    <3>1. walk[w] = w
      BY <1>4
    <3> QED BY <2>2, <3>1, StoppedWalk
  <2>4. walk[w] = walk[Step(f, w)]
    BY <1>4, <2>3
  <2>5. Step(f, w) \in Seq(Clusters) /\ Step(f, w) # <<>>
        /\ Walks(f, w) = Walks(f, Step(f, w)) /\ Len(Step(f, w)) = Len(w) + 1
    BY <2>2, <2>3, LongerWalk DEF Step
  <2>6. n - 1 \in Nat /\ Len(Step(f, w)) + (n - 1) >= LastCluster
    BY <2>2, <2>3, <2>5 DEF Continues, Fat32Assumption
  <2>7. n - 1 \in Bad
    BY <2>2, <2>4, <2>5, <2>6
  <2>8. n <= n - 1 /\ n \in Nat
    BY <2>1, <2>7
  <2> HIDE DEF Bad
  <2> QED BY <2>8
<1>6. walk[<<c>>] \in Walks(f, <<c>>)
  <2>1. <<c>> \in Seq(Clusters) /\ <<c>> # <<>> /\ Len(<<c>>) + LastCluster >= LastCluster
    BY DEF Fat32Assumption
  <2>2. LastCluster \in Nat
    BY DEF Fat32Assumption
  <2> QED BY <1>5, <2>1, <2>2
<1>7. ASSUME NEW s \in Walks(f, <<c>>)
      PROVE  IsChain(f, c, s)
  <2>1. s \in Seq(Clusters) /\ Len(s) >= 1 /\ s[1] = c /\ ~Continues(f, s)
        /\ \A i \in 1..(Len(s) - 1) :
             i < LastCluster /\ f[s[i]] \in Clusters /\ s[i + 1] = f[s[i]]
    BY DEF Walks
  <2>2. LastCluster \in Nat /\ LastCluster >= 2
    BY DEF Fat32Assumption
  <2>3. Len(s) <= LastCluster
    <3>1. CASE Len(s) = 1
      BY <2>2, <3>1
    <3>2. CASE Len(s) > 1
      <4>1. Len(s) - 1 \in 1..(Len(s) - 1)
        BY <2>1, <3>2
      <4> QED BY <2>1, <2>2, <4>1
    <3> QED BY <2>1, <3>1, <3>2
  <2> QED BY <2>1, <2>2, <2>3 DEF IsChain, Continues
<1> QED BY <1>1, <1>6, <1>7

-----------------------------------------------------------------------------
(* Fat32Card. Chains that start where no link leads.                       *)

NoLinkTo(f, c) == \A x \in Clusters : f[x] # c
\* The links of the FAT: no two lead to the same cluster, none to a free one
\* and none to the first of the root.
LinksOK(f) ==
  /\ f \in [Clusters -> Links]
  /\ \A x, y \in Clusters : f[x] = f[y] /\ f[x] \in Clusters => x = y
  /\ \A x \in Clusters : f[x] \in Clusters => f[f[x]] # Free
  /\ NoLinkTo(f, Root)

\* The chain has its clusters where its links are.
LEMMA ChainElements ==
  ASSUME Fat32Assumption, NEW f, NEW c, NEW s, IsChain(f, c, s)
  PROVE  /\ DOMAIN s = 1..Len(s) /\ Len(s) \in Nat \ {0} /\ Len(s) <= LastCluster
         /\ s[1] = c /\ \A i \in 1..Len(s) : s[i] \in Clusters
         /\ \A i \in 1..Len(s) : i # 1 => i - 1 \in 1..Len(s) /\ f[s[i - 1]] = s[i]
<1>1. /\ DOMAIN s = 1..Len(s) /\ Len(s) \in Nat \ {0} /\ Len(s) <= LastCluster
      /\ s[1] = c /\ \A i \in 1..Len(s) : s[i] \in Clusters
  BY DEF IsChain, Fat32Assumption
<1>2. ASSUME NEW i \in 1..Len(s), i # 1
      PROVE  i - 1 \in 1..Len(s) /\ f[s[i - 1]] = s[i]
  <2>1. i - 1 \in 1..(Len(s) - 1) /\ (i - 1) + 1 = i
    BY <1>1, <1>2
  <2>2. s[(i - 1) + 1] = f[s[i - 1]]
    BY <2>1 DEF IsChain
  <2> QED BY <1>1, <2>1, <2>2
<1> QED BY <1>1, <1>2

\* Two chains never meet when no link leads to where either starts.
LEMMA ChainsApart ==
  ASSUME Fat32Assumption, NEW f, LinksOK(f), NEW c, NEW s, IsChain(f, c, s), NoLinkTo(f, c),
         NEW d, NEW t, IsChain(f, d, t), NoLinkTo(f, d), c # d
  PROVE  \A i \in 1..Len(s), j \in 1..Len(t) : s[i] # t[j]
<1> DEFINE Met == {i \in 1..Len(s) : \E j \in 1..Len(t) : s[i] = t[j]}
<1> SUFFICES ASSUME Met # {}
             PROVE  FALSE
  OBVIOUS
<1>1. Len(s) \in Nat \ {0} /\ Len(t) \in Nat \ {0} /\ s[1] = c /\ t[1] = d
  BY ChainElements DEF IsChain
<1>2. PICK i \in Met : \A k \in Met : i <= k
  <2>1. Met \in SUBSET Nat
    BY <1>1
  <2> HIDE DEF Met
  <2> QED BY <2>1, LeastOf
<1>3. PICK j \in 1..Len(t) : s[i] = t[j]
  OBVIOUS
<1>4. /\ \A k \in 1..Len(s) : s[k] \in Clusters
      /\ \A k \in 1..Len(t) : t[k] \in Clusters
      /\ i # 1 => i - 1 \in 1..Len(s) /\ f[s[i - 1]] = s[i]
      /\ j # 1 => j - 1 \in 1..Len(t) /\ f[t[j - 1]] = t[j]
  BY ChainElements
<1>5. i # 1
  BY <1>1, <1>3, <1>4 DEF NoLinkTo
<1>6. j # 1
  BY <1>1, <1>3, <1>4, <1>5 DEF NoLinkTo
<1>7. s[i - 1] = t[j - 1]
  BY <1>3, <1>4, <1>5, <1>6 DEF LinksOK
<1>8. i - 1 \in Met
  BY <1>4, <1>5, <1>6, <1>7
<1> QED BY <1>1, <1>2, <1>8

\* A chain to whose start no link leads has no cluster twice, and ends.
LEMMA ChainIsWhole ==
  ASSUME Fat32Assumption, NEW f, LinksOK(f), NEW c \in Clusters, NEW s,
         IsChain(f, c, s), NoLinkTo(f, c), f[c] # Free
  PROVE  IsInjective(s) /\ f[Last(s)] = EOC
<1>1. /\ DOMAIN s = 1..Len(s) /\ Len(s) \in Nat \ {0} /\ s[1] = c
      /\ \A i \in 1..Len(s) : s[i] \in Clusters
      /\ \A i \in 1..Len(s) : i # 1 => i - 1 \in 1..Len(s) /\ f[s[i - 1]] = s[i]
  BY ChainElements DEF IsChain
<1>2. IsInjective(s)
  <2> DEFINE Twice == {i \in 1..Len(s) : \E j \in 1..Len(s) : i < j /\ s[i] = s[j]}
  <2>1. Twice = {}
    <3> SUFFICES ASSUME Twice # {}
                 PROVE  FALSE
      OBVIOUS
    <3>1. PICK i \in Twice : \A k \in Twice : i <= k
      <4>1. Twice \in SUBSET Nat
        BY <1>1
      <4> HIDE DEF Twice
      <4> QED BY <4>1, LeastOf
    <3>2. PICK j \in 1..Len(s) : i < j /\ s[i] = s[j]
      OBVIOUS
    <3>3. i \in 1..Len(s) /\ j # 1
      BY <3>2
    <3>4. i # 1
      BY <1>1, <3>2, <3>3 DEF NoLinkTo
    <3>5. s[i - 1] = s[j - 1]
      BY <1>1, <3>2, <3>3, <3>4 DEF LinksOK
    <3>6. i - 1 \in Twice
      BY <1>1, <3>2, <3>3, <3>4, <3>5
    <3> QED BY <3>1, <3>3, <3>6
  <2> HIDE DEF Twice
  <2>2. ASSUME NEW i \in 1..Len(s), NEW j \in 1..Len(s), s[i] = s[j], i # j
        PROVE  FALSE
    <3>1. i \in Twice \/ j \in Twice
      BY <1>1, <2>2 DEF Twice
    <3> QED BY <2>1, <3>1
  <2> QED BY <1>1, <2>2 DEF IsInjective
<1>3. Len(s) < LastCluster
  <2>1. s \in Injection(1..Len(s), Clusters)
    <3>1. s \in [1..Len(s) -> Clusters]
      BY DEF IsChain
    <3> QED BY <1>2, <3>1 DEF Injection
  <2>2. IsFiniteSet(Clusters) /\ Cardinality(Clusters) = LastCluster - 1
    BY FS_Interval DEF Clusters, Root, Fat32Assumption
  <2>3. Cardinality(1..Len(s)) = Len(s)
    BY <1>1, FS_Interval
  <2>4. Cardinality(1..Len(s)) <= Cardinality(Clusters)
    BY <2>1, <2>2, FS_Injection
  <2> QED BY <2>2, <2>3, <2>4 DEF Fat32Assumption
<1>4. f[s[Len(s)]] \notin Clusters
  <2>1. Len(s) # LastCluster
    BY <1>3
  <2> QED BY <2>1 DEF IsChain
<1>5. f[s[Len(s)]] # Free
  <2>1. CASE Len(s) = 1
    BY <1>1, <2>1
  <2>2. CASE Len(s) # 1
    <3>1. Len(s) - 1 \in 1..Len(s) /\ f[s[Len(s) - 1]] = s[Len(s)]
      BY <1>1, <2>2
    <3> QED BY <1>1, <3>1 DEF LinksOK
  <2> QED BY <2>1, <2>2
<1>6. f[s[Len(s)]] \in Links
  BY <1>1 DEF LinksOK
<1> QED BY <1>2, <1>4, <1>5, <1>6 DEF Links, Last

\* The links decide where the chain goes: there is one only.
LEMMA OneChain ==
  ASSUME Fat32Assumption, NEW f, NEW c, NEW s, NEW t, IsChain(f, c, s), IsChain(f, c, t)
  PROVE  s = t
<1>1. /\ DOMAIN s = 1..Len(s) /\ Len(s) \in Nat \ {0} /\ Len(s) <= LastCluster
      /\ s[1] = c /\ \A i \in 1..Len(s) : s[i] \in Clusters
      /\ \A i \in 1..Len(s) : i # 1 => i - 1 \in 1..Len(s) /\ f[s[i - 1]] = s[i]
  BY ChainElements
<1>2. /\ DOMAIN t = 1..Len(t) /\ Len(t) \in Nat \ {0} /\ Len(t) <= LastCluster
      /\ t[1] = c /\ \A i \in 1..Len(t) : t[i] \in Clusters
      /\ \A i \in 1..Len(t) : i # 1 => i - 1 \in 1..Len(t) /\ f[t[i - 1]] = t[i]
  BY ChainElements
<1>3. /\ f[s[Len(s)]] \in Clusters => Len(s) = LastCluster
      /\ f[t[Len(t)]] \in Clusters => Len(t) = LastCluster
      /\ LastCluster \in Nat
  BY DEF IsChain, Fat32Assumption
<1>8. Len(s) \in Nat /\ Len(t) \in Nat /\ LastCluster \in Nat
      /\ Len(s) <= LastCluster /\ Len(t) <= LastCluster
  BY <1>1, <1>2, <1>3
<1> DEFINE Apart == {i \in 1..Len(s) : i \notin 1..Len(t) \/ s[i] # t[i]}
<1>4. Apart = {}
  <2> SUFFICES ASSUME Apart # {}
               PROVE  FALSE
    OBVIOUS
  <2>1. PICK i \in Apart : \A k \in Apart : i <= k
    <3>1. Apart \in SUBSET Nat
      BY <1>1
    <3> HIDE DEF Apart
    <3> QED BY <3>1, LeastOf
  <2>2. i # 1 /\ i \in 1..Len(s)
    BY <1>1, <1>2
  <2>3. i - 1 \in 1..Len(s) /\ i - 1 \notin Apart
    BY <1>1, <2>1, <2>2
  <2>4. i - 1 \in 1..Len(t) /\ s[i - 1] = t[i - 1]
    BY <2>3
  <2>5. f[t[i - 1]] = s[i] /\ s[i] \in Clusters
    BY <1>1, <2>2, <2>4
  <2>6. i \in 1..Len(t)
    <3> SUFFICES ASSUME i \notin 1..Len(t)
                 PROVE  FALSE
      OBVIOUS
    <3>1. Len(t) = i - 1
      BY <1>2, <2>2, <2>4
    <3>2. Len(t) = LastCluster
      BY <1>3, <2>5, <3>1
    <3>3. i <= Len(s) /\ i \in Nat
      BY <2>2, <1>8
    <3> QED BY <1>8, <3>1, <3>2, <3>3
  <2>7. t[i] = f[t[i - 1]]
    BY <1>2, <2>2, <2>6
  <2> QED BY <2>5, <2>6, <2>7
<1>5. Len(s) <= Len(t) /\ \A i \in 1..Len(s) : s[i] = t[i]
  <2>1. \A i \in 1..Len(s) : i \in 1..Len(t) /\ s[i] = t[i]
    BY <1>4
  <2>2. Len(s) \in 1..Len(s)
    BY <1>1
  <2> QED BY <1>2, <2>1, <2>2
<1>6. Len(s) = Len(t)
  <2> SUFFICES ASSUME Len(s) < Len(t)
               PROVE  FALSE
    BY <1>5, <1>8
  <2> DEFINE n == Len(s)
  <2>1. n + 1 \in 1..Len(t) /\ n + 1 # 1 /\ (n + 1) - 1 = n
    BY <1>1, <1>2
  <2>2. f[t[n]] = t[n + 1] /\ t[n + 1] \in Clusters
    BY <1>2, <2>1
  <2>3. s[n] = t[n]
    BY <1>1, <1>5
  <2>4. Len(s) = LastCluster
    BY <1>3, <2>2, <2>3
  <2> QED BY <1>8, <2>4
<1>7. s \in Seq(Clusters) /\ t \in Seq(Clusters)
  BY DEF IsChain
<1> QED BY <1>5, <1>6, <1>7

\* Freeing a cluster to which no link leads changes no chain but its own.
LEMMA ChainStays ==
  ASSUME Fat32Assumption, NEW f, f \in [Clusters -> Links], NEW c \in Clusters,
         NEW k \in Clusters, k # c, NoLinkTo(f, k)
  PROVE  ChainIn([f EXCEPT ![k] = Free], c) = ChainIn(f, c)
<1> DEFINE g == [f EXCEPT ![k] = Free]
           s == ChainIn(f, c)
<1>1. IsChain(f, c, s) /\ IsChain(g, c, ChainIn(g, c))
  BY ChainIsChain
<1> HIDE DEF s
<1>2. /\ Len(s) \in Nat \ {0} /\ s[1] = c
      /\ \A i \in 1..Len(s) : s[i] \in Clusters
      /\ \A i \in 1..Len(s) : i # 1 => i - 1 \in 1..Len(s) /\ f[s[i - 1]] = s[i]
  BY <1>1, ChainElements DEF IsChain
<1>3. \A i \in 1..Len(s) : s[i] # k
  BY <1>2 DEF NoLinkTo
<1>4. \A i \in 1..Len(s) : g[s[i]] = f[s[i]]
  BY <1>2, <1>3
<1>5. IsChain(g, c, s)
  <2>1. \A i \in 1..(Len(s) - 1) : g[s[i]] \in Clusters /\ s[i + 1] = g[s[i]]
    BY <1>1, <1>2, <1>4 DEF IsChain
  <2>2. g[s[Len(s)]] \notin Clusters \/ Len(s) = LastCluster
    BY <1>1, <1>2, <1>4 DEF IsChain
  <2> HIDE DEF g
  <2> QED BY <1>1, <2>1, <2>2 DEF IsChain
<1> HIDE DEF g
<1>6. ChainIn(g, c) = s
  BY <1>1, <1>5, OneChain
<1> QED BY <1>6 DEF g, s

\* A chain stays within a region that no link enters or leaves.
LEMMA ChainInRegion ==
  ASSUME Fat32Assumption, NEW f, NEW R,
         \A x \in Clusters : f[x] \in Clusters => (x \in R <=> f[x] \in R),
         NEW c, NEW s, IsChain(f, c, s)
  PROVE  \A i \in 1..Len(s) : s[i] \in R <=> c \in R
<1>1. /\ Len(s) \in Nat \ {0} /\ s[1] = c
      /\ \A i \in 1..Len(s) : s[i] \in Clusters
      /\ \A i \in 1..Len(s) : i # 1 => i - 1 \in 1..Len(s) /\ f[s[i - 1]] = s[i]
  BY ChainElements DEF IsChain
<1> DEFINE Bad == {i \in 1..Len(s) : ~(s[i] \in R <=> c \in R)}
<1> SUFFICES ASSUME Bad # {}
             PROVE  FALSE
  OBVIOUS
<1>2. PICK i \in Bad : \A k \in Bad : i <= k
  <2>1. Bad \in SUBSET Nat
    BY <1>1
  <2> HIDE DEF Bad
  <2> QED BY <2>1, LeastOf
<1>3. i # 1 /\ i \in 1..Len(s)
  BY <1>1
<1>4. i - 1 \in 1..Len(s) /\ i - 1 \notin Bad
  BY <1>1, <1>2, <1>3
<1>5. s[i - 1] \in R <=> c \in R
  BY <1>4
<1>6. s[i - 1] \in Clusters /\ f[s[i - 1]] = s[i] /\ s[i] \in Clusters
  BY <1>1, <1>3
<1> QED BY <1>3, <1>5, <1>6

-----------------------------------------------------------------------------
(* Fat32Card. The disk as it should be, and what each write does to it.    *)

Ordinals == 1..SlotsPerCluster
Slot(d, c, i) == d[c].slots[i]
Live(e) == e.kind \in {"file", "dir"}
\* No directory entry in use, wherever it is, starts at c.
NotHead(d, c) ==
  \A x \in Clusters, i \in Ordinals : Live(Slot(d, x, i)) => Slot(d, x, i).first # c
\* An allocated cluster that nothing leads to yet.
Fresh(f, d, R, c) ==
  c \in Clusters \ R /\ f[c] # Free /\ NoLinkTo(f, c) /\ NotHead(d, c)

ShapeOK(d) ==
  /\ d = [c \in Clusters |-> [slots |-> [i \in Ordinals |-> Slot(d, c, i)],
                              file |-> d[c].file]]
  /\ \A c \in Clusters, i \in Ordinals :
       Slot(d, c, i) \in {End, Deleted} \/ Live(Slot(d, c, i))

\* Each entry in use starts a chain of its own.
EntriesOK(f, d) ==
  \A c \in Clusters, i \in Ordinals : Live(Slot(d, c, i)) =>
    LET first == Slot(d, c, i).first
    IN  /\ first \in Clusters /\ f[first] # Free /\ NoLinkTo(f, first)
        /\ \A x \in Clusters, j \in Ordinals :
             Live(Slot(d, x, j)) /\ Slot(d, x, j).first = first => x = c /\ j = i

\* The clusters that are, or once were, of the root directory: nothing links
\* into or out of them, no entry starts there, and directories are entered
\* nowhere else.
RegionOK(f, d, R) ==
  /\ R \subseteq Clusters /\ Root \in R
  /\ \A x \in R : f[x] # Free
  /\ \A x \in Clusters : f[x] \in Clusters => (x \in R <=> f[x] \in R)
  /\ \A c \in Clusters, i \in Ordinals : Live(Slot(d, c, i)) =>
       /\ Slot(d, c, i).first \notin R
       /\ Slot(d, c, i).kind = "dir" => c \in R

DiskOK(f, d, R) ==
  LinksOK(f) /\ ShapeOK(d) /\ EntriesOK(f, d) /\ RegionOK(f, d, R)

\* The root is a cluster; the marks for free and for the end of a chain are not.
LEMMA ClusterValues ==
  ASSUME Fat32Assumption
  PROVE  /\ LastCluster \in Nat /\ Clusters \subseteq Nat /\ Root \in Clusters
         /\ Free \notin Clusters /\ EOC \notin Clusters /\ Free # EOC
         /\ SlotsPerCluster \in Nat \ {0} /\ 1 \in Ordinals
BY DEF Fat32Assumption, Clusters, Root, Free, EOC, Ordinals

\* fat_write_entry of an end mark: the cluster taken is fresh.
LEMMA TakeDisk ==
  ASSUME Fat32Assumption, NEW f, NEW d, NEW R, DiskOK(f, d, R),
         NEW c \in Clusters, f[c] = Free
  PROVE  LET f2 == [f EXCEPT ![c] = EOC]
         IN  /\ DiskOK(f2, d, R) /\ Fresh(f2, d, R, c) /\ f2[c] = EOC
             /\ \A x : Fresh(f, d, R, x) => Fresh(f2, d, R, x) /\ x # c /\ f2[x] = f[x]
<1> DEFINE f2 == [f EXCEPT ![c] = EOC]
<1>0. Free \notin Clusters /\ EOC \notin Clusters /\ Free # EOC
  BY ClusterValues
<1>1. \A x \in Clusters : f2[x] = IF x = c THEN EOC ELSE f[x]
  BY DEF DiskOK, LinksOK
<1>2. f2 \in [Clusters -> Links]
  BY DEF DiskOK, LinksOK, Links
<1> HIDE DEF f2
<1>3. LinksOK(f2)
  <2>1. \A x \in Clusters : f2[x] \in Clusters => f2[f2[x]] # Free
    BY <1>0, <1>1 DEF DiskOK, LinksOK
  <2>2. \A x, y \in Clusters : f2[x] = f2[y] /\ f2[x] \in Clusters => x = y
    BY <1>0, <1>1 DEF DiskOK, LinksOK
  <2>3. NoLinkTo(f2, Root)
    BY <1>0, <1>1, ClusterValues DEF DiskOK, LinksOK, NoLinkTo
  <2> QED BY <1>2, <2>1, <2>2, <2>3 DEF LinksOK
<1>4. \A x : NoLinkTo(f, x) /\ x \in Clusters => NoLinkTo(f2, x)
  BY <1>0, <1>1 DEF NoLinkTo
<1>5. EntriesOK(f2, d)
  BY <1>0, <1>1, <1>4 DEF DiskOK, EntriesOK
<1>6. RegionOK(f2, d, R)
  BY <1>0, <1>1 DEF DiskOK, RegionOK
<1>7. Fresh(f2, d, R, c)
  <2>1. c \notin R
    BY DEF DiskOK, RegionOK
  <2>2. NoLinkTo(f2, c)
    BY <1>0, <1>1 DEF DiskOK, LinksOK, NoLinkTo
  <2>3. NotHead(d, c)
    BY DEF DiskOK, EntriesOK, NotHead
  <2> QED BY <1>0, <1>1, <2>1, <2>2, <2>3 DEF Fresh
<1>8. \A x : Fresh(f, d, R, x) => Fresh(f2, d, R, x) /\ x # c /\ f2[x] = f[x]
  BY <1>1, <1>4 DEF Fresh
<1>9. DiskOK(f2, d, R) /\ f2[c] = EOC
  BY <1>1, <1>3, <1>5, <1>6 DEF DiskOK
<1> QED BY <1>7, <1>8, <1>9 DEF f2

Grown(R, x, y) == IF x \in R THEN R \cup {y} ELSE R

\* fat_write_entry of a link: it leads to a fresh cluster, which joins the
\* region of the root with the cluster before it.
LEMMA LinkDisk ==
  ASSUME Fat32Assumption, NEW f, NEW d, NEW R, DiskOK(f, d, R),
         NEW x \in Clusters, NEW y, Fresh(f, d, R, y), x \in R => f[y] = EOC
  PROVE  LET f2 == [f EXCEPT ![x] = y]
             S == Grown(R, x, y)
         IN  /\ DiskOK(f2, d, S) /\ R \subseteq S
             /\ \A z : Fresh(f, d, R, z) /\ z # y => Fresh(f2, d, S, z)
<1> DEFINE f2 == [f EXCEPT ![x] = y]
           S == Grown(R, x, y)
<1>0. Free \notin Clusters /\ EOC \notin Clusters /\ Free # EOC /\ y \in Clusters \ R
  BY ClusterValues DEF Fresh
<1>1. \A z \in Clusters : f2[z] = IF z = x THEN y ELSE f[z]
  BY DEF DiskOK, LinksOK
<1>2. f2 \in [Clusters -> Links]
  BY <1>0 DEF DiskOK, LinksOK, Links
<1>3. R \subseteq S /\ S \subseteq R \cup {y} /\ (y \in S <=> x \in R)
  BY <1>0 DEF Grown
<1> HIDE DEF f2, S
<1>4. LinksOK(f2)
  <2>1. \A z \in Clusters : f2[z] \in Clusters => f2[f2[z]] # Free
    BY <1>0, <1>1 DEF DiskOK, LinksOK, Fresh
  <2>2. \A z, w \in Clusters : f2[z] = f2[w] /\ f2[z] \in Clusters => z = w
    BY <1>0, <1>1 DEF DiskOK, LinksOK, Fresh, NoLinkTo
  <2>3. NoLinkTo(f2, Root)
    BY <1>0, <1>1 DEF DiskOK, LinksOK, RegionOK, NoLinkTo
  <2> QED BY <1>2, <2>1, <2>2, <2>3 DEF LinksOK
<1>5. \A z : NoLinkTo(f, z) /\ z # y => NoLinkTo(f2, z)
  BY <1>1 DEF NoLinkTo
<1>6. EntriesOK(f2, d)
  <2>1. ASSUME NEW c \in Clusters, NEW i \in Ordinals, Live(Slot(d, c, i))
        PROVE  Slot(d, c, i).first # y /\ f2[Slot(d, c, i).first] # Free
               /\ NoLinkTo(f2, Slot(d, c, i).first)
    <3>1. Slot(d, c, i).first # y
      BY <2>1 DEF Fresh, NotHead
    <3>2. Slot(d, c, i).first \in Clusters /\ f[Slot(d, c, i).first] # Free
          /\ NoLinkTo(f, Slot(d, c, i).first)
      BY <2>1 DEF DiskOK, EntriesOK
    <3> QED BY <1>0, <1>1, <1>5, <3>1, <3>2
  <2> QED BY <2>1 DEF DiskOK, EntriesOK
<1>7. RegionOK(f2, d, S)
  <2>1. S \subseteq Clusters /\ Root \in S
    BY <1>0, <1>3 DEF DiskOK, RegionOK
  <2>2. \A z \in S : f2[z] # Free
    BY <1>0, <1>1, <1>3 DEF DiskOK, RegionOK, Fresh
  <2>3. ASSUME NEW z \in Clusters, f2[z] \in Clusters
        PROVE  z \in S <=> f2[z] \in S
    <3>1. CASE z = x
      <4>1. f2[z] = y /\ (x \in S <=> x \in R \/ (x = y /\ x \in R))
        BY <1>0, <1>1, <1>3, <3>1
      <4> QED BY <1>0, <1>3, <3>1, <4>1
    <3>2. CASE z # x /\ z = y
      <4>1. f2[z] = f[y]
        BY <1>1, <3>2
      <4>2. x \notin R
        BY <1>0, <2>3, <4>1
      <4>3. S = R
        BY <4>2 DEF S, Grown
      <4> QED BY <2>3, <4>1, <4>3, <3>2 DEF DiskOK, RegionOK
    <3>3. CASE z # x /\ z # y
      <4>1. f2[z] = f[z] /\ f[z] # y
        BY <1>1, <3>3 DEF Fresh, NoLinkTo
      <4>2. z \in R <=> f[z] \in R
        BY <2>3, <4>1 DEF DiskOK, RegionOK
      <4> QED BY <1>3, <3>3, <4>1, <4>2
    <3> QED BY <3>1, <3>2, <3>3
  <2>4. ASSUME NEW c \in Clusters, NEW i \in Ordinals, Live(Slot(d, c, i))
        PROVE  Slot(d, c, i).first \notin S /\ (Slot(d, c, i).kind = "dir" => c \in S)
    <3>1. Slot(d, c, i).first # y
      BY <2>4 DEF Fresh, NotHead
    <3>2. Slot(d, c, i).first \notin R /\ (Slot(d, c, i).kind = "dir" => c \in R)
      BY <2>4 DEF DiskOK, RegionOK
    <3> QED BY <1>3, <3>1, <3>2
  <2> QED BY <2>1, <2>2, <2>3, <2>4 DEF RegionOK
<1>8. ASSUME NEW z, Fresh(f, d, R, z), z # y
      PROVE  Fresh(f2, d, S, z)
  <2>1. z \in Clusters /\ z \notin S /\ f2[z] # Free
    BY <1>0, <1>1, <1>3, <1>8 DEF Fresh
  <2>2. NoLinkTo(f2, z) /\ NotHead(d, z)
    BY <1>5, <1>8 DEF Fresh
  <2> QED BY <2>1, <2>2 DEF Fresh
<1>9. DiskOK(f2, d, S)
  BY <1>4, <1>6, <1>7 DEF DiskOK
<1> QED BY <1>3, <1>8, <1>9 DEF f2, S

\* fat_write_entry of a free mark: nothing led to the cluster, and nothing
\* leads to the one that came next any more.
LEMMA FreeDisk ==
  ASSUME Fat32Assumption, NEW f, NEW d, NEW R, DiskOK(f, d, R),
         NEW k \in Clusters \ R, NoLinkTo(f, k), NotHead(d, k)
  PROVE  LET f2 == [f EXCEPT ![k] = Free]
         IN  /\ DiskOK(f2, d, R)
             /\ \A z \in Clusters : NoLinkTo(f, z) => NoLinkTo(f2, z)
             /\ f[k] \in Clusters => f[k] \notin R /\ NoLinkTo(f2, f[k]) /\ NotHead(d, f[k])
<1> DEFINE f2 == [f EXCEPT ![k] = Free]
<1>0. Free \notin Clusters /\ EOC \notin Clusters /\ Free # EOC
  BY ClusterValues
<1>1. \A z \in Clusters : f2[z] = IF z = k THEN Free ELSE f[z]
  BY DEF DiskOK, LinksOK
<1>2. f2 \in [Clusters -> Links]
  BY DEF DiskOK, LinksOK, Links
<1> HIDE DEF f2
<1>3. \A z \in Clusters : NoLinkTo(f, z) => NoLinkTo(f2, z)
  BY <1>0, <1>1 DEF NoLinkTo
<1>4. LinksOK(f2)
  <2>1. \A z \in Clusters : f2[z] \in Clusters => f2[f2[z]] # Free
    BY <1>0, <1>1 DEF DiskOK, LinksOK, NoLinkTo
  <2>2. \A z, w \in Clusters : f2[z] = f2[w] /\ f2[z] \in Clusters => z = w
    BY <1>0, <1>1 DEF DiskOK, LinksOK
  <2>3. NoLinkTo(f2, Root)
    BY <1>3, ClusterValues DEF DiskOK, LinksOK
  <2> QED BY <1>2, <2>1, <2>2, <2>3 DEF LinksOK
<1>5. EntriesOK(f2, d)
  <2>1. ASSUME NEW c \in Clusters, NEW i \in Ordinals, Live(Slot(d, c, i))
        PROVE  f2[Slot(d, c, i).first] # Free /\ NoLinkTo(f2, Slot(d, c, i).first)
    <3>1. Slot(d, c, i).first # k
      BY <2>1 DEF NotHead
    <3>2. Slot(d, c, i).first \in Clusters /\ f[Slot(d, c, i).first] # Free
          /\ NoLinkTo(f, Slot(d, c, i).first)
      BY <2>1 DEF DiskOK, EntriesOK
    <3> QED BY <1>1, <1>3, <3>1, <3>2
  <2> QED BY <2>1 DEF DiskOK, EntriesOK
<1>6. RegionOK(f2, d, R)
  <2>1. \A z \in R : f2[z] # Free
    BY <1>1 DEF DiskOK, RegionOK
  <2>2. \A z \in Clusters : f2[z] \in Clusters => (z \in R <=> f2[z] \in R)
    BY <1>0, <1>1 DEF DiskOK, RegionOK
  <2> QED BY <2>1, <2>2 DEF DiskOK, RegionOK
<1>7. ASSUME f[k] \in Clusters
      PROVE  f[k] \notin R /\ NoLinkTo(f2, f[k]) /\ NotHead(d, f[k])
  <2>1. f[k] \notin R
    BY <1>7 DEF DiskOK, RegionOK
  <2>2. NoLinkTo(f2, f[k])
    BY <1>0, <1>1, <1>7 DEF DiskOK, LinksOK, NoLinkTo
  <2>3. NotHead(d, f[k])
    <3> SUFFICES ASSUME NEW c \in Clusters, NEW i \in Ordinals, Live(Slot(d, c, i)),
                        Slot(d, c, i).first = f[k]
                 PROVE  FALSE
      BY DEF NotHead
    <3>1. NoLinkTo(f, f[k])
      BY DEF DiskOK, EntriesOK
    <3> QED BY <3>1 DEF NoLinkTo
  <2> QED BY <2>1, <2>2, <2>3
<1>8. DiskOK(f2, d, R)
  BY <1>4, <1>5, <1>6 DEF DiskOK
<1> QED BY <1>3, <1>7, <1>8 DEF f2

\* Slots emptied or overwritten by data.
Blanked(d, e) ==
  /\ ShapeOK(e)
  /\ \A c \in Clusters, i \in Ordinals :
       Slot(e, c, i) = Slot(d, c, i) \/ Slot(e, c, i) \in {End, Deleted}

\* A slot that was never used or was deleted holds no entry in use.
LEMMA DeadEntries == \A e \in {End, Deleted} : ~Live(e)
BY DEF End, Deleted, Live

\* Writing clusters with nothing in use in them, or a file's contents, keeps
\* the disk as it should be: there are no more entries than before.
LEMMA BlankDisk ==
  ASSUME NEW f, NEW d, NEW R, DiskOK(f, d, R), NEW e, Blanked(d, e)
  PROVE  /\ DiskOK(f, e, R)
         /\ \A c : NotHead(d, c) => NotHead(e, c)
         /\ \A c : Fresh(f, d, R, c) => Fresh(f, e, R, c)
<1>1. \A c \in Clusters, i \in Ordinals :
        Live(Slot(e, c, i)) => Slot(e, c, i) = Slot(d, c, i)
  BY DeadEntries DEF Blanked
<1>2. EntriesOK(f, e)
  BY <1>1 DEF DiskOK, EntriesOK
<1>3. RegionOK(f, e, R)
  BY <1>1 DEF DiskOK, RegionOK
<1>4. \A c : NotHead(d, c) => NotHead(e, c)
  BY <1>1 DEF NotHead
<1>5. DiskOK(f, e, R)
  BY <1>2, <1>3 DEF DiskOK, Blanked
<1> QED BY <1>4, <1>5 DEF Fresh

WriteSlot(d, x, i, e) == [d EXCEPT ![x].slots[i] = e]

\* The slots of the card after one of them was written.
LEMMA SlotWrite ==
  ASSUME NEW d, ShapeOK(d), NEW x \in Clusters, NEW i \in Ordinals, NEW e,
         e \in {End, Deleted} \/ Live(e),
         NEW d2, d2 = WriteSlot(d, x, i, e)
  PROVE  /\ ShapeOK(d2)
         /\ \A c \in Clusters, j \in Ordinals :
              Slot(d2, c, j) = IF c = x /\ j = i THEN e ELSE Slot(d, c, j)
<1>1. \A c \in Clusters, j \in Ordinals :
        Slot(d2, c, j) = IF c = x /\ j = i THEN e ELSE Slot(d, c, j)
  BY DEF ShapeOK, Slot, WriteSlot
<1>2. d2 = [c \in Clusters |-> [slots |-> [j \in Ordinals |-> Slot(d2, c, j)],
                                file |-> d2[c].file]]
  <2> DEFINE shape(c) == [slots |-> [j \in Ordinals |-> Slot(d2, c, j)],
                          file |-> d2[c].file]
  <2>1. ASSUME NEW c \in Clusters
        PROVE  d2[c] = shape(c)
    <3>1. d[c] = [slots |-> [j \in Ordinals |-> Slot(d, c, j)], file |-> d[c].file]
      BY DEF ShapeOK
    <3>2. CASE c # x
      <4>1. d2[c] = d[c]
        BY <3>2 DEF WriteSlot
      <4> QED BY <3>1, <4>1 DEF Slot
    <3>3. CASE c = x
      <4> DEFINE row == [[j \in Ordinals |-> Slot(d, c, j)] EXCEPT ![i] = e]
      <4>1. d2[c] = [d[c] EXCEPT !.slots[i] = e]
        BY <3>3 DEF ShapeOK, WriteSlot
      <4>2. d2[c] = [slots |-> row, file |-> d[c].file]
        BY <3>1, <4>1
      <4>3. row = [j \in Ordinals |-> row[j]]
        OBVIOUS
      <4> HIDE DEF row
      <4>4. d2[c].slots = row /\ d2[c].file = d[c].file
        BY <4>2
      <4> QED BY <4>2, <4>3, <4>4 DEF Slot
    <3> QED BY <3>2, <3>3
  <2>2. d2 = [c \in Clusters |-> d2[c]]
    BY DEF ShapeOK, WriteSlot
  <2> QED BY <2>1, <2>2
<1>3. \A c \in Clusters, j \in Ordinals :
        Slot(d2, c, j) \in {End, Deleted} \/ Live(Slot(d2, c, j))
  BY <1>1 DEF ShapeOK
<1> QED BY <1>1, <1>2, <1>3 DEF ShapeOK

\* fat_dir_write_slots: the entry's chain was fresh.
LEMMA EnterDisk ==
  ASSUME NEW f, NEW d, NEW R, DiskOK(f, d, R), NEW x \in Clusters, NEW i \in Ordinals,
         NEW e, Live(e), Fresh(f, d, R, e.first), e.kind = "dir" => x \in R,
         NEW d2, d2 = WriteSlot(d, x, i, e)
  PROVE  DiskOK(f, d2, R)
<1>1. ShapeOK(d2) /\ \A c \in Clusters, j \in Ordinals :
                  Slot(d2, c, j) = IF c = x /\ j = i THEN e ELSE Slot(d, c, j)
  <2>1. ShapeOK(d) /\ (e \in {End, Deleted} \/ Live(e))
    BY DEF DiskOK
  <2> QED BY <2>1, SlotWrite
<1>2. ASSUME NEW c \in Clusters, NEW j \in Ordinals, Live(Slot(d2, c, j))
      PROVE  LET first == Slot(d2, c, j).first
             IN  /\ first \in Clusters /\ f[first] # Free /\ NoLinkTo(f, first)
                 /\ first \notin R /\ (Slot(d2, c, j).kind = "dir" => c \in R)
                 /\ \A y \in Clusters, k \in Ordinals :
                      Live(Slot(d2, y, k)) /\ Slot(d2, y, k).first = first => y = c /\ k = j
  <2>1. CASE c = x /\ j = i
    <3>1. Slot(d2, c, j) = e
      BY <1>1, <2>1
    <3>2. ASSUME NEW y \in Clusters, NEW k \in Ordinals,
                 Live(Slot(d2, y, k)), Slot(d2, y, k).first = e.first
          PROVE  y = c /\ k = j
      BY <1>1, <2>1, <3>2 DEF Fresh, NotHead
    <3> QED BY <2>1, <3>1, <3>2 DEF Fresh
  <2>2. CASE ~(c = x /\ j = i)
    <3>1. Slot(d2, c, j) = Slot(d, c, j)
      BY <1>1, <2>2
    <3>2. Slot(d, c, j).first # e.first
      BY <1>2, <3>1 DEF Fresh, NotHead
    <3>3. ASSUME NEW y \in Clusters, NEW k \in Ordinals,
                 Live(Slot(d2, y, k)), Slot(d2, y, k).first = Slot(d, c, j).first
          PROVE  y = c /\ k = j
      <4>1. Slot(d2, y, k) = Slot(d, y, k)
        BY <1>1, <3>2, <3>3
      <4> QED BY <1>2, <3>1, <3>3, <4>1 DEF DiskOK, EntriesOK
    <3>4. /\ Slot(d, c, j).first \in Clusters /\ f[Slot(d, c, j).first] # Free
          /\ NoLinkTo(f, Slot(d, c, j).first)
      BY <1>2, <3>1 DEF DiskOK, EntriesOK
    <3>5. Slot(d, c, j).first \notin R /\ (Slot(d, c, j).kind = "dir" => c \in R)
      BY <1>2, <3>1 DEF DiskOK, RegionOK
    <3> QED BY <3>1, <3>3, <3>4, <3>5
  <2> QED BY <2>1, <2>2
<1>3. EntriesOK(f, d2)
  BY <1>2 DEF EntriesOK
<1>4. RegionOK(f, d2, R)
  BY <1>2 DEF RegionOK, DiskOK
<1> QED BY <1>1, <1>3, <1>4 DEF DiskOK

-----------------------------------------------------------------------------
(* Fat32Card. Places in a directory, and what a walk gets to see.          *)

IndexOf(p) == (p - 1) \div SlotsPerCluster + 1
OrdinalOf(p) == ((p - 1) % SlotsPerCluster) + 1

\* What division by a positive number gives.
LEMMA DivMod ==
  ASSUME NEW a \in Nat, NEW n \in Nat \ {0}
  PROVE  /\ a \div n \in Nat /\ a % n \in 0..(n - 1) /\ a = n * (a \div n) + (a % n)
         /\ \A m \in Nat : a < m * n => a \div n < m
<1>1. a \div n \in Nat /\ a % n \in 0..(n - 1) /\ a = n * (a \div n) + (a % n)
  OBVIOUS
<1>2. ASSUME NEW m \in Nat, a < m * n
      PROVE  a \div n < m
  <2> DEFINE q == a \div n
  <2>1. q \in Nat /\ n * q <= a
    BY <1>1
  <2> HIDE DEF q
  <2>2. ASSUME q >= m
        PROVE  n * q >= n * m
    <3>1. PICK k \in Nat : q = m + k
      <4>1. q - m \in Nat /\ q = m + (q - m)
        BY <2>1, <2>2
      <4> QED BY <4>1
    <3>2. n * (m + k) = n * m + n * k /\ n * k >= 0
      OBVIOUS
    <3>3. n * m \in Nat /\ n * k \in Nat
      OBVIOUS
    <3> QED BY <3>1, <3>2, <3>3
  <2>3. m * n = n * m /\ n * m \in Nat /\ n * q \in Nat
    BY <2>1
  <2>4. ~(q >= m)
    BY <1>2, <2>1, <2>2, <2>3
  <2> QED BY <2>1, <2>4 DEF q
<1> QED BY <1>1, <1>2

\* Where a position of a directory is.
LEMMA PlaceOf ==
  ASSUME Fat32Assumption, NEW s, Len(s) \in Nat, NEW p \in Positions(s)
  PROVE  /\ p \in Nat /\ SlotAt(s, p)[1] = s[IndexOf(p)] /\ SlotAt(s, p)[2] = OrdinalOf(p)
         /\ IndexOf(p) \in 1..Len(s) /\ OrdinalOf(p) \in Ordinals
         /\ p = SlotsPerCluster * (IndexOf(p) - 1) + OrdinalOf(p)
<1>1. SlotsPerCluster \in Nat \ {0}
  BY DEF Fat32Assumption
<1>2. p - 1 \in Nat /\ p \in Nat /\ p <= Len(s) * SlotsPerCluster
  BY <1>1 DEF Positions
<1> DEFINE q == (p - 1) \div SlotsPerCluster
           r == (p - 1) % SlotsPerCluster
<1>3. q \in Nat /\ r \in 0..(SlotsPerCluster - 1) /\ p - 1 = SlotsPerCluster * q + r
  BY <1>1, <1>2, DivMod
<1>4. q < Len(s)
  <2>1. p - 1 < Len(s) * SlotsPerCluster
    BY <1>1, <1>2
  <2> QED BY <1>1, <1>2, <2>1, DivMod
<1>5. IndexOf(p) = q + 1 /\ OrdinalOf(p) = r + 1
  BY DEF IndexOf, OrdinalOf
<1>6. SlotAt(s, p)[1] = s[IndexOf(p)] /\ SlotAt(s, p)[2] = OrdinalOf(p)
  BY DEF SlotAt, IndexOf, OrdinalOf
<1> HIDE DEF q, r
<1>7. SlotsPerCluster * q \in Nat
  BY <1>1, <1>3
<1>8. IndexOf(p) - 1 = q
  BY <1>3, <1>5
<1>9. p = SlotsPerCluster * (IndexOf(p) - 1) + OrdinalOf(p)
  BY <1>2, <1>3, <1>5, <1>7, <1>8
<1> QED BY <1>1, <1>2, <1>3, <1>4, <1>5, <1>6, <1>9 DEF Ordinals

\* No two positions of a chain without repetition are the same slot.
LEMMA PlacesDiffer ==
  ASSUME Fat32Assumption, NEW s, Len(s) \in Nat, DOMAIN s = 1..Len(s), IsInjective(s),
         NEW p \in Positions(s), NEW q \in Positions(s), SlotAt(s, p) = SlotAt(s, q)
  PROVE  p = q
<1>1. /\ SlotAt(s, p)[1] = s[IndexOf(p)] /\ SlotAt(s, p)[2] = OrdinalOf(p) /\ IndexOf(p) \in 1..Len(s)
      /\ p = SlotsPerCluster * (IndexOf(p) - 1) + OrdinalOf(p)
  BY PlaceOf
<1>2. /\ SlotAt(s, q)[1] = s[IndexOf(q)] /\ SlotAt(s, q)[2] = OrdinalOf(q) /\ IndexOf(q) \in 1..Len(s)
      /\ q = SlotsPerCluster * (IndexOf(q) - 1) + OrdinalOf(q)
  BY PlaceOf
<1>3. s[IndexOf(p)] = s[IndexOf(q)] /\ OrdinalOf(p) = OrdinalOf(q)
  BY <1>1, <1>2
<1>4. IndexOf(p) = IndexOf(q)
  BY <1>1, <1>2, <1>3 DEF IsInjective
<1> QED BY <1>1, <1>2, <1>3, <1>4

EntryOf(d, s, p) == Slot(d, SlotAt(s, p)[1], SlotAt(s, p)[2])

\* EntryAt reads the clusters on the card.
LEMMA EntryIsOf == \A s, p : EntryAt(s, p) = EntryOf(data, s, p)
BY DEF EntryAt, EntryOf, Slot

\* Chain follows the FAT on the card.
LEMMA ChainIs == \A c : Chain(c) = ChainIn(fat, c)
BY DEF Chain, ChainIn

\* A listed position is one of the directory's, and its entry is in use.
LEMMA ListedIsLive ==
  ASSUME Fat32Assumption, NEW s, s \in Seq(Clusters), ShapeOK(data), NEW p \in Listed(s)
  PROVE  p \in Positions(s) /\ Live(EntryAt(s, p))
<1> DEFINE ends == {q \in Positions(s) : EntryAt(s, q) = End}
<1>1. Positions(s) \subseteq Nat
  BY DEF Positions
<1>2. ends # {} => Min(ends) \in ends /\ \A q \in ends : Min(ends) <= q
  BY <1>1, MinIsLeast
<1>3. p \in (IF ends = {} THEN Positions(s) ELSE 1..(Min(ends) - 1)) /\ EntryAt(s, p) # Deleted
  BY DEF Listed
<1> HIDE DEF ends
<1>4. p \in Positions(s) /\ p \notin ends
  <2>1. CASE ends = {}
    BY <1>3, <2>1
  <2>2. CASE ends # {}
    <3>1. Min(ends) \in Positions(s)
      BY <1>2, <2>2 DEF ends
    <3>2. Len(s) * SlotsPerCluster \in Nat
      BY DEF Fat32Assumption
    <3>3. p \in 1..(Min(ends) - 1)
      BY <1>3, <2>2
    <3>4. p \in Positions(s)
      BY <3>1, <3>2, <3>3 DEF Positions
    <3>5. p \notin ends
      BY <1>1, <1>2, <2>2, <3>1, <3>3
    <3> QED BY <3>4, <3>5
  <2> QED BY <2>1, <2>2
<1>5. SlotAt(s, p)[1] \in Clusters /\ SlotAt(s, p)[2] \in Ordinals
  BY <1>4, PlaceOf
<1>6. EntryAt(s, p) \in {End, Deleted} \/ Live(EntryAt(s, p))
  BY <1>5 DEF EntryAt, ShapeOK, Slot
<1> QED BY <1>3, <1>4, <1>6 DEF ends

\* What a walk gets to see is a beginning of the chain.
LEMMA SeenIsBeginning ==
  ASSUME Fat32Assumption, NEW c \in Clusters, NEW s \in Seen(c)
  PROVE  /\ s \in Seq(Clusters) /\ Len(s) \in 1..Len(Chain(c))
         /\ \A i \in 1..Len(s) : s[i] = Chain(c)[i]
<1> DEFINE full == Chain(c)
<1>1. full \in Seq(Clusters) /\ Len(full) \in Nat \ {0}
  BY ChainIsChain, ChainIs DEF IsChain, Fat32Assumption
<1>2. s = full \/ \E n \in 1..(Len(full) - 1) : s = SubSeq(full, 1, n)
  BY DEF Seen
<1> HIDE DEF full
<1>3. CASE s = full
  BY <1>1, <1>3 DEF full
<1>4. ASSUME NEW n \in 1..(Len(full) - 1), s = SubSeq(full, 1, n)
      PROVE  s \in Seq(Clusters) /\ Len(s) \in 1..Len(full) /\ \A i \in 1..Len(s) : s[i] = full[i]
  BY <1>1, <1>4
<1> QED BY <1>2, <1>3, <1>4 DEF full

\* The same position is the same slot of the whole chain.
LEMMA SeenPlace ==
  ASSUME Fat32Assumption, NEW c \in Clusters, NEW s \in Seen(c), NEW p \in Positions(s)
  PROVE  p \in Positions(Chain(c)) /\ SlotAt(Chain(c), p) = SlotAt(s, p)
         /\ SlotAt(s, p)[1] \in Clusters /\ SlotAt(s, p)[2] \in Ordinals
<1>1. /\ s \in Seq(Clusters) /\ Len(s) \in 1..Len(Chain(c))
      /\ \A i \in 1..Len(s) : s[i] = Chain(c)[i]
  BY SeenIsBeginning
<1>2. Len(Chain(c)) \in Nat
  BY ChainIsChain, ChainIs DEF IsChain
<1>3. /\ p \in Nat /\ SlotAt(s, p)[1] = s[IndexOf(p)] /\ SlotAt(s, p)[2] = OrdinalOf(p)
      /\ IndexOf(p) \in 1..Len(s) /\ OrdinalOf(p) \in Ordinals
  BY <1>1, PlaceOf
<1>4. /\ SlotAt(Chain(c), p) = <<Chain(c)[IndexOf(p)], OrdinalOf(p)>>
      /\ SlotAt(s, p) = <<s[IndexOf(p)], OrdinalOf(p)>>
  BY DEF SlotAt, IndexOf, OrdinalOf
<1>5. p \in Positions(Chain(c))
  <2>1. SlotsPerCluster \in Nat \ {0} /\ Len(s) \in Nat /\ Len(s) <= Len(Chain(c))
    BY <1>1, <1>2 DEF Fat32Assumption
  <2>2. PICK k \in Nat : Len(Chain(c)) = Len(s) + k
    <3>1. Len(Chain(c)) - Len(s) \in Nat /\ Len(Chain(c)) = Len(s) + (Len(Chain(c)) - Len(s))
      BY <1>2, <2>1
    <3> QED BY <3>1
  <2>3. (Len(s) + k) * SlotsPerCluster = Len(s) * SlotsPerCluster + k * SlotsPerCluster
        /\ k * SlotsPerCluster \in Nat /\ Len(s) * SlotsPerCluster \in Nat
    BY <2>1
  <2>4. p \in 1..(Len(s) * SlotsPerCluster)
    BY DEF Positions
  <2>5. p \in 1..(Len(s) * SlotsPerCluster + k * SlotsPerCluster)
    BY <2>3, <2>4
  <2> QED BY <2>2, <2>3, <2>5 DEF Positions
<1>6. s[IndexOf(p)] = Chain(c)[IndexOf(p)] /\ s[IndexOf(p)] \in Clusters
  BY <1>1, <1>3
<1> QED BY <1>3, <1>4, <1>5, <1>6

\* A walk from within a region, or from outside, stays there.
LEMMA SeenInRegion ==
  ASSUME Fat32Assumption, NEW R, RegionOK(fat, data, R), NEW c \in Clusters,
         NEW s \in Seen(c)
  PROVE  /\ \A i \in 1..Len(s) : s[i] \in R <=> c \in R
         /\ \A p \in Positions(s) : SlotAt(s, p)[1] \in R <=> c \in R
         /\ Last(s) \in Clusters /\ (c \in R => Last(s) \in R)
<1>1. /\ s \in Seq(Clusters) /\ Len(s) \in 1..Len(Chain(c))
      /\ \A i \in 1..Len(s) : s[i] = Chain(c)[i]
  BY SeenIsBeginning
<1>2. Len(Chain(c)) \in Nat /\ IsChain(fat, c, Chain(c))
  BY ChainIsChain, ChainIs DEF IsChain
<1>3. \A i \in 1..Len(Chain(c)) : Chain(c)[i] \in R <=> c \in R
  BY <1>2, ChainInRegion DEF RegionOK
<1>4. \A i \in 1..Len(s) : s[i] \in R <=> c \in R
  BY <1>1, <1>2, <1>3
<1>5. \A p \in Positions(s) : SlotAt(s, p)[1] \in R <=> c \in R
  BY <1>1, <1>4, PlaceOf
<1>6. Len(s) \in 1..Len(s)
  BY <1>1, <1>2
<1> QED BY <1>1, <1>4, <1>5, <1>6 DEF Last

-----------------------------------------------------------------------------
(* Fat32Card. The invariant.                                               *)

SaveSteps == {"find_dir", "name", "alloc", "link", "init", "write", "slot", "clear",
              "join", "enter"}
DeleteSteps == {"contents", "mark", "free", "rest", "reload"}

\* An entry that the browser shows, or is to delete: either it is in its slot
\* still, or its chain starts nowhere any more.
ItemOK(f, d, R, home, in, pos, e) ==
  /\ Live(e) /\ e.first \in Clusters \ R /\ NoLinkTo(f, e.first) /\ e.first # home
  /\ in \in Clusters
  /\ \/ NotHead(d, e.first)
     \/ pos \in Positions(ChainIn(f, in)) /\ EntryOf(d, ChainIn(f, in), pos) = e

\* The directory that the browser is in is the root, or no file starts there.
HomeOK(f, d, R, home) ==
  /\ home \in Clusters
  /\ home # Root => /\ home \notin R /\ NoLinkTo(f, home)
                    /\ \A c \in Clusters, i \in Ordinals :
                         Slot(d, c, i).kind = "file" => Slot(d, c, i).first # home

BrowserOK(f, d, R, home, shown, where) ==
  /\ where \in Writers \cup {"files"} /\ HomeOK(f, d, R, home)
  /\ where \in Writers => shown = {} /\ home = Root
  /\ \A item \in shown : /\ ItemOK(f, d, R, home, home, item.pos, item.entry)
                         /\ item.entry.kind = "dir" => home = Root

\* The clusters and the entry that a save carries from one step to the next.
PendingOK(f, d, R, o) ==
  "entry" \in DOMAIN o /\ Live(o.entry) /\ Fresh(f, d, R, o.entry.first)
GotOK(f, d, R, o) ==
  /\ "got" \in DOMAIN o /\ o.got \in Seq(Clusters)
  /\ \A i \in 1..Len(o.got) : o.got[i] \notin R
  /\ Len(o.got) > 0 => Fresh(f, d, R, o.got[1])
ForOK(f, d, R, o, use) ==
  /\ use \in {"init", "clear", "write"}
  /\ use = "clear" =>
       /\ "last" \in DOMAIN o /\ o.last \in Clusters /\ PendingOK(f, d, R, o)
       /\ o.entry.kind = "dir" => o.last \in R
       /\ Len(o.got) > 0 => f[o.got[1]] = EOC /\ o.got[1] # o.entry.first
  /\ use = "write" => "dir" \in DOMAIN o /\ o.dir \in Clusters
AllocOK(f, d, R, o) ==
  /\ {"want", "then"} \subseteq DOMAIN o /\ GotOK(f, d, R, o) /\ ForOK(f, d, R, o, o.then)
  /\ o.then = "clear" => o.want = 1 /\ o.got = <<>>
LinkOK(f, d, R, o) ==
  /\ {"want", "then"} \subseteq DOMAIN o /\ GotOK(f, d, R, o) /\ ForOK(f, d, R, o, o.then)
  /\ o.then # "clear" /\ Len(o.got) >= 2
  /\ Fresh(f, d, R, o.got[Len(o.got)]) /\ o.got[Len(o.got)] # o.got[1]
ReadyOK(f, d, R, o, use) ==
  GotOK(f, d, R, o) /\ ForOK(f, d, R, o, use) /\ Len(o.got) > 0
SlotOK(f, d, R, o) ==
  /\ PendingOK(f, d, R, o) /\ "into" \in DOMAIN o /\ o.into \in Clusters
  /\ o.entry.kind = "dir" => o.into = Root
JoinOK(f, d, R, o) ==
  ReadyOK(f, d, R, o, "clear") /\ "slot" \in DOMAIN o /\ o.slot = <<o.got[1], 1>>
EnterOK(f, d, R, o) ==
  /\ PendingOK(f, d, R, o) /\ "slot" \in DOMAIN o
  /\ o.slot[1] \in Clusters /\ o.slot[2] \in Ordinals
  /\ o.entry.kind = "dir" => o.slot[1] \in R

SavingOK(f, d, R, o) ==
  /\ o.at = "name" => "dir" \in DOMAIN o /\ o.dir \in Clusters
  /\ o.at = "alloc" => AllocOK(f, d, R, o)
  /\ o.at = "link" => LinkOK(f, d, R, o)
  /\ o.at \in {"init", "clear", "write"} => ReadyOK(f, d, R, o, o.at)
  /\ o.at = "slot" => SlotOK(f, d, R, o)
  /\ o.at = "join" => JoinOK(f, d, R, o)
  /\ o.at = "enter" => EnterOK(f, d, R, o)

\* The directory whose contents are being deleted, from the list of the root.
WholeOK(f, d, R, home, w) ==
  /\ {"at", "in", "pos", "entry", "back"} \subseteq DOMAIN w /\ w.at = "contents"
  /\ home = Root /\ w.in = Root /\ w.back = "reload" /\ w.entry.kind = "dir"
  /\ ItemOK(f, d, R, home, w.in, w.pos, w.entry)
BackOK(f, d, R, home, o) ==
  /\ "back" \in DOMAIN o
  /\ \/ o.back = "reload"
     \/ o.back = "rest" /\ "whole" \in DOMAIN o /\ WholeOK(f, d, R, home, o.whole)
MarkOK(f, d, R, home, o) ==
  /\ {"in", "pos", "entry"} \subseteq DOMAIN o
  /\ ItemOK(f, d, R, home, o.in, o.pos, o.entry) /\ BackOK(f, d, R, home, o)
FreeOK(f, d, R, home, o) ==
  /\ {"at", "cluster"} \subseteq DOMAIN o /\ o.cluster \in Clusters \ R /\ o.cluster # home
  /\ NoLinkTo(f, o.cluster) /\ NotHead(d, o.cluster) /\ BackOK(f, d, R, home, o)

DeleteOK(f, d, R, home, o) ==
  /\ o.at = "contents" => WholeOK(f, d, R, home, o)
  /\ o.at = "mark" => MarkOK(f, d, R, home, o)
  /\ o.at = "free" => FreeOK(f, d, R, home, o)
  /\ o.at = "rest" => "whole" \in DOMAIN o /\ WholeOK(f, d, R, home, o.whole)

WhereOK(where, o) ==
  \/ o = Idle
  \/ o.at \in SaveSteps /\ where \in Writers
  \/ o.at \in DeleteSteps /\ where = "files"

CardOK(f, d, R, home, shown, where, o) ==
  /\ DiskOK(f, d, R) /\ BrowserOK(f, d, R, home, shown, where)
  /\ WhereOK(where, o) /\ SavingOK(f, d, R, o) /\ DeleteOK(f, d, R, home, o)

CardInv == wild \/ \E R : CardOK(fat, data, R, cur, list, screen, op)

-----------------------------------------------------------------------------

\* The chains of what the directories hold, by where they start.
RootEntry(R, h) ==
  \E x \in Clusters \cap R, i \in Ordinals :
    Live(Slot(data, x, i)) /\ Slot(data, x, i).first = h
Owns(R, o, h) ==
  \/ h = Root /\ o = <<Root, 0, Chain(Root)>>
  \/ RootEntry(R, h) /\ o = <<h, 0, Chain(h)>>
  \/ \E dir \in Clusters : \E p \in Positions(Chain(dir)) :
       /\ RootEntry(R, dir) /\ dir \notin R
       /\ Live(EntryAt(Chain(dir), p)) /\ EntryAt(Chain(dir), p).first = h
       /\ o = <<dir, p, Chain(h)>>

\* What is known of the chain from any cluster.
LEMMA ChainFacts ==
  ASSUME Fat32Assumption, NEW c \in Clusters
  PROVE  /\ IsChain(fat, c, Chain(c)) /\ Chain(c) \in Seq(Clusters)
         /\ Len(Chain(c)) \in Nat \ {0} /\ DOMAIN Chain(c) = 1..Len(Chain(c))
         /\ Chain(c) \in Seen(c)
<1>1. IsChain(fat, c, Chain(c))
  BY ChainIsChain, ChainIs
<1>2. Chain(c) \in Seen(c)
  BY DEF Seen
<1> QED BY <1>1, <1>2 DEF IsChain, Fat32Assumption

\* Each chain that the directories lead to belongs to a start of its own
\* kind, in use, to which no link leads.
LEMMA OwnedStarts ==
  ASSUME Fat32Assumption, NEW R, DiskOK(fat, data, R), NEW o \in Owned
  PROVE  \E h \in Clusters : /\ Owns(R, o, h) /\ o[3] = Chain(h)
                             /\ fat[h] # Free /\ NoLinkTo(fat, h)
<1>1. Root \in Clusters /\ fat[Root] # Free /\ NoLinkTo(fat, Root) /\ Root \in R
  BY ClusterValues DEF DiskOK, RegionOK, LinksOK
<1>2. ASSUME NEW x \in Clusters, NEW i \in Ordinals, Live(Slot(data, x, i))
      PROVE  /\ Slot(data, x, i).first \in Clusters /\ Slot(data, x, i).first \notin R
             /\ fat[Slot(data, x, i).first] # Free /\ NoLinkTo(fat, Slot(data, x, i).first)
  BY <1>2 DEF DiskOK, EntriesOK, RegionOK
<1>3. ASSUME NEW c \in Clusters, NEW p \in Listed(Chain(c))
      PROVE  /\ p \in Positions(Chain(c)) /\ Live(EntryAt(Chain(c), p))
             /\ EntryAt(Chain(c), p) = Slot(data, SlotAt(Chain(c), p)[1], SlotAt(Chain(c), p)[2])
             /\ SlotAt(Chain(c), p)[1] \in Clusters /\ SlotAt(Chain(c), p)[2] \in Ordinals
             /\ SlotAt(Chain(c), p)[1] \in R <=> c \in R
  <2>1. Chain(c) \in Seq(Clusters) /\ Chain(c) \in Seen(c)
    BY ChainFacts
  <2>2. p \in Positions(Chain(c)) /\ Live(EntryAt(Chain(c), p))
    BY <2>1, ListedIsLive DEF DiskOK
  <2>3. SlotAt(Chain(c), p)[1] \in Clusters /\ SlotAt(Chain(c), p)[2] \in Ordinals
    BY <2>1, <2>2, SeenPlace
  <2>4. SlotAt(Chain(c), p)[1] \in R <=> c \in R
    BY <2>1, <2>2, SeenInRegion DEF DiskOK
  <2>5. EntryAt(Chain(c), p) = Slot(data, SlotAt(Chain(c), p)[1], SlotAt(Chain(c), p)[2])
    BY EntryIsOf DEF EntryOf
  <2> QED BY <2>2, <2>3, <2>4, <2>5
<1>4. CASE o = <<Root, 0, Chain(Root)>>
  BY <1>1, <1>4 DEF Owns
<1>5. ASSUME NEW p \in Listed(Chain(Root)), o \in ChainsOf(EntryAt(Chain(Root), p).first)
      PROVE  \E h \in Clusters : /\ Owns(R, o, h) /\ o[3] = Chain(h)
                                 /\ fat[h] # Free /\ NoLinkTo(fat, h)
  <2> DEFINE dir == EntryAt(Chain(Root), p).first
  <2>1. RootEntry(R, dir) /\ dir \in Clusters /\ dir \notin R
        /\ fat[dir] # Free /\ NoLinkTo(fat, dir)
    BY <1>1, <1>2, <1>3 DEF RootEntry
  <2> HIDE DEF dir
  <2>2. CASE o = <<dir, 0, Chain(dir)>>
    BY <2>1, <2>2 DEF Owns
  <2>3. ASSUME NEW q \in Listed(Chain(dir)),
               o = <<dir, q, Chain(EntryAt(Chain(dir), q).first)>>
        PROVE  \E h \in Clusters : /\ Owns(R, o, h) /\ o[3] = Chain(h)
                                   /\ fat[h] # Free /\ NoLinkTo(fat, h)
    <3> DEFINE h == EntryAt(Chain(dir), q).first
    <3>1. h \in Clusters /\ fat[h] # Free /\ NoLinkTo(fat, h)
          /\ q \in Positions(Chain(dir)) /\ Live(EntryAt(Chain(dir), q))
      BY <1>2, <1>3, <2>1
    <3>2. Owns(R, o, h)
      BY <2>1, <2>3, <3>1 DEF Owns
    <3> QED BY <2>3, <3>1, <3>2
  <2>4. o \in ChainsOf(dir)
    BY <1>5 DEF dir
  <2> QED BY <2>2, <2>3, <2>4 DEF ChainsOf
<1>6. \/ o = <<Root, 0, Chain(Root)>>
      \/ \E p \in Listed(Chain(Root)) : o \in ChainsOf(EntryAt(Chain(Root), p).first)
  BY DEF Owned
<1> QED BY <1>4, <1>5, <1>6

\* One start belongs to one of those chains only.
LEMMA OneOwner ==
  ASSUME Fat32Assumption, NEW R, DiskOK(fat, data, R),
         NEW o1, NEW o2, NEW h \in Clusters, Owns(R, o1, h), Owns(R, o2, h)
  PROVE  o1 = o2
<1>1. Root \in R
  BY DEF DiskOK, RegionOK
<1>2. RootEntry(R, h) => h \notin R
  BY DEF RootEntry, DiskOK, RegionOK
<1>3. ASSUME NEW dir \in Clusters, NEW p \in Positions(Chain(dir)), dir \notin R,
             Live(EntryAt(Chain(dir), p))
      PROVE  LET s == SlotAt(Chain(dir), p)
             IN  /\ s[1] \in Clusters \ R /\ s[2] \in Ordinals
                 /\ EntryAt(Chain(dir), p) = Slot(data, s[1], s[2])
  <2>1. Chain(dir) \in Seen(dir)
    BY ChainFacts
  <2>2. SlotAt(Chain(dir), p)[1] \in Clusters /\ SlotAt(Chain(dir), p)[2] \in Ordinals
    BY <2>1, SeenPlace
  <2>3. SlotAt(Chain(dir), p)[1] \notin R
    BY <1>3, <2>1, SeenInRegion DEF DiskOK
  <2> QED BY <2>2, <2>3, EntryIsOf DEF EntryOf
<1>4. ASSUME NEW dir \in Clusters, NEW p \in Positions(Chain(dir)), dir \notin R,
             Live(EntryAt(Chain(dir), p)), EntryAt(Chain(dir), p).first = h
      PROVE  h \notin R /\ ~RootEntry(R, h)
  <2> DEFINE s == SlotAt(Chain(dir), p)
  <2>1. s[1] \in Clusters \ R /\ s[2] \in Ordinals /\ Live(Slot(data, s[1], s[2]))
        /\ Slot(data, s[1], s[2]).first = h
    BY <1>3, <1>4
  <2> HIDE DEF s
  <2>2. h \notin R
    BY <2>1 DEF DiskOK, RegionOK
  <2>3. ~RootEntry(R, h)
    BY <2>1 DEF DiskOK, EntriesOK, RootEntry
  <2> QED BY <2>2, <2>3
<1>5. ASSUME NEW dir1 \in Clusters, NEW p1 \in Positions(Chain(dir1)),
             RootEntry(R, dir1), dir1 \notin R,
             Live(EntryAt(Chain(dir1), p1)), EntryAt(Chain(dir1), p1).first = h,
             NEW dir2 \in Clusters, NEW p2 \in Positions(Chain(dir2)),
             RootEntry(R, dir2), dir2 \notin R,
             Live(EntryAt(Chain(dir2), p2)), EntryAt(Chain(dir2), p2).first = h
      PROVE  dir1 = dir2 /\ p1 = p2
  <2> DEFINE s1 == SlotAt(Chain(dir1), p1)
             s2 == SlotAt(Chain(dir2), p2)
  <2>1. s1[1] \in Clusters /\ s1[2] \in Ordinals /\ Live(Slot(data, s1[1], s1[2]))
        /\ Slot(data, s1[1], s1[2]).first = h
    BY <1>3, <1>5
  <2>2. s2[1] \in Clusters /\ s2[2] \in Ordinals /\ Live(Slot(data, s2[1], s2[2]))
        /\ Slot(data, s2[1], s2[2]).first = h
    BY <1>3, <1>5
  <2>3. s1[1] = s2[1] /\ s1[2] = s2[2]
    <3> HIDE DEF s1, s2
    <3> QED BY <2>1, <2>2 DEF DiskOK, EntriesOK
  <2>4. NoLinkTo(fat, dir1) /\ NoLinkTo(fat, dir2) /\ fat[dir1] # Free
    BY <1>5 DEF RootEntry, DiskOK, EntriesOK
  <2>5. /\ s1[1] = Chain(dir1)[IndexOf(p1)] /\ IndexOf(p1) \in 1..Len(Chain(dir1))
        /\ s2[1] = Chain(dir2)[IndexOf(p2)] /\ IndexOf(p2) \in 1..Len(Chain(dir2))
    BY PlaceOf, ChainFacts
  <2>6. dir1 = dir2
    <3> SUFFICES ASSUME dir1 # dir2
                 PROVE  FALSE
      OBVIOUS
    <3>1. \A i \in 1..Len(Chain(dir1)), j \in 1..Len(Chain(dir2)) :
            Chain(dir1)[i] # Chain(dir2)[j]
      BY <2>4, ChainFacts, ChainsApart DEF DiskOK
    <3> QED BY <2>3, <2>5, <3>1
  <2>7. SlotAt(Chain(dir1), p1) = SlotAt(Chain(dir1), p2)
    BY <2>3, <2>6 DEF SlotAt
  <2>8. IsInjective(Chain(dir1))
    BY <2>4, ChainFacts, ChainIsWhole DEF DiskOK
  <2>9. p1 = p2
    BY <2>6, <2>7, <2>8, ChainFacts, PlacesDiffer
  <2> QED BY <2>6, <2>9
<1> QED BY <1>1, <1>2, <1>4, <1>5 DEF Owns

\* The invariant makes the chains whole and disjoint.
LEMMA InvDisjoint == CardInv /\ Fat32Assumption => ChainsDisjoint
<1> SUFFICES ASSUME Fat32Assumption, ~wild, NEW R, DiskOK(fat, data, R)
             PROVE  ChainsDisjoint
  BY DEF CardInv, CardOK, ChainsDisjoint
<1>1. ASSUME NEW o \in Owned
      PROVE  fat[Last(o[3])] = EOC /\ IsInjective(o[3])
  <2>1. PICK h \in Clusters : Owns(R, o, h) /\ o[3] = Chain(h) /\ fat[h] # Free /\ NoLinkTo(fat, h)
    BY OwnedStarts
  <2> QED BY <2>1, ChainFacts, ChainIsWhole DEF DiskOK
<1>2. ASSUME NEW o1 \in Owned, NEW o2 \in Owned, o1 # o2
      PROVE  ToSet(o1[3]) \cap ToSet(o2[3]) = {}
  <2>1. PICK h1 \in Clusters : Owns(R, o1, h1) /\ o1[3] = Chain(h1) /\ fat[h1] # Free /\ NoLinkTo(fat, h1)
    BY OwnedStarts
  <2>2. PICK h2 \in Clusters : Owns(R, o2, h2) /\ o2[3] = Chain(h2) /\ fat[h2] # Free /\ NoLinkTo(fat, h2)
    BY OwnedStarts
  <2>3. h1 # h2
    BY <1>2, <2>1, <2>2, OneOwner
  <2>4. \A i \in 1..Len(Chain(h1)), j \in 1..Len(Chain(h2)) : Chain(h1)[i] # Chain(h2)[j]
    BY <2>1, <2>2, <2>3, ChainFacts, ChainsApart DEF DiskOK
  <2>5. DOMAIN Chain(h1) = 1..Len(Chain(h1)) /\ DOMAIN Chain(h2) = 1..Len(Chain(h2))
    BY ChainFacts
  <2> QED BY <2>1, <2>2, <2>4, <2>5 DEF ToSet
<1> QED BY <1>1, <1>2 DEF ChainsDisjoint

-----------------------------------------------------------------------------
(* Fat32Card. Steps of a save: clusters.                                   *)

\* Between calls nothing is asked but the disk and the browser.
LEMMA IdleState ==
  ASSUME NEW f, NEW d, NEW R, NEW home, NEW shown, NEW where,
         DiskOK(f, d, R), BrowserOK(f, d, R, home, shown, where)
  PROVE  CardOK(f, d, R, home, shown, where, Idle)
BY DEF CardOK, WhereOK, SavingOK, DeleteOK, Idle

\* What holds while something is saved: another screen than the browser's is
\* shown, so no list depends on what is on the card.
LEMMA SavingState ==
  ASSUME Fat32Assumption, NEW R, CardOK(fat, data, R, cur, list, screen, op),
         op.at \in SaveSteps
  PROVE  /\ screen \in Writers /\ DiskOK(fat, data, R) /\ SavingOK(fat, data, R, op)
         /\ BrowserOK(fat, data, R, cur, list, screen)
         /\ \A f, d, S : BrowserOK(f, d, S, cur, list, screen)
<1>1. screen \in Writers
  BY DEF CardOK, WhereOK, SaveSteps, DeleteSteps, Idle
<1>2. cur = Root /\ list = {} /\ cur \in Clusters
  BY <1>1 DEF CardOK, BrowserOK, HomeOK
<1>3. \A f, d, S : BrowserOK(f, d, S, cur, list, screen)
  BY <1>1, <1>2 DEF BrowserOK, HomeOK
<1> QED BY <1>1, <1>3 DEF CardOK

\* What to show of a state in which something is being saved.
LEMMA SavingStep ==
  ASSUME NEW f, NEW d, NEW R, NEW home, NEW shown, NEW where, NEW o,
         DiskOK(f, d, R), BrowserOK(f, d, R, home, shown, where), where \in Writers,
         o.at \in SaveSteps, SavingOK(f, d, R, o)
  PROVE  CardOK(f, d, R, home, shown, where, o)
<1>1. DeleteOK(f, d, R, home, o)
  BY DEF DeleteOK, SaveSteps
<1> QED BY <1>1 DEF CardOK, WhereOK

CardInvNext == \E S : CardOK(fat', data', S, cur', list', screen', op')

\* A write of a save: it is done, or the save ends, with the write or without.
LEMMA SavePut ==
  ASSUME Fat32Assumption, NEW R, CardOK(fat, data, R, cur, list, screen, op),
         op.at \in SaveSteps, NEW f, NEW d, NEW next, Put(f, d, next), UNCHANGED browser,
         NEW S, DiskOK(f, d, S), next = Idle \/ (next.at \in SaveSteps /\ SavingOK(f, d, S, next))
  PROVE  CardInvNext
<1>1. screen \in Writers /\ DiskOK(fat, data, R) /\ SavingOK(fat, data, R, op)
      /\ \A f2, d2, S2 : BrowserOK(f2, d2, S2, cur, list, screen)
  BY SavingState
<1>2. screen' = screen /\ cur' = cur /\ list' = list
  BY DEF browser
<1>3. CASE fat' = f /\ data' = d /\ op' = next
  <2>1. CardOK(f, d, S, cur, list, screen, next)
    BY <1>1, IdleState, SavingStep
  <2> QED BY <1>2, <1>3, <2>1 DEF CardInvNext
<1>4. CASE fat' = f /\ data' = d /\ op' = Idle
  <2>1. CardOK(f, d, S, cur, list, screen, Idle)
    BY <1>1, IdleState
  <2> QED BY <1>2, <1>4, <2>1 DEF CardInvNext
<1>5. CASE fat' = fat /\ data' = data /\ op' = Idle
  <2>1. CardOK(fat, data, R, cur, list, screen, Idle)
    BY <1>1, IdleState
  <2> QED BY <1>2, <1>5, <2>1 DEF CardInvNext
<1> QED BY <1>3, <1>4, <1>5 DEF Put, onCard

\* A step of a save that writes nothing.
LEMMA SaveQuiet ==
  ASSUME Fat32Assumption, NEW R, CardOK(fat, data, R, cur, list, screen, op),
         op.at \in SaveSteps, UNCHANGED onCard, UNCHANGED browser,
         op' = Idle \/ (op'.at \in SaveSteps /\ SavingOK(fat, data, R, op'))
  PROVE  CardInvNext
<1>1. screen \in Writers /\ DiskOK(fat, data, R) /\ BrowserOK(fat, data, R, cur, list, screen)
  BY SavingState
<1>2. CardOK(fat, data, R, cur, list, screen, op')
  BY <1>1, IdleState, SavingStep
<1>3. screen' = screen /\ cur' = cur /\ list' = list /\ fat' = fat /\ data' = data
  BY DEF browser, onCard
<1> QED BY <1>2, <1>3 DEF CardInvNext

\* fat_alloc_chain marks a free cluster, or finds none.
LEMMA TakeClusterStep ==
  ASSUME Fat32Assumption, NEW R, CardOK(fat, data, R, cur, list, screen, op), TakeCluster
  PROVE  CardInvNext
<1>1. op.at = "alloc" /\ op.at \in SaveSteps /\ UNCHANGED browser
  BY DEF TakeCluster, SaveSteps
<1>2. AllocOK(fat, data, R, op) /\ DiskOK(fat, data, R)
  BY <1>1 DEF CardOK, SavingOK
<1>3. CASE FreeClusters = {}
  <2>1. op' = Idle /\ UNCHANGED onCard
    BY <1>3 DEF TakeCluster, GiveUp
  <2>2. op' = Idle \/ (op'.at \in SaveSteps /\ SavingOK(fat, data, R, op'))
    BY <2>1
  <2> QED BY <1>1, <2>1, <2>2, SaveQuiet
<1>4. CASE FreeClusters # {}
  <2> DEFINE c == FirstFree
             f == [fat EXCEPT ![c] = EOC]
             step == IF op.got # <<>> THEN "link" ELSE IF op.want = 1 THEN op.then ELSE "alloc"
             next == With(op, [got |-> Append(op.got, c), at |-> step])
  <2>1. Put(f, data, next)
    BY <1>4 DEF TakeCluster
  <2>2. c \in Clusters /\ fat[c] = Free
    <3>1. FreeClusters \subseteq Nat
      BY ClusterValues DEF FreeClusters
    <3>2. FirstFree \in FreeClusters
      <4> DEFINE ahead == {x \in FreeClusters : x >= hint}
      <4>1. ahead \subseteq Nat /\ ahead \subseteq FreeClusters
        BY <3>1
      <4>2. ahead # {} => Min(ahead) \in ahead
        <5> HIDE DEF ahead
        <5> QED BY <4>1, MinIsLeast
      <4>3. Min(FreeClusters) \in FreeClusters
        BY <1>4, <3>1, MinIsLeast
      <4> QED BY <4>1, <4>2, <4>3 DEF FirstFree
    <3> QED BY <3>2 DEF FreeClusters
  <2> HIDE DEF c
  <2>3. /\ DiskOK(f, data, R) /\ Fresh(f, data, R, c) /\ f[c] = EOC
        /\ \A x : Fresh(fat, data, R, x) => Fresh(f, data, R, x) /\ x # c /\ f[x] = fat[x]
    BY <1>2, <2>2, TakeDisk
  <2> HIDE DEF f
  <2>4. /\ next.at = step /\ next.got = Append(op.got, c)
        /\ next.want = op.want /\ next.then = op.then
        /\ {"got", "want", "then"} \subseteq DOMAIN next
        /\ "last" \in DOMAIN op => "last" \in DOMAIN next /\ next.last = op.last
        /\ "entry" \in DOMAIN op => "entry" \in DOMAIN next /\ next.entry = op.entry
        /\ "dir" \in DOMAIN op => "dir" \in DOMAIN next /\ next.dir = op.dir
    BY <1>2 DEF AllocOK, GotOK, With
  <2> HIDE DEF next
  <2>5. op.got \in Seq(Clusters) /\ op.then \in {"init", "clear", "write"}
    BY <1>2 DEF AllocOK, GotOK, ForOK
  <2>6. /\ next.got \in Seq(Clusters) /\ Len(next.got) = Len(op.got) + 1 /\ Len(op.got) \in Nat
        /\ next.got[Len(next.got)] = c /\ \A i \in 1..Len(op.got) : next.got[i] = op.got[i]
    BY <2>2, <2>4, <2>5
  <2>7. GotOK(fat, data, R, op)
    BY <1>2 DEF AllocOK
  <2>8. GotOK(f, data, R, next)
    <3>1. \A i \in 1..Len(next.got) : next.got[i] \notin R
      BY <2>3, <2>6, <2>7 DEF GotOK, Fresh
    <3>2. Fresh(f, data, R, next.got[1])
      <4>1. CASE Len(op.got) = 0
        BY <2>3, <2>6, <4>1
      <4>2. CASE Len(op.got) > 0
        BY <2>3, <2>6, <2>7, <4>2 DEF GotOK
      <4> QED BY <2>6, <4>1, <4>2
    <3> QED BY <2>4, <2>6, <3>1, <3>2 DEF GotOK
  <2>9. ForOK(f, data, R, next, op.then)
    <3>1. ForOK(fat, data, R, op, op.then)
      BY <1>2 DEF AllocOK
    <3>2. ASSUME op.then = "clear"
          PROVE  /\ "last" \in DOMAIN next /\ next.last \in Clusters /\ PendingOK(f, data, R, next)
                 /\ next.entry.kind = "dir" => next.last \in R
                 /\ Len(next.got) > 0 => f[next.got[1]] = EOC /\ next.got[1] # next.entry.first
      <4>1. /\ "last" \in DOMAIN op /\ op.last \in Clusters /\ PendingOK(fat, data, R, op)
            /\ op.entry.kind = "dir" => op.last \in R
        BY <3>1, <3>2 DEF ForOK
      <4>2. "entry" \in DOMAIN op /\ Live(op.entry) /\ Fresh(fat, data, R, op.entry.first)
        BY <4>1 DEF PendingOK
      <4>3. next.entry = op.entry /\ "entry" \in DOMAIN next /\ next.last = op.last /\ "last" \in DOMAIN next
        BY <2>4, <4>1, <4>2
      <4>4. next.got[1] = c
        BY <1>2, <2>5, <2>6, <3>2 DEF AllocOK
      <4> QED BY <2>3, <4>1, <4>2, <4>3, <4>4 DEF PendingOK
    <3>3. op.then = "write" => "dir" \in DOMAIN next /\ next.dir \in Clusters
      BY <2>4, <3>1 DEF ForOK
    <3> QED BY <2>5, <3>2, <3>3 DEF ForOK
  <2>10. SavingOK(f, data, R, next) /\ next.at \in SaveSteps
    <3>1. CASE op.got # <<>>
      <4>1. next.at = "link"
        BY <2>4, <3>1
      <4>2. op.then # "clear" /\ Len(op.got) > 0
        BY <1>2, <2>5, <3>1 DEF AllocOK
      <4>3. next.got[1] # c
        <5>1. Fresh(fat, data, R, op.got[1])
          BY <2>7, <4>2 DEF GotOK
        <5> QED BY <2>3, <2>6, <4>2, <5>1
      <4>4. LinkOK(f, data, R, next)
        BY <2>3, <2>4, <2>6, <2>8, <2>9, <4>2, <4>3 DEF LinkOK
      <4> QED BY <4>1, <4>4 DEF SavingOK, SaveSteps
    <3>2. CASE op.got = <<>> /\ op.want = 1
      <4>1. next.at = op.then
        BY <2>4, <3>2
      <4>2. ReadyOK(f, data, R, next, next.at)
        BY <2>6, <2>8, <2>9, <4>1 DEF ReadyOK
      <4> QED BY <2>5, <4>1, <4>2 DEF SavingOK, SaveSteps
    <3>3. CASE op.got = <<>> /\ op.want # 1
      <4>1. next.at = "alloc"
        BY <2>4, <3>3
      <4>2. op.then # "clear"
        BY <1>2, <3>3 DEF AllocOK
      <4>3. AllocOK(f, data, R, next)
        BY <2>4, <2>8, <2>9, <4>2 DEF AllocOK
      <4> QED BY <4>1, <4>3 DEF SavingOK, SaveSteps
    <3> QED BY <3>1, <3>2, <3>3
  <2> QED BY <1>1, <2>1, <2>3, <2>10, SavePut
<1> QED BY <1>3, <1>4

\* fat_alloc_chain appends it to the chain it builds.
LEMMA LinkClusterStep ==
  ASSUME Fat32Assumption, NEW R, CardOK(fat, data, R, cur, list, screen, op), LinkCluster
  PROVE  CardInvNext
<1>1. op.at = "link" /\ op.at \in SaveSteps /\ UNCHANGED browser
  BY DEF LinkCluster, SaveSteps
<1>2. LinkOK(fat, data, R, op) /\ DiskOK(fat, data, R)
  BY <1>1 DEF CardOK, SavingOK
<1> DEFINE n == Len(op.got)
           x == op.got[n - 1]
           y == op.got[n]
           f == [fat EXCEPT ![x] = y]
           next == With(op, [at |-> IF n = op.want THEN op.then ELSE "alloc"])
<1>3. Put(f, data, next)
  BY DEF LinkCluster
<1>4. GotOK(fat, data, R, op) /\ ForOK(fat, data, R, op, op.then) /\ op.then # "clear"
      /\ n >= 2 /\ Fresh(fat, data, R, y) /\ y # op.got[1]
  BY <1>2 DEF LinkOK
<1>5. op.got \in Seq(Clusters) /\ n \in Nat
  BY <1>4 DEF GotOK
<1>6. x \in Clusters /\ x \notin R /\ op.then \in {"init", "clear", "write"}
  BY <1>4, <1>5 DEF GotOK, ForOK
<1>7. /\ next.at = (IF n = op.want THEN op.then ELSE "alloc") /\ next.got = op.got
      /\ next.want = op.want /\ next.then = op.then
      /\ {"got", "want", "then"} \subseteq DOMAIN next
      /\ "dir" \in DOMAIN op => "dir" \in DOMAIN next /\ next.dir = op.dir
  BY <1>2 DEF LinkOK, GotOK, With
<1> HIDE DEF next, x, y
<1>8. /\ DiskOK(f, data, R)
      /\ \A z : Fresh(fat, data, R, z) /\ z # y => Fresh(f, data, R, z)
  BY <1>2, <1>4, <1>6, LinkDisk DEF Grown
<1> HIDE DEF f
<1>9. GotOK(f, data, R, next)
  <2>1. Fresh(f, data, R, op.got[1])
    BY <1>4, <1>5, <1>8 DEF GotOK
  <2> QED BY <1>4, <1>7, <2>1 DEF GotOK
<1>10. ForOK(f, data, R, next, op.then)
  BY <1>4, <1>7 DEF ForOK
<1>11. SavingOK(f, data, R, next) /\ next.at \in SaveSteps
  <2>1. CASE n = op.want
    <3>1. next.at = op.then
      BY <1>7, <2>1
    <3>2. ReadyOK(f, data, R, next, next.at)
      BY <1>4, <1>5, <1>7, <1>9, <1>10, <3>1 DEF ReadyOK
    <3> QED BY <1>6, <3>1, <3>2 DEF SavingOK, SaveSteps
  <2>2. CASE n # op.want
    <3>1. next.at = "alloc"
      BY <1>7, <2>2
    <3>2. AllocOK(f, data, R, next)
      BY <1>4, <1>7, <1>9, <1>10 DEF AllocOK
    <3> QED BY <3>1, <3>2 DEF SavingOK, SaveSteps
  <2> QED BY <2>1, <2>2
<1> QED BY <1>1, <1>3, <1>8, <1>11, SavePut

-----------------------------------------------------------------------------
(* Fat32Card. Steps of a save: directories and data.                       *)

\* What is listed of a directory: the entry in its slot, and its chain.
LEMMA ListedEntry ==
  ASSUME Fat32Assumption, NEW R, DiskOK(fat, data, R), NEW c \in Clusters, NEW s \in Seen(c),
         NEW p \in Listed(s)
  PROVE  LET e == EntryAt(s, p)
         IN  /\ p \in Positions(s) /\ p \in Positions(Chain(c))
             /\ EntryOf(data, Chain(c), p) = e /\ Live(e)
             /\ e.first \in Clusters \ R /\ NoLinkTo(fat, e.first)
             /\ e.kind = "dir" => c \in R
             /\ \E x \in Clusters, i \in Ordinals : e = Slot(data, x, i)
<1> DEFINE e == EntryAt(s, p)
<1>1. s \in Seq(Clusters)
  BY SeenIsBeginning
<1>2. p \in Positions(s) /\ Live(e)
  BY <1>1, ListedIsLive DEF DiskOK
<1>3. /\ p \in Positions(Chain(c)) /\ SlotAt(Chain(c), p) = SlotAt(s, p)
      /\ SlotAt(s, p)[1] \in Clusters /\ SlotAt(s, p)[2] \in Ordinals
  BY <1>2, SeenPlace
<1>4. e = Slot(data, SlotAt(s, p)[1], SlotAt(s, p)[2])
  BY EntryIsOf DEF EntryOf
<1>5. EntryOf(data, Chain(c), p) = e
  BY <1>3, <1>4 DEF EntryOf
<1>6. SlotAt(s, p)[1] \in R <=> c \in R
  BY <1>2, SeenInRegion DEF DiskOK
<1>7. e.first \in Clusters \ R /\ NoLinkTo(fat, e.first) /\ (e.kind = "dir" => c \in R)
  <2> HIDE DEF e
  <2> QED BY <1>2, <1>3, <1>4, <1>6 DEF DiskOK, EntriesOK, RegionOK
<1> QED BY <1>2, <1>3, <1>4, <1>5, <1>7

\* Clusters written over with zeros or with a file are all that BlankDisk asks.
LEMMA BlankedBy ==
  ASSUME Fat32Assumption, NEW d, ShapeOK(d), NEW e, e = [c \in Clusters |-> e[c]],
         \A c \in Clusters : e[c] = d[c] \/ e[c] = Zeroed \/ \E id : e[c] = Holding(id)
  PROVE  Blanked(d, e)
<1>1. ASSUME NEW c \in Clusters
      PROVE  /\ e[c] = [slots |-> [i \in Ordinals |-> Slot(e, c, i)], file |-> e[c].file]
             /\ \A i \in Ordinals : Slot(e, c, i) = Slot(d, c, i) \/ Slot(e, c, i) \in {End, Deleted}
  <2>1. CASE e[c] = d[c]
    <3>1. d[c] = [slots |-> [i \in Ordinals |-> Slot(d, c, i)], file |-> d[c].file]
      BY DEF ShapeOK
    <3>2. \A i : Slot(e, c, i) = Slot(d, c, i)
      BY <2>1 DEF Slot
    <3> QED BY <2>1, <3>1, <3>2
  <2>2. CASE e[c] = Zeroed
    BY <2>2 DEF Zeroed, Slot, Ordinals
  <2>3. ASSUME NEW id, e[c] = Holding(id)
        PROVE  /\ e[c] = [slots |-> [i \in Ordinals |-> Slot(e, c, i)], file |-> e[c].file]
               /\ \A i \in Ordinals : Slot(e, c, i) \in {End, Deleted}
    BY <2>3 DEF Holding, Slot, Ordinals
  <2> QED BY <2>1, <2>2, <2>3
<1>2. e = [c \in Clusters |-> [slots |-> [i \in Ordinals |-> Slot(e, c, i)], file |-> e[c].file]]
  BY <1>1
<1>3. \A c \in Clusters, i \in Ordinals :
        Slot(e, c, i) \in {End, Deleted} \/ Live(Slot(e, c, i))
  BY <1>1 DEF ShapeOK
<1> QED BY <1>1, <1>2, <1>3 DEF Blanked, ShapeOK

\* fat_dir_find_slots finds a slot, or sees that the directory must grow.
LEMMA FindSlotStep ==
  ASSUME Fat32Assumption, NEW R, CardOK(fat, data, R, cur, list, screen, op), FindSlot
  PROVE  CardInvNext
<1>1. op.at = "slot" /\ op.at \in SaveSteps /\ UNCHANGED browser /\ UNCHANGED onCard
  BY DEF FindSlot, SaveSteps
<1>2. SlotOK(fat, data, R, op) /\ DiskOK(fat, data, R)
  BY <1>1 DEF CardOK, SavingOK
<1>3. /\ op.into \in Clusters /\ (op.entry.kind = "dir" => op.into \in R)
      /\ "entry" \in DOMAIN op /\ Live(op.entry) /\ Fresh(fat, data, R, op.entry.first)
  BY <1>2 DEF SlotOK, PendingOK, DiskOK, RegionOK
<1> DEFINE open(s) == {p \in Positions(s) : EntryAt(s, p) \in {End, Deleted}}
<1>4. PICK seen \in Seen(op.into) :
        \/ /\ open(seen) # {}
           /\ op' = With(op, [at |-> "enter", slot |-> SlotAt(seen, Min(open(seen)))])
        \/ op' = Alloc(With(op, [last |-> Last(seen)]), 1, "clear")
  BY DEF FindSlot
<1>5. CASE open(seen) # {} /\ op' = With(op, [at |-> "enter", slot |-> SlotAt(seen, Min(open(seen)))])
  <2> DEFINE p == Min(open(seen))
             s == SlotAt(seen, p)
  <2>1. p \in Positions(seen)
    <3>1. open(seen) \subseteq Nat /\ open(seen) \subseteq Positions(seen)
      BY DEF Positions
    <3> HIDE DEF open
    <3> QED BY <1>5, <3>1, MinIsLeast
  <2> HIDE DEF p, open
  <2>2. s[1] \in Clusters /\ s[2] \in Ordinals
    BY <1>3, <2>1, SeenPlace
  <2>3. op.entry.kind = "dir" => s[1] \in R
    BY <1>2, <1>3, <2>1, SeenInRegion DEF DiskOK
  <2>4. op' = With(op, [at |-> "enter", slot |-> s])
    BY <1>5 DEF p
  <2> HIDE DEF s
  <2>5. /\ op'.at = "enter" /\ op'.slot = s /\ "slot" \in DOMAIN op'
        /\ op'.entry = op.entry /\ "entry" \in DOMAIN op'
    BY <1>3, <2>4 DEF With
  <2>6. EnterOK(fat, data, R, op')
    BY <1>3, <2>2, <2>3, <2>5 DEF EnterOK, PendingOK
  <2>7. SavingOK(fat, data, R, op') /\ op'.at \in SaveSteps
    BY <2>5, <2>6 DEF SavingOK, SaveSteps
  <2> QED BY <1>1, <2>7, SaveQuiet
<1>6. CASE op' = Alloc(With(op, [last |-> Last(seen)]), 1, "clear")
  <2> DEFINE last == Last(seen)
  <2>1. last \in Clusters /\ (op.entry.kind = "dir" => last \in R)
    BY <1>2, <1>3, SeenInRegion DEF DiskOK
  <2>2. op' = Alloc(With(op, [last |-> last]), 1, "clear")
    BY <1>6
  <2> HIDE DEF last
  <2>3. /\ op'.at = "alloc" /\ op'.got = <<>> /\ op'.want = 1 /\ op'.then = "clear"
        /\ {"got", "want", "then", "last"} \subseteq DOMAIN op' /\ op'.last = last
        /\ op'.entry = op.entry /\ "entry" \in DOMAIN op'
    BY <1>3, <2>2 DEF With, Alloc
  <2>4. GotOK(fat, data, R, op')
    <3>1. op'.got \in Seq(Clusters) /\ Len(op'.got) = 0
      BY <2>3
    <3> QED BY <2>3, <3>1 DEF GotOK
  <2>5. PendingOK(fat, data, R, op')
    BY <1>3, <2>3 DEF PendingOK
  <2>6. ForOK(fat, data, R, op', "clear")
    <3>1. Len(op'.got) = 0
      BY <2>3
    <3> QED BY <2>1, <2>3, <2>5, <3>1 DEF ForOK
  <2>7. AllocOK(fat, data, R, op')
    BY <2>3, <2>4, <2>6 DEF AllocOK
  <2>8. SavingOK(fat, data, R, op') /\ op'.at \in SaveSteps
    BY <2>3, <2>7 DEF SavingOK, SaveSteps
  <2> QED BY <1>1, <2>8, SaveQuiet
<1> QED BY <1>4, <1>5, <1>6

\* fat_dir_find_slots clears the cluster by which the directory grows.
LEMMA ClearClusterStep ==
  ASSUME Fat32Assumption, NEW R, CardOK(fat, data, R, cur, list, screen, op), ClearCluster
  PROVE  CardInvNext
<1>1. op.at = "clear" /\ op.at \in SaveSteps /\ UNCHANGED browser
  BY DEF ClearCluster, SaveSteps
<1>2. ReadyOK(fat, data, R, op, "clear") /\ DiskOK(fat, data, R)
  BY <1>1 DEF CardOK, SavingOK
<1>3. /\ "got" \in DOMAIN op /\ op.got \in Seq(Clusters) /\ Len(op.got) > 0
      /\ (\A i \in 1..Len(op.got) : op.got[i] \notin R) /\ Fresh(fat, data, R, op.got[1])
      /\ "last" \in DOMAIN op /\ op.last \in Clusters
      /\ (op.entry.kind = "dir" => op.last \in R)
      /\ fat[op.got[1]] = EOC /\ op.got[1] # op.entry.first
      /\ "entry" \in DOMAIN op /\ Live(op.entry) /\ Fresh(fat, data, R, op.entry.first)
  BY <1>2 DEF ReadyOK, GotOK, ForOK, PendingOK
<1> DEFINE d == [data EXCEPT ![op.got[1]] = Zeroed]
           next == With(op, [at |-> "join", slot |-> <<op.got[1], 1>>])
<1>4. Put(fat, d, next)
  BY DEF ClearCluster
<1>5. Blanked(data, d)
  <2>1. ShapeOK(data)
    BY <1>2 DEF DiskOK
  <2>2. data = [c \in Clusters |-> data[c]]
    BY <2>1 DEF ShapeOK
  <2>3. d = [c \in Clusters |-> d[c]] /\ \A c \in Clusters : d[c] = data[c] \/ d[c] = Zeroed
    BY <2>2
  <2> HIDE DEF d
  <2> QED BY <2>1, <2>3, BlankedBy
<1> HIDE DEF d
<1>6. DiskOK(fat, d, R) /\ \A c : Fresh(fat, data, R, c) => Fresh(fat, d, R, c)
  BY <1>2, <1>5, BlankDisk
<1>7. /\ next.at = "join" /\ next.slot = <<op.got[1], 1>> /\ next.got = op.got
      /\ next.entry = op.entry /\ next.last = op.last
      /\ {"got", "last", "entry", "slot"} \subseteq DOMAIN next
  BY <1>3 DEF With
<1> HIDE DEF next
<1>8. ReadyOK(fat, d, R, next, "clear")
  <2>1. GotOK(fat, d, R, next)
    BY <1>3, <1>6, <1>7 DEF GotOK
  <2>2. PendingOK(fat, d, R, next)
    BY <1>3, <1>6, <1>7 DEF PendingOK
  <2>3. ForOK(fat, d, R, next, "clear")
    BY <1>3, <1>7, <2>2 DEF ForOK
  <2> QED BY <1>3, <1>7, <2>1, <2>3 DEF ReadyOK
<1>9. JoinOK(fat, d, R, next)
  BY <1>7, <1>8 DEF JoinOK
<1>10. SavingOK(fat, d, R, next) /\ next.at \in SaveSteps
  BY <1>7, <1>9 DEF SavingOK, SaveSteps
<1> QED BY <1>1, <1>4, <1>6, <1>10, SavePut

\* fat_dir_find_slots joins it to the directory: the last write of the three.
LEMMA JoinClusterStep ==
  ASSUME Fat32Assumption, NEW R, CardOK(fat, data, R, cur, list, screen, op), JoinCluster
  PROVE  CardInvNext
<1>1. op.at = "join" /\ op.at \in SaveSteps /\ UNCHANGED browser
  BY DEF JoinCluster, SaveSteps
<1>2. JoinOK(fat, data, R, op) /\ DiskOK(fat, data, R)
  BY <1>1 DEF CardOK, SavingOK
<1>3. /\ op.got \in Seq(Clusters) /\ Len(op.got) > 0 /\ Fresh(fat, data, R, op.got[1])
      /\ op.last \in Clusters /\ (op.entry.kind = "dir" => op.last \in R)
      /\ fat[op.got[1]] = EOC /\ op.got[1] # op.entry.first
      /\ "entry" \in DOMAIN op /\ Live(op.entry) /\ Fresh(fat, data, R, op.entry.first)
      /\ "slot" \in DOMAIN op /\ op.slot = <<op.got[1], 1>>
  BY <1>2 DEF JoinOK, ReadyOK, GotOK, ForOK, PendingOK
<1> DEFINE x == op.last
           y == op.got[1]
           f == [fat EXCEPT ![x] = y]
           S == Grown(R, x, y)
           next == With(op, [at |-> "enter"])
<1>4. Put(f, data, next)
  BY DEF JoinCluster
<1>5. y \in Clusters /\ op.slot[1] = y /\ op.slot[2] = 1
  BY <1>3
<1>6. x \in Clusters /\ Fresh(fat, data, R, y) /\ (x \in R => fat[y] = EOC)
  BY <1>3
<1> HIDE DEF x, y
<1>7. /\ DiskOK(f, data, S) /\ R \subseteq S
      /\ \A z : Fresh(fat, data, R, z) /\ z # y => Fresh(f, data, S, z)
  BY <1>2, <1>5, <1>6, LinkDisk
<1>8. x \in R => y \in S
  BY DEF Grown
<1> HIDE DEF f, S
<1>9. next.at = "enter" /\ next.slot = op.slot /\ next.entry = op.entry
      /\ {"slot", "entry"} \subseteq DOMAIN next
  BY <1>3 DEF With
<1> HIDE DEF next
<1>10. Fresh(f, data, S, op.entry.first)
  BY <1>3, <1>7 DEF y
<1>11. op.entry.kind = "dir" => y \in S
  BY <1>3, <1>8 DEF x
<1>12. EnterOK(f, data, S, next)
  BY <1>3, <1>5, <1>9, <1>10, <1>11, ClusterValues DEF EnterOK, PendingOK
<1>13. SavingOK(f, data, S, next) /\ next.at \in SaveSteps
  BY <1>9, <1>12 DEF SavingOK, SaveSteps
<1> QED BY <1>1, <1>4, <1>7, <1>13, SavePut

\* fat_dir_write_slots enters a chain that nothing led to before.
LEMMA EnterStep ==
  ASSUME Fat32Assumption, NEW R, CardOK(fat, data, R, cur, list, screen, op), Enter
  PROVE  CardInvNext
<1>1. op.at = "enter" /\ op.at \in SaveSteps /\ UNCHANGED browser
  BY DEF Enter, SaveSteps
<1>2. EnterOK(fat, data, R, op) /\ DiskOK(fat, data, R)
  BY <1>1 DEF CardOK, SavingOK
<1>3. /\ Live(op.entry) /\ Fresh(fat, data, R, op.entry.first)
      /\ op.slot[1] \in Clusters /\ op.slot[2] \in Ordinals
      /\ op.entry.kind = "dir" => op.slot[1] \in R
  BY <1>2 DEF EnterOK, PendingOK
<1> DEFINE d == WriteSlot(data, op.slot[1], op.slot[2], op.entry)
           next == IF op.entry.kind = "file" THEN Idle
                   ELSE [at |-> "name", dir |-> op.entry.first,
                         id |-> op.id, size |-> op.size]
<1>4. Put(fat, d, next)
  BY DEF Enter, WriteSlot
<1>5. DiskOK(fat, d, R)
  BY <1>2, <1>3, EnterDisk
<1>6. next = Idle \/ (next.at \in SaveSteps /\ SavingOK(fat, d, R, next))
  <2>1. op.entry.first \in Clusters
    BY <1>3 DEF Fresh
  <2>2. CASE op.entry.kind # "file"
    <3>1. next.at = "name" /\ next.dir = op.entry.first /\ "dir" \in DOMAIN next
      BY <2>2
    <3> HIDE DEF next
    <3> QED BY <2>1, <3>1 DEF SavingOK, SaveSteps
  <2> QED BY <2>2
<1> HIDE DEF d, next
<1> QED BY <1>1, <1>4, <1>5, <1>6, SavePut

\* A save begins on a writer's screen.
LEMMA BeginSaveStep ==
  ASSUME Fat32Assumption, NEW R, CardOK(fat, data, R, cur, list, screen, op),
         NEW size, BeginSave(size)
  PROVE  CardInvNext
<1>1. screen \in Writers /\ UNCHANGED browser /\ UNCHANGED onCard
      /\ op' = [at |-> "find_dir", id |-> saves + 1, size |-> size]
  BY DEF BeginSave
<1>2. op'.at = "find_dir" /\ op'.at \in SaveSteps
  BY <1>1 DEF SaveSteps
<1>3. SavingOK(fat, data, R, op')
  BY <1>2 DEF SavingOK
<1>4. CardOK(fat, data, R, cur, list, screen, op')
  BY <1>1, <1>2, <1>3, SavingStep DEF CardOK
<1>5. screen' = screen /\ cur' = cur /\ list' = list /\ fat' = fat /\ data' = data
  BY <1>1 DEF browser, onCard
<1> QED BY <1>4, <1>5 DEF CardInvNext

\* A search for free clusters that has just begun.
LEMMA AllocBegun ==
  ASSUME NEW f, NEW d, NEW R, NEW o, NEW use \in {"init", "write"},
         o.at = "alloc", o.got = <<>>, o.then = use, {"got", "want", "then"} \subseteq DOMAIN o,
         use = "write" => "dir" \in DOMAIN o /\ o.dir \in Clusters
  PROVE  SavingOK(f, d, R, o) /\ o.at \in SaveSteps
<1>1. o.got \in Seq(Clusters) /\ Len(o.got) = 0
  OBVIOUS
<1>2. GotOK(f, d, R, o)
  BY <1>1 DEF GotOK
<1>3. ForOK(f, d, R, o, use)
  BY DEF ForOK
<1>4. AllocOK(f, d, R, o)
  BY <1>2, <1>3 DEF AllocOK
<1> QED BY <1>4 DEF SavingOK, SaveSteps

\* photo_ensure_dir finds the directory, or begins to make one.
LEMMA FindDirStep ==
  ASSUME Fat32Assumption, NEW R, CardOK(fat, data, R, cur, list, screen, op), FindDir
  PROVE  CardInvNext
<1>1. op.at = "find_dir" /\ op.at \in SaveSteps /\ UNCHANGED browser /\ UNCHANGED onCard
  BY DEF FindDir, SaveSteps
<1> DEFINE named(s) == {p \in Listed(s) : EntryAt(s, p).kind = "dir"
                                          /\ EntryAt(s, p).name = screen}
<1>2. PICK seen \in Seen(Root) :
        \/ /\ named(seen) # {}
           /\ op' = With(op, [at |-> "name", dir |-> EntryAt(seen, Min(named(seen))).first])
        \/ op' = Alloc(op, 1, "init")
  BY DEF FindDir
<1>3. CASE /\ named(seen) # {}
           /\ op' = With(op, [at |-> "name", dir |-> EntryAt(seen, Min(named(seen))).first])
  <2>1. Root \in Clusters /\ DiskOK(fat, data, R)
    BY ClusterValues DEF CardOK
  <2>2. Min(named(seen)) \in Listed(seen)
    <3>1. \A p \in Listed(seen) : p \in Nat
      BY <2>1, ListedEntry DEF Positions
    <3>2. named(seen) \subseteq Nat /\ named(seen) \subseteq Listed(seen)
      BY <3>1
    <3> HIDE DEF named
    <3> QED BY <1>3, <3>2, MinIsLeast
  <2> DEFINE first == EntryAt(seen, Min(named(seen))).first
  <2>3. first \in Clusters
    BY <2>1, <2>2, ListedEntry
  <2>4. op' = With(op, [at |-> "name", dir |-> first])
    BY <1>3
  <2> HIDE DEF first
  <2>5. op'.at = "name" /\ op'.dir = first /\ "dir" \in DOMAIN op'
    BY <2>4 DEF With
  <2>6. SavingOK(fat, data, R, op') /\ op'.at \in SaveSteps
    BY <2>3, <2>5 DEF SavingOK, SaveSteps
  <2> QED BY <1>1, <2>6, SaveQuiet
<1>4. CASE op' = Alloc(op, 1, "init")
  <2>1. /\ op'.at = "alloc" /\ op'.got = <<>> /\ op'.then = "init"
        /\ {"got", "want", "then"} \subseteq DOMAIN op'
    BY <1>4 DEF Alloc, With
  <2>2. SavingOK(fat, data, R, op') /\ op'.at \in SaveSteps
    BY <2>1, AllocBegun
  <2> QED BY <1>1, <2>2, SaveQuiet
<1> QED BY <1>2, <1>3, <1>4

\* fat_init_directory_cluster clears the cluster of a directory to be.
LEMMA InitDirStep ==
  ASSUME Fat32Assumption, NEW R, CardOK(fat, data, R, cur, list, screen, op), InitDir
  PROVE  CardInvNext
<1>1. op.at = "init" /\ op.at \in SaveSteps /\ UNCHANGED browser
  BY DEF InitDir, SaveSteps
<1>2. ReadyOK(fat, data, R, op, "init") /\ DiskOK(fat, data, R)
  BY <1>1 DEF CardOK, SavingOK
<1> DEFINE g == op.got[1]
           d == [data EXCEPT ![g] = Zeroed]
           next == With(op, [at |-> "slot", into |-> Root, entry |-> DirEntry(screen, g)])
<1>3. Put(fat, d, next)
  BY DEF InitDir
<1>4. Fresh(fat, data, R, g)
  BY <1>2 DEF ReadyOK, GotOK
<1> HIDE DEF g
<1>5. Blanked(data, d)
  <2>1. ShapeOK(data)
    BY <1>2 DEF DiskOK
  <2>2. data = [c \in Clusters |-> data[c]]
    BY <2>1 DEF ShapeOK
  <2>3. d = [c \in Clusters |-> d[c]] /\ \A c \in Clusters : d[c] = data[c] \/ d[c] = Zeroed
    BY <2>2
  <2> HIDE DEF d
  <2> QED BY <2>1, <2>3, BlankedBy
<1> HIDE DEF d
<1>6. DiskOK(fat, d, R) /\ \A c : Fresh(fat, data, R, c) => Fresh(fat, d, R, c)
  BY <1>2, <1>5, BlankDisk
<1>7. /\ next.at = "slot" /\ next.into = Root /\ next.entry = DirEntry(screen, g)
      /\ {"into", "entry"} \subseteq DOMAIN next
  BY DEF With
<1> HIDE DEF next
<1>8. next.entry.first = g /\ Live(next.entry)
  BY <1>7 DEF DirEntry, Live
<1>9. SlotOK(fat, d, R, next)
  BY <1>4, <1>6, <1>7, <1>8, ClusterValues DEF SlotOK, PendingOK
<1>10. SavingOK(fat, d, R, next) /\ next.at \in SaveSteps
  BY <1>7, <1>9 DEF SavingOK, SaveSteps
<1> QED BY <1>1, <1>3, <1>6, <1>10, SavePut

\* photo_next_name gives a name.
LEMMA NextNameStep ==
  ASSUME Fat32Assumption, NEW R, CardOK(fat, data, R, cur, list, screen, op), NextName
  PROVE  CardInvNext
<1>1. op.at = "name" /\ op.at \in SaveSteps /\ UNCHANGED browser /\ UNCHANGED onCard
  BY DEF NextName, SaveSteps
<1>2. "dir" \in DOMAIN op /\ op.dir \in Clusters
  BY <1>1 DEF CardOK, SavingOK
<1>3. PICK name : op' = Alloc(With(op, [name |-> name]), op.size, "write")
  BY DEF NextName
<1>4. /\ op'.at = "alloc" /\ op'.got = <<>> /\ op'.then = "write" /\ op'.dir = op.dir
      /\ {"got", "want", "then", "dir"} \subseteq DOMAIN op'
  BY <1>2, <1>3 DEF Alloc, With
<1>5. SavingOK(fat, data, R, op') /\ op'.at \in SaveSteps
  BY <1>2, <1>4, AllocBegun
<1> QED BY <1>1, <1>5, SaveQuiet

\* photo_write_file_chain writes the data to clusters nothing leads to.
LEMMA WriteDataStep ==
  ASSUME Fat32Assumption, NEW R, CardOK(fat, data, R, cur, list, screen, op), WriteData
  PROVE  CardInvNext
<1>1. op.at = "write" /\ op.at \in SaveSteps /\ UNCHANGED browser
  BY DEF WriteData, SaveSteps
<1>2. ReadyOK(fat, data, R, op, "write") /\ DiskOK(fat, data, R)
  BY <1>1 DEF CardOK, SavingOK
<1> DEFINE g == op.got[1]
           d == [c \in Clusters |-> IF c \in ToSet(op.got) THEN Holding(op.id) ELSE data[c]]
           next == [at |-> "slot", into |-> op.dir,
                    entry |-> FileEntry(op.name, g, op.size, op.id)]
<1>3. Put(fat, d, next)
  BY DEF WriteData
<1>4. Fresh(fat, data, R, g) /\ op.dir \in Clusters
  BY <1>2 DEF ReadyOK, GotOK, ForOK
<1> HIDE DEF g
<1>5. Blanked(data, d)
  <2>1. ShapeOK(data)
    BY <1>2 DEF DiskOK
  <2>2. d = [c \in Clusters |-> d[c]]
        /\ \A c \in Clusters : d[c] = data[c] \/ \E id : d[c] = Holding(id)
    OBVIOUS
  <2> HIDE DEF d
  <2> QED BY <2>1, <2>2, BlankedBy
<1> HIDE DEF d
<1>6. DiskOK(fat, d, R) /\ \A c : Fresh(fat, data, R, c) => Fresh(fat, d, R, c)
  BY <1>2, <1>5, BlankDisk
<1>7. /\ next.at = "slot" /\ next.into = op.dir /\ next.entry.kind = "file"
      /\ next.entry.first = g /\ {"into", "entry"} \subseteq DOMAIN next
  BY DEF FileEntry
<1> HIDE DEF next
<1>8. SlotOK(fat, d, R, next)
  BY <1>4, <1>6, <1>7 DEF SlotOK, PendingOK, Live
<1>9. SavingOK(fat, d, R, next) /\ next.at \in SaveSteps
  BY <1>7, <1>8 DEF SavingOK, SaveSteps
<1> QED BY <1>1, <1>3, <1>6, <1>9, SavePut

-----------------------------------------------------------------------------
(* Fat32Card. Steps of a deletion.                                         *)

\* Taking an entry out of its slot leaves every item as it should be.
LEMMA ItemMarked ==
  ASSUME Fat32Assumption, NEW f, NEW d, NEW R, DiskOK(f, d, R), NEW x \in Clusters,
         NEW i \in Ordinals, NEW e, e = WriteSlot(d, x, i, Deleted)
  PROVE  /\ Blanked(d, e)
         /\ \A home, in, pos, item :
              ItemOK(f, d, R, home, in, pos, item) => ItemOK(f, e, R, home, in, pos, item)
         /\ \A first : Live(Slot(d, x, i)) /\ Slot(d, x, i).first = first => NotHead(e, first)
<1>1. ShapeOK(d)
  BY DEF DiskOK
<1>2. /\ ShapeOK(e)
      /\ \A c \in Clusters, j \in Ordinals :
           Slot(e, c, j) = IF c = x /\ j = i THEN Deleted ELSE Slot(d, c, j)
  BY <1>1, SlotWrite
<1>3. Blanked(d, e)
  BY <1>2 DEF Blanked
<1>4. ASSUME NEW first, Live(Slot(d, x, i)), Slot(d, x, i).first = first
      PROVE  NotHead(e, first)
  <2> SUFFICES ASSUME NEW c \in Clusters, NEW j \in Ordinals, Live(Slot(e, c, j)),
                      Slot(e, c, j).first = first
               PROVE  FALSE
    BY DEF NotHead
  <2>1. ~(c = x /\ j = i)
    BY <1>2, DeadEntries
  <2>2. Live(Slot(d, c, j)) /\ Slot(d, c, j).first = first
    BY <1>2, <2>1
  <2> QED BY <1>4, <2>1, <2>2 DEF DiskOK, EntriesOK
<1>5. ASSUME NEW home, NEW in, NEW pos, NEW item, ItemOK(f, d, R, home, in, pos, item)
      PROVE  ItemOK(f, e, R, home, in, pos, item)
  <2> DEFINE chain == ChainIn(f, in)
             s == SlotAt(chain, pos)
  <2>1. /\ Live(item) /\ item.first \in Clusters \ R /\ NoLinkTo(f, item.first)
        /\ item.first # home /\ in \in Clusters
        /\ \/ NotHead(d, item.first)
           \/ pos \in Positions(chain) /\ EntryOf(d, chain, pos) = item
    BY <1>5 DEF ItemOK
  <2>2. chain \in Seq(Clusters)
    BY <2>1, ChainIsChain DEF IsChain
  <2> HIDE DEF chain
  <2>3. CASE NotHead(d, item.first)
    BY <1>3, <2>1, <2>3, BlankDisk DEF ItemOK
  <2>4. CASE pos \in Positions(chain) /\ EntryOf(d, chain, pos) = item
    <3>1. s[1] \in Clusters /\ s[2] \in Ordinals /\ Slot(d, s[1], s[2]) = item
      <4>1. Len(chain) \in Nat /\ \A j \in 1..Len(chain) : chain[j] \in Clusters
        BY <2>2
      <4>2. /\ s[1] = chain[IndexOf(pos)] /\ IndexOf(pos) \in 1..Len(chain)
            /\ s[2] = OrdinalOf(pos) /\ OrdinalOf(pos) \in Ordinals
        BY <2>4, <4>1, PlaceOf
      <4>3. Slot(d, s[1], s[2]) = item
        BY <2>4 DEF EntryOf
      <4> QED BY <4>1, <4>2, <4>3
    <3> HIDE DEF s
    <3>2. CASE s[1] = x /\ s[2] = i
      <4>1. NotHead(e, item.first)
        BY <1>4, <2>1, <3>1, <3>2
      <4> QED BY <2>1, <4>1 DEF ItemOK
    <3>3. CASE ~(s[1] = x /\ s[2] = i)
      <4>1. Slot(e, s[1], s[2]) = item
        BY <1>2, <3>1, <3>3
      <4>2. EntryOf(e, chain, pos) = item
        BY <4>1 DEF EntryOf, s
      <4> QED BY <2>1, <2>4, <4>2 DEF ItemOK, chain
    <3> QED BY <3>2, <3>3
  <2> QED BY <2>1, <2>3, <2>4
<1> QED BY <1>3, <1>4, <1>5

\* So does freeing a cluster to which nothing leads, elsewhere.
LEMMA ItemFreed ==
  ASSUME Fat32Assumption, NEW f, NEW d, NEW R, DiskOK(f, d, R),
         NEW k \in Clusters \ R, NoLinkTo(f, k), NotHead(d, k),
         NEW home, NEW in, NEW pos, NEW item, k # in, ItemOK(f, d, R, home, in, pos, item)
  PROVE  ItemOK([f EXCEPT ![k] = Free], d, R, home, in, pos, item)
<1> DEFINE g == [f EXCEPT ![k] = Free]
<1>1. /\ Live(item) /\ item.first \in Clusters \ R /\ NoLinkTo(f, item.first)
      /\ item.first # home /\ in \in Clusters
      /\ \/ NotHead(d, item.first)
         \/ pos \in Positions(ChainIn(f, in)) /\ EntryOf(d, ChainIn(f, in), pos) = item
  BY DEF ItemOK
<1>2. ChainIn(g, in) = ChainIn(f, in)
  <2>1. f \in [Clusters -> Links]
    BY DEF DiskOK, LinksOK
  <2> QED BY <1>1, <2>1, ChainStays
<1>3. NoLinkTo(g, item.first)
  BY <1>1, FreeDisk
<1> HIDE DEF g
<1> QED BY <1>1, <1>2, <1>3 DEF ItemOK, g

\* The browser after either.
LEMMA BrowserMarked ==
  ASSUME Fat32Assumption, NEW f, NEW d, NEW R, DiskOK(f, d, R), NEW x \in Clusters,
         NEW i \in Ordinals, NEW e, e = WriteSlot(d, x, i, Deleted),
         NEW home, NEW shown, NEW where, BrowserOK(f, d, R, home, shown, where)
  PROVE  BrowserOK(f, e, R, home, shown, where)
<1>1. Blanked(d, e) /\ \A in, pos, item :
        ItemOK(f, d, R, home, in, pos, item) => ItemOK(f, e, R, home, in, pos, item)
  BY ItemMarked
<1>2. HomeOK(f, e, R, home)
  <2>1. ASSUME NEW c \in Clusters, NEW j \in Ordinals, Slot(e, c, j).kind = "file"
        PROVE  Slot(e, c, j) = Slot(d, c, j)
    BY <1>1, <2>1 DEF Blanked, End, Deleted
  <2> QED BY <2>1 DEF BrowserOK, HomeOK
<1> QED BY <1>1, <1>2 DEF BrowserOK

\* The browser after a cluster was freed.
LEMMA BrowserFreed ==
  ASSUME Fat32Assumption, NEW f, NEW d, NEW R, DiskOK(f, d, R),
         NEW k \in Clusters \ R, NoLinkTo(f, k), NotHead(d, k),
         NEW home, NEW shown, NEW where, BrowserOK(f, d, R, home, shown, where), k # home
  PROVE  BrowserOK([f EXCEPT ![k] = Free], d, R, home, shown, where)
<1> DEFINE g == [f EXCEPT ![k] = Free]
<1>1. \A item \in shown : ItemOK(g, d, R, home, home, item.pos, item.entry)
  BY ItemFreed DEF BrowserOK
<1>2. HomeOK(g, d, R, home)
  <2>1. home \in Clusters /\ (NoLinkTo(f, home) => NoLinkTo(g, home))
    BY FreeDisk DEF BrowserOK, HomeOK
  <2> HIDE DEF g
  <2> QED BY <2>1 DEF BrowserOK, HomeOK
<1> HIDE DEF g
<1>3. BrowserOK(g, d, R, home, shown, where)
  BY <1>1, <1>2 DEF BrowserOK
<1> QED BY <1>3 DEF g

\* What holds while something is deleted: the browser is on the screen.
LEMMA DeletingState ==
  ASSUME Fat32Assumption, NEW R, CardOK(fat, data, R, cur, list, screen, op),
         op.at \in DeleteSteps
  PROVE  /\ screen = "files" /\ DiskOK(fat, data, R) /\ DeleteOK(fat, data, R, cur, op)
         /\ BrowserOK(fat, data, R, cur, list, screen)
BY DEF CardOK, WhereOK, SaveSteps, DeleteSteps, Idle

\* What to show of a state in which something is being deleted.
LEMMA DeletingStep ==
  ASSUME NEW f, NEW d, NEW R, NEW home, NEW shown, NEW o,
         DiskOK(f, d, R), BrowserOK(f, d, R, home, shown, "files"),
         o.at \in DeleteSteps, DeleteOK(f, d, R, home, o)
  PROVE  CardOK(f, d, R, home, shown, "files", o)
<1>1. SavingOK(f, d, R, o)
  BY DEF SavingOK, DeleteSteps
<1> QED BY <1>1 DEF CardOK, WhereOK

\* A step of a deletion that writes nothing.
LEMMA DeleteQuiet ==
  ASSUME Fat32Assumption, NEW R, CardOK(fat, data, R, cur, list, screen, op),
         screen = "files", UNCHANGED onCard, UNCHANGED browser,
         op' = Idle \/ (op'.at \in DeleteSteps /\ DeleteOK(fat, data, R, cur, op'))
  PROVE  CardInvNext
<1>1. DiskOK(fat, data, R) /\ BrowserOK(fat, data, R, cur, list, "files")
  BY DEF CardOK
<1>2. CardOK(fat, data, R, cur, list, "files", op')
  BY <1>1, IdleState, DeletingStep
<1>3. screen' = "files" /\ cur' = cur /\ list' = list /\ fat' = fat /\ data' = data
  BY DEF browser, onCard
<1> QED BY <1>2, <1>3 DEF CardInvNext

\* files_delete_selected begins with an item of the list, however old.
LEMMA BeginDeleteStep ==
  ASSUME Fat32Assumption, NEW R, CardOK(fat, data, R, cur, list, screen, op),
         NEW item \in list, BeginDelete(item)
  PROVE  CardInvNext
<1>1. screen = "files" /\ UNCHANGED onCard /\ UNCHANGED browser
      /\ op' = [at |-> IF item.entry.kind = "dir" THEN "contents" ELSE "mark",
                in |-> cur, pos |-> item.pos, entry |-> item.entry, from |-> 1,
                back |-> "reload"]
  BY DEF BeginDelete
<1>2. ItemOK(fat, data, R, cur, cur, item.pos, item.entry)
      /\ (item.entry.kind = "dir" => cur = Root)
  BY DEF CardOK, BrowserOK
<1>3. /\ op'.at = (IF item.entry.kind = "dir" THEN "contents" ELSE "mark")
      /\ op'.in = cur /\ op'.pos = item.pos /\ op'.entry = item.entry /\ op'.back = "reload"
      /\ {"at", "in", "pos", "entry", "back"} \subseteq DOMAIN op'
  BY <1>1
<1>4. op'.at \in DeleteSteps /\ DeleteOK(fat, data, R, cur, op')
  <2>1. CASE item.entry.kind = "dir"
    <3>1. WholeOK(fat, data, R, cur, op')
      BY <1>2, <1>3, <2>1 DEF WholeOK
    <3> QED BY <1>3, <2>1, <3>1 DEF DeleteOK, DeleteSteps
  <2>2. CASE item.entry.kind # "dir"
    <3>1. MarkOK(fat, data, R, cur, op')
      BY <1>2, <1>3 DEF MarkOK, BackOK
    <3> QED BY <1>3, <2>2, <3>1 DEF DeleteOK, DeleteSteps
  <2> QED BY <2>1, <2>2
<1> QED BY <1>1, <1>4, DeleteQuiet

\* files_delete_dir_contents takes the next entry of the directory.
LEMMA DeleteContentsStep ==
  ASSUME Fat32Assumption, NEW R, CardOK(fat, data, R, cur, list, screen, op), DeleteContents
  PROVE  CardInvNext
<1>1. op.at = "contents" /\ op.at \in DeleteSteps /\ UNCHANGED onCard /\ UNCHANGED browser
  BY DEF DeleteContents, DeleteSteps
<1>2. screen = "files" /\ DiskOK(fat, data, R) /\ WholeOK(fat, data, R, cur, op)
  BY <1>1, DeletingState DEF DeleteOK
<1>3. /\ {"at", "in", "pos", "entry", "back"} \subseteq DOMAIN op
      /\ cur = Root /\ op.back = "reload" /\ op.entry.first \in Clusters
      /\ ItemOK(fat, data, R, cur, op.in, op.pos, op.entry)
  BY <1>2 DEF WholeOK, ItemOK
<1> DEFINE inside == Chain(op.entry.first)
           left == {p \in Listed(inside) : p >= op.from}
           next == Min(left)
<1>4. \/ op' = With(op, [at |-> "mark"])
      \/ /\ left # {}
         /\ op' = [at |-> "mark", in |-> op.entry.first, pos |-> next,
                   entry |-> EntryAt(inside, next), back |-> "rest", whole |-> op]
  BY DEF DeleteContents
<1>5. CASE op' = With(op, [at |-> "mark"])
  <2>1. /\ op'.at = "mark" /\ op'.in = op.in /\ op'.pos = op.pos /\ op'.entry = op.entry
        /\ op'.back = op.back /\ {"in", "pos", "entry", "back"} \subseteq DOMAIN op'
    BY <1>3, <1>5 DEF With
  <2>2. MarkOK(fat, data, R, cur, op')
    BY <1>3, <2>1 DEF MarkOK, BackOK
  <2>3. op'.at \in DeleteSteps /\ DeleteOK(fat, data, R, cur, op')
    BY <2>1, <2>2 DEF DeleteOK, DeleteSteps
  <2> QED BY <1>1, <1>2, <2>3, DeleteQuiet
<1>6. CASE /\ left # {}
           /\ op' = [at |-> "mark", in |-> op.entry.first, pos |-> next,
                     entry |-> EntryAt(inside, next), back |-> "rest", whole |-> op]
  <2>1. inside \in Seen(op.entry.first)
    BY <1>3, ChainFacts
  <2>2. next \in Listed(inside)
    <3>1. \A p \in Listed(inside) : p \in Nat
      BY <1>2, <1>3, <2>1, ListedEntry DEF Positions
    <3>2. left \subseteq Nat /\ left \subseteq Listed(inside)
      BY <3>1
    <3> HIDE DEF left
    <3> QED BY <1>6, <3>2, MinIsLeast
  <2> DEFINE e == EntryAt(inside, next)
  <2> HIDE DEF next
  <2>3. /\ next \in Positions(inside) /\ EntryOf(data, inside, next) = e /\ Live(e)
        /\ e.first \in Clusters \ R /\ NoLinkTo(fat, e.first)
    BY <1>2, <1>3, <2>1, <2>2, ListedEntry
  <2>4. op' = [at |-> "mark", in |-> op.entry.first, pos |-> next,
               entry |-> e, back |-> "rest", whole |-> op]
    BY <1>6
  <2>5. inside = ChainIn(fat, op.entry.first)
    BY ChainIs
  <2> HIDE DEF e, inside
  <2>6. e.first # cur
    BY <1>2, <1>3, <2>3 DEF DiskOK, RegionOK
  <2>7. ItemOK(fat, data, R, cur, op.entry.first, next, e)
    BY <1>3, <2>3, <2>5, <2>6 DEF ItemOK
  <2>8. /\ op'.at = "mark" /\ op'.in = op.entry.first /\ op'.pos = next /\ op'.entry = e
        /\ op'.back = "rest" /\ op'.whole = op
        /\ {"in", "pos", "entry", "back", "whole"} \subseteq DOMAIN op'
    BY <2>4
  <2>9. MarkOK(fat, data, R, cur, op')
    BY <1>2, <2>7, <2>8 DEF MarkOK, BackOK
  <2>10. op'.at \in DeleteSteps /\ DeleteOK(fat, data, R, cur, op')
    BY <2>8, <2>9 DEF DeleteOK, DeleteSteps
  <2> QED BY <1>1, <1>2, <2>10, DeleteQuiet
<1> QED BY <1>4, <1>5, <1>6

\* It goes on after one: either in order, or wild.
LEMMA DeleteRestStep ==
  ASSUME Fat32Assumption, NEW R, CardOK(fat, data, R, cur, list, screen, op), DeleteRest
  PROVE  wild' \/ CardInvNext
<1>1. op.at = "rest" /\ op.at \in DeleteSteps /\ UNCHANGED onCard /\ UNCHANGED browser
  BY DEF DeleteRest, DeleteSteps
<1>2. screen = "files" /\ WholeOK(fat, data, R, cur, op.whole)
  BY <1>1, DeletingState DEF DeleteOK
<1>3. /\ {"at", "in", "pos", "entry", "back"} \subseteq DOMAIN op.whole
      /\ op.whole.at = "contents" /\ op.whole.back = "reload"
      /\ ItemOK(fat, data, R, cur, op.whole.in, op.whole.pos, op.whole.entry)
  BY <1>2 DEF WholeOK
<1>4. \/ \E from : op' = With(op.whole, [from |-> from])
      \/ op' = With(op.whole, [at |-> "mark"])
      \/ wild'
  BY DEF DeleteRest
<1>5. ASSUME NEW from, op' = With(op.whole, [from |-> from])
      PROVE  CardInvNext
  <2>1. /\ op'.at = "contents" /\ op'.in = op.whole.in /\ op'.pos = op.whole.pos
        /\ op'.entry = op.whole.entry /\ op'.back = op.whole.back
        /\ {"at", "in", "pos", "entry", "back"} \subseteq DOMAIN op'
    BY <1>3, <1>5 DEF With
  <2>2. WholeOK(fat, data, R, cur, op')
    BY <1>2, <2>1 DEF WholeOK
  <2>3. op'.at \in DeleteSteps /\ DeleteOK(fat, data, R, cur, op')
    BY <2>1, <2>2 DEF DeleteOK, DeleteSteps
  <2> QED BY <1>1, <1>2, <2>3, DeleteQuiet
<1>6. CASE op' = With(op.whole, [at |-> "mark"])
  <2>1. /\ op'.at = "mark" /\ op'.in = op.whole.in /\ op'.pos = op.whole.pos
        /\ op'.entry = op.whole.entry /\ op'.back = op.whole.back
        /\ {"in", "pos", "entry", "back"} \subseteq DOMAIN op'
    BY <1>3, <1>6 DEF With
  <2>2. MarkOK(fat, data, R, cur, op')
    BY <1>3, <2>1 DEF MarkOK, BackOK
  <2>3. op'.at \in DeleteSteps /\ DeleteOK(fat, data, R, cur, op')
    BY <2>1, <2>2 DEF DeleteOK, DeleteSteps
  <2> QED BY <1>1, <1>2, <2>3, DeleteQuiet
<1> QED BY <1>4, <1>5, <1>6

\* fat_dir_mark_deleted: the chain starts nowhere any more.
LEMMA MarkDeletedStep ==
  ASSUME Fat32Assumption, NEW R, CardOK(fat, data, R, cur, list, screen, op), MarkDeleted
  PROVE  CardInvNext
<1>1. op.at = "mark" /\ op.at \in DeleteSteps /\ UNCHANGED browser
  BY DEF MarkDeleted, DeleteSteps
<1>2. screen = "files" /\ DiskOK(fat, data, R) /\ MarkOK(fat, data, R, cur, op)
      /\ BrowserOK(fat, data, R, cur, list, "files")
  BY <1>1, DeletingState DEF DeleteOK
<1>3. ItemOK(fat, data, R, cur, op.in, op.pos, op.entry) /\ BackOK(fat, data, R, cur, op)
  BY <1>2 DEF MarkOK
<1>4. CASE op.pos \notin Positions(Chain(op.in))
  <2>1. op' = Idle /\ UNCHANGED onCard
    BY <1>4 DEF MarkDeleted, GiveUp
  <2> QED BY <1>1, <1>2, <2>1, DeleteQuiet
<1>5. CASE op.pos \in Positions(Chain(op.in))
  <2> DEFINE s == SlotAt(Chain(op.in), op.pos)
             d == WriteSlot(data, s[1], s[2], Deleted)
             next == With(op, [at |-> "free", cluster |-> op.entry.first])
  <2>1. Put(fat, d, next)
    BY <1>5 DEF MarkDeleted, WriteSlot
  <2>2. op.in \in Clusters /\ Chain(op.in) \in Seen(op.in)
    BY <1>3, ChainFacts DEF ItemOK
  <2>3. s[1] \in Clusters /\ s[2] \in Ordinals
    BY <1>5, <2>2, SeenPlace
  <2>4. Slot(data, s[1], s[2]) = EntryOf(data, ChainIn(fat, op.in), op.pos)
    BY ChainIs DEF EntryOf
  <2> HIDE DEF s
  <2>5. /\ Blanked(data, d) /\ BrowserOK(fat, d, R, cur, list, "files")
        /\ \A home, in, pos, item :
             ItemOK(fat, data, R, home, in, pos, item) => ItemOK(fat, d, R, home, in, pos, item)
        /\ \A first : Live(Slot(data, s[1], s[2])) /\ Slot(data, s[1], s[2]).first = first
                        => NotHead(d, first)
    BY <1>2, <2>3, ItemMarked, BrowserMarked
  <2> HIDE DEF d
  <2>6. DiskOK(fat, d, R) /\ \A c : NotHead(data, c) => NotHead(d, c)
    BY <1>2, <2>5, BlankDisk
  <2>7. NotHead(d, op.entry.first)
    BY <1>3, <2>4, <2>5, <2>6 DEF ItemOK
  <2>8. /\ next.at = "free" /\ next.cluster = op.entry.first
        /\ {"at", "cluster"} \subseteq DOMAIN next
        /\ "back" \in DOMAIN op => "back" \in DOMAIN next /\ next.back = op.back
        /\ "whole" \in DOMAIN op => "whole" \in DOMAIN next /\ next.whole = op.whole
    BY DEF With
  <2> HIDE DEF next
  <2>9. BackOK(fat, d, R, cur, next)
    BY <1>3, <2>5, <2>8 DEF BackOK, WholeOK
  <2>10. FreeOK(fat, d, R, cur, next)
    BY <1>3, <2>7, <2>8, <2>9 DEF FreeOK, ItemOK
  <2>11. next.at \in DeleteSteps /\ DeleteOK(fat, d, R, cur, next)
    BY <2>8, <2>10 DEF DeleteOK, DeleteSteps
  <2>12. screen' = "files" /\ cur' = cur /\ list' = list
    BY <1>1, <1>2 DEF browser
  <2>13. CASE fat' = fat /\ data' = d /\ op' = next
    <3>1. CardOK(fat, d, R, cur, list, "files", next)
      BY <2>5, <2>6, <2>11, DeletingStep
    <3> QED BY <2>12, <2>13, <3>1 DEF CardInvNext
  <2>14. CASE fat' = fat /\ data' = d /\ op' = Idle
    <3>1. CardOK(fat, d, R, cur, list, "files", Idle)
      BY <2>5, <2>6, IdleState
    <3> QED BY <2>12, <2>14, <3>1 DEF CardInvNext
  <2>15. CASE fat' = fat /\ data' = data /\ op' = Idle
    <3>1. CardOK(fat, data, R, cur, list, "files", Idle)
      BY <1>2, IdleState
    <3> QED BY <2>12, <2>15, <3>1 DEF CardInvNext
  <2> QED BY <2>1, <2>13, <2>14, <2>15 DEF Put, onCard
<1> QED BY <1>4, <1>5

\* fat_free_chain frees the cluster and moves on to the next, which now starts
\* a chain that nothing leads to.
LEMMA FreeClusterStep ==
  ASSUME Fat32Assumption, NEW R, CardOK(fat, data, R, cur, list, screen, op), FreeCluster
  PROVE  CardInvNext
<1>1. op.at = "free" /\ op.at \in DeleteSteps /\ UNCHANGED browser /\ data' = data
  BY DEF FreeCluster, DeleteSteps
<1>2. screen = "files" /\ DiskOK(fat, data, R) /\ FreeOK(fat, data, R, cur, op)
      /\ BrowserOK(fat, data, R, cur, list, "files")
  BY <1>1, DeletingState DEF DeleteOK
<1> DEFINE k == op.cluster
           f == [fat EXCEPT ![k] = Free]
<1>3. /\ k \in Clusters \ R /\ k # cur /\ NoLinkTo(fat, k) /\ NotHead(data, k)
      /\ {"at", "cluster"} \subseteq DOMAIN op /\ BackOK(fat, data, R, cur, op)
  BY <1>2 DEF FreeOK
<1>4. PICK next \in {fat[k], EOC} :
        \/ /\ fat' = f
           /\ op' = With(op, IF next \in Clusters THEN [cluster |-> next] ELSE [at |-> op.back])
        \/ op' = Idle /\ fat' \in {fat, f}
  BY DEF FreeCluster, NextCluster, GiveUp
<1>5. screen' = "files" /\ cur' = cur /\ list' = list
  BY <1>1, <1>2 DEF browser
<1> HIDE DEF k
<1>6. /\ DiskOK(f, data, R)
      /\ fat[k] \in Clusters => fat[k] \notin R /\ NoLinkTo(f, fat[k]) /\ NotHead(data, fat[k])
  BY <1>2, <1>3, FreeDisk
<1>7. BrowserOK(f, data, R, cur, list, "files")
  BY <1>2, <1>3, BrowserFreed
<1>8. \A w : WholeOK(fat, data, R, cur, w) => WholeOK(f, data, R, cur, w)
  <2> SUFFICES ASSUME NEW w, WholeOK(fat, data, R, cur, w)
               PROVE  WholeOK(f, data, R, cur, w)
    OBVIOUS
  <2>1. w.in = Root /\ ItemOK(fat, data, R, cur, w.in, w.pos, w.entry) /\ k # w.in
    BY <1>2, <1>3 DEF WholeOK, DiskOK, RegionOK
  <2>2. ItemOK(f, data, R, cur, w.in, w.pos, w.entry)
    BY <1>2, <1>3, <2>1, ItemFreed
  <2> HIDE DEF f
  <2> QED BY <2>2 DEF WholeOK
<1>9. CASE op' = Idle /\ fat' \in {fat, f}
  <2>1. CardOK(fat, data, R, cur, list, "files", Idle) /\ CardOK(f, data, R, cur, list, "files", Idle)
    BY <1>2, <1>6, <1>7, IdleState
  <2> HIDE DEF f
  <2> QED BY <1>1, <1>5, <1>9, <2>1 DEF CardInvNext
<1> HIDE DEF f
<1>10. CASE fat' = f /\ next \in Clusters /\ op' = With(op, [cluster |-> next])
  <2>1. next = fat[k] /\ next # cur
    <3>1. next = fat[k]
      BY <1>10, ClusterValues
    <3>2. NoLinkTo(fat, cur)
      BY <1>2 DEF BrowserOK, HomeOK, DiskOK, LinksOK
    <3> QED BY <1>3, <3>1, <3>2 DEF NoLinkTo
  <2>2. /\ op'.at = op.at /\ op'.cluster = next /\ {"at", "cluster"} \subseteq DOMAIN op'
        /\ "back" \in DOMAIN op => "back" \in DOMAIN op' /\ op'.back = op.back
        /\ "whole" \in DOMAIN op => "whole" \in DOMAIN op' /\ op'.whole = op.whole
    <3>1. {"at", "cluster"} \subseteq DOMAIN op' /\ op'.cluster = next
      BY <1>3, <1>10 DEF With
    <3> QED BY <1>3, <1>10, <3>1 DEF With
  <2>3. BackOK(f, data, R, cur, op')
    BY <1>3, <1>8, <2>2 DEF BackOK
  <2>4. FreeOK(f, data, R, cur, op')
    BY <1>6, <1>10, <2>1, <2>2, <2>3 DEF FreeOK
  <2>5. op'.at \in DeleteSteps /\ DeleteOK(f, data, R, cur, op')
    BY <1>1, <2>2, <2>4 DEF DeleteOK, DeleteSteps
  <2>6. CardOK(f, data, R, cur, list, "files", op')
    BY <1>6, <1>7, <2>5, DeletingStep
  <2> QED BY <1>1, <1>5, <1>10, <2>6 DEF CardInvNext
<1>11. CASE fat' = f /\ op' = With(op, [at |-> op.back])
  <2>1. /\ op'.at = op.back
        /\ "whole" \in DOMAIN op => "whole" \in DOMAIN op' /\ op'.whole = op.whole
    BY <1>11 DEF With
  <2>2. op'.at \in DeleteSteps /\ DeleteOK(f, data, R, cur, op')
    BY <1>3, <1>8, <2>1 DEF BackOK, DeleteOK, DeleteSteps
  <2>3. CardOK(f, data, R, cur, list, "files", op')
    BY <1>6, <1>7, <2>2, DeletingStep
  <2> QED BY <1>1, <1>5, <1>11, <2>3 DEF CardInvNext
<1> QED BY <1>4, <1>9, <1>10, <1>11

-----------------------------------------------------------------------------
(* Fat32Card. The browser, interruptions, and the theorem.                 *)

\* A list just read shows what is in the slots.
LEMMA ShownIsOK ==
  ASSUME Fat32Assumption, NEW R, DiskOK(fat, data, R), NEW home, HomeOK(fat, data, R, home),
         NEW s, s \in Seen(home) \/ s = <<>>
  PROVE  \A item \in Shown(s) :
           /\ ItemOK(fat, data, R, home, home, item.pos, item.entry)
           /\ item.entry.kind = "dir" => home = Root
<1> SUFFICES ASSUME NEW p \in Listed(s)
             PROVE  /\ ItemOK(fat, data, R, home, home, p, EntryAt(s, p))
                    /\ EntryAt(s, p).kind = "dir" => home = Root
  BY DEF Shown
<1> DEFINE e == EntryAt(s, p)
<1>1. home \in Clusters /\ Root \in R
  BY DEF HomeOK, DiskOK, RegionOK
<1>2. s \in Seen(home)
  <2> SUFFICES ASSUME s = <<>>
               PROVE  FALSE
    OBVIOUS
  <2>1. s \in Seq(Clusters) /\ Len(s) = 0
    OBVIOUS
  <2>2. p \in Positions(s)
    BY <2>1, ListedIsLive DEF DiskOK
  <2>3. SlotsPerCluster \in Nat /\ 0 * SlotsPerCluster = 0
    BY DEF Fat32Assumption
  <2> QED BY <2>1, <2>2, <2>3 DEF Positions
<1>3. /\ p \in Positions(Chain(home)) /\ EntryOf(data, Chain(home), p) = e /\ Live(e)
      /\ e.first \in Clusters \ R /\ NoLinkTo(fat, e.first)
      /\ e.kind = "dir" => home \in R
      /\ \E x \in Clusters, i \in Ordinals : e = Slot(data, x, i)
  BY <1>1, <1>2, ListedEntry
<1> HIDE DEF e
<1>4. e.kind = "dir" => home = Root
  BY <1>3 DEF HomeOK
<1>5. e.first # home
  BY <1>1, <1>3, <1>4 DEF HomeOK, Live
<1>6. ItemOK(fat, data, R, home, home, p, e)
  BY <1>1, <1>3, <1>5, ChainIs DEF ItemOK
<1> QED BY <1>4, <1>6 DEF e

\* The root is a place where the browser can be.
LEMMA RootIsHome ==
  ASSUME Fat32Assumption, NEW f, NEW d, NEW R
  PROVE  HomeOK(f, d, R, Root)
BY ClusterValues DEF HomeOK

\* files_load_dir after a deletion.
LEMMA ReloadStep ==
  ASSUME Fat32Assumption, NEW R, CardOK(fat, data, R, cur, list, screen, op), Reload
  PROVE  CardInvNext
<1>1. /\ op.at = "reload" /\ op.at \in DeleteSteps /\ op' = Idle
      /\ fat' = fat /\ data' = data /\ screen' = screen /\ cur' = cur
  BY DEF Reload, DeleteSteps, onCard
<1>2. screen = "files" /\ DiskOK(fat, data, R) /\ BrowserOK(fat, data, R, cur, list, screen)
  BY <1>1, DeletingState
<1>3. PICK s : (s \in Seen(cur) \/ s = <<>>) /\ list' = Shown(s)
  BY DEF Reload
<1>4. HomeOK(fat, data, R, cur) /\ screen \notin Writers
  BY <1>2 DEF BrowserOK, Fat32Assumption
<1>5. BrowserOK(fat, data, R, cur, list', screen)
  <2>1. \A item \in list' : /\ ItemOK(fat, data, R, cur, cur, item.pos, item.entry)
                            /\ item.entry.kind = "dir" => cur = Root
    BY <1>2, <1>3, <1>4, ShownIsOK
  <2> QED BY <1>2, <1>4, <2>1 DEF BrowserOK
<1>6. CardOK(fat, data, R, cur, list', screen, Idle)
  BY <1>2, <1>5, IdleState
<1> QED BY <1>1, <1>6 DEF CardInvNext

\* A step of the browser between calls: it shows nothing, or what is in the
\* directory it is in.
LEMMA BrowseStep ==
  ASSUME Fat32Assumption, NEW R, DiskOK(fat, data, R), fat' = fat, data' = data, op' = Idle,
         screen' = "files", HomeOK(fat, data, R, cur'), list' = {} \/ list' = Shown(Chain(cur'))
  PROVE  CardInvNext
<1>1. \A item \in list' : /\ ItemOK(fat, data, R, cur', cur', item.pos, item.entry)
                          /\ item.entry.kind = "dir" => cur' = Root
  <2>1. CASE list' = {}
    BY <2>1
  <2>2. CASE list' = Shown(Chain(cur'))
    <3>1. Chain(cur') \in Seen(cur')
      BY ChainFacts DEF HomeOK
    <3> QED BY <2>2, <3>1, ShownIsOK
  <2> QED BY <2>1, <2>2
<1>2. BrowserOK(fat, data, R, cur', list', "files")
  BY <1>1 DEF BrowserOK, Fat32Assumption
<1>3. CardOK(fat, data, R, cur', list', "files", Idle)
  BY <1>2, IdleState
<1> QED BY <1>3 DEF CardInvNext

\* files_open_selected on a directory shown, or the way back.
LEMMA OpenStep ==
  ASSUME Fat32Assumption, NEW R, CardOK(fat, data, R, cur, list, screen, op),
         NEW dir, Open(dir)
  PROVE  CardInvNext
<1>1. /\ op' = Idle /\ screen' = "files" /\ fat' = fat /\ data' = data /\ cur' = dir
      /\ list' = {} \/ list' = Shown(Chain(dir))
      /\ dir = Root \/ \E item \in list : item.entry.kind = "dir" /\ item.entry.first = dir
  BY DEF Open, onCard
<1>2. DiskOK(fat, data, R) /\ BrowserOK(fat, data, R, cur, list, screen)
  BY DEF CardOK
<1>3. HomeOK(fat, data, R, dir)
  <2>1. CASE dir = Root
    BY <2>1, RootIsHome
  <2>2. ASSUME NEW item \in list, item.entry.kind = "dir", item.entry.first = dir
        PROVE  HomeOK(fat, data, R, dir)
    <3> DEFINE e == item.entry
               chain == ChainIn(fat, cur)
    <3>1. /\ Live(e) /\ e.first \in Clusters \ R /\ NoLinkTo(fat, e.first) /\ cur \in Clusters
          /\ NotHead(data, e.first)
             \/ (item.pos \in Positions(chain) /\ EntryOf(data, chain, item.pos) = e)
      BY <1>2 DEF BrowserOK, ItemOK
    <3>2. ASSUME NEW c \in Clusters, NEW i \in Ordinals, Slot(data, c, i).kind = "file",
                 Slot(data, c, i).first = dir
          PROVE  FALSE
      <4>1. ~NotHead(data, e.first) /\ Live(Slot(data, c, i))
        BY <2>2, <3>2 DEF NotHead, Live
      <4>2. chain = Chain(cur) /\ chain \in Seen(cur)
        BY <3>1, ChainFacts, ChainIs
      <4>3. /\ item.pos \in Positions(chain)
            /\ Slot(data, SlotAt(chain, item.pos)[1], SlotAt(chain, item.pos)[2]) = e
        BY <3>1, <4>1 DEF EntryOf
      <4>4. SlotAt(chain, item.pos)[1] \in Clusters /\ SlotAt(chain, item.pos)[2] \in Ordinals
        BY <3>1, <4>2, <4>3, SeenPlace
      <4> DEFINE x == SlotAt(chain, item.pos)[1]
                 j == SlotAt(chain, item.pos)[2]
      <4> HIDE DEF x, j
      <4>5. Slot(data, x, j) = e /\ x \in Clusters /\ j \in Ordinals
        BY <4>3, <4>4 DEF x, j
      <4>6. c = x /\ i = j
        BY <1>2, <2>2, <3>1, <3>2, <4>1, <4>5 DEF DiskOK, EntriesOK
      <4> QED BY <2>2, <3>2, <4>5, <4>6
    <3> QED BY <2>2, <3>1, <3>2 DEF HomeOK
  <2> QED BY <1>1, <2>1, <2>2
<1> QED BY <1>1, <1>2, <1>3, BrowseStep

\* Entering and leaving the browser, the SD service and a power cut.
LEMMA BrowserSteps ==
  ASSUME Fat32Assumption, NEW R, CardOK(fat, data, R, cur, list, screen, op),
         \/ EnterFiles \/ SdServiceTick \/ HealthCheckFails \/ PowerCut
         \/ \E w \in Writers : EnterWriter(w)
  PROVE  CardInvNext
<1>1. DiskOK(fat, data, R) /\ BrowserOK(fat, data, R, cur, list, screen)
  BY DEF CardOK
<1>2. HomeOK(fat, data, R, Root) /\ HomeOK(fat, data, R, cur)
  BY <1>1, RootIsHome DEF BrowserOK
<1>3. CASE EnterFiles
  <2>1. /\ op' = Idle /\ screen' = "files" /\ fat' = fat /\ data' = data /\ cur' = Root
        /\ list' = {} \/ list' = Shown(Chain(Root))
    BY <1>3 DEF EnterFiles, onCard
  <2> QED BY <1>1, <1>2, <2>1, BrowseStep
<1>4. CASE SdServiceTick
  <2>1. /\ op' = Idle /\ screen' = "files" /\ fat' = fat /\ data' = data
        /\ \/ cur' = cur /\ list' = {}
           \/ cur' = Root /\ list' = Shown(Chain(Root))
    BY <1>4 DEF SdServiceTick, NoteRemoved, onCard
  <2> QED BY <1>1, <1>2, <2>1, BrowseStep
<1>5. CASE HealthCheckFails
  <2>1. /\ op' = Idle /\ screen' = "files" /\ fat' = fat /\ data' = data
        /\ cur' = cur /\ list' = {}
    BY <1>5 DEF HealthCheckFails, NoteRemoved, onCard
  <2> QED BY <1>1, <1>2, <2>1, BrowseStep
<1>6. CASE PowerCut
  <2>1. /\ op' = Idle /\ screen' = "files" /\ fat' = fat /\ data' = data
        /\ cur' = Root /\ list' = {}
    BY <1>6 DEF PowerCut, onCard
  <2> QED BY <1>1, <1>2, <2>1, BrowseStep
<1>7. ASSUME NEW w \in Writers, EnterWriter(w)
      PROVE  CardInvNext
  <2>1. /\ op' = Idle /\ screen' = w /\ fat' = fat /\ data' = data
        /\ cur' = Root /\ list' = {}
    BY <1>7 DEF EnterWriter, onCard
  <2>2. BrowserOK(fat, data, R, Root, {}, w)
    BY <1>2 DEF BrowserOK
  <2>3. CardOK(fat, data, R, Root, {}, w, Idle)
    BY <1>1, <2>2, IdleState
  <2> QED BY <2>1, <2>3 DEF CardInvNext
<1> QED BY <1>3, <1>4, <1>5, <1>6, <1>7

\* What cuts a call short, or does not touch the card at all.
LEMMA CutShort ==
  ASSUME Fat32Assumption, NEW R, CardOK(fat, data, R, cur, list, screen, op),
         TransferFails \/ CardPulled \/ CardInserted \/ UNCHANGED cardVars
  PROVE  CardInvNext
<1>1. DiskOK(fat, data, R) /\ BrowserOK(fat, data, R, cur, list, screen)
  BY DEF CardOK
<1>2. fat' = fat /\ data' = data /\ screen' = screen /\ cur' = cur
      /\ (list' = list \/ list' = {}) /\ (op' = Idle \/ (op' = op /\ list' = list))
  BY DEF TransferFails, CardPulled, CardInserted, cardVars, onCard, browser, GiveUp
<1>3. BrowserOK(fat, data, R, cur, list', screen)
  BY <1>1, <1>2 DEF BrowserOK
<1>4. CardOK(fat, data, R, cur, list', screen, op')
  BY <1>1, <1>2, <1>3, IdleState
<1> QED BY <1>2, <1>4 DEF CardInvNext

\* A freshly formatted card is in order.
LEMMA CardInvInit == CardInit /\ Fat32Assumption => CardInv
<1> SUFFICES ASSUME CardInit, Fat32Assumption
             PROVE  CardOK(fat, data, {Root}, cur, list, screen, op)
  BY DEF CardInv
<1>1. /\ fat = [c \in Clusters |-> IF c = Root THEN EOC ELSE Free]
      /\ data = [c \in Clusters |-> IF c = Root THEN Zeroed ELSE Holding(0)]
      /\ cur = Root /\ list = {} /\ screen = "files" /\ op = Idle
  BY DEF CardInit
<1>2. \A c \in Clusters : fat[c] = IF c = Root THEN EOC ELSE Free
  BY <1>1
<1>3. LinksOK(fat)
  <2>1. fat \in [Clusters -> Links]
    BY <1>1 DEF Links
  <2> QED BY <1>2, <2>1, ClusterValues DEF LinksOK, NoLinkTo
<1>4. ASSUME NEW c \in Clusters
      PROVE  /\ data[c] = [slots |-> [i \in Ordinals |-> Slot(data, c, i)], file |-> data[c].file]
             /\ \A i \in Ordinals : Slot(data, c, i) \in {End, Deleted}
  <2>1. data[c] = Zeroed \/ data[c] = Holding(0)
    BY <1>1
  <2> QED BY <2>1 DEF Zeroed, Holding, Slot, Ordinals
<1>5. ShapeOK(data)
  <2>1. data = [c \in Clusters |-> data[c]]
    BY <1>1
  <2> QED BY <1>4, <2>1 DEF ShapeOK
<1>6. EntriesOK(fat, data)
  BY <1>4, DeadEntries DEF EntriesOK
<1>7. RegionOK(fat, data, {Root})
  <2>1. {Root} \subseteq Clusters /\ Root \in {Root} /\ fat[Root] = EOC /\ EOC # Free
    BY <1>2, ClusterValues
  <2>2. \A x \in {Root} : fat[x] # Free
    BY <2>1
  <2>3. \A x \in Clusters : fat[x] \notin Clusters
    BY <1>2, ClusterValues
  <2>4. \A c \in Clusters, i \in Ordinals : ~Live(Slot(data, c, i))
    BY <1>4, DeadEntries
  <2> QED BY <2>1, <2>2, <2>3, <2>4 DEF RegionOK
<1>8. DiskOK(fat, data, {Root})
  BY <1>3, <1>5, <1>6, <1>7 DEF DiskOK
<1>9. BrowserOK(fat, data, {Root}, Root, {}, "files")
  BY RootIsHome DEF BrowserOK, Fat32Assumption
<1> QED BY <1>1, <1>8, <1>9, IdleState

\* Once a deletion went wild, that stays known.
LEMMA WildStays == wild /\ [CardNext]_cardVars => wild'
<1> SUFFICES ASSUME wild, [CardNext]_cardVars PROVE wild'
  OBVIOUS
<1>1. CASE \E size \in 1..MaxFileClusters : BeginSave(size)
  BY <1>1 DEF BeginSave
<1>2. CASE Save
  <2>1. UNCHANGED wild \/ UNCHANGED ghosts
    <3>1. CASE FindDir
      BY <3>1 DEF FindDir
    <3>2. CASE NextName
      BY <3>2 DEF NextName
    <3>3. CASE InitDir
      BY <3>3 DEF InitDir
    <3>4. CASE WriteData
      BY <3>4 DEF WriteData
    <3>5. CASE TakeCluster
      BY <3>5 DEF TakeCluster
    <3>6. CASE LinkCluster
      BY <3>6 DEF LinkCluster
    <3>7. CASE FindSlot
      BY <3>7 DEF FindSlot
    <3>8. CASE ClearCluster
      BY <3>8 DEF ClearCluster
    <3>9. CASE JoinCluster
      BY <3>9 DEF JoinCluster
    <3>10. CASE Enter
      BY <3>10 DEF Enter
    <3> QED BY <1>2, <3>1, <3>2, <3>3, <3>4, <3>5, <3>6, <3>7, <3>8, <3>9, <3>10 DEF Save
  <2> QED BY <2>1 DEF ghosts
<1>3. CASE \E item \in list : BeginDelete(item)
  BY <1>3 DEF BeginDelete
<1>4. CASE Delete
  <2>1. CASE DeleteRest
    BY <2>1 DEF DeleteRest
  <2>2. CASE ~DeleteRest
    <3>1. UNCHANGED ghosts
      BY <1>4, <2>2 DEF Delete, DeleteContents, MarkDeleted, FreeCluster, Reload
    <3> QED BY <3>1 DEF ghosts
  <2> QED BY <2>1, <2>2
<1>5. CASE EnterFiles \/ (\E w \in Writers : EnterWriter(w))
           \/ (\E dir \in Clusters : Open(dir))
  BY <1>5 DEF EnterFiles, EnterWriter, Open, ghosts
<1>6. CASE SdServiceTick \/ HealthCheckFails \/ TransferFails
  BY <1>6 DEF SdServiceTick, HealthCheckFails, TransferFails, ghosts
<1>7. CASE CardPulled \/ CardInserted \/ PowerCut \/ UNCHANGED cardVars
  BY <1>7 DEF CardPulled, CardInserted, PowerCut, ghosts, cardVars
<1> QED BY <1>1, <1>2, <1>3, <1>4, <1>5, <1>6, <1>7 DEF CardNext

\* Every step keeps the invariant.
LEMMA CardInvStep ==
  CardInv /\ [CardNext]_cardVars /\ Fat32Assumption => CardInv'
<1> SUFFICES ASSUME CardInv, [CardNext]_cardVars, Fat32Assumption
             PROVE  wild' \/ CardInvNext
  BY DEF CardInv, CardInvNext
<1>1. CASE wild
  <2> QED BY <1>1, WildStays
<1>2. CASE ~wild
  <2>1. PICK R : CardOK(fat, data, R, cur, list, screen, op)
    BY <1>2 DEF CardInv
  <2>2. CASE \E size \in 1..MaxFileClusters : BeginSave(size)
    BY <2>1, <2>2, BeginSaveStep
  <2>3. CASE Save
    BY <2>1, <2>3, FindDirStep, NextNameStep, InitDirStep, WriteDataStep, TakeClusterStep,
       LinkClusterStep, FindSlotStep, ClearClusterStep, JoinClusterStep, EnterStep DEF Save
  <2>4. CASE \E item \in list : BeginDelete(item)
    BY <2>1, <2>4, BeginDeleteStep
  <2>5. CASE Delete
    BY <2>1, <2>5, DeleteContentsStep, DeleteRestStep, MarkDeletedStep, FreeClusterStep,
       ReloadStep DEF Delete
  <2>6. CASE \E dir \in Clusters : Open(dir)
    BY <2>1, <2>6, OpenStep
  <2>7. CASE EnterFiles \/ SdServiceTick \/ HealthCheckFails \/ PowerCut
             \/ \E w \in Writers : EnterWriter(w)
    BY <2>1, <2>7, BrowserSteps
  <2>8. CASE TransferFails \/ CardPulled \/ CardInserted \/ UNCHANGED cardVars
    BY <2>1, <2>8, CutShort
  <2> QED BY <2>2, <2>3, <2>4, <2>5, <2>6, <2>7, <2>8 DEF CardNext
<1> QED BY <1>1, <1>2

\* Whatever call was cut short or failed, and wherever, the chains that the
\* directories lead to are whole and share no cluster, for every size of card,
\* number of saves and number of faults, unless files_delete_dir_contents read
\* on in a buffer of FAT data.
THEOREM ChainsDisjointHolds == CardSpec => []ChainsDisjoint
<1>1. CardInit => CardInv
  BY CardInvInit, Fat32Assumption
<1>2. CardInv /\ [CardNext]_cardVars => CardInv'
  BY CardInvStep, Fat32Assumption
<1>3. CardInv => ChainsDisjoint
  BY InvDisjoint, Fat32Assumption
<1> QED BY <1>1, <1>2, <1>3, PTL DEF CardSpec

-----------------------------------------------------------------------------
(* Fat32Card. Directories and the chains that a write does not touch.      *)

\* The places of the directory that starts at c, what is at one of them, and
\* the clusters of the chain.
Places(f, c) == Positions(ChainIn(f, c))
Ent(f, d, c, p) == EntryOf(d, ChainIn(f, c), p)
Covers(f, c) == {ChainIn(f, c)[i] : i \in 1..Len(ChainIn(f, c))}

\* What ChainIn and Covers give of a chain.
LEMMA CoverFacts ==
  ASSUME Fat32Assumption, NEW f, NEW c \in Clusters
  PROVE  /\ IsChain(f, c, ChainIn(f, c)) /\ ChainIn(f, c) \in Seq(Clusters)
         /\ Len(ChainIn(f, c)) \in Nat \ {0} /\ DOMAIN ChainIn(f, c) = 1..Len(ChainIn(f, c))
         /\ c \in Covers(f, c) /\ Covers(f, c) \subseteq Clusters
         /\ \A x \in Covers(f, c) : x # c => \E y \in Clusters : f[y] = x
<1> DEFINE s == ChainIn(f, c)
<1>1. IsChain(f, c, s)
  BY ChainIsChain
<1> HIDE DEF s
<1>2. /\ DOMAIN s = 1..Len(s) /\ Len(s) \in Nat \ {0} /\ s[1] = c
      /\ \A i \in 1..Len(s) : s[i] \in Clusters
      /\ \A i \in 1..Len(s) : i # 1 => i - 1 \in 1..Len(s) /\ f[s[i - 1]] = s[i]
  BY <1>1, ChainElements
<1>3. 1 \in 1..Len(s)
  BY <1>2
<1>4. s \in Seq(Clusters)
  BY <1>1 DEF IsChain
<1> QED BY <1>1, <1>2, <1>3, <1>4 DEF s, Covers

\* A place of a directory is a slot of a cluster of its chain.
LEMMA PlaceCovered ==
  ASSUME Fat32Assumption, NEW f, NEW c \in Clusters, NEW p \in Places(f, c)
  PROVE  /\ p \in Nat \ {0} /\ SlotAt(ChainIn(f, c), p)[1] \in Covers(f, c)
         /\ SlotAt(ChainIn(f, c), p)[1] \in Clusters
         /\ SlotAt(ChainIn(f, c), p)[2] \in Ordinals
<1> DEFINE s == ChainIn(f, c)
<1>1. Len(s) \in Nat /\ Covers(f, c) \subseteq Clusters
  BY CoverFacts
<1>2. p \in Positions(s)
  BY DEF Places
<1>3. /\ p \in Nat /\ SlotAt(s, p)[1] = s[IndexOf(p)] /\ SlotAt(s, p)[2] = OrdinalOf(p)
      /\ IndexOf(p) \in 1..Len(s) /\ OrdinalOf(p) \in Ordinals
  BY <1>1, <1>2, PlaceOf
<1>4. p # 0
  BY <1>2 DEF Positions
<1>5. s[IndexOf(p)] \in Covers(f, c)
  BY <1>3 DEF Covers
<1> QED BY <1>1, <1>3, <1>4, <1>5

\* A chain whose links did not change is the same chain.
LEMMA SameChain ==
  ASSUME Fat32Assumption, NEW f, NEW g, NEW c \in Clusters,
         \A x \in Covers(f, c) : g[x] = f[x]
  PROVE  ChainIn(g, c) = ChainIn(f, c)
<1> DEFINE s == ChainIn(f, c)
           t == ChainIn(g, c)
<1>1. IsChain(f, c, s) /\ IsChain(g, c, t) /\ Len(s) \in Nat \ {0}
  BY CoverFacts
<1>2. \A i \in 1..Len(s) : g[s[i]] = f[s[i]]
  BY DEF Covers
<1> HIDE DEF s, t
<1>3. IsChain(g, c, s)
  <2>1. \A i \in 1..(Len(s) - 1) : g[s[i]] = f[s[i]]
    BY <1>1, <1>2
  <2>2. g[s[Len(s)]] = f[s[Len(s)]]
    BY <1>1, <1>2
  <2> QED BY <1>1, <2>1, <2>2 DEF IsChain
<1>4. s = t
  BY <1>1, <1>3, OneChain
<1> QED BY <1>4 DEF s, t

\* Chains that start in two places, to neither of which a link leads.
LEMMA CoversApart ==
  ASSUME Fat32Assumption, NEW f, LinksOK(f), NEW c \in Clusters, NEW d \in Clusters, c # d,
         NoLinkTo(f, c), NoLinkTo(f, d)
  PROVE  Covers(f, c) \cap Covers(f, d) = {}
<1>1. IsChain(f, c, ChainIn(f, c)) /\ IsChain(f, d, ChainIn(f, d))
  BY CoverFacts
<1>2. \A i \in 1..Len(ChainIn(f, c)), j \in 1..Len(ChainIn(f, d)) :
        ChainIn(f, c)[i] # ChainIn(f, d)[j]
  BY <1>1, ChainsApart
<1> QED BY <1>2 DEF Covers

\* A chain that starts in an allocated cluster has no free one.
LEMMA CoversTaken ==
  ASSUME Fat32Assumption, NEW f, LinksOK(f), NEW c \in Clusters, f[c] # Free
  PROVE  \A x \in Covers(f, c) : f[x] # Free
<1>1. \A x \in Covers(f, c) : x \in Clusters /\ (x # c => \E y \in Clusters : f[y] = x)
  BY CoverFacts
<1> QED BY <1>1 DEF LinksOK

\* Clusters linked one after the other up to an end mark are the chain.
Linked(f, s, n) ==
  /\ \A i \in 1..n : i # n => f[s[i]] = s[i + 1]
  /\ n > 0 => f[s[n]] = EOC

\* Clusters linked one after the other up to an end mark are the chain from
\* the first.
LEMMA LinkedChain ==
  ASSUME Fat32Assumption, NEW f, LinksOK(f), NEW s, s \in Seq(Clusters), NEW n \in 1..Len(s),
         Linked(f, s, n), NoLinkTo(f, s[1])
  PROVE  /\ Len(ChainIn(f, s[1])) = n
         /\ \A i \in 1..n : ChainIn(f, s[1])[i] = s[i]
         /\ \A i \in 1..n : s[i] \in Covers(f, s[1])
<1> DEFINE c == s[1]
           t == ChainIn(f, c)
<1>1. /\ Len(s) \in Nat /\ n \in Nat \ {0} /\ c \in Clusters
      /\ \A i \in 1..Len(s) : s[i] \in Clusters
  OBVIOUS
<1>2. /\ \A i \in 1..n : i # n => f[s[i]] = s[i + 1]
      /\ f[s[n]] = EOC
  BY <1>1 DEF Linked
<1>3. IsChain(f, c, t)
  BY <1>1, CoverFacts
<1> HIDE DEF t
<1>4. /\ DOMAIN t = 1..Len(t) /\ Len(t) \in Nat \ {0} /\ t[1] = c
      /\ \A i \in 1..Len(t) : t[i] \in Clusters
      /\ \A i \in 1..Len(t) : i # 1 => i - 1 \in 1..Len(t) /\ f[t[i - 1]] = t[i]
  BY <1>3, ChainElements
<1>5. EOC \notin Clusters /\ Free \notin Clusters /\ EOC # Free
  BY ClusterValues
<1>6. f[c] # Free
  <2>1. CASE n = 1
    BY <1>2, <1>5, <2>1
  <2>2. CASE n # 1
    <3>1. f[s[1]] = s[1 + 1] /\ 1 + 1 \in 1..Len(s)
      BY <1>1, <1>2, <2>2
    <3> QED BY <1>1, <1>5, <3>1
  <2> QED BY <2>1, <2>2
<1>7. f[t[Len(t)]] = EOC
  <2>1. f[Last(t)] = EOC
    BY <1>1, <1>3, <1>6, ChainIsWhole
  <2> QED BY <2>1 DEF Last
<1>8. \A i \in 1..n : i \in 1..Len(t) => t[i] = s[i]
  <2> DEFINE Bad == {i \in 1..n : i \in 1..Len(t) /\ t[i] # s[i]}
  <2> SUFFICES ASSUME Bad # {}
               PROVE  FALSE
    OBVIOUS
  <2>1. PICK i \in Bad : \A k \in Bad : i <= k
    <3>1. Bad \in SUBSET Nat
      BY <1>1
    <3> HIDE DEF Bad
    <3> QED BY <3>1, LeastOf
  <2>2. i # 1 /\ i - 1 \in 1..Len(t) /\ i - 1 \in 1..n /\ i - 1 # n /\ i - 1 \notin Bad
    BY <1>1, <1>4, <2>1
  <2>3. t[i - 1] = s[i - 1] /\ f[t[i - 1]] = t[i] /\ f[s[i - 1]] = s[(i - 1) + 1] /\ (i - 1) + 1 = i
    BY <1>1, <1>2, <1>4, <2>1, <2>2
  <2> QED BY <2>1, <2>3
<1>9. ~(Len(t) < n)
  <2> SUFFICES ASSUME Len(t) < n
               PROVE  FALSE
    OBVIOUS
  <2> DEFINE m == Len(t)
             l == Len(s)
  <2>1. m \in Nat \ {0} /\ m < n /\ n \in Nat /\ n <= l /\ l \in Nat
    BY <1>1, <1>4
  <2>2. (\A i \in 1..m : i \in 1..n => t[i] = s[i]) /\ f[t[m]] = EOC
        /\ \A i \in 1..l : s[i] \in Clusters
    BY <1>1, <1>7, <1>8
  <2> HIDE DEF m, l
  <2>3. m \in 1..n /\ m # n /\ m + 1 \in 1..l /\ m \in 1..m
    BY <2>1
  <2>4. f[s[m]] = s[m + 1] /\ t[m] = s[m] /\ s[m + 1] \in Clusters
    BY <1>2, <2>2, <2>3
  <2> QED BY <1>5, <2>2, <2>4
<1>10. ~(Len(t) > n)
  <2> SUFFICES ASSUME Len(t) > n
               PROVE  FALSE
    OBVIOUS
  <2>1. n \in 1..Len(t) /\ n + 1 \in 1..Len(t) /\ n + 1 # 1 /\ (n + 1) - 1 = n /\ n \in 1..n
    BY <1>1, <1>4
  <2>2. f[t[(n + 1) - 1]] = t[n + 1] /\ t[n] = s[n]
    BY <1>4, <1>8, <2>1
  <2> QED BY <1>2, <1>4, <1>5, <2>1, <2>2
<1>11. Len(t) = n
  BY <1>1, <1>4, <1>9, <1>10
<1>12. \A i \in 1..n : t[i] = s[i]
  BY <1>8, <1>11
<1> QED BY <1>11, <1>12 DEF t, Covers

\* Behind the first slot never used there is none that was.
NoGaps(f, d, c) ==
  \A p, q \in Places(f, c) : p < q /\ Ent(f, d, c, p) = End => Ent(f, d, c, q) = End
\* That goes for the root and for the directories in it,
DirsOK(f, d) ==
  /\ NoGaps(f, d, Root)
  /\ \A p \in Places(f, Root) :
       Ent(f, d, Root, p).kind = "dir" => NoGaps(f, d, Ent(f, d, Root, p).first)
\* the names of files are numbers,
NamesOK(d) ==
  \A c \in Clusters, i \in Ordinals : Slot(d, c, i).kind = "file" => Slot(d, c, i).name \in Nat
\* and an app w may have its directory at h.
IsDir(e, w, h) == e.kind = "dir" /\ e.name = w /\ e.first = h
HasDir(f, d, w, h) ==
  \E p \in Places(f, Root) : IsDir(Ent(f, d, Root, p), w, h)
\* No file in the directory at h has that name.
NameFree(f, d, h, name) ==
  \A p \in Places(f, h) : Ent(f, d, h, p).kind = "file" => Ent(f, d, h, p).name # name
\* The chain from h is the file id, whole.
Whole(f, d, h, size, id) ==
  /\ Len(ChainIn(f, h)) = size
  /\ \A i \in 1..Len(ChainIn(f, h)) : d[ChainIn(f, h)[i]].file = id
\* The file s that was reported saved is entered at place q of h.
FileAt(f, d, h, q, s) ==
  LET e == Ent(f, d, h, q)
  IN  /\ e.kind = "file" /\ e.id = s.id /\ Whole(f, d, e.first, s.size, s.id)
      /\ \A r \in Places(f, h) :
           Ent(f, d, h, r).kind = "file" /\ r # q => Ent(f, d, h, r).name # e.name

\* A file of a directory is being deleted, which is to be deleted after it.
WithinWhole(o) == o.at = "rest" \/ (o.at \in {"mark", "free"} /\ o.back = "rest")
\* What is being deleted is neither the directory h nor the file at g.
Spared(o, h, g) ==
  /\ o.at = "contents" => o.entry.first # h
  /\ o.at = "mark" => o.entry.first # h /\ o.entry.first # g
  /\ WithinWhole(o) => o.whole.entry.first # h
\* That file is in a directory of its app, and not being deleted.
Kept(f, d, o, s) ==
  \E h \in Clusters : /\ HasDir(f, d, s.dir, h)
     /\ \E q \in Places(f, h) : FileAt(f, d, h, q, s) /\ Spared(o, h, Ent(f, d, h, q).first)

\* A chain that no step touched.
Same(f, d, g, e, c) ==
  ChainIn(g, c) = ChainIn(f, c) /\ \A x \in Covers(f, c) : e[x] = d[x]
\* A chain of a directory or a file starts at c.
ChainHead(d, c) == c = Root \/ ~NotHead(d, c)
\* No directory and no file was touched.
AllSame(f, d, g, e) == \A c \in Clusters : ChainHead(d, c) => Same(f, d, g, e, c)

\* A chain that no step touched shows the same entries.
LEMMA SameView ==
  ASSUME Fat32Assumption, NEW f, NEW d, NEW g, NEW e, NEW c \in Clusters, Same(f, d, g, e, c)
  PROVE  /\ Places(g, c) = Places(f, c)
         /\ \A p \in Places(f, c) : Ent(g, e, c, p) = Ent(f, d, c, p)
<1>1. ChainIn(g, c) = ChainIn(f, c) /\ \A x \in Covers(f, c) : e[x] = d[x]
  BY DEF Same
<1>2. ASSUME NEW p \in Places(f, c)
      PROVE  Ent(g, e, c, p) = Ent(f, d, c, p)
  <2>1. e[SlotAt(ChainIn(f, c), p)[1]] = d[SlotAt(ChainIn(f, c), p)[1]]
    BY <1>1, PlaceCovered
  <2> QED BY <1>1, <2>1 DEF Ent, EntryOf, Slot
<1> QED BY <1>1, <1>2 DEF Places

\* A directory or a file starts where no link leads.
LEMMA HeadFacts ==
  ASSUME Fat32Assumption, NEW f, NEW d, NEW R, DiskOK(f, d, R), NEW c, ChainHead(d, c)
  PROVE  c \in Clusters /\ NoLinkTo(f, c) /\ f[c] # Free
<1>1. CASE c = Root
  BY <1>1, ClusterValues DEF DiskOK, LinksOK, RegionOK
<1>2. CASE ~NotHead(d, c)
  BY <1>2 DEF NotHead, DiskOK, EntriesOK
<1> QED BY <1>1, <1>2 DEF ChainHead

\* What is entered in a directory.
LEMMA EntFacts ==
  ASSUME Fat32Assumption, NEW f, NEW d, NEW R, DiskOK(f, d, R), NEW c \in Clusters,
         NEW p \in Places(f, c), Live(Ent(f, d, c, p))
  PROVE  /\ ChainHead(d, Ent(f, d, c, p).first) /\ Ent(f, d, c, p).first \in Clusters \ R
         /\ Ent(f, d, c, p).first # Root
         /\ c \notin R => Ent(f, d, c, p).kind = "file"
<1> DEFINE x == SlotAt(ChainIn(f, c), p)[1]
           i == SlotAt(ChainIn(f, c), p)[2]
           a == Slot(d, x, i)
<1>1. x \in Clusters /\ i \in Ordinals /\ x \in Covers(f, c) /\ Ent(f, d, c, p) = a
  BY PlaceCovered DEF Ent, EntryOf
<1> HIDE DEF x, i
<1>2. a.first \in Clusters /\ a.first \notin R /\ (a.kind = "dir" => x \in R) /\ Root \in R
  BY <1>1 DEF DiskOK, EntriesOK, RegionOK
<1>3. ~NotHead(d, a.first)
  BY <1>1 DEF NotHead
<1>4. x \in R <=> c \in R
  <2>1. IsChain(f, c, ChainIn(f, c))
    BY CoverFacts
  <2>2. \A k \in 1..Len(ChainIn(f, c)) : ChainIn(f, c)[k] \in R <=> c \in R
    BY <2>1, ChainInRegion DEF DiskOK, RegionOK
  <2> QED BY <1>1, <2>2 DEF Covers
<1> QED BY <1>1, <1>2, <1>3, <1>4 DEF ChainHead, Live

\* Two places with the same chain are one.
LEMMA OneEntry ==
  ASSUME NEW f, NEW d, NEW R, DiskOK(f, d, R), NEW x \in Clusters, NEW i \in Ordinals,
         NEW y \in Clusters, NEW j \in Ordinals, Live(Slot(d, x, i)), Live(Slot(d, y, j)),
         Slot(d, x, i).first = Slot(d, y, j).first
  PROVE  x = y /\ i = j
BY DEF DiskOK, EntriesOK

\* What a write touched, elsewhere than in the chain from t, changes no chain
\* but that one.
LEMMA TouchApart ==
  ASSUME Fat32Assumption, NEW f, LinksOK(f), NEW d, NEW g, NEW e,
         NEW t \in Clusters, NoLinkTo(f, t),
         \A x \in Clusters : g[x] # f[x] \/ e[x] # d[x] => x \in Covers(f, t) \/ f[x] = Free,
         NEW c \in Clusters, NoLinkTo(f, c), f[c] # Free, c # t
  PROVE  Same(f, d, g, e, c)
<1>1. Covers(f, c) \cap Covers(f, t) = {} /\ (\A x \in Covers(f, c) : f[x] # Free)
      /\ Covers(f, c) \subseteq Clusters
  BY CoversApart, CoversTaken, CoverFacts
<1>2. \A x \in Covers(f, c) : g[x] = f[x] /\ e[x] = d[x]
  BY <1>1
<1>3. ChainIn(g, c) = ChainIn(f, c)
  BY <1>2, SameChain
<1> QED BY <1>2, <1>3 DEF Same

\* A write to what nothing leads to touches no directory and no file.
LEMMA AllApart ==
  ASSUME Fat32Assumption, NEW f, NEW d, NEW R, DiskOK(f, d, R), NEW g, NEW e,
         NEW t \in Clusters, NoLinkTo(f, t), ~ChainHead(d, t),
         \A x \in Clusters : g[x] # f[x] \/ e[x] # d[x] => x \in Covers(f, t) \/ f[x] = Free
  PROVE  AllSame(f, d, g, e)
<1> SUFFICES ASSUME NEW c \in Clusters, ChainHead(d, c)
             PROVE  Same(f, d, g, e, c)
  BY DEF AllSame
<1>1. NoLinkTo(f, c) /\ f[c] # Free /\ c # t /\ LinksOK(f)
  BY HeadFacts DEF DiskOK
<1> QED BY <1>1, TouchApart

\* A cluster to which no link leads is in no chain but its own.
LEMMA FreedApart ==
  ASSUME Fat32Assumption, NEW f, NEW d, NEW g, NEW t \in Clusters, NoLinkTo(f, t),
         \A x \in Clusters : x # t => g[x] = f[x], NEW c \in Clusters, c # t
  PROVE  Same(f, d, g, d, c)
<1>1. t \notin Covers(f, c) /\ Covers(f, c) \subseteq Clusters
  BY CoverFacts DEF NoLinkTo
<1>2. ChainIn(g, c) = ChainIn(f, c)
  BY <1>1, SameChain
<1> QED BY <1>2 DEF Same

\* A directory not touched has no gaps still,
LEMMA KeepNoGaps ==
  ASSUME Fat32Assumption, NEW f, NEW d, NEW g, NEW e, NEW c \in Clusters, Same(f, d, g, e, c),
         NoGaps(f, d, c)
  PROVE  NoGaps(g, e, c)
BY SameView DEF NoGaps

\* is still where it was,
LEMMA KeepHasDir ==
  ASSUME Fat32Assumption, NEW f, NEW d, NEW g, NEW e, Same(f, d, g, e, Root),
         NEW w, NEW h, HasDir(f, d, w, h)
  PROVE  HasDir(g, e, w, h)
BY SameView, ClusterValues DEF HasDir

\* still has no file of that name,
LEMMA KeepNameFree ==
  ASSUME Fat32Assumption, NEW f, NEW d, NEW g, NEW e, NEW h \in Clusters, Same(f, d, g, e, h),
         NEW name, NameFree(f, d, h, name)
  PROVE  NameFree(g, e, h, name)
BY SameView DEF NameFree

\* and a file not touched is still whole,
LEMMA KeepWhole ==
  ASSUME Fat32Assumption, NEW f, NEW d, NEW g, NEW e, NEW h \in Clusters, Same(f, d, g, e, h),
         NEW size, NEW id, Whole(f, d, h, size, id)
  PROVE  Whole(g, e, h, size, id)
<1>1. ChainIn(g, h) = ChainIn(f, h) /\ \A i \in 1..Len(ChainIn(f, h)) :
                                         e[ChainIn(f, h)[i]] = d[ChainIn(f, h)[i]]
  BY DEF Same, Covers
<1> QED BY <1>1 DEF Whole

\* and listed.
LEMMA KeepFile ==
  ASSUME Fat32Assumption, NEW f, NEW d, NEW g, NEW e, NEW h \in Clusters, NEW q \in Places(f, h),
         Same(f, d, g, e, h), Ent(f, d, h, q).first \in Clusters,
         Same(f, d, g, e, Ent(f, d, h, q).first), NEW s, FileAt(f, d, h, q, s)
  PROVE  /\ q \in Places(g, h) /\ FileAt(g, e, h, q, s)
         /\ Ent(g, e, h, q).first = Ent(f, d, h, q).first
<1> DEFINE first == Ent(f, d, h, q).first
<1>1. /\ Places(g, h) = Places(f, h)
      /\ \A p \in Places(f, h) : Ent(g, e, h, p) = Ent(f, d, h, p)
  BY SameView
<1>2. Whole(f, d, first, s.size, s.id)
  BY DEF FileAt
<1> HIDE DEF first
<1>3. Whole(g, e, first, s.size, s.id)
  BY <1>2, KeepWhole DEF first
<1> QED BY <1>1, <1>3 DEF FileAt, first

\* No directory touched, none has a gap.
LEMMA KeepDirs ==
  ASSUME Fat32Assumption, NEW f, NEW d, NEW R, DiskOK(f, d, R), NEW g, NEW e,
         AllSame(f, d, g, e), DirsOK(f, d)
  PROVE  DirsOK(g, e)
<1>1. Root \in Clusters /\ Same(f, d, g, e, Root)
  BY ClusterValues DEF AllSame, ChainHead
<1>2. /\ Places(g, Root) = Places(f, Root)
      /\ \A p \in Places(f, Root) : Ent(g, e, Root, p) = Ent(f, d, Root, p)
  BY <1>1, SameView
<1>3. NoGaps(g, e, Root)
  BY <1>1, KeepNoGaps DEF DirsOK
<1>4. ASSUME NEW p \in Places(f, Root), Ent(f, d, Root, p).kind = "dir"
      PROVE  NoGaps(g, e, Ent(f, d, Root, p).first)
  <2> DEFINE h == Ent(f, d, Root, p).first
  <2>1. ChainHead(d, h) /\ h \in Clusters
    BY <1>1, <1>4, EntFacts DEF Live
  <2>2. NoGaps(f, d, h)
    BY <1>4 DEF DirsOK
  <2> HIDE DEF h
  <2>3. NoGaps(g, e, h)
    BY <2>1, <2>2, KeepNoGaps DEF AllSame
  <2> QED BY <2>3 DEF h
<1> QED BY <1>2, <1>3, <1>4 DEF DirsOK

\* A file kept stays kept by a step that touches no directory and no file.
LEMMA KeepKept ==
  ASSUME Fat32Assumption, NEW f, NEW d, NEW R, DiskOK(f, d, R), NEW g, NEW e,
         AllSame(f, d, g, e), NEW o, NEW o2, NEW s, Kept(f, d, o, s),
         \A h, x : Spared(o, h, x) => Spared(o2, h, x)
  PROVE  Kept(g, e, o2, s)
<1>1. PICK h \in Clusters : /\ HasDir(f, d, s.dir, h)
        /\ \E q \in Places(f, h) : FileAt(f, d, h, q, s) /\ Spared(o, h, Ent(f, d, h, q).first)
  BY DEF Kept
<1>2. PICK q \in Places(f, h) : FileAt(f, d, h, q, s) /\ Spared(o, h, Ent(f, d, h, q).first)
  BY <1>1
<1>3. Root \in Clusters /\ Same(f, d, g, e, Root)
  BY ClusterValues DEF AllSame, ChainHead
<1>4. PICK p \in Places(f, Root) : IsDir(Ent(f, d, Root, p), s.dir, h)
  BY <1>1 DEF HasDir
<1>5. ChainHead(d, h)
  BY <1>3, <1>4, EntFacts DEF Live, IsDir
<1>6. ChainHead(d, Ent(f, d, h, q).first) /\ Ent(f, d, h, q).first \in Clusters
  BY <1>2, EntFacts DEF FileAt, Live
<1>7. Same(f, d, g, e, h) /\ Same(f, d, g, e, Ent(f, d, h, q).first)
  BY <1>5, <1>6 DEF AllSame
<1>8. HasDir(g, e, s.dir, h)
  BY <1>1, <1>3, KeepHasDir
<1>9. /\ q \in Places(g, h) /\ FileAt(g, e, h, q, s)
      /\ Ent(g, e, h, q).first = Ent(f, d, h, q).first
  BY <1>2, <1>6, <1>7, KeepFile
<1> QED BY <1>2, <1>8, <1>9 DEF Kept

-----------------------------------------------------------------------------
(* Fat32Card. Files that stay: the invariant.                              *)

\* The entry e was shown at pos of the directory at in: it is there still, or
\* the slot was marked since.
ItemHere(f, d, in, pos, e) ==
  pos \in Places(f, in) /\ Ent(f, d, in, pos) \in {e, Deleted}
\* What is being deleted was shown where it is.
DoomedOK(f, d, o) ==
  /\ o.at \in {"contents", "mark"} => ItemHere(f, d, o.in, o.pos, o.entry)
  /\ WithinWhole(o) => ItemHere(f, d, o.whole.in, o.whole.pos, o.whole.entry)

\* No slot of the directory at h was ever used.
AllEnd(f, d, h) == \A p \in Places(f, h) : Ent(f, d, h, p) = End
\* Where the entry that a save carries is to go, and what it stands for.
NewDirOK(f, d, o, where) ==
  /\ o.entry.kind = "dir" /\ o.into = Root /\ {"id", "size"} \subseteq DOMAIN o
  /\ o.entry = DirEntry(where, o.entry.first) /\ AllEnd(f, d, o.entry.first)
NewFileOK(f, d, o, where) ==
  /\ o.entry.kind = "file" /\ HasDir(f, d, where, o.into)
  /\ o.entry.name \in Nat /\ NameFree(f, d, o.into, o.entry.name)
  /\ Whole(f, d, o.entry.first, o.entry.size, o.entry.id)
TargetOK(f, d, o, where) ==
  "into" \in DOMAIN o /\ (NewDirOK(f, d, o, where) \/ NewFileOK(f, d, o, where))
\* The directory it goes to is full, and is to grow at its end.
GrowOK(f, d, o, where) ==
  /\ TargetOK(f, d, o, where) /\ o.last = Last(ChainIn(f, o.into))
  /\ \A p \in Places(f, o.into) : Live(Ent(f, d, o.into, p))
\* A file is being written to a directory that is there, under a free name.
FileToCome(f, d, o, where) ==
  /\ {"id", "size", "name"} \subseteq DOMAIN o /\ o.want = o.size /\ o.name \in Nat
  /\ HasDir(f, d, where, o.dir) /\ NameFree(f, d, o.dir, o.name)
\* What the clusters being taken are for.
UseOK(f, d, o, where, use) ==
  /\ use = "clear" => GrowOK(f, d, o, where)
  /\ use = "init" => o.want = 1 /\ {"id", "size"} \subseteq DOMAIN o
  /\ use = "write" => FileToCome(f, d, o, where)

\* What a save has found and written so far, by the step it is at.
PhaseOK(f, d, o, where) ==
  /\ o.at = "find_dir" => {"id", "size"} \subseteq DOMAIN o
  /\ o.at = "name" => {"id", "size"} \subseteq DOMAIN o /\ HasDir(f, d, where, o.dir)
  /\ o.at = "alloc" => UseOK(f, d, o, where, o.then) /\ Linked(f, o.got, Len(o.got))
  /\ o.at = "link" => /\ UseOK(f, d, o, where, o.then) /\ Linked(f, o.got, Len(o.got) - 1)
                      /\ f[o.got[Len(o.got)]] = EOC
  /\ o.at \in {"init", "write", "clear"} =>
       /\ UseOK(f, d, o, where, o.at) /\ Linked(f, o.got, Len(o.got)) /\ Len(o.got) = o.want
  /\ o.at = "slot" => TargetOK(f, d, o, where)
  /\ o.at = "join" => /\ GrowOK(f, d, o, where)
                      /\ \A i \in Ordinals : Slot(d, o.got[1], i) = End
  /\ o.at = "enter" =>
       /\ TargetOK(f, d, o, where)
       /\ \E p \in Places(f, o.into) :
            /\ o.slot = SlotAt(ChainIn(f, o.into), p) /\ ~Live(Ent(f, d, o.into, p))
            /\ \A q \in Places(f, o.into) : q < p => Ent(f, d, o.into, q) # End

\* The directories, the call under way, the list shown and the files kept.
StateOK(f, d, o, kept, shown, home, where) ==
  /\ DirsOK(f, d) /\ NamesOK(d) /\ PhaseOK(f, d, o, where) /\ DoomedOK(f, d, o)
  /\ \A item \in shown : ItemHere(f, d, home, item.pos, item.entry)
  /\ \A s \in kept : Kept(f, d, o, s)

\* The invariant, and what a step has to establish.
SavedInv ==
  faults \in Nat /\ (misread \/ wild \/ StateOK(fat, data, op, saved, list, cur, screen))
SavedNext ==
  faults' \in Nat /\ StateOK(fat', data', op', saved', list', cur', screen')

\* Nothing is deleted while something is saved, or between calls.
LEMMA NoneDoomed ==
  ASSUME NEW o, o.at \in SaveSteps \/ o = Idle
  PROVE  (\A h, x : Spared(o, h, x)) /\ (\A f, d : DoomedOK(f, d, o))
BY DEF SaveSteps, Idle, Spared, DoomedOK, WithinWhole

\* Between calls nothing is asked of a call under way.
LEMMA IdlePhase == \A f, d, w : PhaseOK(f, d, Idle, w)
BY DEF PhaseOK, Idle

\* What to show of the next state of a save.
LEMMA KeepSaving ==
  ASSUME Fat32Assumption, NEW f, NEW d, NEW o, NEW where, NEW home, o.at \in SaveSteps \/ o = Idle,
         DirsOK(f, d), NamesOK(d), PhaseOK(f, d, o, where),
         NEW kept, \A s \in kept : Kept(f, d, Idle, s)
  PROVE  StateOK(f, d, o, kept, {}, home, where)
<1>1. ASSUME NEW s \in kept
      PROVE  Kept(f, d, o, s)
  BY NoneDoomed DEF Kept
<1> QED BY <1>1, NoneDoomed DEF StateOK

\* A write of a save, done or failed.
LEMMA SavedPut ==
  ASSUME Fat32Assumption, NEW R, CardOK(fat, data, R, cur, list, screen, op),
         op.at \in SaveSteps, faults \in Nat, StateOK(fat, data, op, saved, list, cur, screen),
         NEW f, NEW d, NEW next, Put(f, d, next), UNCHANGED browser, UNCHANGED saved,
         next.at \in SaveSteps \/ next = Idle,
         DirsOK(f, d), NamesOK(d), \A s \in saved : Kept(f, d, Idle, s),
         PhaseOK(f, d, next, screen)
  PROVE  SavedNext
<1>1. screen \in Writers /\ list = {}
  BY SavingState DEF BrowserOK
<1>2. screen' = screen /\ cur' = cur /\ list' = {} /\ saved' = saved
  BY <1>1 DEF browser
<1>3. StateOK(f, d, next, saved, {}, cur, screen) /\ StateOK(f, d, Idle, saved, {}, cur, screen)
  BY KeepSaving, IdlePhase
<1>4. StateOK(fat, data, Idle, saved, {}, cur, screen)
  <2>1. \A s \in saved : Kept(fat, data, Idle, s)
    BY NoneDoomed DEF StateOK, Kept
  <2> QED BY <2>1, KeepSaving, IdlePhase DEF StateOK
<1>5. faults' \in Nat
  BY DEF Put
<1>6. \/ fat' = f /\ data' = d /\ op' = next
      \/ fat' = f /\ data' = d /\ op' = Idle
      \/ fat' = fat /\ data' = data /\ op' = Idle
  BY DEF Put, onCard
<1> QED BY <1>2, <1>3, <1>4, <1>5, <1>6 DEF SavedNext

\* A step of a save that writes nothing.
LEMMA SavedQuiet ==
  ASSUME Fat32Assumption, NEW R, CardOK(fat, data, R, cur, list, screen, op),
         op.at \in SaveSteps, StateOK(fat, data, op, saved, list, cur, screen),
         UNCHANGED onCard, UNCHANGED browser, UNCHANGED saved, faults' \in Nat,
         op'.at \in SaveSteps \/ op' = Idle, PhaseOK(fat, data, op', screen)
  PROVE  SavedNext
<1>1. screen \in Writers /\ list = {}
  BY SavingState DEF BrowserOK
<1>2. screen' = screen /\ cur' = cur /\ list' = {} /\ saved' = saved /\ fat' = fat /\ data' = data
  BY <1>1 DEF browser, onCard
<1>3. \A s \in saved : Kept(fat, data, Idle, s)
  BY NoneDoomed DEF StateOK, Kept
<1>4. StateOK(fat, data, op', saved, {}, cur, screen)
  BY <1>3, KeepSaving DEF StateOK
<1> QED BY <1>2, <1>4 DEF SavedNext

\* What a save carries along.
Luggage == {"id", "size", "name", "dir", "into", "entry", "last", "want"}
Carries(o, o2) == \A k \in Luggage : k \in DOMAIN o => k \in DOMAIN o2 /\ o2[k] = o[k]

\* With keeps what is not among the changes.
LEMMA WithKeeps ==
  ASSUME NEW o, NEW changes
  PROVE  /\ DOMAIN changes \cap Luggage = {} => Carries(o, With(o, changes))
         /\ \A k \in DOMAIN changes : k \in DOMAIN With(o, changes) /\ With(o, changes)[k] = changes[k]
         /\ \A k \in DOMAIN o \ DOMAIN changes :
              k \in DOMAIN With(o, changes) /\ With(o, changes)[k] = o[k]
BY DEF With, Carries

\* The target of a save is a directory.
LEMMA TargetIsDir ==
  ASSUME Fat32Assumption, NEW f, NEW d, NEW R, DiskOK(f, d, R), NEW o, NEW where,
         TargetOK(f, d, o, where)
  PROVE  ChainHead(d, o.into) /\ o.into \in Clusters
<1>1. Root \in Clusters /\ ChainHead(d, Root)
  BY ClusterValues DEF ChainHead
<1>2. CASE NewDirOK(f, d, o, where)
  BY <1>1, <1>2 DEF NewDirOK
<1>3. CASE NewFileOK(f, d, o, where)
  <2>1. PICK p \in Places(f, Root) : IsDir(Ent(f, d, Root, p), where, o.into)
    BY <1>3 DEF NewFileOK, HasDir
  <2> QED BY <1>1, <2>1, EntFacts DEF Live, IsDir
<1> QED BY <1>2, <1>3 DEF TargetOK

\* A directory of an app is a chain of its own, with files in it only.
LEMMA HasDirIsHead ==
  ASSUME Fat32Assumption, NEW f, NEW d, NEW R, DiskOK(f, d, R), NEW w, NEW h, HasDir(f, d, w, h)
  PROVE  ChainHead(d, h) /\ h \in Clusters \ R /\ h # Root
<1>1. PICK p \in Places(f, Root) : IsDir(Ent(f, d, Root, p), w, h)
  BY DEF HasDir
<1> QED BY <1>1, EntFacts, ClusterValues DEF Live, IsDir

\* A step that touches nothing entered keeps what a save has found so far.
LEMMA KeepTarget ==
  ASSUME Fat32Assumption, NEW f, NEW d, NEW R, DiskOK(f, d, R), NEW g, NEW e,
         AllSame(f, d, g, e), NEW o, NEW o2, NEW where, Carries(o, o2),
         PendingOK(f, d, R, o), Same(f, d, g, e, o.entry.first), TargetOK(f, d, o, where)
  PROVE  TargetOK(g, e, o2, where)
<1>1. "into" \in DOMAIN o /\ "entry" \in DOMAIN o /\ o.entry.first \in Clusters
  BY DEF TargetOK, PendingOK, Fresh
<1>2. "into" \in DOMAIN o2 /\ o2.into = o.into /\ o2.entry = o.entry
  BY <1>1 DEF Carries, Luggage
<1>3. ChainHead(d, o.into) /\ o.into \in Clusters /\ Root \in Clusters /\ Same(f, d, g, e, Root)
  BY TargetIsDir, ClusterValues DEF AllSame, ChainHead
<1>4. CASE NewDirOK(f, d, o, where)
  <2>1. "id" \in DOMAIN o2 /\ "size" \in DOMAIN o2
    BY <1>4 DEF NewDirOK, Carries, Luggage
  <2>2. AllEnd(g, e, o.entry.first)
    BY <1>1, <1>4, SameView DEF NewDirOK, AllEnd
  <2> QED BY <1>2, <1>4, <2>1, <2>2 DEF TargetOK, NewDirOK
<1>5. CASE NewFileOK(f, d, o, where)
  <2>1. HasDir(g, e, where, o.into)
    BY <1>3, <1>5, KeepHasDir DEF NewFileOK
  <2>2. NameFree(g, e, o.into, o.entry.name)
    BY <1>3, <1>5, KeepNameFree DEF NewFileOK, AllSame
  <2>3. Whole(g, e, o.entry.first, o.entry.size, o.entry.id)
    BY <1>1, <1>5, KeepWhole DEF NewFileOK
  <2> QED BY <1>2, <1>5, <2>1, <2>2, <2>3 DEF TargetOK, NewFileOK
<1> QED BY <1>4, <1>5 DEF TargetOK

\* The same of a directory that has to grow,
LEMMA KeepGrow ==
  ASSUME Fat32Assumption, NEW f, NEW d, NEW R, DiskOK(f, d, R), NEW g, NEW e,
         AllSame(f, d, g, e), NEW o, NEW o2, NEW where, Carries(o, o2), "last" \in DOMAIN o,
         PendingOK(f, d, R, o), Same(f, d, g, e, o.entry.first), GrowOK(f, d, o, where)
  PROVE  GrowOK(g, e, o2, where)
<1>1. TargetOK(g, e, o2, where)
  BY KeepTarget DEF GrowOK
<1>2. "into" \in DOMAIN o /\ o2.into = o.into /\ o2.last = o.last
  BY DEF GrowOK, TargetOK, Carries, Luggage
<1>3. o.into \in Clusters /\ Same(f, d, g, e, o.into)
  BY TargetIsDir DEF GrowOK, AllSame
<1>4. ChainIn(g, o.into) = ChainIn(f, o.into)
  BY <1>3 DEF Same
<1>5. \A p \in Places(g, o.into) : Live(Ent(g, e, o.into, p))
  BY <1>3, SameView DEF GrowOK
<1> QED BY <1>1, <1>2, <1>4, <1>5 DEF GrowOK

\* and of whatever a cluster is being taken for.
LEMMA KeepUse ==
  ASSUME Fat32Assumption, NEW f, NEW d, NEW R, DiskOK(f, d, R), NEW g, NEW e,
         AllSame(f, d, g, e), NEW o, NEW o2, NEW where, Carries(o, o2), NEW use,
         ForOK(f, d, R, o, use), "want" \in DOMAIN o,
         use = "clear" => Same(f, d, g, e, o.entry.first), UseOK(f, d, o, where, use)
  PROVE  UseOK(g, e, o2, where, use)
<1>1. o2.want = o.want
  BY DEF Carries, Luggage
<1>2. CASE use = "clear"
  BY <1>2, KeepGrow DEF UseOK, ForOK
<1>3. CASE use = "init"
  BY <1>1, <1>3 DEF UseOK, Carries, Luggage
<1>4. CASE use = "write"
  <2>1. "dir" \in DOMAIN o /\ FileToCome(f, d, o, where) /\ Same(f, d, g, e, Root) /\ Root \in Clusters
    BY <1>4, ClusterValues DEF ForOK, UseOK, AllSame, ChainHead
  <2>2. /\ o2.dir = o.dir /\ {"id", "size", "name"} \subseteq DOMAIN o2
        /\ o2.size = o.size /\ o2.name = o.name
    BY <2>1 DEF FileToCome, Carries, Luggage
  <2>3. ChainHead(d, o.dir) /\ o.dir \in Clusters
    BY <2>1, HasDirIsHead DEF FileToCome
  <2>4. HasDir(g, e, where, o.dir) /\ NameFree(g, e, o.dir, o.name)
    BY <2>1, <2>3, KeepHasDir, KeepNameFree DEF FileToCome, AllSame
  <2> QED BY <1>1, <1>4, <2>1, <2>2, <2>4 DEF UseOK, FileToCome
<1> QED BY <1>2, <1>3, <1>4 DEF ForOK

-----------------------------------------------------------------------------
(* Fat32Card. Files that stay: steps of a save that write to no directory. *)

\* fat_find_free_cluster finds a free cluster if there is one.
LEMMA FirstFreeIsFree ==
  ASSUME Fat32Assumption, FreeClusters # {}
  PROVE  FirstFree \in Clusters /\ fat[FirstFree] = Free
<1> DEFINE ahead == {x \in FreeClusters : x >= hint}
<1>1. FreeClusters \subseteq Nat /\ ahead \subseteq Nat /\ ahead \subseteq FreeClusters
  BY ClusterValues DEF FreeClusters
<1>2. ahead # {} => Min(ahead) \in ahead
  <2> HIDE DEF ahead
  <2> QED BY <1>1, MinIsLeast
<1>3. Min(FreeClusters) \in FreeClusters
  BY <1>1, MinIsLeast
<1>4. FirstFree \in FreeClusters
  BY <1>1, <1>2, <1>3 DEF FirstFree
<1> QED BY <1>4 DEF FreeClusters

\* fat_alloc_chain takes a free cluster: nothing that is entered is touched.
LEMMA TakeClusterSaved ==
  ASSUME Fat32Assumption, NEW R, CardOK(fat, data, R, cur, list, screen, op), faults \in Nat,
         StateOK(fat, data, op, saved, list, cur, screen), TakeCluster
  PROVE  SavedNext
<1>1. op.at = "alloc" /\ op.at \in SaveSteps /\ UNCHANGED browser /\ UNCHANGED saved
  BY DEF TakeCluster, SaveSteps, ghosts
<1>2. AllocOK(fat, data, R, op) /\ DiskOK(fat, data, R) /\ LinksOK(fat)
  BY <1>1 DEF CardOK, SavingOK, DiskOK
<1>3. CASE FreeClusters = {}
  <2>1. op' = Idle /\ UNCHANGED onCard /\ faults' = faults
    BY <1>3 DEF TakeCluster, GiveUp
  <2> QED BY <1>1, <2>1, SavedQuiet, IdlePhase
<1>4. CASE FreeClusters # {}
  <2> DEFINE c == FirstFree
             g == [fat EXCEPT ![c] = EOC]
             step == IF op.got # <<>> THEN "link" ELSE IF op.want = 1 THEN op.then ELSE "alloc"
             next == With(op, [got |-> Append(op.got, c), at |-> step])
  <2>1. Put(g, data, next)
    BY <1>4 DEF TakeCluster
  <2>2. c \in Clusters /\ fat[c] = Free
    BY <1>4, FirstFreeIsFree
  <2> HIDE DEF c
  <2>3. \A x \in Clusters : g[x] = IF x = c THEN EOC ELSE fat[x]
    BY <1>2 DEF LinksOK
  <2> HIDE DEF g
  <2>4. NoLinkTo(fat, c) /\ ~ChainHead(data, c)
    BY <1>2, <2>2, HeadFacts DEF LinksOK, NoLinkTo
  <2>5. AllSame(fat, data, g, data)
    BY <1>2, <2>2, <2>3, <2>4, AllApart
  <2>6. /\ next.at = step /\ next.got = Append(op.got, c) /\ next.then = op.then
        /\ next.want = op.want /\ Carries(op, next)
    <3>1. {"want", "then"} \subseteq DOMAIN op
      BY <1>2 DEF AllocOK
    <3> QED BY <3>1 DEF With, Carries, Luggage
  <2> HIDE DEF next
  <2>7. /\ op.got \in Seq(Clusters) /\ Len(op.got) \in Nat /\ op.then \in {"init", "clear", "write"}
        /\ \A i \in 1..Len(op.got) : op.got[i] \in Clusters
    BY <1>2 DEF AllocOK, GotOK, ForOK
  <2>8. UseOK(fat, data, op, screen, op.then) /\ Linked(fat, op.got, Len(op.got))
    BY <1>1 DEF StateOK, PhaseOK
  <2>9. UseOK(g, data, next, screen, op.then)
    <3>1. ForOK(fat, data, R, op, op.then) /\ "want" \in DOMAIN op
      BY <1>2 DEF AllocOK
    <3>2. ASSUME op.then = "clear"
          PROVE  Same(fat, data, g, data, op.entry.first)
      <4>1. Fresh(fat, data, R, op.entry.first)
        BY <3>1, <3>2 DEF ForOK, PendingOK
      <4>2. op.entry.first # c
        BY <2>2, <4>1 DEF Fresh
      <4> QED BY <1>2, <2>2, <2>3, <2>4, <4>1, <4>2, TouchApart DEF Fresh
    <3> QED BY <1>2, <2>5, <2>6, <2>8, <3>1, <3>2, KeepUse
  <2>10. PhaseOK(g, data, next, screen) /\ next.at \in SaveSteps
    <3>1. CASE op.got # <<>>
      <4> DEFINE n == Len(op.got)
      <4>1. n \in Nat \ {0} /\ next.at = "link"
        BY <2>6, <2>7, <3>1
      <4>2. Len(next.got) = n + 1 /\ next.got[n + 1] = c /\ \A i \in 1..n : next.got[i] = op.got[i]
        BY <2>2, <2>6, <2>7
      <4>3. (\A i \in 1..n : i # n => fat[op.got[i]] = op.got[i + 1]) /\ fat[op.got[n]] = EOC
            /\ \A i \in 1..n : op.got[i] \in Clusters
        BY <2>7, <2>8, <4>1 DEF Linked
      <4> HIDE DEF n
      <4>4. \A i \in 1..n : i # n => i + 1 \in 1..n
        BY <4>1
      <4>5. \A i \in 1..n : fat[op.got[i]] # Free
        BY <4>3, <4>4, ClusterValues
      <4>6. \A i \in 1..n : g[op.got[i]] = fat[op.got[i]]
        BY <2>2, <2>3, <4>3, <4>5
      <4>7. Linked(g, next.got, n)
        BY <4>1, <4>2, <4>3, <4>4, <4>6 DEF Linked
      <4>8. g[next.got[n + 1]] = EOC /\ (n + 1) - 1 = n
        BY <2>2, <2>3, <4>1, <4>2
      <4>9. Linked(g, next.got, Len(next.got) - 1) /\ g[next.got[Len(next.got)]] = EOC
        BY <4>2, <4>7, <4>8
      <4> QED BY <2>6, <2>9, <4>1, <4>9 DEF PhaseOK, SaveSteps
    <3>2. CASE op.got = <<>>
      <4>1. Len(next.got) = 1 /\ next.got[1] = c
        BY <2>2, <2>6, <3>2
      <4>2. Linked(g, next.got, 1)
        BY <2>2, <2>3, <4>1 DEF Linked
      <4>3. CASE op.want = 1
        <5>1. next.at = op.then
          BY <2>6, <3>2, <4>3
        <5>2. UseOK(g, data, next, screen, next.at) /\ Linked(g, next.got, Len(next.got))
              /\ Len(next.got) = next.want
          BY <2>6, <2>9, <4>1, <4>2, <4>3, <5>1
        <5> QED BY <2>7, <5>1, <5>2 DEF PhaseOK, SaveSteps
      <4>4. CASE op.want # 1
        <5>1. next.at = "alloc"
          BY <2>6, <3>2, <4>4
        <5> QED BY <2>6, <2>9, <4>1, <4>2, <5>1 DEF PhaseOK, SaveSteps
      <4> QED BY <4>3, <4>4
    <3> QED BY <3>1, <3>2
  <2>11. \A s \in saved : Kept(g, data, Idle, s)
    BY <1>2, <2>5, KeepKept, NoneDoomed DEF StateOK
  <2>12. DirsOK(g, data) /\ NamesOK(data)
    BY <1>2, <2>5, KeepDirs DEF StateOK
  <2> QED BY <1>1, <2>1, <2>10, <2>11, <2>12, SavedPut
<1> QED BY <1>3, <1>4

\* fat_alloc_chain links the cluster to those it took before.
LEMMA LinkClusterSaved ==
  ASSUME Fat32Assumption, NEW R, CardOK(fat, data, R, cur, list, screen, op), faults \in Nat,
         StateOK(fat, data, op, saved, list, cur, screen), LinkCluster
  PROVE  SavedNext
<1>1. op.at = "link" /\ op.at \in SaveSteps /\ UNCHANGED browser /\ UNCHANGED saved
  BY DEF LinkCluster, SaveSteps, ghosts
<1>2. LinkOK(fat, data, R, op) /\ DiskOK(fat, data, R) /\ LinksOK(fat)
  BY <1>1 DEF CardOK, SavingOK, DiskOK
<1> DEFINE n == Len(op.got)
           x == op.got[n - 1]
           y == op.got[n]
           t == op.got[1]
           g == [fat EXCEPT ![x] = y]
           next == With(op, [at |-> IF n = op.want THEN op.then ELSE "alloc"])
<1>3. Put(g, data, next)
  BY DEF LinkCluster
<1>4. /\ GotOK(fat, data, R, op) /\ ForOK(fat, data, R, op, op.then) /\ op.then # "clear"
      /\ n >= 2 /\ Fresh(fat, data, R, y) /\ y # t /\ {"want", "then"} \subseteq DOMAIN op
  BY <1>2 DEF LinkOK
<1>5. op.got \in Seq(Clusters) /\ n \in Nat /\ "got" \in DOMAIN op
      /\ \A i \in 1..n : op.got[i] \in Clusters
  BY <1>4 DEF GotOK
<1>6. n - 1 \in 1..n /\ n \in 1..n /\ 1 \in 1..(n - 1) /\ x \in Clusters /\ y \in Clusters /\ t \in Clusters
      /\ op.then \in {"init", "clear", "write"}
  BY <1>4, <1>5 DEF ForOK
<1>7. Fresh(fat, data, R, t)
  BY <1>4, <1>5 DEF GotOK
<1>8. /\ next.at = (IF n = op.want THEN op.then ELSE "alloc") /\ next.got = op.got
      /\ next.want = op.want /\ next.then = op.then /\ Carries(op, next)
  BY <1>4, <1>5 DEF With, Carries, Luggage
<1>9. UseOK(fat, data, op, screen, op.then) /\ Linked(fat, op.got, n - 1) /\ fat[y] = EOC
  BY <1>1 DEF StateOK, PhaseOK
<1>10. \A z \in Clusters : g[z] = IF z = x THEN y ELSE fat[z]
  BY <1>2 DEF LinksOK
<1>11. NoLinkTo(fat, t) /\ fat[t] # Free /\ NoLinkTo(fat, y) /\ ~ChainHead(data, t)
  BY <1>2, <1>4, <1>7 DEF Fresh, ChainHead, DiskOK, RegionOK
<1>12. /\ Len(ChainIn(fat, t)) = n - 1
       /\ \A i \in 1..(n - 1) : ChainIn(fat, t)[i] = op.got[i]
       /\ \A i \in 1..(n - 1) : op.got[i] \in Covers(fat, t)
  BY <1>2, <1>4, <1>5, <1>6, <1>9, <1>11, LinkedChain
<1>13. IsInjective(ChainIn(fat, t)) /\ DOMAIN ChainIn(fat, t) = 1..(n - 1)
  <2>1. IsChain(fat, t, ChainIn(fat, t)) /\ DOMAIN ChainIn(fat, t) = 1..Len(ChainIn(fat, t))
    BY <1>6, CoverFacts
  <2> QED BY <1>2, <1>6, <1>11, <1>12, <2>1, ChainIsWhole
<1>14. n - 1 \in 1..(n - 1)
  BY <1>4, <1>5
<1>15. \A i \in 1..(n - 1) : op.got[i] = x => i = n - 1
  BY <1>12, <1>13, <1>14 DEF IsInjective
<1>16. \A i \in 1..(n - 1) : op.got[i] # y
  BY <1>6, <1>11, <1>12, <1>4, CoverFacts DEF NoLinkTo
<1> HIDE DEF x, y, t, g, next
<1>17. AllSame(fat, data, g, data)
  <2>1. x \in Covers(fat, t)
    BY <1>12, <1>14 DEF x
  <2> QED BY <1>2, <1>6, <1>10, <1>11, <2>1, AllApart
<1>18. Linked(g, op.got, n)
  <2>1. ASSUME NEW i \in 1..n, i # n
        PROVE  g[op.got[i]] = op.got[i + 1]
    <3>1. i \in 1..(n - 1) /\ op.got[i] \in Clusters
      BY <1>5, <2>1
    <3>2. CASE i = n - 1
      BY <1>5, <1>6, <1>10, <3>2 DEF x, y
    <3>3. CASE i # n - 1
      <4>1. op.got[i] # x /\ fat[op.got[i]] = op.got[i + 1]
        BY <1>9, <1>15, <3>1, <3>3 DEF Linked
      <4> QED BY <1>10, <3>1, <4>1
    <3> QED BY <3>2, <3>3
  <2>2. g[op.got[n]] = EOC
    <3>1. y # x
      BY <1>14, <1>16 DEF x
    <3> QED BY <1>6, <1>9, <1>10, <3>1 DEF y
  <2> QED BY <2>1, <2>2 DEF Linked
<1>19. UseOK(g, data, next, screen, op.then)
  BY <1>2, <1>4, <1>8, <1>9, <1>17, KeepUse
<1>20. PhaseOK(g, data, next, screen) /\ next.at \in SaveSteps
  <2>1. CASE n = op.want
    <3>1. next.at = op.then
      BY <1>8, <2>1
    <3>2. UseOK(g, data, next, screen, next.at) /\ Linked(g, next.got, Len(next.got))
          /\ Len(next.got) = next.want
      BY <1>8, <1>18, <1>19, <2>1, <3>1
    <3> QED BY <1>6, <3>1, <3>2 DEF PhaseOK, SaveSteps
  <2>2. CASE n # op.want
    <3>1. next.at = "alloc"
      BY <1>8, <2>2
    <3> QED BY <1>8, <1>18, <1>19, <3>1 DEF PhaseOK, SaveSteps
  <2> QED BY <2>1, <2>2
<1>21. \A s \in saved : Kept(g, data, Idle, s)
  BY <1>2, <1>17, KeepKept, NoneDoomed DEF StateOK
<1>22. DirsOK(g, data) /\ NamesOK(data)
  BY <1>2, <1>17, KeepDirs DEF StateOK
<1> QED BY <1>1, <1>3, <1>20, <1>21, <1>22, SavedPut

\* What a save writes to the clusters it took touches nothing that is entered.
LEMMA BlankSaved ==
  ASSUME Fat32Assumption, NEW R, CardOK(fat, data, R, cur, list, screen, op),
         StateOK(fat, data, op, saved, list, cur, screen), op.at \in {"init", "write", "clear"},
         NEW e, e = [c \in Clusters |-> e[c]],
         \A c \in Clusters : \/ e[c] = data[c]
                             \/ /\ \E i \in 1..Len(op.got) : op.got[i] = c
                                /\ e[c] = Zeroed \/ \E id : e[c] = Holding(id)
  PROVE  /\ AllSame(fat, data, fat, e) /\ DirsOK(fat, e) /\ NamesOK(e)
         /\ \A s \in saved : Kept(fat, e, Idle, s)
         /\ \A c : Fresh(fat, data, R, c) /\ c # op.got[1] => Same(fat, data, fat, e, c)
         /\ op.got[1] \in Clusters /\ Len(ChainIn(fat, op.got[1])) = Len(op.got)
         /\ \A i \in 1..Len(op.got) : ChainIn(fat, op.got[1])[i] = op.got[i]
<1> DEFINE t == op.got[1]
           n == Len(op.got)
<1>1. op.at \in SaveSteps
  BY DEF SaveSteps
<1>2. ReadyOK(fat, data, R, op, op.at) /\ DiskOK(fat, data, R) /\ LinksOK(fat)
  BY DEF CardOK, SavingOK, DiskOK
<1>3. /\ op.got \in Seq(Clusters) /\ n \in Nat \ {0} /\ Fresh(fat, data, R, t)
      /\ \A i \in 1..n : op.got[i] \in Clusters
  <2>1. op.got \in Seq(Clusters) /\ n > 0 /\ Fresh(fat, data, R, t)
    BY <1>2 DEF ReadyOK, GotOK
  <2> QED BY <2>1
<1>4. t \in Clusters /\ NoLinkTo(fat, t) /\ ~ChainHead(data, t)
  BY <1>2, <1>3 DEF Fresh, ChainHead, DiskOK, RegionOK
<1>5. Linked(fat, op.got, n) /\ n \in 1..n
  BY <1>3 DEF StateOK, PhaseOK
<1>6. /\ Len(ChainIn(fat, t)) = n /\ \A i \in 1..n : ChainIn(fat, t)[i] = op.got[i]
      /\ \A i \in 1..n : op.got[i] \in Covers(fat, t)
  <2>1. n \in 1..Len(op.got) /\ t = op.got[1]
    BY <1>5
  <2> HIDE DEF n, t
  <2>2. NoLinkTo(fat, op.got[1]) /\ Linked(fat, op.got, n) /\ op.got \in Seq(Clusters) /\ LinksOK(fat)
    BY <1>2, <1>3, <1>4, <1>5, <2>1
  <2>3. /\ Len(ChainIn(fat, op.got[1])) = n /\ \A i \in 1..n : ChainIn(fat, op.got[1])[i] = op.got[i]
        /\ \A i \in 1..n : op.got[i] \in Covers(fat, op.got[1])
    BY <2>1, <2>2, LinkedChain
  <2> QED BY <2>1, <2>3
<1> HIDE DEF t, n
<1>7. \A c \in Clusters : fat[c] # fat[c] \/ e[c] # data[c] => c \in Covers(fat, t) \/ fat[c] = Free
  BY <1>6 DEF n
<1>8. AllSame(fat, data, fat, e)
  BY <1>2, <1>4, <1>7, AllApart
<1>9. \A c : Fresh(fat, data, R, c) /\ c # t => Same(fat, data, fat, e, c)
  BY <1>2, <1>4, <1>7, TouchApart DEF Fresh
<1>10. DirsOK(fat, e)
  BY <1>2, <1>8, KeepDirs DEF StateOK
<1>11. NamesOK(e)
  <2>1. Blanked(data, e)
    BY <1>2, BlankedBy DEF DiskOK
  <2>2. \A c \in Clusters, i \in Ordinals :
          Slot(e, c, i) = Slot(data, c, i) \/ Slot(e, c, i).kind # "file"
    BY <2>1 DEF Blanked, End, Deleted
  <2> QED BY <2>2 DEF StateOK, NamesOK
<1>12. \A s \in saved : Kept(fat, e, Idle, s)
  BY <1>1, <1>2, <1>8, KeepKept, NoneDoomed DEF StateOK
<1> QED BY <1>4, <1>6, <1>8, <1>9, <1>10, <1>11, <1>12 DEF t, n

\* fat_init_directory_cluster clears the cluster of the directory to be.
LEMMA InitDirSaved ==
  ASSUME Fat32Assumption, NEW R, CardOK(fat, data, R, cur, list, screen, op), faults \in Nat,
         StateOK(fat, data, op, saved, list, cur, screen), InitDir
  PROVE  SavedNext
<1> DEFINE t == op.got[1]
           e == [data EXCEPT ![op.got[1]] = Zeroed]
           next == With(op, [at |-> "slot", into |-> Root, entry |-> DirEntry(screen, op.got[1])])
<1>1. op.at = "init" /\ op.at \in SaveSteps /\ UNCHANGED browser /\ UNCHANGED saved
      /\ op.at \in {"init", "write", "clear"}
  BY DEF InitDir, SaveSteps, ghosts
<1>2. Put(fat, e, next)
  BY DEF InitDir
<1>3. ReadyOK(fat, data, R, op, "init") /\ DiskOK(fat, data, R)
  BY <1>1 DEF CardOK, SavingOK
<1>4. Len(op.got) > 0 /\ op.got \in Seq(Clusters)
  BY <1>3 DEF ReadyOK, GotOK
<1>5. t \in Clusters /\ 1 \in 1..Len(op.got)
  BY <1>4
<1>6. UseOK(fat, data, op, screen, "init") /\ Len(op.got) = op.want
  BY <1>1 DEF StateOK, PhaseOK
<1>7. Len(op.got) = 1 /\ "id" \in DOMAIN op /\ "size" \in DOMAIN op
  BY <1>6 DEF UseOK
<1>8. /\ next.at = "slot" /\ next.into = Root /\ next.entry = DirEntry(screen, t)
      /\ "into" \in DOMAIN next /\ "id" \in DOMAIN next /\ "size" \in DOMAIN next
  BY <1>7 DEF With
<1> HIDE DEF next
<1>9. e = [c \in Clusters |-> e[c]] /\ \A c \in Clusters : e[c] = IF c = t THEN Zeroed ELSE data[c]
  BY <1>3 DEF DiskOK, ShapeOK
<1> HIDE DEF e
<1>10. /\ DirsOK(fat, e) /\ NamesOK(e) /\ \A s \in saved : Kept(fat, e, Idle, s)
       /\ Len(ChainIn(fat, t)) = 1 /\ ChainIn(fat, t)[1] = t
  <2>1. \A c \in Clusters : \/ e[c] = data[c]
                            \/ /\ \E i \in 1..Len(op.got) : op.got[i] = c
                               /\ e[c] = Zeroed \/ \E id : e[c] = Holding(id)
    BY <1>5, <1>9
  <2> QED BY <1>1, <1>5, <1>7, <1>9, <2>1, BlankSaved
<1> HIDE DEF t
<1>11. AllEnd(fat, e, t)
  <2> SUFFICES ASSUME NEW p \in Places(fat, t)
               PROVE  Ent(fat, e, t, p) = End
    BY DEF AllEnd
  <2> DEFINE x == SlotAt(ChainIn(fat, t), p)[1]
             i == SlotAt(ChainIn(fat, t), p)[2]
  <2>1. x \in Covers(fat, t) /\ i \in Ordinals
    BY <1>5, PlaceCovered
  <2>2. x = t
    BY <1>10, <2>1 DEF Covers
  <2>3. Slot(e, t, i) = End
    BY <1>5, <1>9, <2>1 DEF Slot, Zeroed, Ordinals
  <2> QED BY <2>2, <2>3 DEF Ent, EntryOf
<1>12. NewDirOK(fat, e, next, screen)
  BY <1>8, <1>11 DEF NewDirOK, DirEntry
<1>13. PhaseOK(fat, e, next, screen) /\ next.at \in SaveSteps
  BY <1>8, <1>12 DEF PhaseOK, TargetOK, SaveSteps
<1> QED BY <1>1, <1>2, <1>10, <1>13, SavedPut

\* photo_write_file_chain writes the whole file before it is entered.
LEMMA WriteDataSaved ==
  ASSUME Fat32Assumption, NEW R, CardOK(fat, data, R, cur, list, screen, op), faults \in Nat,
         StateOK(fat, data, op, saved, list, cur, screen), WriteData
  PROVE  SavedNext
<1> DEFINE t == op.got[1]
           e == [c \in Clusters |-> IF c \in ToSet(op.got) THEN Holding(op.id) ELSE data[c]]
           next == [at |-> "slot", into |-> op.dir,
                    entry |-> FileEntry(op.name, op.got[1], op.size, op.id)]
<1>1. op.at = "write" /\ op.at \in SaveSteps /\ UNCHANGED browser /\ UNCHANGED saved
      /\ op.at \in {"init", "write", "clear"}
  BY DEF WriteData, SaveSteps, ghosts
<1>2. Put(fat, e, next)
  BY DEF WriteData
<1>3. ReadyOK(fat, data, R, op, "write") /\ DiskOK(fat, data, R)
  BY <1>1 DEF CardOK, SavingOK
<1>4. Len(op.got) > 0 /\ op.got \in Seq(Clusters)
  BY <1>3 DEF ReadyOK, GotOK
<1>5. ToSet(op.got) = {op.got[i] : i \in 1..Len(op.got)} /\ \A i \in 1..Len(op.got) : op.got[i] \in Clusters
  BY <1>4 DEF ToSet
<1>6. FileToCome(fat, data, op, screen) /\ Len(op.got) = op.want
  BY <1>1 DEF StateOK, PhaseOK, UseOK
<1>7. /\ next.at = "slot" /\ next.into = op.dir /\ "into" \in DOMAIN next
      /\ next.entry = FileEntry(op.name, t, op.size, op.id)
  OBVIOUS
<1> HIDE DEF next
<1>8. e = [c \in Clusters |-> e[c]]
      /\ \A c \in Clusters : e[c] = IF c \in ToSet(op.got) THEN Holding(op.id) ELSE data[c]
  OBVIOUS
<1> HIDE DEF e
<1>9. /\ AllSame(fat, data, fat, e) /\ DirsOK(fat, e) /\ NamesOK(e)
      /\ \A s \in saved : Kept(fat, e, Idle, s)
      /\ Len(ChainIn(fat, t)) = Len(op.got)
      /\ \A i \in 1..Len(op.got) : ChainIn(fat, t)[i] = op.got[i]
  <2>1. \A c \in Clusters : \/ e[c] = data[c]
                            \/ /\ \E i \in 1..Len(op.got) : op.got[i] = c
                               /\ e[c] = Zeroed \/ \E id : e[c] = Holding(id)
    BY <1>5, <1>8
  <2> QED BY <1>1, <1>8, <2>1, BlankSaved
<1>10. Whole(fat, e, t, op.size, op.id)
  <2>1. \A i \in 1..Len(op.got) : e[op.got[i]].file = op.id
    BY <1>5, <1>8 DEF Holding
  <2> HIDE DEF t
  <2> QED BY <1>6, <1>9, <2>1 DEF Whole, FileToCome
<1> HIDE DEF t
<1>11. HasDir(fat, e, screen, op.dir) /\ NameFree(fat, e, op.dir, op.name) /\ op.name \in Nat
  <2>1. HasDir(fat, data, screen, op.dir) /\ NameFree(fat, data, op.dir, op.name)
    BY <1>6 DEF FileToCome
  <2>2. ChainHead(data, op.dir) /\ op.dir \in Clusters /\ Root \in Clusters /\ ChainHead(data, Root)
    BY <1>3, <2>1, HasDirIsHead, ClusterValues DEF ChainHead
  <2> QED BY <1>6, <1>9, <2>1, <2>2, KeepHasDir, KeepNameFree DEF AllSame, FileToCome
<1>12. NewFileOK(fat, e, next, screen)
  BY <1>7, <1>10, <1>11 DEF NewFileOK, FileEntry
<1>13. PhaseOK(fat, e, next, screen) /\ next.at \in SaveSteps
  BY <1>7, <1>12 DEF PhaseOK, TargetOK, SaveSteps
<1> QED BY <1>1, <1>2, <1>9, <1>13, SavedPut

\* fat_dir_find_slots clears the cluster by which the directory is to grow.
LEMMA ClearClusterSaved ==
  ASSUME Fat32Assumption, NEW R, CardOK(fat, data, R, cur, list, screen, op), faults \in Nat,
         StateOK(fat, data, op, saved, list, cur, screen), ClearCluster
  PROVE  SavedNext
<1> DEFINE t == op.got[1]
           e == [data EXCEPT ![op.got[1]] = Zeroed]
           next == With(op, [at |-> "join", slot |-> <<op.got[1], 1>>])
<1>1. op.at = "clear" /\ op.at \in SaveSteps /\ UNCHANGED browser /\ UNCHANGED saved
      /\ op.at \in {"init", "write", "clear"}
  BY DEF ClearCluster, SaveSteps, ghosts
<1>2. Put(fat, e, next)
  BY DEF ClearCluster
<1>3. ReadyOK(fat, data, R, op, "clear") /\ DiskOK(fat, data, R)
  BY <1>1 DEF CardOK, SavingOK
<1>4. Len(op.got) > 0 /\ op.got \in Seq(Clusters) /\ "got" \in DOMAIN op
  BY <1>3 DEF ReadyOK, GotOK
<1>5. t \in Clusters /\ 1 \in 1..Len(op.got)
  BY <1>4
<1>6. GrowOK(fat, data, op, screen)
  BY <1>1 DEF StateOK, PhaseOK, UseOK
<1>7. "last" \in DOMAIN op /\ PendingOK(fat, data, R, op) /\ t # op.entry.first
  BY <1>3, <1>4 DEF ReadyOK, ForOK
<1>8. next.at = "join" /\ next.got = op.got /\ Carries(op, next)
  BY <1>4 DEF With, Carries, Luggage
<1> HIDE DEF next
<1>9. e = [c \in Clusters |-> e[c]] /\ \A c \in Clusters : e[c] = IF c = t THEN Zeroed ELSE data[c]
  BY <1>3 DEF DiskOK, ShapeOK
<1> HIDE DEF e
<1>10. /\ AllSame(fat, data, fat, e) /\ DirsOK(fat, e) /\ NamesOK(e)
       /\ \A s \in saved : Kept(fat, e, Idle, s)
       /\ Same(fat, data, fat, e, op.entry.first)
  <2>1. \A c \in Clusters : \/ e[c] = data[c]
                            \/ /\ \E i \in 1..Len(op.got) : op.got[i] = c
                               /\ e[c] = Zeroed \/ \E id : e[c] = Holding(id)
    BY <1>5, <1>9
  <2>2. Fresh(fat, data, R, op.entry.first)
    BY <1>7 DEF PendingOK
  <2> QED BY <1>1, <1>7, <1>9, <2>1, <2>2, BlankSaved
<1>11. GrowOK(fat, e, next, screen)
  BY <1>3, <1>6, <1>7, <1>8, <1>10, KeepGrow
<1>12. \A i \in Ordinals : Slot(e, next.got[1], i) = End
  BY <1>5, <1>8, <1>9 DEF Slot, Zeroed, Ordinals
<1>13. PhaseOK(fat, e, next, screen) /\ next.at \in SaveSteps
  BY <1>8, <1>11, <1>12 DEF PhaseOK, SaveSteps
<1> QED BY <1>1, <1>2, <1>10, <1>13, SavedPut

-----------------------------------------------------------------------------
(* Fat32Card. Files that stay: an entry comes into a directory.            *)

\* At h nothing is entered but what was, or new.
NoNew(f, d, g, e, h, new) ==
  \A p \in Places(g, h) : Live(Ent(g, e, h, p)) =>
    \/ p \in Places(f, h) /\ Ent(f, d, h, p) = Ent(g, e, h, p)
    \/ Ent(g, e, h, p) = new
\* Only the directory at c changed of all that is entered.
Only(f, d, g, e, c) ==
  \A x \in Clusters : ChainHead(d, x) /\ x # c => Same(f, d, g, e, x)
\* What was entered in the directory at c is entered at its place still.
StayLive(f, d, g, e, c) ==
  \A p \in Places(f, c) : Live(Ent(f, d, c, p)) => p \in Places(g, c) /\ Ent(g, e, c, p) = Ent(f, d, c, p)
\* No file starts at c.
NoFile(d, c) ==
  \A x \in Clusters, i \in Ordinals : Slot(d, x, i).kind = "file" => Slot(d, x, i).first # c

\* A file stays where another entry, under another name, comes into its
\* directory.
LEMMA FileStays ==
  ASSUME NEW f, NEW d, NEW g, NEW e, NEW h, NEW q \in Places(g, h), NEW s,
         Ent(g, e, h, q) = Ent(f, d, h, q), FileAt(f, d, h, q, s), NEW new,
         NoNew(f, d, g, e, h, new), new.kind = "file" => new.name # Ent(f, d, h, q).name,
         Whole(g, e, Ent(f, d, h, q).first, s.size, s.id)
  PROVE  FileAt(g, e, h, q, s)
<1>1. ASSUME NEW r \in Places(g, h), Ent(g, e, h, r).kind = "file", r # q
      PROVE  Ent(g, e, h, r).name # Ent(g, e, h, q).name
  <2>1. CASE r \in Places(f, h) /\ Ent(f, d, h, r) = Ent(g, e, h, r)
    BY <1>1, <2>1 DEF FileAt
  <2>2. CASE Ent(g, e, h, r) = new
    BY <1>1, <2>2
  <2> QED BY <1>1, <2>1, <2>2 DEF NoNew, Live
<1> QED BY <1>1 DEF FileAt

\* Where an entry is.
LEMMA EntSlot ==
  ASSUME Fat32Assumption, NEW f, NEW d, NEW c \in Clusters, NEW p \in Places(f, c)
  PROVE  \E x \in Clusters, i \in Ordinals :
           /\ Ent(f, d, c, p) = Slot(d, x, i) /\ x \in Covers(f, c)
           /\ x = SlotAt(ChainIn(f, c), p)[1] /\ i = SlotAt(ChainIn(f, c), p)[2]
BY PlaceCovered DEF Ent, EntryOf

\* No file starts where a directory does.
LEMMA DirNotFile ==
  ASSUME Fat32Assumption, NEW f, NEW d, NEW R, DiskOK(f, d, R), NEW w, NEW h, HasDir(f, d, w, h)
  PROVE  NoFile(d, h)
<1>1. PICK p \in Places(f, Root) : IsDir(Ent(f, d, Root, p), w, h)
  BY DEF HasDir
<1>2. PICK x \in Clusters, i \in Ordinals : IsDir(Slot(d, x, i), w, h)
  BY <1>1, EntSlot, ClusterValues
<1>3. Live(Slot(d, x, i)) /\ Slot(d, x, i).first = h /\ Slot(d, x, i).kind = "dir"
  BY <1>2 DEF Live, IsDir
<1>4. ASSUME NEW y \in Clusters, NEW j \in Ordinals, Slot(d, y, j).kind = "file",
             Slot(d, y, j).first = h
      PROVE  FALSE
  <2>1. Live(Slot(d, y, j))
    BY <1>4 DEF Live
  <2>2. x = y /\ i = j
    BY <1>3, <1>4, <2>1, OneEntry
  <2> QED BY <1>3, <1>4, <2>2
<1> QED BY <1>4 DEF NoFile

\* The directory of an app stays where only entries are added.
LEMMA HasDirBy ==
  ASSUME Fat32Assumption, NEW f, NEW d, NEW g, NEW e, NEW c, Only(f, d, g, e, c),
         StayLive(f, d, g, e, c), NEW w, NEW h, HasDir(f, d, w, h)
  PROVE  HasDir(g, e, w, h)
<1>1. CASE c = Root
  <2>1. PICK p \in Places(f, Root) : IsDir(Ent(f, d, Root, p), w, h)
    BY DEF HasDir
  <2>2. Live(Ent(f, d, Root, p))
    BY <2>1 DEF Live, IsDir
  <2> QED BY <1>1, <2>1, <2>2 DEF HasDir, StayLive
<1>2. CASE c # Root
  <2>1. Same(f, d, g, e, Root)
    BY <1>2, ClusterValues DEF Only, ChainHead
  <2> QED BY <2>1, KeepHasDir
<1> QED BY <1>1, <1>2

\* A file kept stays kept when something is entered in a directory, or room
\* is made there.
LEMMA KeptBy ==
  ASSUME Fat32Assumption, NEW f, NEW d, NEW R, DiskOK(f, d, R), NEW g, NEW e, NEW c,
         Only(f, d, g, e, c), StayLive(f, d, g, e, c), NoFile(d, c),
         NEW new, NoNew(f, d, g, e, c, new), new.kind = "file" => NameFree(f, d, c, new.name),
         NEW o, NEW s, Kept(f, d, o, s)
  PROVE  Kept(g, e, Idle, s)
<1>1. PICK h \in Clusters : /\ HasDir(f, d, s.dir, h)
        /\ \E q \in Places(f, h) : FileAt(f, d, h, q, s) /\ Spared(o, h, Ent(f, d, h, q).first)
  BY DEF Kept
<1>2. PICK q \in Places(f, h) : FileAt(f, d, h, q, s)
  BY <1>1
<1>3. HasDir(g, e, s.dir, h)
  BY <1>1, HasDirBy
<1> DEFINE first == Ent(f, d, h, q).first
<1>4. Ent(f, d, h, q).kind = "file" /\ Whole(f, d, first, s.size, s.id)
  BY <1>2 DEF FileAt
<1>5. ChainHead(d, first) /\ first \in Clusters /\ first # c
  <2>1. PICK x \in Clusters, i \in Ordinals : Ent(f, d, h, q) = Slot(d, x, i)
    BY EntSlot
  <2>2. first # c
    BY <1>4, <2>1 DEF NoFile
  <2> QED BY <1>4, <2>2, EntFacts DEF Live
<1>6. Same(f, d, g, e, first)
  BY <1>5 DEF Only
<1>7. \E r \in Places(g, h) : FileAt(g, e, h, r, s)
  <2>1. CASE h = c
    <3>1. q \in Places(g, h) /\ Ent(g, e, h, q) = Ent(f, d, h, q)
      BY <1>4, <2>1 DEF StayLive, Live
    <3>2. new.kind = "file" => new.name # Ent(f, d, h, q).name
      BY <1>4, <2>1 DEF NameFree
    <3> HIDE DEF first
    <3>3. Whole(g, e, first, s.size, s.id)
      BY <1>4, <1>5, <1>6, KeepWhole
    <3>4. Whole(g, e, Ent(f, d, h, q).first, s.size, s.id)
      BY <3>3 DEF first
    <3> QED BY <1>2, <2>1, <3>1, <3>2, <3>4, FileStays
  <2>2. CASE h # c
    <3>1. ChainHead(d, h)
      BY <1>1, HasDirIsHead
    <3>2. Same(f, d, g, e, h)
      BY <2>2, <3>1 DEF Only
    <3> QED BY <1>2, <1>5, <1>6, <3>2, KeepFile
  <2> QED BY <2>1, <2>2
<1> QED BY <1>3, <1>7, NoneDoomed DEF Kept

\* Directories without gaps stay so where one directory changes.
LEMMA DirsBy ==
  ASSUME Fat32Assumption, NEW f, NEW d, NEW R, DiskOK(f, d, R), NEW g, NEW e, NEW c,
         Only(f, d, g, e, c), NEW new, NoNew(f, d, g, e, c, new), DirsOK(f, d),
         NoGaps(g, e, c), new.kind = "dir" => NoGaps(g, e, new.first)
  PROVE  DirsOK(g, e)
<1>1. Root \in Clusters
  BY ClusterValues
<1>2. NoGaps(g, e, Root)
  <2>1. CASE c = Root
    BY <2>1
  <2>2. CASE c # Root
    BY <1>1, <2>2, KeepNoGaps DEF Only, ChainHead, DirsOK
  <2> QED BY <2>1, <2>2
<1>3. ASSUME NEW p \in Places(g, Root), Ent(g, e, Root, p).kind = "dir"
      PROVE  NoGaps(g, e, Ent(g, e, Root, p).first)
  <2>1. CASE p \in Places(f, Root) /\ Ent(f, d, Root, p) = Ent(g, e, Root, p)
    <3> DEFINE h == Ent(f, d, Root, p).first
    <3>1. ChainHead(d, h) /\ h \in Clusters
      BY <1>1, <1>3, <2>1, EntFacts DEF Live
    <3>2. NoGaps(f, d, h)
      BY <1>3, <2>1 DEF DirsOK
    <3> HIDE DEF h
    <3>3. NoGaps(g, e, h)
      <4>1. CASE h = c
        BY <4>1
      <4>2. CASE h # c
        BY <3>1, <3>2, <4>2, KeepNoGaps DEF Only
      <4> QED BY <4>1, <4>2
    <3> QED BY <2>1, <3>3 DEF h
  <2>2. CASE c = Root /\ Ent(g, e, Root, p) = new
    BY <1>3, <2>2
  <2>3. CASE c # Root
    <3>1. Same(f, d, g, e, Root)
      BY <1>1, <2>3 DEF Only, ChainHead
    <3>2. p \in Places(f, Root) /\ Ent(f, d, Root, p) = Ent(g, e, Root, p)
      BY <1>1, <3>1, SameView
    <3> QED BY <2>1, <3>2
  <2> QED BY <1>3, <2>1, <2>2, <2>3 DEF NoNew, Live
<1> QED BY <1>2, <1>3 DEF DirsOK

\* The positions of a chain that grows by a cluster.
LEMMA GrownPlaces ==
  ASSUME Fat32Assumption, NEW s, Len(s) \in Nat \ {0}, NEW t, Len(t) = Len(s) + 1,
         \A i \in 1..Len(s) : t[i] = s[i]
  PROVE  /\ Positions(s) \subseteq Positions(t)
         /\ \A p \in Positions(s) : SlotAt(t, p) = SlotAt(s, p)
         /\ \A p \in Positions(t) \ Positions(s) :
              SlotAt(t, p)[1] = t[Len(s) + 1] /\ SlotAt(t, p)[2] \in Ordinals
         /\ \A p \in Positions(s), q \in Positions(t) \ Positions(s) : p < q
         /\ \E p \in Positions(t) \ Positions(s) :
              /\ SlotAt(t, p) = <<t[Len(s) + 1], 1>>
              /\ \A q \in Positions(t) : q < p => q \in Positions(s)
<1> DEFINE n == Len(s)
           S == SlotsPerCluster
<1>1. S \in Nat \ {0} /\ n \in Nat \ {0} /\ n * S \in Nat /\ (n + 1) * S = n * S + S
  BY DEF Fat32Assumption
<1>2. Positions(s) = 1..(n * S) /\ Positions(t) = 1..(n * S + S)
  BY <1>1 DEF Positions
<1> DEFINE m == n * S
<1>3. m \in Nat /\ Positions(s) = 1..m /\ Positions(t) = 1..(m + S)
  BY <1>1, <1>2
<1>4. ASSUME NEW p \in Positions(s)
      PROVE  p \in Positions(t) /\ SlotAt(t, p) = SlotAt(s, p)
  <2>1. IndexOf(p) \in 1..n
    BY <1>4, PlaceOf
  <2>2. p \in Positions(t)
    <3> HIDE DEF m, S
    <3> QED BY <1>1, <1>3
  <2> QED BY <2>1, <2>2 DEF SlotAt, IndexOf
<1>5. ASSUME NEW p \in Positions(t) \ Positions(s)
      PROVE  IndexOf(p) = n + 1 /\ OrdinalOf(p) \in Ordinals /\ p > m
             /\ p = S * n + OrdinalOf(p) /\ p \in Nat
  <2>1. /\ p \in Nat /\ IndexOf(p) \in 1..(n + 1) /\ OrdinalOf(p) \in Ordinals
        /\ p = S * (IndexOf(p) - 1) + OrdinalOf(p)
    BY <1>1, <1>5, PlaceOf
  <2>2. p > m
    <3> HIDE DEF m, S
    <3> QED BY <1>1, <1>3, <1>5
  <2>3. ~(IndexOf(p) <= n)
    <3> SUFFICES ASSUME IndexOf(p) <= n
                 PROVE  FALSE
      OBVIOUS
    <3> DEFINE k == IndexOf(p)
    <3>1. k \in Nat \ {0} /\ n \in Nat /\ k <= n
      BY <1>1, <2>1
    <3> HIDE DEF k, n
    <3>2. PICK j \in Nat : n = k + j
      <4>1. n - k \in Nat /\ n = k + (n - k)
        BY <3>1
      <4> QED BY <4>1
    <3>3. (k + j) * S = S * (k - 1) + S + S * j /\ S * j \in Nat
      BY <1>1, <3>1, <3>2
    <3>4. OrdinalOf(p) \in Nat /\ OrdinalOf(p) <= S
      BY <1>1, <2>1 DEF Ordinals
    <3>5. p = S * (k - 1) + OrdinalOf(p) /\ p > n * S
      BY <2>1, <2>2 DEF k
    <3>6. S * (k - 1) \in Nat
      BY <1>1, <3>1
    <3> QED BY <1>1, <3>2, <3>3, <3>4, <3>5, <3>6
  <2>4. IndexOf(p) = n + 1
    BY <1>1, <2>1, <2>3
  <2>5. IndexOf(p) - 1 = n
    BY <1>1, <2>4
  <2> QED BY <2>1, <2>2, <2>4, <2>5
<1>6. \A p \in Positions(t) \ Positions(s) :
        SlotAt(t, p)[1] = t[Len(s) + 1] /\ SlotAt(t, p)[2] \in Ordinals
  BY <1>5 DEF SlotAt, IndexOf, OrdinalOf
<1>7. \A p \in Positions(s), q \in Positions(t) \ Positions(s) : p < q
  <2> HIDE DEF m, S
  <2> QED BY <1>3, <1>5
<1>8. \E p \in Positions(t) \ Positions(s) :
        /\ SlotAt(t, p) = <<t[Len(s) + 1], 1>>
        /\ \A q \in Positions(t) : q < p => q \in Positions(s)
  <2> DEFINE p == m + 1
  <2>1. p \in Positions(t) \ Positions(s) /\ \A q \in Positions(t) : q < p => q \in Positions(s)
    <3> HIDE DEF m, S
    <3> QED BY <1>1, <1>3
  <2>2. IndexOf(p) = n + 1 /\ p = S * n + OrdinalOf(p) /\ OrdinalOf(p) \in Ordinals
    BY <1>5, <2>1
  <2>3. S * n = m
    BY <1>1
  <2>4. OrdinalOf(p) = 1
    <3>1. OrdinalOf(p) \in Nat
      BY <1>1, <2>2 DEF Ordinals
    <3>2. p = m + OrdinalOf(p) /\ p = m + 1
      BY <2>2, <2>3
    <3> HIDE DEF p, m
    <3> QED BY <1>3, <3>1, <3>2
  <2>5. SlotAt(t, p) = <<t[IndexOf(p)], OrdinalOf(p)>>
    BY DEF SlotAt, IndexOf, OrdinalOf
  <2> HIDE DEF p
  <2> QED BY <2>1, <2>2, <2>4, <2>5
<1> QED BY <1>4, <1>6, <1>7, <1>8

\* The chain to the end of which a cluster is joined.
LEMMA JoinedChain ==
  ASSUME Fat32Assumption, NEW f, LinksOK(f), NEW c \in Clusters, NoLinkTo(f, c), f[c] # Free,
         NEW x \in Clusters, NoLinkTo(f, x), x # c, f[x] = EOC,
         NEW g, LinksOK(g),
         \A z \in Clusters : g[z] = IF z = Last(ChainIn(f, c)) THEN x ELSE f[z]
  PROVE  /\ Len(ChainIn(g, c)) = Len(ChainIn(f, c)) + 1
         /\ \A i \in 1..Len(ChainIn(f, c)) : ChainIn(g, c)[i] = ChainIn(f, c)[i]
         /\ ChainIn(g, c)[Len(ChainIn(f, c)) + 1] = x
         /\ Last(ChainIn(f, c)) \in Covers(f, c)
<1> DEFINE s == ChainIn(f, c)
           n == Len(s)
           t == Append(s, x)
<1>1. /\ IsChain(f, c, s) /\ s \in Seq(Clusters) /\ n \in Nat \ {0} /\ DOMAIN s = 1..n
      /\ Covers(f, c) = {s[i] : i \in 1..n}
      /\ \A z \in Covers(f, c) : z # c => \E y \in Clusters : f[y] = z
  BY CoverFacts DEF Covers
<1>2. IsInjective(s) /\ f[Last(s)] = EOC
  BY <1>1, ChainIsWhole
<1> HIDE DEF s
<1>3. s[1] = c /\ (\A i \in 1..n : s[i] \in Clusters)
      /\ \A i \in 1..n : i # 1 => i - 1 \in 1..n /\ f[s[i - 1]] = s[i]
  BY <1>1, ChainElements
<1>4. \A i \in 1..n : s[i] # x
  BY <1>1 DEF NoLinkTo
<1>5. n \in 1..n /\ 1 \in 1..n /\ Last(s) = s[n]
  BY <1>1 DEF Last
<1>6. t \in Seq(Clusters) /\ Len(t) = n + 1 /\ t[n + 1] = x /\ \A i \in 1..n : t[i] = s[i]
  BY <1>1
<1> HIDE DEF t, n
<1>7. \A i \in 1..n : i # n => i + 1 \in 1..n /\ (i + 1) - 1 = i /\ i + 1 # 1
  BY <1>1
<1>8. \A i \in 1..n : i # n => g[s[i]] = s[i + 1]
  <2> TAKE i \in 1..n
  <2> HAVE i # n
  <2>1. s[i] # s[n]
    BY <1>1, <1>2, <1>5 DEF IsInjective
  <2>2. f[s[(i + 1) - 1]] = s[i + 1]
    BY <1>3, <1>7
  <2> QED BY <1>3, <1>5, <1>7, <2>1, <2>2 DEF s
<1>9. g[s[n]] = x /\ g[x] = EOC
  <2>1. s[n] \in Clusters /\ x # s[n]
    BY <1>3, <1>4, <1>5
  <2> QED BY <1>5, <2>1 DEF s
<1>10. Linked(g, t, n + 1)
  <2>1. ASSUME NEW i \in 1..(n + 1), i # n + 1
        PROVE  g[t[i]] = t[i + 1]
    <3>1. i \in 1..n
      BY <1>1, <2>1
    <3>2. CASE i = n
      BY <1>6, <1>9, <3>1, <3>2
    <3>3. CASE i # n
      BY <1>6, <1>7, <1>8, <3>1, <3>3
    <3> QED BY <3>2, <3>3
  <2>2. g[t[n + 1]] = EOC
    BY <1>6, <1>9
  <2> QED BY <2>1, <2>2 DEF Linked
<1>11. NoLinkTo(g, t[1]) /\ t[1] = c
  BY <1>3, <1>5, <1>6 DEF NoLinkTo
<1>12. n + 1 \in 1..Len(t)
  BY <1>1, <1>6
<1>13. Len(ChainIn(g, c)) = n + 1 /\ \A i \in 1..(n + 1) : ChainIn(g, c)[i] = t[i]
  BY <1>6, <1>10, <1>11, <1>12, LinkedChain
<1>14. (\A i \in 1..n : i \in 1..(n + 1)) /\ n + 1 \in 1..(n + 1)
  BY <1>1
<1>15. Last(s) \in Covers(f, c)
  BY <1>1, <1>5
<1> QED BY <1>6, <1>13, <1>14, <1>15 DEF s, n

\* No file starts where a save is to enter something.
LEMMA TargetNotFile ==
  ASSUME Fat32Assumption, NEW f, NEW d, NEW R, DiskOK(f, d, R), NEW o, NEW where,
         TargetOK(f, d, o, where)
  PROVE  NoFile(d, o.into)
<1>1. CASE NewDirOK(f, d, o, where)
  <2>1. o.into \in R
    BY <1>1 DEF NewDirOK, DiskOK, RegionOK
  <2>2. \A x \in Clusters, i \in Ordinals : Slot(d, x, i).kind = "file" => Slot(d, x, i).first \notin R
    BY DEF DiskOK, RegionOK, Live
  <2> QED BY <2>1, <2>2 DEF NoFile
<1>2. CASE NewFileOK(f, d, o, where)
  BY <1>2, DirNotFile DEF NewFileOK
<1> QED BY <1>1, <1>2 DEF TargetOK

\* A fresh cluster is neither a directory nor the start of a file.
LEMMA FreshNotHead ==
  ASSUME NEW f, NEW d, NEW R, DiskOK(f, d, R), NEW c, Fresh(f, d, R, c)
  PROVE  ~ChainHead(d, c) /\ c \in Clusters /\ NoLinkTo(f, c) /\ f[c] # Free
BY DEF Fresh, ChainHead, DiskOK, RegionOK

\* A chain with a cluster x more.
Longer(s, t, x) ==
  Len(t) = Len(s) + 1 /\ (\A i \in 1..Len(s) : t[i] = s[i]) /\ t[Len(s) + 1] = x
\* No slot of that cluster was used.
Unused(d, x) == \A i \in Ordinals : Slot(d, x, i) = End

\* The directory at c has grown by the cluster x.
GrownBy(f, g, d, c, x) ==
  /\ Places(f, c) \subseteq Places(g, c)
  /\ \A p \in Places(f, c) : Ent(g, d, c, p) = Ent(f, d, c, p)
  /\ \A p \in Places(g, c) \ Places(f, c) : Ent(g, d, c, p) = End
  /\ \A p \in Places(f, c) : \A q \in Places(g, c) \ Places(f, c) : p < q
  /\ \E p \in Places(g, c) \ Places(f, c) :
       /\ SlotAt(ChainIn(g, c), p) = <<x, 1>>
       /\ \A q \in Places(g, c) : q < p => q \in Places(f, c)

\* The entries of the chain after a cluster of unused slots was joined to it.
LEMMA GrownEntries ==
  ASSUME Fat32Assumption, NEW f, NEW g, NEW d, NEW c \in Clusters, NEW x \in Clusters,
         Longer(ChainIn(f, c), ChainIn(g, c), x), Unused(d, x)
  PROVE  GrownBy(f, g, d, c, x)
<1> DEFINE s == ChainIn(f, c)
           t == ChainIn(g, c)
<1>1. Len(s) \in Nat \ {0}
  BY CoverFacts
<1>2. Len(t) = Len(s) + 1 /\ (\A i \in 1..Len(s) : t[i] = s[i]) /\ t[Len(s) + 1] = x
  BY DEF Longer
<1> HIDE DEF s, t
<1>3. /\ Positions(s) \subseteq Positions(t)
      /\ \A p \in Positions(s) : SlotAt(t, p) = SlotAt(s, p)
      /\ \A p \in Positions(t) \ Positions(s) : SlotAt(t, p)[1] = x /\ SlotAt(t, p)[2] \in Ordinals
      /\ \A p \in Positions(s), q \in Positions(t) \ Positions(s) : p < q
      /\ \E p \in Positions(t) \ Positions(s) :
              /\ SlotAt(t, p) = <<x, 1>>
              /\ \A q \in Positions(t) : q < p => q \in Positions(s)
  BY <1>1, <1>2, GrownPlaces
<1>4. Places(f, c) = Positions(s) /\ Places(g, c) = Positions(t)
  BY DEF Places, s, t
<1>5. \A p : Ent(f, d, c, p) = EntryOf(d, s, p) /\ Ent(g, d, c, p) = EntryOf(d, t, p)
  BY DEF Ent, s, t
<1>6. \A p \in Places(f, c) : Ent(g, d, c, p) = Ent(f, d, c, p)
  BY <1>3, <1>4, <1>5 DEF EntryOf
<1>7. \A p \in Places(g, c) \ Places(f, c) : Ent(g, d, c, p) = End
  BY <1>3, <1>4, <1>5 DEF EntryOf, Unused
<1> QED BY <1>3, <1>4, <1>6, <1>7 DEF t, GrownBy

\* fat_dir_find_slots joins the cluster: the directory has room, and all that
\* was in it.
LEMMA JoinClusterSaved ==
  ASSUME Fat32Assumption, NEW R, CardOK(fat, data, R, cur, list, screen, op), faults \in Nat,
         StateOK(fat, data, op, saved, list, cur, screen), JoinCluster
  PROVE  SavedNext
<1> DEFINE x == op.got[1]
           c == op.into
           g == [fat EXCEPT ![op.last] = op.got[1]]
           next == With(op, [at |-> "enter"])
<1>1. op.at = "join" /\ op.at \in SaveSteps /\ UNCHANGED browser /\ UNCHANGED saved
  BY DEF JoinCluster, SaveSteps, ghosts
<1>2. Put(g, data, next)
  BY DEF JoinCluster
<1>3. JoinOK(fat, data, R, op) /\ DiskOK(fat, data, R) /\ LinksOK(fat)
  BY <1>1 DEF CardOK, SavingOK, DiskOK
<1>4. /\ Fresh(fat, data, R, x) /\ op.last \in Clusters /\ fat[x] = EOC
      /\ PendingOK(fat, data, R, op) /\ x # op.entry.first /\ op.slot = <<x, 1>> /\ "slot" \in DOMAIN op
  BY <1>3 DEF JoinOK, ReadyOK, GotOK, ForOK
<1>5. GrowOK(fat, data, op, screen) /\ \A i \in Ordinals : Slot(data, x, i) = End
  BY <1>1 DEF StateOK, PhaseOK
<1>6. TargetOK(fat, data, op, screen) /\ "into" \in DOMAIN op /\ op.last = Last(ChainIn(fat, c))
      /\ \A p \in Places(fat, c) : Live(Ent(fat, data, c, p))
  BY <1>5 DEF GrowOK, TargetOK
<1>7. ChainHead(data, c) /\ c \in Clusters /\ NoLinkTo(fat, c) /\ fat[c] # Free
  BY <1>3, <1>6, TargetIsDir, HeadFacts
<1>8. ~ChainHead(data, x) /\ x \in Clusters /\ NoLinkTo(fat, x) /\ x # c
  BY <1>3, <1>4, <1>7, FreshNotHead
<1>9. /\ next.at = "enter" /\ next.slot = <<x, 1>> /\ next.into = c /\ next.entry = op.entry
      /\ Carries(op, next)
  BY <1>4, <1>6 DEF With, PendingOK, Carries, Luggage
<1> HIDE DEF next
<1>10. LinksOK(g)
  <2>1. op.last \in R => fat[x] = EOC
    BY <1>4
  <2> QED BY <1>3, <1>4, <2>1, LinkDisk DEF DiskOK
<1>11. \A z \in Clusters : g[z] = IF z = op.last THEN x ELSE fat[z]
  BY <1>3 DEF LinksOK
<1> HIDE DEF g
<1>12. /\ Len(ChainIn(g, c)) = Len(ChainIn(fat, c)) + 1
       /\ \A i \in 1..Len(ChainIn(fat, c)) : ChainIn(g, c)[i] = ChainIn(fat, c)[i]
       /\ ChainIn(g, c)[Len(ChainIn(fat, c)) + 1] = x
       /\ op.last \in Covers(fat, c)
  <2> HIDE DEF c, x
  <2> QED BY <1>3, <1>4, <1>6, <1>7, <1>8, <1>10, <1>11, JoinedChain
<1> HIDE DEF x
<1> HIDE DEF c
<1>13. /\ Places(fat, c) \subseteq Places(g, c)
       /\ \A p \in Places(fat, c) : Ent(g, data, c, p) = Ent(fat, data, c, p)
       /\ \A p \in Places(g, c) \ Places(fat, c) : Ent(g, data, c, p) = End
       /\ \A p \in Places(fat, c) : \A q \in Places(g, c) \ Places(fat, c) : p < q
       /\ \E p \in Places(g, c) \ Places(fat, c) :
              /\ SlotAt(ChainIn(g, c), p) = <<x, 1>>
              /\ \A q \in Places(g, c) : q < p => q \in Places(fat, c)
  <2>1. Unused(data, x) /\ Longer(ChainIn(fat, c), ChainIn(g, c), x)
    BY <1>5, <1>12 DEF x, Unused, Longer
  <2>2. GrownBy(fat, g, data, c, x)
    BY <1>7, <1>8, <2>1, GrownEntries
  <2> QED BY <2>2 DEF GrownBy
<1>14. \A z \in Clusters : g[z] # fat[z] \/ data[z] # data[z] => z \in Covers(fat, c) \/ fat[z] = Free
  BY <1>11, <1>12
<1>15. Only(fat, data, g, data, c)
  BY <1>3, <1>7, <1>14, TouchApart, HeadFacts DEF Only
<1>16. Same(fat, data, g, data, op.entry.first)
  <2>1. Fresh(fat, data, R, op.entry.first)
    BY <1>4 DEF PendingOK
  <2>2. op.entry.first # c
    BY <1>3, <1>7, <2>1, FreshNotHead
  <2> QED BY <1>3, <1>7, <1>14, <2>1, <2>2, TouchApart, FreshNotHead
<1>17. StayLive(fat, data, g, data, c) /\ NoNew(fat, data, g, data, c, End)
  BY <1>13 DEF StayLive, NoNew
<1>18. NoGaps(g, data, c)
  <2> SUFFICES ASSUME NEW p \in Places(g, c), NEW q \in Places(g, c), p < q,
                      Ent(g, data, c, p) = End
               PROVE  Ent(g, data, c, q) = End
    BY DEF NoGaps
  <2>1. p \notin Places(fat, c)
    <3>1. ~Live(End)
      BY DEF Live, End
    <3> QED BY <1>6, <1>13, <3>1 DEF c
  <2>2. q \notin Places(fat, c)
    <3> SUFFICES ASSUME q \in Places(fat, c)
                 PROVE  FALSE
      OBVIOUS
    <3>1. q < p
      BY <1>13, <2>1
    <3>2. p \in Nat /\ q \in Nat
      BY <1>7, PlaceCovered
    <3> QED BY <3>1, <3>2
  <2> QED BY <1>13, <2>2
<1>19. DirsOK(g, data)
  BY <1>3, <1>15, <1>17, <1>18, DirsBy DEF StateOK, End
<1>20. \A s \in saved : Kept(g, data, Idle, s)
  <2>1. NoFile(data, c)
    BY <1>3, <1>6, TargetNotFile DEF c
  <2>2. \A s \in saved : Kept(fat, data, op, s)
    BY DEF StateOK
  <2> QED BY <1>3, <1>15, <1>17, <2>1, <2>2, KeptBy DEF End
<1>21. TargetOK(g, data, next, screen)
  <2>1. "into" \in DOMAIN next
    BY <1>6, <1>9 DEF Carries, Luggage
  <2>2. CASE NewDirOK(fat, data, op, screen)
    <3>1. AllEnd(g, data, op.entry.first)
      <4>1. op.entry.first \in Clusters
        BY <1>4 DEF PendingOK, Fresh
      <4> QED BY <1>16, <2>2, <4>1, SameView DEF NewDirOK, AllEnd
    <3>2. {"id", "size"} \subseteq DOMAIN next
      BY <1>9, <2>2 DEF NewDirOK, Carries, Luggage
    <3> QED BY <1>9, <2>1, <2>2, <3>1, <3>2 DEF TargetOK, NewDirOK, c
  <2>3. CASE NewFileOK(fat, data, op, screen)
    <3>1. HasDir(g, data, screen, c)
      BY <1>15, <1>17, <2>3, HasDirBy DEF NewFileOK, c
    <3>2. NameFree(g, data, c, op.entry.name)
      <4>1. NameFree(fat, data, c, op.entry.name)
        BY <2>3 DEF NewFileOK, c
      <4> QED BY <1>13, <4>1 DEF NameFree, End
    <3>3. Whole(g, data, op.entry.first, op.entry.size, op.entry.id)
      <4>1. op.entry.first \in Clusters
        BY <1>4 DEF PendingOK, Fresh
      <4> QED BY <1>16, <2>3, <4>1, KeepWhole DEF NewFileOK
    <3> QED BY <1>9, <2>1, <2>3, <3>1, <3>2, <3>3 DEF TargetOK, NewFileOK
  <2> QED BY <1>6, <2>2, <2>3 DEF TargetOK
<1>22. PhaseOK(g, data, next, screen) /\ next.at \in SaveSteps
  <2>1. PICK p \in Places(g, c) \ Places(fat, c) :
              /\ SlotAt(ChainIn(g, c), p) = <<x, 1>>
              /\ \A q \in Places(g, c) : q < p => q \in Places(fat, c)
    BY <1>13
  <2>2. ~Live(Ent(g, data, c, p))
    BY <1>13, <2>1 DEF Live, End
  <2>3. \A q \in Places(g, c) : q < p => Ent(g, data, c, q) # End
    <3>1. ~Live(End)
      BY DEF Live, End
    <3> QED BY <1>6, <1>13, <2>1, <3>1 DEF c
  <2>4. p \in Places(g, next.into) /\ next.slot = SlotAt(ChainIn(g, next.into), p)
        /\ ~Live(Ent(g, data, next.into, p))
        /\ \A q \in Places(g, next.into) : q < p => Ent(g, data, next.into, q) # End
    BY <1>9, <2>1, <2>2, <2>3
  <2> QED BY <1>9, <1>21, <2>4 DEF PhaseOK, SaveSteps
<1> QED BY <1>1, <1>2, <1>19, <1>20, <1>22, SavedPut DEF StateOK

\* A slot of a directory is written: the other slots, the other chains and
\* the contents of files stay.
EnteredAt(f, d, e, c, p0, new) ==
  /\ \A p \in Places(f, c) : Ent(f, e, c, p) = IF p = p0 THEN new ELSE Ent(f, d, c, p)
  /\ \A y \in Clusters : NoLinkTo(f, y) /\ f[y] # Free /\ y # c => Same(f, d, f, e, y)

\* fat_dir_write_slots writes one slot.
LEMMA SlotEntered ==
  ASSUME Fat32Assumption, NEW f, NEW d, NEW R, DiskOK(f, d, R),
         NEW c \in Clusters, NoLinkTo(f, c), f[c] # Free,
         NEW p0 \in Places(f, c), NEW new, Live(new), NEW s, s = SlotAt(ChainIn(f, c), p0),
         NEW e, e = WriteSlot(d, s[1], s[2], new)
  PROVE  EnteredAt(f, d, e, c, p0, new)
<1> DEFINE x == s[1]
           i == s[2]
<1>1. x \in Clusters /\ i \in Ordinals /\ x \in Covers(f, c)
  BY PlaceCovered
<1>2. s = <<x, i>>
  BY DEF SlotAt
<1>3. ShapeOK(d) /\ LinksOK(f)
  BY DEF DiskOK
<1> HIDE DEF x, i
<1>4. e = WriteSlot(d, x, i, new)
  BY DEF x, i
<1>5. \A z \in Clusters, j \in Ordinals :
        Slot(e, z, j) = IF z = x /\ j = i THEN new ELSE Slot(d, z, j)
  BY <1>1, <1>3, <1>4, SlotWrite
<1>6. \A z \in Clusters : z # x => e[z] = d[z]
  BY <1>3, <1>4 DEF WriteSlot, ShapeOK
<1>7. \A z \in Clusters : f[z] # f[z] \/ e[z] # d[z] => z \in Covers(f, c) \/ f[z] = Free
  BY <1>1, <1>6
<1>8. \A y \in Clusters : NoLinkTo(f, y) /\ f[y] # Free /\ y # c => Same(f, d, f, e, y)
  BY <1>3, <1>7, TouchApart
<1>9. ASSUME NEW p \in Places(f, c)
      PROVE  Ent(f, e, c, p) = IF p = p0 THEN new ELSE Ent(f, d, c, p)
  <2> DEFINE t == ChainIn(f, c)
  <2>1. IsInjective(t) /\ Len(t) \in Nat /\ DOMAIN t = 1..Len(t)
    BY <1>3, CoverFacts, ChainIsWhole
  <2>2. p \in Positions(t) /\ p0 \in Positions(t) /\ s = SlotAt(t, p0)
    BY DEF Places
  <2>3. SlotAt(t, p)[1] \in Clusters /\ SlotAt(t, p)[2] \in Ordinals
        /\ SlotAt(t, p) = <<SlotAt(t, p)[1], SlotAt(t, p)[2]>>
    BY PlaceCovered DEF SlotAt
  <2>4. Ent(f, e, c, p) = Slot(e, SlotAt(t, p)[1], SlotAt(t, p)[2])
        /\ Ent(f, d, c, p) = Slot(d, SlotAt(t, p)[1], SlotAt(t, p)[2])
    BY DEF Ent, EntryOf
  <2> HIDE DEF t
  <2>5. CASE p = p0
    <3>1. SlotAt(t, p)[1] = x /\ SlotAt(t, p)[2] = i
      BY <1>2, <2>2, <2>5
    <3> QED BY <1>1, <1>5, <2>4, <2>5, <3>1
  <2>6. CASE p # p0
    <3>1. SlotAt(t, p) # s
      BY <2>1, <2>2, <2>6, PlacesDiffer
    <3>2. ~(SlotAt(t, p)[1] = x /\ SlotAt(t, p)[2] = i)
      BY <1>2, <2>3, <3>1
    <3> QED BY <1>5, <2>3, <2>4, <2>6, <3>2
  <2> QED BY <2>5, <2>6
<1> QED BY <1>8, <1>9 DEF EnteredAt

\* The target of a save has no gaps.
LEMMA TargetNoGaps ==
  ASSUME Fat32Assumption, NEW f, NEW d, NEW o, NEW where, DirsOK(f, d), TargetOK(f, d, o, where)
  PROVE  NoGaps(f, d, o.into)
<1>1. CASE NewDirOK(f, d, o, where)
  BY <1>1 DEF NewDirOK, DirsOK
<1>2. CASE NewFileOK(f, d, o, where)
  <2>1. PICK p \in Places(f, Root) : IsDir(Ent(f, d, Root, p), where, o.into)
    BY <1>2 DEF NewFileOK, HasDir
  <2> QED BY <2>1 DEF DirsOK, IsDir
<1> QED BY <1>1, <1>2 DEF TargetOK

\* What Enter leaves when the slot is written.
LEMMA EnterWritten ==
  ASSUME Fat32Assumption, NEW R, CardOK(fat, data, R, cur, list, screen, op), op.at = "enter",
         StateOK(fat, data, op, saved, list, cur, screen),
         NEW e, e = WriteSlot(data, op.slot[1], op.slot[2], op.entry)
  PROVE  /\ DirsOK(fat, e) /\ NamesOK(e) /\ \A s \in saved : Kept(fat, e, Idle, s)
         /\ op.entry.kind = "file" =>
              Kept(fat, e, Idle, [id |-> op.entry.id, dir |-> screen, size |-> op.entry.size])
         /\ op.entry.kind # "file" =>
              "id" \in DOMAIN op /\ "size" \in DOMAIN op /\ HasDir(fat, e, screen, op.entry.first)
<1> DEFINE c == op.into
           new == op.entry
           first == op.entry.first
<1>1. EnterOK(fat, data, R, op) /\ DiskOK(fat, data, R) /\ LinksOK(fat) /\ ShapeOK(data)
  BY DEF CardOK, SavingOK, DiskOK
<1>2. Live(new) /\ Fresh(fat, data, R, first) /\ op.slot[1] \in Clusters /\ op.slot[2] \in Ordinals
  BY <1>1 DEF EnterOK, PendingOK
<1>3. TargetOK(fat, data, op, screen) /\ DirsOK(fat, data) /\ NamesOK(data)
      /\ \A s \in saved : Kept(fat, data, op, s)
  BY DEF StateOK, PhaseOK
<1>4. PICK p0 \in Places(fat, c) :
            /\ op.slot = SlotAt(ChainIn(fat, c), p0) /\ ~Live(Ent(fat, data, c, p0))
            /\ \A q \in Places(fat, c) : q < p0 => Ent(fat, data, c, q) # End
  BY DEF StateOK, PhaseOK
<1>5. ChainHead(data, c) /\ c \in Clusters /\ NoLinkTo(fat, c) /\ fat[c] # Free
  BY <1>1, <1>3, TargetIsDir, HeadFacts
<1>6. ~ChainHead(data, first) /\ first \in Clusters /\ NoLinkTo(fat, first) /\ fat[first] # Free
      /\ first # c
  BY <1>1, <1>2, <1>5, FreshNotHead
<1>7. NoFile(data, c) /\ NoGaps(fat, data, c)
  BY <1>1, <1>3, TargetNotFile, TargetNoGaps
<1>8. NewDirOK(fat, data, op, screen) \/ NewFileOK(fat, data, op, screen)
  BY <1>3 DEF TargetOK
<1> HIDE DEF c, new, first
<1>9. EnteredAt(fat, data, e, c, p0, new)
  <2>1. e = WriteSlot(data, op.slot[1], op.slot[2], new)
    BY DEF new
  <2> QED BY <1>1, <1>2, <1>4, <1>5, <2>1, SlotEntered
<1>10. \A p \in Places(fat, c) : Ent(fat, e, c, p) = IF p = p0 THEN new ELSE Ent(fat, data, c, p)
  BY <1>9 DEF EnteredAt
<1>11. Only(fat, data, fat, e, c) /\ Same(fat, data, fat, e, first)
  <2>1. \A y \in Clusters : ChainHead(data, y) => NoLinkTo(fat, y) /\ fat[y] # Free
    BY <1>1, HeadFacts
  <2> QED BY <1>6, <1>9, <2>1 DEF EnteredAt, Only
<1>12. StayLive(fat, data, fat, e, c) /\ NoNew(fat, data, fat, e, c, new)
  BY <1>4, <1>10 DEF StayLive, NoNew
<1>13. NoGaps(fat, e, c)
  <2> SUFFICES ASSUME NEW p \in Places(fat, c), NEW q \in Places(fat, c), p < q,
                      Ent(fat, e, c, p) = End
               PROVE  Ent(fat, e, c, q) = End
    BY DEF NoGaps
  <2>1. new # End
    BY <1>2 DEF Live, End
  <2>2. p # p0 /\ Ent(fat, data, c, p) = End
    BY <1>10, <2>1
  <2>3. q # p0
    BY <1>4, <2>2
  <2> QED BY <1>7, <1>10, <2>2, <2>3 DEF NoGaps
<1>14. new.kind = "dir" => NoGaps(fat, e, first)
  <2> SUFFICES ASSUME new.kind = "dir"
               PROVE  NoGaps(fat, e, first)
    OBVIOUS
  <2>1. AllEnd(fat, data, first)
    BY <1>8 DEF NewFileOK, NewDirOK, new, first
  <2> QED BY <1>6, <1>11, <2>1, SameView DEF AllEnd, NoGaps
<1>15. DirsOK(fat, e)
  BY <1>1, <1>3, <1>11, <1>12, <1>13, <1>14, DirsBy DEF first, new
<1>16. NamesOK(e)
  <2>1. new.kind = "file" => new.name \in Nat
    BY <1>8 DEF NewFileOK, NewDirOK, new
  <2>2. \A z \in Clusters, j \in Ordinals :
          Slot(e, z, j) = IF z = op.slot[1] /\ j = op.slot[2] THEN new ELSE Slot(data, z, j)
    BY <1>1, <1>2, SlotWrite DEF new
  <2> QED BY <1>3, <2>1, <2>2 DEF NamesOK
<1>17. new.kind = "file" => NameFree(fat, data, c, new.name)
  BY <1>8 DEF NewFileOK, NewDirOK, new, c
<1>18. \A s \in saved : Kept(fat, e, Idle, s)
  BY <1>1, <1>3, <1>7, <1>11, <1>12, <1>17, KeptBy
<1>19. ASSUME new.kind = "file"
       PROVE  Kept(fat, e, Idle, [id |-> new.id, dir |-> screen, size |-> new.size])
  <2> DEFINE s == [id |-> new.id, dir |-> screen, size |-> new.size]
  <2>1. s.id = new.id /\ s.dir = screen /\ s.size = new.size
    OBVIOUS
  <2> HIDE DEF s
  <2>2. HasDir(fat, data, screen, c) /\ Whole(fat, data, first, new.size, new.id)
    BY <1>8, <1>19 DEF NewFileOK, NewDirOK, c, new, first
  <2>3. HasDir(fat, e, screen, c)
    BY <1>11, <1>12, <2>2, HasDirBy
  <2>4. Whole(fat, e, first, new.size, new.id)
    BY <1>6, <1>11, <2>2, KeepWhole
  <2>5. FileAt(fat, e, c, p0, s)
    <3>1. Ent(fat, e, c, p0) = new /\ new.first = first
      BY <1>10 DEF new, first
    <3>2. ASSUME NEW r \in Places(fat, c), Ent(fat, e, c, r).kind = "file", r # p0
          PROVE  Ent(fat, e, c, r).name # new.name
      BY <1>10, <1>17, <1>19, <3>2 DEF NameFree
    <3> QED BY <1>19, <2>1, <2>4, <3>1, <3>2 DEF FileAt
  <2>6. Kept(fat, e, Idle, s)
    BY <1>5, <2>1, <2>3, <2>5, NoneDoomed DEF Kept
  <2> QED BY <2>6 DEF s
<1>20. ASSUME new.kind # "file"
       PROVE  "id" \in DOMAIN op /\ "size" \in DOMAIN op /\ HasDir(fat, e, screen, first)
  <2>1. NewDirOK(fat, data, op, screen)
    BY <1>8, <1>20 DEF NewFileOK, new
  <2>2. c = Root /\ new = DirEntry(screen, first)
    BY <2>1 DEF NewDirOK, c, new, first
  <2>3. IsDir(Ent(fat, e, Root, p0), screen, first) /\ p0 \in Places(fat, Root)
    BY <1>10, <2>2 DEF IsDir, DirEntry
  <2>4. "id" \in DOMAIN op /\ "size" \in DOMAIN op
    BY <2>1 DEF NewDirOK
  <2> QED BY <2>3, <2>4 DEF HasDir
<1> QED BY <1>15, <1>16, <1>18, <1>19, <1>20 DEF new, first

\* fat_dir_write_slots: the file is reported saved when it is entered, and
\* not when the write failed.
LEMMA EnterSaved ==
  ASSUME Fat32Assumption, NEW R, CardOK(fat, data, R, cur, list, screen, op), faults \in Nat,
         StateOK(fat, data, op, saved, list, cur, screen), Enter
  PROVE  SavedNext
<1> DEFINE e == WriteSlot(data, op.slot[1], op.slot[2], op.entry)
           next == IF op.entry.kind = "file" THEN Idle
                   ELSE [at |-> "name", dir |-> op.entry.first, id |-> op.id, size |-> op.size]
           s == [id |-> op.entry.id, dir |-> screen, size |-> op.entry.size]
<1>1. op.at = "enter" /\ op.at \in SaveSteps /\ UNCHANGED browser
  BY DEF Enter, SaveSteps
<1>2. Put(fat, e, next)
  BY DEF Enter, WriteSlot
<1>3. saved' = IF op.entry.kind = "file" /\ disturbed' = disturbed /\ faults' = faults
               THEN saved \cup {s} ELSE saved
  BY DEF Enter
<1>4. op.entry.kind # "file" => next.at = "name" /\ next.dir = op.entry.first
                                /\ "id" \in DOMAIN next /\ "size" \in DOMAIN next
  OBVIOUS
<1>5. op.entry.kind = "file" => next = Idle
  OBVIOUS
<1> HIDE DEF e, next, s
<1>6. /\ DirsOK(fat, e) /\ NamesOK(e) /\ \A z \in saved : Kept(fat, e, Idle, z)
      /\ op.entry.kind = "file" => Kept(fat, e, Idle, s)
      /\ op.entry.kind # "file" => HasDir(fat, e, screen, op.entry.first)
  BY <1>1, EnterWritten DEF e, s
<1>7. screen \in Writers /\ list = {}
  BY <1>1, SavingState DEF BrowserOK
<1>8. screen' = screen /\ cur' = cur /\ list' = {}
  BY <1>1, <1>7 DEF browser
<1>9. PhaseOK(fat, e, next, screen) /\ (next.at \in SaveSteps \/ next = Idle)
  BY <1>4, <1>5, <1>6, IdlePhase DEF PhaseOK, SaveSteps
<1>10. CASE fat' = fat /\ data' = e /\ op' = next /\ faults' = faults /\ disturbed' = disturbed
  <2>1. \A z \in saved' : Kept(fat, e, Idle, z)
    BY <1>3, <1>6, <1>10
  <2>2. StateOK(fat, e, next, saved', {}, cur, screen)
    BY <1>6, <1>9, <2>1, KeepSaving
  <2>3. fat' = fat /\ data' = e /\ op' = next /\ faults' = faults
    BY <1>10
  <2>4. SavedNext <=> faults \in Nat /\ StateOK(fat, e, next, saved', {}, cur, screen)
    BY <1>8, <2>3 DEF SavedNext
  <2> QED BY <2>2, <2>4
<1>11. CASE op' = Idle /\ faults' = faults + 1
            /\ ((fat' = fat /\ data' = e) \/ (fat' = fat /\ data' = data))
  <2>1. faults' # faults /\ faults' \in Nat
    BY <1>11
  <2>2. saved' = saved
    BY <1>3, <2>1
  <2>3. StateOK(fat, e, Idle, saved, {}, cur, screen)
    BY <1>6, KeepSaving, IdlePhase
  <2>4. StateOK(fat, data, Idle, saved, {}, cur, screen)
    <3>1. \A z \in saved : Kept(fat, data, Idle, z)
      BY NoneDoomed DEF StateOK, Kept
    <3> QED BY <3>1, KeepSaving, IdlePhase DEF StateOK
  <2>5. StateOK(fat', data', Idle, saved, {}, cur, screen)
    BY <1>11, <2>3, <2>4
  <2> QED BY <1>8, <1>11, <2>1, <2>2, <2>5 DEF SavedNext
<1>12. \/ fat' = fat /\ data' = e /\ op' = next /\ faults' = faults /\ disturbed' = disturbed
       \/ op' = Idle /\ faults' = faults + 1
            /\ ((fat' = fat /\ data' = e) \/ (fat' = fat /\ data' = data))
  BY <1>2 DEF Put, onCard
<1> QED BY <1>10, <1>11, <1>12

-----------------------------------------------------------------------------
(* Fat32Card. Files that stay: where a save looks, and what it names.      *)

\* A directory has no gaps.
LEMMA DirNoGaps ==
  ASSUME Fat32Assumption, NEW f, NEW d, NEW w, NEW h, DirsOK(f, d), HasDir(f, d, w, h)
  PROVE  NoGaps(f, d, h)
<1>1. PICK p \in Places(f, Root) : IsDir(Ent(f, d, Root, p), w, h)
  BY DEF HasDir
<1> QED BY <1>1 DEF DirsOK, IsDir

\* In a directory without gaps, a scan lists all that is entered.
LEMMA LiveIsListed ==
  ASSUME Fat32Assumption, NEW c \in Clusters, NoGaps(fat, data, c),
         NEW p \in Places(fat, c), Live(Ent(fat, data, c, p))
  PROVE  p \in Listed(Chain(c)) /\ EntryAt(Chain(c), p) = Ent(fat, data, c, p)
<1> DEFINE s == Chain(c)
           ends == {q \in Positions(s) : EntryAt(s, q) = End}
<1>1. s = ChainIn(fat, c) /\ Places(fat, c) = Positions(s)
      /\ \A q : EntryAt(s, q) = Ent(fat, data, c, q)
  BY ChainIs, EntryIsOf DEF Places, Ent
<1> HIDE DEF s
<1>2. Positions(s) \subseteq Nat /\ p \in Nat \ {0} /\ ends \subseteq Nat
      /\ \A q : q \in ends <=> q \in Positions(s) /\ EntryAt(s, q) = End
  BY <1>1, PlaceCovered
<1>3. EntryAt(s, p) # End /\ EntryAt(s, p) # Deleted
  BY <1>1 DEF Live, End, Deleted
<1>4. Listed(s) = {q \in IF ends = {} THEN Positions(s) ELSE 1..(Min(ends) - 1) : EntryAt(s, q) # Deleted}
  BY DEF Listed
<1> HIDE DEF ends
<1>5. CASE ends = {}
  BY <1>1, <1>3, <1>4, <1>5 DEF s
<1>6. CASE ends # {}
  <2>1. Min(ends) \in ends
    BY <1>2, <1>6, MinIsLeast
  <2> DEFINE m == Min(ends)
  <2>2. m \in Nat /\ m \in Positions(s) /\ EntryAt(s, m) = End
    BY <1>2, <2>1
  <2> HIDE DEF m
  <2>3. ~(m < p)
    BY <1>1, <1>3, <2>2 DEF NoGaps
  <2>4. m # p
    BY <1>3, <2>2
  <2>5. p \in 1..(m - 1)
    BY <1>2, <2>2, <2>3, <2>4
  <2> QED BY <1>1, <1>3, <1>4, <1>6, <2>5 DEF m, s
<1> QED BY <1>5, <1>6

\* A save begins.
LEMMA BeginSaveSaved ==
  ASSUME Fat32Assumption, NEW R, CardOK(fat, data, R, cur, list, screen, op), faults \in Nat,
         StateOK(fat, data, op, saved, list, cur, screen), NEW size, BeginSave(size)
  PROVE  SavedNext
<1>1. op = Idle /\ screen \in Writers /\ UNCHANGED browser /\ UNCHANGED onCard
      /\ op' = [at |-> "find_dir", id |-> saves + 1, size |-> size]
      /\ saved' = saved /\ faults' = faults
  BY DEF BeginSave
<1>2. list = {} /\ op'.at = "find_dir" /\ op'.at \in SaveSteps
  BY <1>1 DEF CardOK, BrowserOK, SaveSteps
<1>3. PhaseOK(fat, data, op', screen)
  <2>1. "id" \in DOMAIN op' /\ "size" \in DOMAIN op'
    BY <1>1
  <2> QED BY <1>2, <2>1 DEF PhaseOK
<1>4. StateOK(fat, data, op', saved, {}, cur, screen)
  BY <1>1, <1>2, <1>3, KeepSaving DEF StateOK
<1> QED BY <1>1, <1>2, <1>4 DEF SavedNext, browser, onCard

\* fat_dir_find_slots finds a slot that can be used, or a directory that is
\* full.
LEMMA FindSlotSaved ==
  ASSUME Fat32Assumption, NEW R, CardOK(fat, data, R, cur, list, screen, op), faults \in Nat,
         StateOK(fat, data, op, saved, list, cur, screen), FindSlot, ~misread'
  PROVE  SavedNext
<1> DEFINE open(s) == {p \in Positions(s) : EntryAt(s, p) \in {End, Deleted}}
           c == op.into
           C == Chain(c)
<1>1. op.at = "slot" /\ op.at \in SaveSteps /\ UNCHANGED browser /\ UNCHANGED onCard
      /\ UNCHANGED saved
  BY DEF FindSlot, SaveSteps, ghosts
<1>2. SlotOK(fat, data, R, op) /\ DiskOK(fat, data, R)
  BY <1>1 DEF CardOK, SavingOK
<1>3. TargetOK(fat, data, op, screen) /\ "into" \in DOMAIN op /\ "entry" \in DOMAIN op /\ c \in Clusters
  BY <1>1, <1>2 DEF StateOK, PhaseOK, TargetOK, SlotOK, PendingOK
<1>4. PICK seen \in Seen(c) :
        \/ /\ open(seen) # {} /\ seen = C /\ faults' = faults
           /\ op' = With(op, [at |-> "enter", slot |-> SlotAt(seen, Min(open(seen)))])
        \/ /\ open(seen) = {} /\ faults' = faults + Cost(seen, c) /\ seen = C
           /\ op' = Alloc(With(op, [last |-> Last(seen)]), 1, "clear")
  BY DEF FindSlot
<1>5. C = ChainIn(fat, c) /\ Places(fat, c) = Positions(C)
      /\ \A q : EntryAt(C, q) = Ent(fat, data, c, q)
  BY ChainIs, EntryIsOf DEF Places, Ent
<1>6. faults' \in Nat
  BY <1>4 DEF Cost
<1>7. (op'.into = c /\ op'.entry = op.entry /\ DOMAIN op \subseteq DOMAIN op')
        => TargetOK(fat, data, op', screen)
  BY <1>3 DEF TargetOK, NewDirOK, NewFileOK
<1>8. CASE open(C) # {} /\ op' = With(op, [at |-> "enter", slot |-> SlotAt(C, Min(open(C)))])
  <2> DEFINE p == Min(open(C))
             s == SlotAt(C, p)
  <2>1. p \in open(C) /\ \A q \in open(C) : p <= q
    <3>1. open(C) \subseteq Nat
      BY DEF Positions
    <3> HIDE DEF open, C
    <3> QED BY <1>8, <3>1, MinIsLeast
  <2>2. op' = With(op, [at |-> "enter", slot |-> s])
    BY <1>8
  <2> HIDE DEF s
  <2>3. op'.at = "enter" /\ op'.slot = s /\ op'.into = c /\ op'.entry = op.entry
        /\ DOMAIN op \subseteq DOMAIN op'
    BY <1>3, <2>2 DEF With
  <2> HIDE DEF p, C
  <2>4. p \in Places(fat, c) /\ ~Live(Ent(fat, data, c, p)) /\ s = SlotAt(ChainIn(fat, c), p)
    BY <1>5, <2>1, DeadEntries DEF s
  <2>5. \A q \in Places(fat, c) : q < p => Ent(fat, data, c, q) # End
    <3> TAKE q \in Places(fat, c)
    <3> HAVE q < p
    <3>1. p \in Nat /\ q \in Nat
      BY <1>3, <2>4, PlaceCovered
    <3>2. q \notin open(C)
      BY <2>1, <3>1
    <3> QED BY <1>5, <3>2
  <2>6. PhaseOK(fat, data, op', screen) /\ op'.at \in SaveSteps
    <3>1. \E p1 \in Places(fat, op'.into) :
            /\ op'.slot = SlotAt(ChainIn(fat, op'.into), p1) /\ ~Live(Ent(fat, data, op'.into, p1))
            /\ \A q \in Places(fat, op'.into) : q < p1 => Ent(fat, data, op'.into, q) # End
      BY <2>3, <2>4, <2>5
    <3> QED BY <1>7, <2>3, <3>1 DEF PhaseOK, SaveSteps
  <2> QED BY <1>1, <1>6, <2>6, SavedQuiet
<1>9. CASE open(C) = {} /\ op' = Alloc(With(op, [last |-> Last(C)]), 1, "clear")
  <2> DEFINE last == Last(C)
  <2>1. op' = Alloc(With(op, [last |-> last]), 1, "clear")
    BY <1>9
  <2> HIDE DEF last
  <2>2. /\ op'.at = "alloc" /\ op'.got = <<>> /\ op'.then = "clear" /\ op'.last = last
        /\ op'.into = c /\ op'.entry = op.entry /\ DOMAIN op \subseteq DOMAIN op'
    BY <1>3, <2>1 DEF With, Alloc
  <2>3. \A p \in Places(fat, c) : Live(Ent(fat, data, c, p))
    <3> TAKE p \in Places(fat, c)
    <3>1. Ent(fat, data, c, p) \notin {End, Deleted}
      BY <1>5, <1>9
    <3>2. PICK x \in Clusters, i \in Ordinals : Ent(fat, data, c, p) = Slot(data, x, i)
      BY <1>3, EntSlot
    <3> QED BY <1>2, <3>1, <3>2 DEF DiskOK, ShapeOK
  <2>4. GrowOK(fat, data, op', screen)
    BY <1>5, <1>7, <2>2, <2>3 DEF GrowOK, last
  <2>5. Linked(fat, op'.got, Len(op'.got))
    <3>1. Len(op'.got) = 0
      BY <2>2
    <3> QED BY <3>1 DEF Linked
  <2>6. PhaseOK(fat, data, op', screen) /\ op'.at \in SaveSteps
    BY <2>2, <2>4, <2>5 DEF PhaseOK, UseOK, SaveSteps
  <2> QED BY <1>1, <1>6, <2>6, SavedQuiet
<1> QED BY <1>4, <1>8, <1>9

\* photo_ensure_dir finds the directory, or begins to make one.
LEMMA FindDirSaved ==
  ASSUME Fat32Assumption, NEW R, CardOK(fat, data, R, cur, list, screen, op), faults \in Nat,
         StateOK(fat, data, op, saved, list, cur, screen), FindDir
  PROVE  SavedNext
<1> DEFINE named(s) == {p \in Listed(s) : EntryAt(s, p).kind = "dir" /\ EntryAt(s, p).name = screen}
<1>1. op.at = "find_dir" /\ op.at \in SaveSteps /\ UNCHANGED browser /\ UNCHANGED onCard
      /\ UNCHANGED saved
  BY DEF FindDir, SaveSteps, ghosts
<1>2. DiskOK(fat, data, R) /\ Root \in Clusters
  BY ClusterValues DEF CardOK
<1>3. "id" \in DOMAIN op /\ "size" \in DOMAIN op
  BY <1>1 DEF StateOK, PhaseOK
<1>4. PICK seen \in Seen(Root) :
        /\ op' = IF named(seen) # {}
                 THEN With(op, [at |-> "name", dir |-> EntryAt(seen, Min(named(seen))).first])
                 ELSE Alloc(op, 1, "init")
        /\ faults' = faults + Cost(seen, Root)
  BY DEF FindDir
<1>5. faults' \in Nat
  BY <1>4 DEF Cost
<1>6. CASE named(seen) # {}
  <2> DEFINE p == Min(named(seen))
             h == EntryAt(seen, p).first
  <2>1. p \in named(seen)
    <3>1. seen \in Seq(Clusters)
      BY <1>2, SeenIsBeginning
    <3>2. named(seen) \subseteq Listed(seen) /\ Listed(seen) \subseteq Positions(seen)
          /\ Positions(seen) \subseteq Nat
      BY <1>2, <3>1, ListedIsLive DEF DiskOK, Positions
    <3>3. named(seen) \subseteq Nat
      BY <3>2
    <3> HIDE DEF named
    <3> QED BY <1>6, <3>3, MinIsLeast
  <2>2. op' = With(op, [at |-> "name", dir |-> h])
    BY <1>4, <1>6
  <2> HIDE DEF p
  <2>3. p \in Listed(seen) /\ IsDir(EntryAt(seen, p), screen, h)
    BY <2>1 DEF IsDir
  <2> HIDE DEF named, h
  <2>4. p \in Positions(Chain(Root)) /\ EntryOf(data, Chain(Root), p) = EntryAt(seen, p)
    BY <1>2, <2>3, ListedEntry
  <2>5. HasDir(fat, data, screen, h)
    BY <2>3, <2>4, ChainIs DEF HasDir, Places, Ent
  <2>6. op'.at = "name" /\ op'.dir = h /\ "id" \in DOMAIN op' /\ "size" \in DOMAIN op'
    BY <1>3, <2>2 DEF With
  <2>7. PhaseOK(fat, data, op', screen) /\ op'.at \in SaveSteps
    BY <2>5, <2>6 DEF PhaseOK, SaveSteps
  <2> QED BY <1>1, <1>5, <2>7, SavedQuiet
<1>7. CASE named(seen) = {}
  <2>1. op' = Alloc(op, 1, "init")
    BY <1>4, <1>7
  <2>2. /\ op'.at = "alloc" /\ op'.got = <<>> /\ op'.then = "init" /\ op'.want = 1
        /\ "id" \in DOMAIN op' /\ "size" \in DOMAIN op'
    BY <1>3, <2>1 DEF With, Alloc
  <2>3. Linked(fat, op'.got, Len(op'.got))
    <3>1. Len(op'.got) = 0
      BY <2>2
    <3> QED BY <3>1 DEF Linked
  <2>4. PhaseOK(fat, data, op', screen) /\ op'.at \in SaveSteps
    BY <2>2, <2>3 DEF PhaseOK, UseOK, SaveSteps
  <2> QED BY <1>1, <1>5, <2>4, SavedQuiet
<1> QED BY <1>6, <1>7

\* 0 and what is held at the places of a set.
HeldAt(S, h) == {0} \cup {h[p] : p \in S}

\* Max of FiniteSetsExt is the greatest of 0 and what a finite number of
\* places holds.
LEMMA MaxIsGreatest ==
  ASSUME NEW k \in Nat, NEW S \in SUBSET (1..k), NEW h, \A p \in S : h[p] \in Nat,
         NEW N, N = HeldAt(S, h)
  PROVE  Max(N) \in N /\ Max(N) \in Nat /\ \A n \in N : n <= Max(N)
<1> DEFINE Bound(n) == \E u \in Nat : \A p \in S : p <= n => h[p] <= u
           Bad == {n \in Nat : n <= k /\ ~Bound(n)}
<1>1. Bad = {}
  <2> SUFFICES ASSUME Bad # {}
               PROVE  FALSE
    OBVIOUS
  <2>1. PICK n \in Bad : \A m \in Bad : n <= m
    <3>1. Bad \in SUBSET Nat
      OBVIOUS
    <3> HIDE DEF Bad
    <3> QED BY <3>1, LeastOf
  <2>2. n \in Nat /\ n <= k /\ ~Bound(n)
    BY <2>1
  <2>3. n # 0
    <3>1. \A p \in S : ~(p <= 0)
      OBVIOUS
    <3>2. Bound(0)
      BY <3>1
    <3> QED BY <2>2, <3>2
  <2>4. n - 1 \in Nat /\ n - 1 \notin Bad
    <3> HIDE DEF Bad, Bound
    <3> QED BY <2>1, <2>2, <2>3
  <2>5. Bound(n - 1)
    <3> HIDE DEF Bound
    <3> QED BY <2>2, <2>4
  <2>6. PICK u \in Nat : \A p \in S : p <= n - 1 => h[p] <= u
    BY <2>5
  <2>7. PICK v \in Nat : u <= v /\ (n \in S => h[n] <= v)
    <3>1. CASE n \in S
      <4> DEFINE b == h[n]
      <4>1. b \in Nat
        BY <3>1
      <4> HIDE DEF b
      <4>2. CASE u <= b
        BY <4>1, <4>2 DEF b
      <4>3. CASE ~(u <= b)
        <5>1. b <= u /\ u <= u
          BY <4>1, <4>3
        <5> QED BY <5>1 DEF b
      <4> QED BY <4>2, <4>3
    <3>2. CASE n \notin S
      <4>1. u <= u
        OBVIOUS
      <4> QED BY <3>2, <4>1
    <3> QED BY <3>1, <3>2
  <2>8. ASSUME NEW p \in S, p <= n
        PROVE  h[p] <= v
    <3> DEFINE b == h[p]
    <3>1. b \in Nat /\ p \in Nat
      <4> HIDE DEF Bad, Bound
      <4> QED OBVIOUS
    <3>2. CASE p = n
      BY <2>7, <3>2
    <3>3. CASE p # n
      <4>1. p <= n - 1
        BY <2>2, <2>8, <3>1, <3>3
      <4>2. b <= u
        BY <2>6, <4>1
      <4> HIDE DEF b
      <4>3. b <= v
        BY <2>7, <3>1, <4>2
      <4> QED BY <4>3 DEF b
    <3> QED BY <3>2, <3>3
  <2>9. Bound(n)
    BY <2>8
  <2> QED BY <2>2, <2>9
<1>2. PICK u \in Nat : \A p \in S : h[p] <= u
  <2>1. Bound(k)
    <3>1. k <= k
      OBVIOUS
    <3> HIDE DEF Bound
    <3> QED BY <1>1, <3>1
  <2>2. PICK u \in Nat : \A p \in S : p <= k => h[p] <= u
    BY <2>1
  <2> QED BY <2>2
<1> HIDE DEF Bad, Bound
<1>0. N = {0} \cup {h[p] : p \in S}
  BY DEF HeldAt
<1>3. N \subseteq Nat /\ 0 \in N
  BY <1>0
<1> DEFINE U == {m \in Nat : \A n \in N : n <= m}
<1>4. u \in U
  BY <1>0, <1>2
<1>5. PICK m \in U : \A w \in U : m <= w
  <2>1. U \in SUBSET Nat /\ U # {}
    BY <1>4
  <2> HIDE DEF U
  <2> QED BY <2>1, LeastOf
<1>6. m \in Nat /\ \A n \in N : n <= m
  BY <1>5
<1>7. m \in N
  <2> SUFFICES ASSUME m \notin N
               PROVE  FALSE
    OBVIOUS
  <2>1. m # 0
    BY <1>3
  <2>2. m - 1 \in Nat /\ \A n \in N : n <= m - 1
    <3>1. \A n \in N : n \in Nat /\ n # m /\ n <= m
      BY <1>3, <1>6
    <3> QED BY <1>6, <2>1, <3>1
  <2>3. m - 1 \in U
    BY <2>2
  <2> HIDE DEF U
  <2> QED BY <1>5, <1>6, <2>3
<1> HIDE DEF U
<1>8. \A n \in N : m >= n
  BY <1>3, <1>6
<1>9. Max(N) \in N /\ \A n \in N : Max(N) >= n
  BY <1>7, <1>8 DEF Max
<1> QED BY <1>3, <1>9

\* photo_next_name: a name above all that the directory lists is free there.
LEMMA HighestIsFree ==
  ASSUME Fat32Assumption, NEW c \in Clusters, ShapeOK(data), NamesOK(data), NoGaps(fat, data, c)
  PROVE  /\ HighestName(Chain(c)) + 1 \in Nat
         /\ NameFree(fat, data, c, HighestName(Chain(c)) + 1)
<1> DEFINE C == Chain(c)
           k == Len(C) * SlotsPerCluster
           S == {p \in Listed(C) : EntryAt(C, p).kind = "file"}
           h == [p \in S |-> EntryAt(C, p).name]
           N == {0} \cup {h[p] : p \in S}
<1>1. C = ChainIn(fat, c) /\ Places(fat, c) = Positions(C) /\ C \in Seq(Clusters)
      /\ \A q : EntryAt(C, q) = Ent(fat, data, c, q)
  BY ChainIs, EntryIsOf, CoverFacts DEF Places, Ent
<1>2. S \in SUBSET (1..k) /\ S \subseteq Places(fat, c)
  BY <1>1, ListedIsLive DEF Positions
<1>3. k \in Nat
  BY <1>1 DEF Fat32Assumption
<1>4. \A p \in S : h[p] \in Nat
  <2> TAKE p \in S
  <2>0. p \in Places(fat, c) /\ EntryAt(C, p).kind = "file"
    BY <1>2
  <2>1. PICK x \in Clusters, i \in Ordinals : Ent(fat, data, c, p) = Slot(data, x, i)
    BY <2>0, EntSlot
  <2>2. EntryAt(C, p) = Slot(data, x, i) /\ EntryAt(C, p).kind = "file"
    BY <1>1, <2>0, <2>1
  <2>3. EntryAt(C, p).name \in Nat
    BY <2>2 DEF NamesOK
  <2> QED BY <2>3
<1>5. {e.name : e \in {f \in Files(C) : f.kind = "file"}} = {h[p] : p \in S}
  BY DEF Files
<1>6. HighestName(C) = Max(N)
  BY <1>5 DEF HighestName
<1>7. \A p \in Places(fat, c) : Ent(fat, data, c, p).kind = "file" =>
        p \in S /\ h[p] = Ent(fat, data, c, p).name
  BY <1>1, LiveIsListed DEF Live
<1> DEFINE m == Max(N)
<1>8. \A p \in S : h[p] \in N
  OBVIOUS
<1> HIDE DEF k
<1> HIDE DEF S, h
<1>9. m \in Nat /\ \A n \in N : n <= m
  <2>1. N = HeldAt(S, h)
    BY DEF HeldAt
  <2> HIDE DEF N
  <2>2. Max(N) \in N /\ Max(N) \in Nat /\ \A n \in N : n <= Max(N)
    BY <1>2, <1>3, <1>4, <2>1, MaxIsGreatest
  <2> QED BY <2>2
<1> HIDE DEF N
<1> HIDE DEF m
<1>10. \A p \in Places(fat, c) : Ent(fat, data, c, p).kind = "file" =>
        Ent(fat, data, c, p).name # m + 1
  <2> TAKE p \in Places(fat, c)
  <2> HAVE Ent(fat, data, c, p).kind = "file"
  <2>1. Ent(fat, data, c, p).name = h[p] /\ h[p] \in Nat /\ h[p] \in N
    BY <1>4, <1>7, <1>8
  <2> DEFINE b == h[p]
  <2>2. b \in Nat /\ b <= m /\ Ent(fat, data, c, p).name = b
    BY <1>9, <2>1
  <2> HIDE DEF b
  <2> QED BY <1>9, <2>2
<1>11. HighestName(C) = m
  BY <1>6 DEF m
<1> HIDE DEF C
<1>12. m + 1 \in Nat /\ NameFree(fat, data, c, m + 1)
  BY <1>9, <1>10 DEF NameFree
<1> QED BY <1>11, <1>12 DEF C

\* photo_next_name gives a name that no file of the directory has.
LEMMA NextNameSaved ==
  ASSUME Fat32Assumption, NEW R, CardOK(fat, data, R, cur, list, screen, op), faults \in Nat,
         StateOK(fat, data, op, saved, list, cur, screen), NextName, ~misread'
  PROVE  SavedNext
<1> DEFINE c == op.dir
<1>1. op.at = "name" /\ op.at \in SaveSteps /\ UNCHANGED browser /\ UNCHANGED onCard
      /\ UNCHANGED saved
  BY DEF NextName, SaveSteps, ghosts
<1>2. DiskOK(fat, data, R) /\ ShapeOK(data) /\ NamesOK(data) /\ DirsOK(fat, data)
  BY DEF CardOK, DiskOK, StateOK
<1>3. "id" \in DOMAIN op /\ "size" \in DOMAIN op /\ HasDir(fat, data, screen, c)
  BY <1>1 DEF StateOK, PhaseOK
<1>4. "dir" \in DOMAIN op
  BY <1>1 DEF CardOK, SavingOK
<1>5. PICK seen \in Seen(c) :
        /\ op' = Alloc(With(op, [name |-> HighestName(seen) + 1]), op.size, "write")
        /\ faults' = faults + Cost(seen, c) /\ HighestName(seen) = HighestName(Chain(c))
  BY DEF NextName
<1>6. faults' \in Nat
  BY <1>5 DEF Cost
<1> DEFINE name == HighestName(Chain(c)) + 1
<1>7. op' = Alloc(With(op, [name |-> name]), op.size, "write")
  BY <1>5
<1>8. c \in Clusters /\ NoGaps(fat, data, c)
  BY <1>2, <1>3, HasDirIsHead, DirNoGaps
<1> HIDE DEF c
<1>9. name \in Nat /\ NameFree(fat, data, c, name)
  BY <1>2, <1>8, HighestIsFree
<1> HIDE DEF name
<1>10. /\ op'.at = "alloc" /\ op'.got = <<>> /\ op'.then = "write" /\ op'.want = op.size
       /\ op'.size = op.size /\ op'.dir = c /\ op'.name = name
       /\ {"id", "size", "name"} \subseteq DOMAIN op'
  BY <1>3, <1>4, <1>7 DEF With, Alloc, c
<1>11. FileToCome(fat, data, op', screen)
  BY <1>3, <1>9, <1>10 DEF FileToCome
<1>12. Linked(fat, op'.got, Len(op'.got))
  <2>1. Len(op'.got) = 0
    BY <1>10
  <2> QED BY <2>1 DEF Linked
<1>13. PhaseOK(fat, data, op', screen) /\ op'.at \in SaveSteps
  BY <1>10, <1>11, <1>12 DEF PhaseOK, UseOK, SaveSteps
<1> QED BY <1>1, <1>6, <1>13, SavedQuiet

-----------------------------------------------------------------------------
(* Fat32Card. Files that stay: steps of a deletion.                        *)

\* An item of the browser's list is the entry that starts its chain, if there
\* is one.
LEMMA ItemIsSlot ==
  ASSUME Fat32Assumption, NEW f, NEW d, NEW R, DiskOK(f, d, R), NEW home, NEW in, NEW pos, NEW e,
         ItemOK(f, d, R, home, in, pos, e),
         NEW x \in Clusters, NEW i \in Ordinals, Live(Slot(d, x, i)), Slot(d, x, i).first = e.first
  PROVE  Slot(d, x, i) = e
<1>1. ~NotHead(d, e.first)
  BY DEF NotHead
<1>2. pos \in Places(f, in) /\ Ent(f, d, in, pos) = e /\ in \in Clusters /\ Live(e)
  BY <1>1 DEF ItemOK, Places, Ent
<1>3. PICK y \in Clusters, j \in Ordinals : Ent(f, d, in, pos) = Slot(d, y, j)
  BY <1>2, EntSlot
<1>4. x = y /\ i = j
  BY <1>2, <1>3, OneEntry
<1> QED BY <1>2, <1>3, <1>4

\* So it is neither a directory's entry nor a file's, unless it is that one.
LEMMA ItemApart ==
  ASSUME Fat32Assumption, NEW f, NEW d, NEW R, DiskOK(f, d, R), NEW home, NEW in, NEW pos, NEW e,
         ItemOK(f, d, R, home, in, pos, e), NEW w, NEW h, HasDir(f, d, w, h),
         NEW q \in Places(f, h), Ent(f, d, h, q).kind = "file"
  PROVE  /\ e.kind # "dir" => e.first # h
         /\ e.first = Ent(f, d, h, q).first => e = Ent(f, d, h, q)
<1>1. PICK p \in Places(f, Root) : IsDir(Ent(f, d, Root, p), w, h)
  BY DEF HasDir
<1>2. PICK x \in Clusters, i \in Ordinals : Ent(f, d, Root, p) = Slot(d, x, i)
  BY EntSlot, ClusterValues
<1>3. h \in Clusters
  BY HasDirIsHead
<1>4. PICK y \in Clusters, j \in Ordinals : Ent(f, d, h, q) = Slot(d, y, j)
  BY <1>3, EntSlot
<1>5. e.first = h => Slot(d, x, i) = e
  BY <1>1, <1>2, ItemIsSlot DEF IsDir, Live
<1>6. e.first = Slot(d, y, j).first => Slot(d, y, j) = e
  BY <1>4, ItemIsSlot DEF Live
<1> QED BY <1>1, <1>2, <1>4, <1>5, <1>6 DEF IsDir

\* A step of a deletion that writes nothing.
LEMMA SavedNoWrite ==
  ASSUME StateOK(fat, data, op, saved, list, cur, screen), UNCHANGED onCard, UNCHANGED browser,
         faults' \in Nat, op'.at \in DeleteSteps, DoomedOK(fat, data, op'),
         \A s \in saved' : Kept(fat, data, op', s)
  PROVE  SavedNext
<1>1. PhaseOK(fat, data, op', screen)
  BY DEF PhaseOK, DeleteSteps
<1>2. fat' = fat /\ data' = data /\ list' = list /\ cur' = cur /\ screen' = screen
  BY DEF onCard, browser
<1>3. StateOK(fat, data, op', saved', list, cur, screen)
  BY <1>1 DEF StateOK
<1> QED BY <1>2, <1>3 DEF SavedNext

\* files_delete_selected: what is deleted is not reported saved any more.
LEMMA BeginDeleteSaved ==
  ASSUME Fat32Assumption, NEW R, CardOK(fat, data, R, cur, list, screen, op), faults \in Nat,
         StateOK(fat, data, op, saved, list, cur, screen), NEW item \in list, BeginDelete(item)
  PROVE  SavedNext
<1> DEFINE e == item.entry
<1>1. op = Idle /\ UNCHANGED onCard /\ UNCHANGED browser /\ faults' = faults
      /\ op' = [at |-> IF e.kind = "dir" THEN "contents" ELSE "mark",
                in |-> cur, pos |-> item.pos, entry |-> e, from |-> 1, back |-> "reload"]
      /\ saved' = {s \in saved : s.id \notin FilesUnder(e)}
  BY DEF BeginDelete
<1>2. ItemOK(fat, data, R, cur, cur, item.pos, e) /\ DiskOK(fat, data, R)
  BY DEF CardOK, BrowserOK
<1>3. ItemHere(fat, data, cur, item.pos, e)
  BY DEF StateOK
<1>4. /\ op'.at = (IF e.kind = "dir" THEN "contents" ELSE "mark")
      /\ op'.in = cur /\ op'.pos = item.pos /\ op'.entry = e /\ op'.back = "reload"
  BY <1>1
<1>5. ~WithinWhole(op') /\ op'.at \in DeleteSteps
  BY <1>4 DEF WithinWhole, DeleteSteps
<1>6. DoomedOK(fat, data, op')
  BY <1>3, <1>4, <1>5 DEF DoomedOK
<1> HIDE DEF e
<1>7. ASSUME NEW s \in saved'
      PROVE  Kept(fat, data, op', s)
  <2>1. Kept(fat, data, op, s) /\ s.id \notin FilesUnder(e)
    BY <1>1, <1>7 DEF StateOK
  <2>2. PICK h \in Clusters : /\ HasDir(fat, data, s.dir, h)
          /\ \E q \in Places(fat, h) : FileAt(fat, data, h, q, s)
    BY <2>1 DEF Kept
  <2>3. PICK q \in Places(fat, h) : FileAt(fat, data, h, q, s)
    BY <2>2
  <2> DEFINE a == Ent(fat, data, h, q)
  <2>4. a.kind = "file" /\ a.id = s.id
    BY <2>3 DEF FileAt
  <2>5. (e.kind # "dir" => e.first # h) /\ (e.first = a.first => e = a)
    BY <1>2, <2>2, <2>4, ItemApart
  <2>6. CASE e.kind = "dir"
    <3>1. e.first # h
      <4> SUFFICES ASSUME e.first = h
                   PROVE  FALSE
        OBVIOUS
      <4>1. NoGaps(fat, data, h)
        BY <2>2, DirNoGaps DEF StateOK
      <4>2. a \in Files(Chain(h))
        BY <2>4, <4>1, LiveIsListed DEF Live, Files
      <4> HIDE DEF a
      <4>3. s.id \in FilesUnder(e)
        BY <2>4, <2>6, <4>2 DEF FilesUnder
      <4> QED BY <2>1, <4>3
    <3>2. Spared(op', h, a.first)
      BY <1>4, <1>5, <2>6, <3>1 DEF Spared
    <3> QED BY <2>2, <2>3, <3>2 DEF Kept
  <2>7. CASE e.kind # "dir"
    <3>1. e.first # a.first
      <4> SUFFICES ASSUME e.first = a.first
                   PROVE  FALSE
        OBVIOUS
      <4>1. e = a
        BY <2>5
      <4>2. e.kind = "file" /\ e.id = s.id
        BY <2>4, <4>1
      <4> QED BY <2>1, <4>2 DEF FilesUnder
    <3>2. Spared(op', h, a.first)
      BY <1>4, <1>5, <2>5, <2>7, <3>1 DEF Spared
    <3> QED BY <2>2, <2>3, <3>2 DEF Kept
  <2> QED BY <2>6, <2>7
<1> QED BY <1>1, <1>5, <1>6, <1>7, SavedNoWrite

\* Deleting the directory itself, once its contents are deleted, spares every
\* file in another.
LEMMA WholeSpares ==
  ASSUME Fat32Assumption, NEW f, NEW d, NEW R, DiskOK(f, d, R), NEW home, NEW w,
         WholeOK(f, d, R, home, w), NEW o, NEW s, Kept(f, d, o, s),
         \A h, x : Spared(o, h, x) => w.entry.first # h,
         NEW o2, o2.at \in {"contents", "mark"}, o2.entry = w.entry, o2.back = "reload"
  PROVE  Kept(f, d, o2, s)
<1>1. PICK h \in Clusters : /\ HasDir(f, d, s.dir, h)
        /\ \E q \in Places(f, h) : FileAt(f, d, h, q, s) /\ Spared(o, h, Ent(f, d, h, q).first)
  BY DEF Kept
<1>2. PICK q \in Places(f, h) : FileAt(f, d, h, q, s) /\ Spared(o, h, Ent(f, d, h, q).first)
  BY <1>1
<1> DEFINE a == Ent(f, d, h, q)
<1>3. a.kind = "file" /\ w.entry.first # h
  BY <1>2 DEF FileAt
<1>4. w.entry.kind = "dir" /\ ItemOK(f, d, R, home, w.in, w.pos, w.entry)
  BY DEF WholeOK
<1>5. w.entry.first = a.first => w.entry = a
  BY <1>1, <1>3, <1>4, ItemApart
<1>6. w.entry.first # a.first
  BY <1>3, <1>4, <1>5
<1>7. Spared(o2, h, a.first)
  BY <1>3, <1>6 DEF Spared, WithinWhole
<1> QED BY <1>1, <1>2, <1>7 DEF Kept

\* files_delete_dir_contents goes on to the next file, or to the directory.
LEMMA DeleteContentsSaved ==
  ASSUME Fat32Assumption, NEW R, CardOK(fat, data, R, cur, list, screen, op), faults \in Nat,
         StateOK(fat, data, op, saved, list, cur, screen), DeleteContents
  PROVE  SavedNext
<1>1. op.at = "contents" /\ op.at \in DeleteSteps /\ UNCHANGED onCard /\ UNCHANGED browser
      /\ saved' = saved /\ faults' = faults
  BY DEF DeleteContents, DeleteSteps, ghosts
<1>2. DiskOK(fat, data, R) /\ WholeOK(fat, data, R, cur, op) /\ LinksOK(fat)
  BY <1>1, DeletingState DEF DeleteOK, DiskOK
<1>3. /\ {"at", "in", "pos", "entry", "back"} \subseteq DOMAIN op /\ op.back = "reload"
      /\ ItemOK(fat, data, R, cur, op.in, op.pos, op.entry)
      /\ op.entry.first \in Clusters \ R /\ NoLinkTo(fat, op.entry.first)
  BY <1>2 DEF WholeOK, ItemOK
<1>4. ItemHere(fat, data, op.in, op.pos, op.entry)
  BY <1>1 DEF StateOK, DoomedOK
<1>5. \A s \in saved : Kept(fat, data, op, s)
  BY DEF StateOK
<1>6. \A h, x : Spared(op, h, x) => op.entry.first # h
  BY <1>1 DEF Spared
<1> DEFINE c == op.entry.first
           inside == Chain(op.entry.first)
           left == {p \in Listed(inside) : p >= op.from}
           next == Min(left)
<1>7. \/ op' = With(op, [at |-> "mark"])
      \/ /\ left # {}
         /\ op' = [at |-> "mark", in |-> op.entry.first, pos |-> next,
                   entry |-> EntryAt(inside, next), back |-> "rest", whole |-> op]
  BY DEF DeleteContents
<1>8. CASE op' = With(op, [at |-> "mark"])
  <2>1. /\ op'.at = "mark" /\ op'.in = op.in /\ op'.pos = op.pos /\ op'.entry = op.entry
        /\ op'.back = "reload"
    BY <1>3, <1>8 DEF With
  <2>2. DoomedOK(fat, data, op') /\ op'.at \in DeleteSteps
    BY <1>4, <2>1 DEF DoomedOK, DeleteSteps, WithinWhole
  <2>3. \A s \in saved' : Kept(fat, data, op', s)
    BY <1>1, <1>2, <1>5, <1>6, <2>1, WholeSpares
  <2> QED BY <1>1, <2>2, <2>3, SavedNoWrite
<1>9. CASE /\ left # {}
           /\ op' = [at |-> "mark", in |-> op.entry.first, pos |-> next,
                     entry |-> EntryAt(inside, next), back |-> "rest", whole |-> op]
  <2>1. inside \in Seen(op.entry.first)
    BY <1>3, ChainFacts
  <2>2. next \in Listed(inside)
    <3>1. \A p \in Listed(inside) : p \in Nat
      BY <1>2, <1>3, <2>1, ListedEntry DEF Positions
    <3>2. left \subseteq Nat /\ left \subseteq Listed(inside)
      BY <3>1
    <3> HIDE DEF left
    <3> QED BY <1>9, <3>2, MinIsLeast
  <2> DEFINE e == EntryAt(inside, next)
  <2> HIDE DEF next
  <2>3. /\ next \in Positions(inside) /\ EntryOf(data, inside, next) = e /\ Live(e)
        /\ (e.kind = "dir" => op.entry.first \in R)
    BY <1>2, <1>3, <2>1, <2>2, ListedEntry
  <2>4. /\ op'.at = "mark" /\ op'.in = c /\ op'.pos = next /\ op'.entry = e
        /\ op'.back = "rest" /\ op'.whole = op
    BY <1>9
  <2>5. inside = ChainIn(fat, c)
    BY ChainIs
  <2> HIDE DEF e, inside, left, c
  <2>6. next \in Places(fat, c) /\ Ent(fat, data, c, next) = e /\ e.kind = "file"
    BY <1>3, <2>3, <2>5 DEF Places, Ent, Live, c
  <2>7. DoomedOK(fat, data, op') /\ op'.at \in DeleteSteps
    BY <1>4, <2>4, <2>6 DEF DoomedOK, DeleteSteps, WithinWhole, ItemHere
  <2>8. c \in Clusters /\ NoLinkTo(fat, c)
    BY <1>3 DEF c
  <2>9. PICK x \in Clusters, i \in Ordinals : e = Slot(data, x, i) /\ x \in Covers(fat, c)
    BY <2>6, <2>8, EntSlot
  <2>10. ASSUME NEW s \in saved'
         PROVE  Kept(fat, data, op', s)
    <3>1. PICK h \in Clusters : /\ HasDir(fat, data, s.dir, h)
            /\ \E q \in Places(fat, h) : FileAt(fat, data, h, q, s) /\ Spared(op, h, Ent(fat, data, h, q).first)
      BY <1>1, <1>5, <2>10 DEF Kept
    <3>2. PICK q \in Places(fat, h) : FileAt(fat, data, h, q, s) /\ Spared(op, h, Ent(fat, data, h, q).first)
      BY <3>1
    <3> DEFINE a == Ent(fat, data, h, q)
    <3>3. a.kind = "file" /\ op.entry.first # h /\ c # h
      BY <1>6, <3>2 DEF FileAt, c
    <3>4. PICK y \in Clusters, j \in Ordinals : a = Slot(data, y, j) /\ y \in Covers(fat, h)
      BY EntSlot
    <3> HIDE DEF a
    <3>5. NoLinkTo(fat, h)
      BY <1>2, <3>1, HasDirIsHead, HeadFacts
    <3>6. x # y
      BY <1>2, <2>8, <2>9, <3>3, <3>4, <3>5, CoversApart
    <3>7. e.first # a.first
      BY <1>2, <2>6, <2>9, <3>3, <3>4, <3>6, OneEntry DEF Live
    <3>8. e.first # h
      BY <1>2, <2>6, <2>9, <3>1, DirNotFile DEF NoFile
    <3>9. Spared(op', h, a.first)
      BY <2>4, <3>3, <3>7, <3>8 DEF Spared
    <3> QED BY <3>1, <3>2, <3>9 DEF Kept, a
  <2> QED BY <1>1, <2>7, <2>10, SavedNoWrite
<1> QED BY <1>7, <1>8, <1>9

\* A deletion that does not go wild goes on in the directory.
LEMMA DeleteRestSaved ==
  ASSUME Fat32Assumption, NEW R, CardOK(fat, data, R, cur, list, screen, op), faults \in Nat,
         StateOK(fat, data, op, saved, list, cur, screen), DeleteRest, ~wild'
  PROVE  SavedNext
<1>1. op.at = "rest" /\ op.at \in DeleteSteps /\ UNCHANGED onCard /\ UNCHANGED browser
      /\ saved' = saved /\ faults' = faults
  BY DEF DeleteRest, DeleteSteps
<1> DEFINE w == op.whole
<1>2. WholeOK(fat, data, R, cur, w) /\ DiskOK(fat, data, R)
  BY <1>1, DeletingState DEF DeleteOK
<1>3. /\ {"at", "in", "pos", "entry", "back"} \subseteq DOMAIN w
      /\ w.at = "contents" /\ w.back = "reload"
  BY <1>2 DEF WholeOK
<1>4. ItemHere(fat, data, w.in, w.pos, w.entry)
  BY <1>1 DEF StateOK, DoomedOK, WithinWhole
<1>5. (\A s \in saved : Kept(fat, data, op, s)) /\ \A h, x : Spared(op, h, x) => w.entry.first # h
  BY <1>1 DEF StateOK, Spared, WithinWhole
<1>6. \/ \E from : op' = With(w, [from |-> from])
      \/ op' = With(w, [at |-> "mark"])
  BY DEF DeleteRest
<1> HIDE DEF w
<1>7. /\ op'.at \in {"contents", "mark"} /\ op'.in = w.in /\ op'.pos = w.pos
      /\ op'.entry = w.entry /\ op'.back = "reload"
  <2>1. CASE \E from : op' = With(w, [from |-> from])
    BY <1>3, <2>1 DEF With
  <2>2. CASE op' = With(w, [at |-> "mark"])
    BY <1>3, <2>2 DEF With
  <2> QED BY <1>6, <2>1, <2>2
<1>8. DoomedOK(fat, data, op') /\ op'.at \in DeleteSteps
  BY <1>4, <1>7 DEF DoomedOK, DeleteSteps, WithinWhole
<1>9. \A s \in saved' : Kept(fat, data, op', s)
  BY <1>1, <1>2, <1>5, <1>7, WholeSpares
<1> QED BY <1>1, <1>8, <1>9, SavedNoWrite

\* Taking an entry out of its slot: every slot is as it was, or the entry was
\* there and the slot is marked.
Marked(f, d, e, gone) ==
  /\ \A c \in Clusters : \A p \in Places(f, c) :
       \/ Ent(f, e, c, p) = Ent(f, d, c, p)
       \/ Ent(f, e, c, p) = Deleted /\ Ent(f, d, c, p) \in {gone, Deleted}
  /\ \A c \in Clusters : e[c].file = d[c].file

\* fat_dir_mark_deleted writes one slot.
LEMMA SlotMarked ==
  ASSUME Fat32Assumption, NEW f, NEW d, ShapeOK(d), NEW c \in Clusters, NEW p0 \in Places(f, c),
         NEW gone, Ent(f, d, c, p0) \in {gone, Deleted}, NEW s, s = SlotAt(ChainIn(f, c), p0),
         NEW e, e = WriteSlot(d, s[1], s[2], Deleted)
  PROVE  Marked(f, d, e, gone)
<1> DEFINE x == s[1]
           i == s[2]
<1>1. x \in Clusters /\ i \in Ordinals /\ Slot(d, x, i) \in {gone, Deleted}
  BY PlaceCovered DEF Ent, EntryOf
<1> HIDE DEF x, i
<1>2. e = WriteSlot(d, x, i, Deleted)
  BY DEF x, i
<1>3. \A z \in Clusters, j \in Ordinals :
        Slot(e, z, j) = IF z = x /\ j = i THEN Deleted ELSE Slot(d, z, j)
  BY <1>1, <1>2, SlotWrite
<1>4. \A z \in Clusters : e[z].file = d[z].file
  BY <1>2 DEF WriteSlot, ShapeOK
<1>5. ASSUME NEW z \in Clusters, NEW p \in Places(f, z)
      PROVE  \/ Ent(f, e, z, p) = Ent(f, d, z, p)
             \/ Ent(f, e, z, p) = Deleted /\ Ent(f, d, z, p) \in {gone, Deleted}
  <2> DEFINE t == SlotAt(ChainIn(f, z), p)
  <2>1. t[1] \in Clusters /\ t[2] \in Ordinals
    BY PlaceCovered
  <2>2. Ent(f, e, z, p) = Slot(e, t[1], t[2]) /\ Ent(f, d, z, p) = Slot(d, t[1], t[2])
    BY DEF Ent, EntryOf
  <2> HIDE DEF t
  <2> QED BY <1>1, <1>3, <2>1, <2>2
<1> QED BY <1>4, <1>5 DEF Marked

\* What that leaves as it was.
LEMMA MarkKeepsDirs ==
  ASSUME Fat32Assumption, NEW f, NEW d, NEW e, NEW gone, Live(gone), Marked(f, d, e, gone),
         NEW R, DiskOK(f, d, R), DirsOK(f, d)
  PROVE  DirsOK(f, e)
<1>1. ASSUME NEW c \in Clusters, NoGaps(f, d, c)
      PROVE  NoGaps(f, e, c)
  <2> SUFFICES ASSUME NEW p \in Places(f, c), NEW q \in Places(f, c), p < q, Ent(f, e, c, p) = End
               PROVE  Ent(f, e, c, q) = End
    BY DEF NoGaps
  <2>1. gone # End /\ Deleted # End
    BY DEF Live, End, Deleted
  <2>2. Ent(f, d, c, p) = End
    BY <2>1 DEF Marked
  <2>3. Ent(f, d, c, q) = End
    BY <1>1, <2>2 DEF NoGaps
  <2> QED BY <2>1, <2>3 DEF Marked
<1>2. Root \in Clusters
  BY ClusterValues
<1>3. ASSUME NEW p \in Places(f, Root), Ent(f, e, Root, p).kind = "dir"
      PROVE  NoGaps(f, e, Ent(f, e, Root, p).first)
  <2>1. Ent(f, e, Root, p) = Ent(f, d, Root, p)
    BY <1>2, <1>3 DEF Marked, Deleted
  <2> DEFINE h == Ent(f, d, Root, p).first
  <2>2. NoGaps(f, d, h) /\ h \in Clusters
    BY <1>2, <1>3, <2>1, EntFacts DEF DirsOK, Live
  <2> HIDE DEF h
  <2>3. NoGaps(f, e, h)
    BY <1>1, <2>2
  <2> QED BY <2>1, <2>3 DEF h
<1> QED BY <1>1, <1>2, <1>3 DEF DirsOK

\* A file stays kept when another entry is marked deleted.
LEMMA MarkKeepsFile ==
  ASSUME Fat32Assumption, NEW f, NEW d, NEW e, NEW gone, Marked(f, d, e, gone),
         NEW R, DiskOK(f, d, R), NEW s, NEW h, NEW q, HasDir(f, d, s.dir, h), q \in Places(f, h),
         FileAt(f, d, h, q, s), gone.first # h, gone.first # Ent(f, d, h, q).first
  PROVE  /\ HasDir(f, e, s.dir, h) /\ FileAt(f, e, h, q, s)
         /\ Ent(f, e, h, q) = Ent(f, d, h, q)
<1>1. Root \in Clusters /\ h \in Clusters
  BY ClusterValues, HasDirIsHead
<1>2. HasDir(f, e, s.dir, h)
  <2>1. PICK p \in Places(f, Root) : IsDir(Ent(f, d, Root, p), s.dir, h)
    BY DEF HasDir
  <2>2. Ent(f, d, Root, p) # gone /\ Ent(f, d, Root, p) # Deleted
    BY <2>1 DEF IsDir, Deleted
  <2>3. Ent(f, e, Root, p) = Ent(f, d, Root, p)
    BY <1>1, <2>2 DEF Marked
  <2> QED BY <2>1, <2>3 DEF HasDir
<1> DEFINE a == Ent(f, d, h, q)
<1>3. a.kind = "file" /\ a.id = s.id /\ Whole(f, d, a.first, s.size, s.id)
  BY DEF FileAt
<1>4. Ent(f, e, h, q) = a
  BY <1>1, <1>3 DEF Marked, Deleted
<1>5. Whole(f, e, a.first, s.size, s.id)
  <2>1. a.first \in Clusters
    BY <1>1, <1>3, EntFacts DEF Live
  <2>2. \A i \in 1..Len(ChainIn(f, a.first)) : ChainIn(f, a.first)[i] \in Clusters
    BY <2>1, CoverFacts DEF Covers
  <2> HIDE DEF a
  <2> QED BY <1>3, <2>2 DEF Whole, Marked
<1>6. ASSUME NEW r \in Places(f, h), Ent(f, e, h, r).kind = "file", r # q
      PROVE  Ent(f, e, h, r).name # a.name
  <2>1. Ent(f, e, h, r) = Ent(f, d, h, r)
    BY <1>1, <1>6 DEF Marked, Deleted
  <2> QED BY <1>6, <2>1 DEF FileAt
<1> QED BY <1>2, <1>3, <1>4, <1>5, <1>6 DEF FileAt

\* fat_dir_mark_deleted takes out the entry, and no other.
LEMMA MarkDeletedSaved ==
  ASSUME Fat32Assumption, NEW R, CardOK(fat, data, R, cur, list, screen, op), faults \in Nat,
         StateOK(fat, data, op, saved, list, cur, screen), MarkDeleted
  PROVE  SavedNext
<1>1. op.at = "mark" /\ op.at \in DeleteSteps /\ UNCHANGED browser /\ saved' = saved
  BY DEF MarkDeleted, DeleteSteps, ghosts
<1>2. DiskOK(fat, data, R) /\ ShapeOK(data) /\ MarkOK(fat, data, R, cur, op)
      /\ BrowserOK(fat, data, R, cur, list, screen)
  BY <1>1, DeletingState DEF DeleteOK, DiskOK
<1> DEFINE gone == op.entry
           c == op.in
           s == SlotAt(Chain(op.in), op.pos)
           e == WriteSlot(data, s[1], s[2], Deleted)
           next == With(op, [at |-> "free", cluster |-> op.entry.first])
<1>3. Live(gone) /\ c \in Clusters /\ BackOK(fat, data, R, cur, op)
  BY <1>2 DEF MarkOK, ItemOK
<1>4. op.pos \in Places(fat, c) /\ Ent(fat, data, c, op.pos) \in {gone, Deleted}
  BY <1>1 DEF StateOK, DoomedOK, ItemHere
<1>5. s = SlotAt(ChainIn(fat, c), op.pos) /\ Positions(Chain(c)) = Places(fat, c)
  BY ChainIs DEF Places
<1>6. Put(fat, e, next)
  BY <1>4, <1>5 DEF MarkDeleted, WriteSlot
<1>7. /\ next.at = "free"
      /\ "back" \in DOMAIN op => next.back = op.back
      /\ "whole" \in DOMAIN op => next.whole = op.whole
  BY DEF With
<1>8. "back" \in DOMAIN op /\ (op.back = "rest" => "whole" \in DOMAIN op /\ op.whole.in \in Clusters)
  BY <1>3, ClusterValues DEF BackOK, WholeOK
<1>9. WithinWhole(next) <=> op.back = "rest"
  BY <1>7, <1>8 DEF WithinWhole
<1>10. WithinWhole(op) <=> op.back = "rest"
  BY <1>1 DEF WithinWhole
<1> HIDE DEF s
<1>11. Marked(fat, data, e, gone)
  BY <1>2, <1>3, <1>4, <1>5, SlotMarked
<1>12. NamesOK(e)
  <2>1. s[1] \in Clusters /\ s[2] \in Ordinals
    BY <1>3, <1>4, <1>5, PlaceCovered
  <2>2. \A z \in Clusters, j \in Ordinals :
          Slot(e, z, j) = IF z = s[1] /\ j = s[2] THEN Deleted ELSE Slot(data, z, j)
    BY <1>2, <2>1, SlotWrite
  <2> HIDE DEF e
  <2> QED BY <2>2 DEF NamesOK, StateOK, Deleted
<1> HIDE DEF e, next, gone, c
<1>13. DirsOK(fat, e)
  BY <1>2, <1>3, <1>11, MarkKeepsDirs DEF StateOK
<1>14. \A in \in Clusters : \A pos, item :
         ItemHere(fat, data, in, pos, item) => ItemHere(fat, e, in, pos, item)
  BY <1>11 DEF Marked, ItemHere
<1>15. ASSUME NEW z \in saved
       PROVE  Kept(fat, e, next, z) /\ Kept(fat, e, Idle, z) /\ Kept(fat, data, Idle, z)
  <2>1. PICK h \in Clusters : /\ HasDir(fat, data, z.dir, h)
          /\ \E q \in Places(fat, h) : FileAt(fat, data, h, q, z) /\ Spared(op, h, Ent(fat, data, h, q).first)
    BY DEF StateOK, Kept
  <2>2. PICK q \in Places(fat, h) : FileAt(fat, data, h, q, z) /\ Spared(op, h, Ent(fat, data, h, q).first)
    BY <2>1
  <2>3. gone.first # h /\ gone.first # Ent(fat, data, h, q).first
    BY <1>1, <2>2 DEF Spared, gone
  <2>4. /\ HasDir(fat, e, z.dir, h) /\ FileAt(fat, e, h, q, z)
        /\ Ent(fat, e, h, q) = Ent(fat, data, h, q)
    BY <1>2, <1>11, <2>1, <2>2, <2>3, MarkKeepsFile
  <2>5. \A x : Spared(next, h, x)
    BY <1>7, <1>8, <1>9, <1>10, <2>2 DEF Spared
  <2> QED BY <2>1, <2>2, <2>4, <2>5, NoneDoomed DEF Kept
<1>16. DoomedOK(fat, e, next)
  BY <1>7, <1>8, <1>9, <1>10, <1>14 DEF StateOK, DoomedOK
<1>17. cur \in Clusters /\ \A item \in list : ItemHere(fat, data, cur, item.pos, item.entry)
  BY <1>2 DEF StateOK, BrowserOK, HomeOK
<1>18. \A item \in list : ItemHere(fat, e, cur, item.pos, item.entry)
  BY <1>14, <1>17
<1>19. PhaseOK(fat, e, next, screen)
  BY <1>7 DEF PhaseOK
<1>20. StateOK(fat, e, next, saved, list, cur, screen)
  BY <1>12, <1>13, <1>15, <1>16, <1>18, <1>19 DEF StateOK
<1>21. StateOK(fat, e, Idle, saved, list, cur, screen)
  BY <1>12, <1>13, <1>15, <1>18, IdlePhase, NoneDoomed DEF StateOK
<1>22. StateOK(fat, data, Idle, saved, list, cur, screen)
  BY <1>15, <1>17, IdlePhase, NoneDoomed DEF StateOK
<1>23. /\ faults' \in Nat
       /\ \/ fat' = fat /\ data' = e /\ op' = next
          \/ fat' = fat /\ data' = e /\ op' = Idle
          \/ fat' = fat /\ data' = data /\ op' = Idle
  BY <1>6 DEF Put, onCard
<1>24. screen' = screen /\ cur' = cur /\ list' = list
  BY <1>1 DEF browser
<1> QED BY <1>1, <1>20, <1>21, <1>22, <1>23, <1>24 DEF SavedNext

\* fat_free_chain frees a cluster to which nothing leads.
LEMMA FreeClusterSaved ==
  ASSUME Fat32Assumption, NEW R, CardOK(fat, data, R, cur, list, screen, op), faults \in Nat,
         StateOK(fat, data, op, saved, list, cur, screen), FreeCluster
  PROVE  SavedNext
<1>1. op.at = "free" /\ op.at \in DeleteSteps /\ UNCHANGED browser /\ data' = data /\ saved' = saved
  BY DEF FreeCluster, DeleteSteps, ghosts
<1>2. DiskOK(fat, data, R) /\ FreeOK(fat, data, R, cur, op)
      /\ BrowserOK(fat, data, R, cur, list, screen)
  BY <1>1, DeletingState DEF DeleteOK
<1> DEFINE k == op.cluster
           g == [fat EXCEPT ![k] = Free]
<1>3. /\ k \in Clusters \ R /\ k # cur /\ NoLinkTo(fat, k) /\ NotHead(data, k)
      /\ BackOK(fat, data, R, cur, op) /\ "at" \in DOMAIN op
  BY <1>2 DEF FreeOK
<1>4. PICK next \in {fat[k], EOC} :
        \/ /\ fat' = g
           /\ op' = With(op, IF next \in Clusters THEN [cluster |-> next] ELSE [at |-> op.back])
        \/ op' = Idle /\ fat' \in {fat, g}
  BY DEF FreeCluster, NextCluster, GiveUp
<1>5. faults' \in Nat
  BY DEF FreeCluster
<1>6. screen' = screen /\ cur' = cur /\ list' = list
  BY <1>1 DEF browser
<1>7. /\ "back" \in DOMAIN op /\ op.back \in {"reload", "rest"}
      /\ op.back = "rest" => "whole" \in DOMAIN op /\ op.whole.in = Root
  BY <1>3 DEF BackOK, WholeOK
<1>8. \A x \in Clusters : x # k => g[x] = fat[x]
  BY <1>2 DEF DiskOK, LinksOK
<1> HIDE DEF k, g
<1>9. \A c \in Clusters : c # k => Same(fat, data, g, data, c)
  BY <1>3, <1>8, FreedApart
<1>10. Root # k /\ Root \in Clusters /\ cur \in Clusters /\ \A c \in Clusters : ChainHead(data, c) => c # k
  BY <1>2, <1>3, ClusterValues DEF ChainHead, DiskOK, RegionOK, BrowserOK, HomeOK
<1>11. AllSame(fat, data, g, data)
  BY <1>9, <1>10 DEF AllSame
<1>12. DirsOK(g, data) /\ NamesOK(data)
  BY <1>2, <1>11, KeepDirs DEF StateOK
<1>13. \A in \in Clusters : in # k => \A pos, item :
         ItemHere(fat, data, in, pos, item) => ItemHere(g, data, in, pos, item)
  BY <1>9, SameView DEF ItemHere
<1>14. \A item \in list : ItemHere(g, data, cur, item.pos, item.entry)
  BY <1>3, <1>10, <1>13 DEF StateOK
<1>15. StateOK(g, data, Idle, saved, list, cur, screen)
  <2>1. \A s \in saved : Kept(g, data, Idle, s)
    BY <1>2, <1>11, KeepKept, NoneDoomed DEF StateOK
  <2> QED BY <1>12, <1>14, <2>1, IdlePhase, NoneDoomed DEF StateOK
<1>16. StateOK(fat, data, Idle, saved, list, cur, screen)
  <2>1. \A s \in saved : Kept(fat, data, Idle, s)
    BY NoneDoomed DEF StateOK, Kept
  <2> QED BY <2>1, IdlePhase, NoneDoomed DEF StateOK
<1>17. CASE op' = Idle /\ fat' \in {fat, g}
  BY <1>1, <1>5, <1>6, <1>15, <1>16, <1>17 DEF SavedNext
<1>18. CASE /\ fat' = g
            /\ op' = With(op, IF next \in Clusters THEN [cluster |-> next] ELSE [at |-> op.back])
  <2>1. /\ op'.at \in {"free", op.back} /\ op'.back = op.back
        /\ "whole" \in DOMAIN op => op'.whole = op.whole
    <3>1. CASE op' = With(op, [cluster |-> next])
      BY <1>1, <1>3, <1>7, <3>1 DEF With
    <3>2. CASE op' = With(op, [at |-> op.back])
      BY <1>1, <1>3, <1>7, <3>2 DEF With
    <3> QED BY <1>18, <3>1, <3>2
  <2>2. WithinWhole(op') <=> op.back = "rest"
    BY <1>7, <2>1 DEF WithinWhole
  <2>3. WithinWhole(op) <=> op.back = "rest"
    BY <1>1 DEF WithinWhole
  <2>4. op'.at \notin {"contents", "mark"} /\ op'.at \in DeleteSteps
    BY <1>7, <2>1 DEF DeleteSteps
  <2>5. \A h, x : Spared(op, h, x) => Spared(op', h, x)
    BY <1>7, <2>1, <2>2, <2>3, <2>4 DEF Spared
  <2>6. DoomedOK(g, data, op')
    BY <1>7, <1>10, <1>13, <2>1, <2>2, <2>3, <2>4 DEF StateOK, DoomedOK
  <2>7. \A s \in saved : Kept(g, data, op', s)
    BY <1>2, <1>11, <2>5, KeepKept DEF StateOK
  <2>8. PhaseOK(g, data, op', screen)
    BY <2>4 DEF PhaseOK, DeleteSteps
  <2>9. StateOK(g, data, op', saved, list, cur, screen)
    BY <1>12, <1>14, <2>6, <2>7, <2>8 DEF StateOK
  <2> QED BY <1>1, <1>5, <1>6, <1>18, <2>9 DEF SavedNext
<1> QED BY <1>4, <1>17, <1>18

-----------------------------------------------------------------------------
(* Fat32Card. Files that stay: the browser, interruptions, and the theorem.*)

\* A list just read shows what is in the slots.
LEMMA ShownHere ==
  ASSUME Fat32Assumption, NEW R, DiskOK(fat, data, R), NEW c \in Clusters,
         NEW s, s \in Seen(c) \/ s = <<>>
  PROVE  \A item \in Shown(s) : ItemHere(fat, data, c, item.pos, item.entry)
<1> SUFFICES ASSUME NEW p \in Listed(s)
             PROVE  ItemHere(fat, data, c, p, EntryAt(s, p))
  BY DEF Shown
<1>1. s \in Seen(c)
  <2> SUFFICES ASSUME s = <<>>
               PROVE  FALSE
    OBVIOUS
  <2>1. s \in Seq(Clusters) /\ Len(s) = 0
    OBVIOUS
  <2>2. p \in Positions(s)
    BY <2>1, ListedIsLive DEF DiskOK
  <2>3. SlotsPerCluster \in Nat /\ 0 * SlotsPerCluster = 0
    BY DEF Fat32Assumption
  <2> QED BY <2>1, <2>2, <2>3 DEF Positions
<1> DEFINE e == EntryAt(s, p)
<1>2. p \in Positions(Chain(c)) /\ EntryOf(data, Chain(c), p) = e
  BY <1>1, ListedEntry
<1> HIDE DEF e
<1>3. p \in Places(fat, c) /\ Ent(fat, data, c, p) = e
  BY <1>2, ChainIs DEF Places, Ent
<1> QED BY <1>3 DEF ItemHere, e

\* Between calls, and whatever cuts a call short, the files kept are kept.
LEMMA SavedIdle ==
  ASSUME StateOK(fat, data, op, saved, list, cur, screen), faults' \in Nat,
         fat' = fat, data' = data, saved' = saved, op' = Idle,
         \A item \in list' : ItemHere(fat, data, cur', item.pos, item.entry)
  PROVE  SavedNext
<1>1. \A s \in saved : Kept(fat, data, Idle, s)
  BY NoneDoomed DEF StateOK, Kept
<1>2. StateOK(fat, data, Idle, saved, list', cur', screen')
  BY <1>1, NoneDoomed, IdlePhase DEF StateOK
<1> QED BY <1>2 DEF SavedNext

\* files_load_dir after a deletion.
LEMMA ReloadSaved ==
  ASSUME Fat32Assumption, NEW R, CardOK(fat, data, R, cur, list, screen, op), faults \in Nat,
         StateOK(fat, data, op, saved, list, cur, screen), Reload
  PROVE  SavedNext
<1>1. /\ op.at = "reload" /\ op.at \in DeleteSteps /\ op' = Idle
      /\ fat' = fat /\ data' = data /\ cur' = cur /\ saved' = saved
  BY DEF Reload, DeleteSteps, onCard, ghosts
<1>2. PICK s : (s \in Seen(cur) \/ s = <<>>) /\ list' = Shown(s) /\ faults' = faults + Cost(s, cur)
  BY DEF Reload
<1>3. screen = "files" /\ DiskOK(fat, data, R) /\ cur \in Clusters
  BY <1>1, DeletingState DEF BrowserOK, HomeOK
<1>4. \A item \in list' : ItemHere(fat, data, cur', item.pos, item.entry)
  BY <1>1, <1>2, <1>3, ShownHere
<1>5. faults' \in Nat
  BY <1>2 DEF Cost
<1> QED BY <1>1, <1>4, <1>5, SavedIdle

\* What the browser may show after a step of it.
Browsed ==
  \/ list' = {} \/ (list' = list /\ cur' = cur)
  \/ \E h \in Clusters : cur' = h /\ list' = Shown(Chain(h))

\* A step of the browser shows nothing, what it showed, or what is in the
\* directory it is in.
LEMMA BrowseSaved ==
  ASSUME Fat32Assumption, NEW R, DiskOK(fat, data, R), faults' \in Nat,
         StateOK(fat, data, op, saved, list, cur, screen),
         fat' = fat, data' = data, saved' = saved, op' = Idle,
         Browsed
  PROVE  SavedNext
<1>1. \A item \in list' : ItemHere(fat, data, cur', item.pos, item.entry)
  <2>1. CASE list' = {}
    BY <2>1
  <2>2. CASE list' = list /\ cur' = cur
    BY <2>2 DEF StateOK
  <2>3. ASSUME NEW h \in Clusters, cur' = h, list' = Shown(Chain(h))
        PROVE  \A item \in list' : ItemHere(fat, data, cur', item.pos, item.entry)
    <3>1. Chain(h) \in Seen(h)
      BY ChainFacts
    <3>2. \A item \in Shown(Chain(h)) : ItemHere(fat, data, h, item.pos, item.entry)
      BY <3>1, ShownHere
    <3> QED BY <2>3, <3>2
  <2> QED BY <2>1, <2>2, <2>3 DEF Browsed
<1> QED BY <1>1, SavedIdle

\* The browser, the SD service, and whatever cuts a call short.
LEMMA OtherSaved ==
  ASSUME Fat32Assumption, NEW R, CardOK(fat, data, R, cur, list, screen, op), faults \in Nat,
         StateOK(fat, data, op, saved, list, cur, screen),
         \/ EnterFiles \/ (\E w \in Writers : EnterWriter(w)) \/ (\E dir \in Clusters : Open(dir))
         \/ SdServiceTick \/ HealthCheckFails \/ TransferFails \/ CardPulled \/ CardInserted
         \/ PowerCut \/ UNCHANGED cardVars
  PROVE  SavedNext
<1>1. DiskOK(fat, data, R) /\ Root \in Clusters
  BY ClusterValues DEF CardOK
<1>2. ASSUME NEW dir \in Clusters, Open(dir)
      PROVE  SavedNext
  <2>1. /\ op' = Idle /\ fat' = fat /\ data' = data /\ saved' = saved /\ faults' = faults
        /\ cur' = dir /\ (list' = {} \/ list' = Shown(Chain(dir)))
    BY <1>2 DEF Open, onCard, ghosts
  <2>2. Browsed
    BY <1>1, <2>1 DEF Browsed
  <2>3. faults' \in Nat
    BY <2>1
  <2> QED BY <1>1, <2>1, <2>2, <2>3, BrowseSaved
<1>3. CASE EnterFiles
  <2>1. /\ op' = Idle /\ fat' = fat /\ data' = data /\ saved' = saved /\ faults' = faults
        /\ cur' = Root /\ (list' = {} \/ list' = Shown(Chain(Root)))
    BY <1>3 DEF EnterFiles, onCard, ghosts
  <2>2. Browsed
    BY <1>1, <2>1 DEF Browsed
  <2>3. faults' \in Nat
    BY <2>1
  <2> QED BY <1>1, <2>1, <2>2, <2>3, BrowseSaved
<1>4. ASSUME NEW w \in Writers, EnterWriter(w)
      PROVE  SavedNext
  <2>1. /\ op' = Idle /\ fat' = fat /\ data' = data /\ saved' = saved /\ faults' = faults
        /\ list' = {}
    BY <1>4 DEF EnterWriter, onCard, ghosts
  <2>2. Browsed
    BY <1>1, <2>1 DEF Browsed
  <2>3. faults' \in Nat
    BY <2>1
  <2> QED BY <1>1, <2>1, <2>2, <2>3, BrowseSaved
<1>5. CASE SdServiceTick
  <2>1. /\ op' = Idle /\ fat' = fat /\ data' = data /\ saved' = saved /\ faults' = faults
        /\ (list' = {} \/ (cur' = Root /\ list' = Shown(Chain(Root))))
    BY <1>5 DEF SdServiceTick, NoteRemoved, onCard, ghosts
  <2>2. Browsed
    BY <1>1, <2>1 DEF Browsed
  <2>3. faults' \in Nat
    BY <2>1
  <2> QED BY <1>1, <2>1, <2>2, <2>3, BrowseSaved
<1>6. CASE HealthCheckFails \/ PowerCut
  <2>1. /\ op' = Idle /\ fat' = fat /\ data' = data /\ saved' = saved /\ faults' = faults + 1
        /\ list' = {}
    BY <1>6 DEF HealthCheckFails, PowerCut, NoteRemoved, onCard, ghosts
  <2>2. Browsed
    BY <1>1, <2>1 DEF Browsed
  <2>3. faults' \in Nat
    BY <2>1
  <2> QED BY <1>1, <2>1, <2>2, <2>3, BrowseSaved
<1>7. CASE TransferFails \/ CardPulled
  <2>1. /\ op' = Idle /\ fat' = fat /\ data' = data /\ saved' = saved /\ faults' = faults + 1
        /\ cur' = cur /\ (list' = list \/ list' = {})
    BY <1>7 DEF TransferFails, CardPulled, GiveUp, onCard, ghosts, browser
  <2>2. Browsed
    BY <1>1, <2>1 DEF Browsed
  <2>3. faults' \in Nat
    BY <2>1
  <2> QED BY <1>1, <2>1, <2>2, <2>3, BrowseSaved
<1>8. CASE CardInserted \/ UNCHANGED cardVars
  <2>1. /\ op' = op /\ fat' = fat /\ data' = data /\ saved' = saved /\ faults' = faults
        /\ list' = list /\ cur' = cur /\ screen' = screen
    BY <1>8 DEF CardInserted, cardVars, onCard, ghosts, browser
  <2> QED BY <2>1 DEF SavedNext
<1> QED BY <1>2, <1>3, <1>4, <1>5, <1>6, <1>7, <1>8

\* Once a failed read was taken for an end, that stays known.
LEMMA MisreadStays ==
  faults \in Nat /\ [CardNext]_cardVars => faults' \in Nat /\ (misread => misread')
<1> SUFFICES ASSUME faults \in Nat, [CardNext]_cardVars
             PROVE  faults' \in Nat /\ (misread => misread')
  OBVIOUS
<1>1. ASSUME NEW s, NEW c
      PROVE  Cost(s, c) \in {0, 1}
  BY DEF Cost
<1>2. \A f, d, next : Put(f, d, next) => faults' \in Nat
  BY DEF Put
<1>3. CASE FindDir
  <2>1. PICK seen : faults' = faults + Cost(seen, Root)
    BY <1>3 DEF FindDir
  <2>2. Cost(seen, Root) \in {0, 1} /\ misread' = misread
    BY <1>1, <1>3 DEF FindDir
  <2> QED BY <2>1, <2>2
<1>4. CASE NextName
  <2>1. PICK seen : /\ faults' = faults + Cost(seen, op.dir)
                    /\ misread' = (misread \/ HighestName(seen) # HighestName(Chain(op.dir)))
    BY <1>4 DEF NextName
  <2>2. Cost(seen, op.dir) \in {0, 1}
    BY <1>1
  <2>3. faults' \in Nat
    BY <2>1, <2>2
  <2>4. misread => misread'
    BY <2>1, Zenon
  <2> QED BY <2>3, <2>4
<1>5. CASE InitDir
  BY <1>2, <1>5 DEF InitDir
<1>6. CASE WriteData
  BY <1>2, <1>6 DEF WriteData
<1>7. CASE TakeCluster
  BY <1>2, <1>7 DEF TakeCluster
<1>8. CASE LinkCluster
  BY <1>2, <1>8 DEF LinkCluster
<1>9. CASE FindSlot
  <2>1. PICK seen : \/ faults' = faults /\ misread' = misread
                    \/ /\ faults' = faults + Cost(seen, op.into)
                       /\ misread' = (misread \/ seen # Chain(op.into))
    BY <1>9 DEF FindSlot
  <2>2. Cost(seen, op.into) \in {0, 1}
    BY <1>1
  <2>3. faults' \in Nat
    BY <2>1, <2>2
  <2>4. misread => misread'
    BY <2>1, Zenon
  <2> QED BY <2>3, <2>4
<1>10. CASE ClearCluster
  BY <1>2, <1>10 DEF ClearCluster
<1>11. CASE JoinCluster
  BY <1>2, <1>11 DEF JoinCluster
<1>12. CASE Enter
  BY <1>2, <1>12 DEF Enter
<1>13. CASE DeleteContents \/ DeleteRest
  BY <1>13 DEF DeleteContents, DeleteRest
<1>14. CASE MarkDeleted
  BY <1>2, <1>14 DEF MarkDeleted
<1>15. CASE FreeCluster
  <2> DEFINE c == NextCluster(op.cluster)
  <2> HIDE DEF c
  <2>1. PICK n : LET missed == IF n = c THEN 0 ELSE 1
                 IN  \/ faults' = faults + missed /\ misread' = (misread \/ missed = 1)
                     \/ faults' = faults + 1 /\ misread' = misread
    BY <1>15 DEF FreeCluster, c
  <2>2. faults' \in Nat
    BY <2>1
  <2>3. misread => misread'
    BY <2>1, Zenon
  <2> QED BY <2>2, <2>3
<1>16. CASE Reload
  BY <1>1, <1>16 DEF Reload
<1>17. CASE (\E size \in 1..MaxFileClusters : BeginSave(size)) \/ (\E item \in list : BeginDelete(item))
  BY <1>17 DEF BeginSave, BeginDelete
<1>18. CASE EnterFiles \/ (\E w \in Writers : EnterWriter(w))
            \/ (\E dir \in Clusters : Open(dir))
  BY <1>18 DEF EnterFiles, EnterWriter, Open
<1>19. CASE SdServiceTick \/ HealthCheckFails \/ TransferFails
  BY <1>19 DEF SdServiceTick, HealthCheckFails, TransferFails
<1>20. CASE CardPulled \/ CardInserted \/ PowerCut \/ UNCHANGED cardVars
  BY <1>20 DEF CardPulled, CardInserted, PowerCut, cardVars
<1> QED BY <1>3, <1>4, <1>5, <1>6, <1>7, <1>8, <1>9, <1>10, <1>11, <1>12, <1>13, <1>14, <1>15,
           <1>16, <1>17, <1>18, <1>19, <1>20 DEF CardNext, Save, Delete

\* On a freshly formatted card nothing is saved, and nothing entered.
LEMMA SavedInvInit == CardInit /\ Fat32Assumption => SavedInv
<1> SUFFICES ASSUME CardInit, Fat32Assumption
             PROVE  faults \in Nat /\ StateOK(fat, data, op, saved, list, cur, screen)
  BY DEF SavedInv
<1>1. /\ fat = [c \in Clusters |-> IF c = Root THEN EOC ELSE Free]
      /\ data = [c \in Clusters |-> IF c = Root THEN Zeroed ELSE Holding(0)]
      /\ op = Idle /\ saved = {} /\ list = {} /\ faults = 0
  BY DEF CardInit
<1>2. Root \in Clusters /\ fat[Root] = EOC /\ EOC \notin Clusters
  BY <1>1, ClusterValues
<1>3. \A x \in Covers(fat, Root) : x = Root
  <2>1. \A y \in Clusters : fat[y] \notin Clusters
    BY <1>1, ClusterValues
  <2>2. /\ Covers(fat, Root) \subseteq Clusters
        /\ \A x \in Covers(fat, Root) : x # Root => \E y \in Clusters : fat[y] = x
    BY <1>2, CoverFacts
  <2> QED BY <2>1, <2>2
<1>4. ASSUME NEW c \in Clusters, NEW i \in Ordinals
      PROVE  Slot(data, c, i) \in {End, Deleted} /\ (c = Root => Slot(data, c, i) = End)
  <2>1. (c = Root /\ data[c] = Zeroed) \/ (c # Root /\ data[c] = Holding(0))
    BY <1>1
  <2> QED BY <2>1 DEF Zeroed, Holding, Slot, Ordinals
<1>5. ASSUME NEW p \in Places(fat, Root)
      PROVE  Ent(fat, data, Root, p) = End
  <2>1. PICK x \in Clusters, i \in Ordinals : Ent(fat, data, Root, p) = Slot(data, x, i)
                                              /\ x \in Covers(fat, Root)
    BY <1>2, EntSlot
  <2> QED BY <1>3, <1>4, <2>1
<1>6. DirsOK(fat, data)
  <2>1. NoGaps(fat, data, Root)
    BY <1>5 DEF NoGaps
  <2> QED BY <1>5, <2>1 DEF DirsOK, End
<1>7. NamesOK(data)
  BY <1>4 DEF NamesOK, End, Deleted
<1> QED BY <1>1, <1>6, <1>7, NoneDoomed, IdlePhase DEF StateOK

\* Every step keeps the invariant.
LEMMA SavedInvStep ==
  CardInv /\ SavedInv /\ [CardNext]_cardVars /\ Fat32Assumption => SavedInv'
<1> SUFFICES ASSUME CardInv, SavedInv, [CardNext]_cardVars, Fat32Assumption,
                    ~misread', ~wild'
             PROVE  SavedNext
  BY MisreadStays DEF SavedInv, SavedNext
<1>1. ~misread /\ ~wild /\ faults \in Nat
  BY MisreadStays, WildStays DEF SavedInv
<1>2. StateOK(fat, data, op, saved, list, cur, screen)
  BY <1>1 DEF SavedInv
<1>3. PICK R : CardOK(fat, data, R, cur, list, screen, op)
  BY <1>1 DEF CardInv
<1>4. CASE \E size \in 1..MaxFileClusters : BeginSave(size)
  BY <1>1, <1>2, <1>3, <1>4, BeginSaveSaved
<1>5. CASE Save
  BY <1>1, <1>2, <1>3, <1>5, FindDirSaved, NextNameSaved, InitDirSaved, WriteDataSaved,
     TakeClusterSaved, LinkClusterSaved, FindSlotSaved, ClearClusterSaved, JoinClusterSaved,
     EnterSaved DEF Save
<1>6. CASE \E item \in list : BeginDelete(item)
  BY <1>1, <1>2, <1>3, <1>6, BeginDeleteSaved
<1>7. CASE Delete
  BY <1>1, <1>2, <1>3, <1>7, DeleteContentsSaved, DeleteRestSaved, MarkDeletedSaved,
     FreeClusterSaved, ReloadSaved DEF Delete
<1>8. CASE \/ EnterFiles \/ (\E w \in Writers : EnterWriter(w)) \/ (\E dir \in Clusters : Open(dir))
           \/ SdServiceTick \/ HealthCheckFails \/ TransferFails \/ CardPulled \/ CardInserted
           \/ PowerCut \/ UNCHANGED cardVars
  BY <1>1, <1>2, <1>3, <1>8, OtherSaved
<1> QED BY <1>4, <1>5, <1>6, <1>7, <1>8 DEF CardNext

\* A file that is kept is found as the property says.
LEMMA KeptIsListed ==
  ASSUME Fat32Assumption, NEW R, DiskOK(fat, data, R), DirsOK(fat, data),
         NEW s, Kept(fat, data, op, s)
  PROVE  \E d \in LiveDirs : d.name = s.dir /\
            \E e \in Files(Chain(d.first)) :
                /\ e.kind = "file" /\ e.id = s.id
                /\ \A other \in Files(Chain(d.first)) \ {e} : other.name # e.name
                /\ LET C == Chain(e.first)
                   IN  Len(C) = s.size /\ \A c \in ToSet(C) : data[c].file = s.id
<1>1. Root \in Clusters /\ NoGaps(fat, data, Root)
  BY ClusterValues DEF DirsOK
<1>2. PICK h \in Clusters : /\ HasDir(fat, data, s.dir, h)
        /\ \E q \in Places(fat, h) : FileAt(fat, data, h, q, s)
  BY DEF Kept
<1>3. PICK q \in Places(fat, h) : FileAt(fat, data, h, q, s)
  BY <1>2
<1>4. PICK p \in Places(fat, Root) : IsDir(Ent(fat, data, Root, p), s.dir, h)
  BY <1>2 DEF HasDir
<1> DEFINE d == Ent(fat, data, Root, p)
           e == Ent(fat, data, h, q)
<1>5. d \in LiveDirs /\ d.name = s.dir /\ d.first = h
  <2>1. Live(d)
    BY <1>4 DEF IsDir, Live
  <2>2. p \in Listed(Chain(Root)) /\ EntryAt(Chain(Root), p) = d
    BY <1>1, <2>1, LiveIsListed
  <2> QED BY <1>4, <2>2 DEF LiveDirs, Files, IsDir
<1>6. NoGaps(fat, data, h) /\ h \in Clusters \ R
  BY <1>2, DirNoGaps, HasDirIsHead
<1>7. /\ e.kind = "file" /\ e.id = s.id /\ Whole(fat, data, e.first, s.size, s.id)
      /\ \A r \in Places(fat, h) :
           Ent(fat, data, h, r).kind = "file" /\ r # q => Ent(fat, data, h, r).name # e.name
  BY <1>3 DEF FileAt
<1>8. e \in Files(Chain(h)) /\ e.first \in Clusters
  <2>1. Live(e)
    BY <1>7 DEF Live
  <2>2. q \in Listed(Chain(h)) /\ EntryAt(Chain(h), q) = e
    BY <1>6, <2>1, LiveIsListed
  <2>3. e.first \in Clusters
    BY <1>6, <2>1, EntFacts
  <2> QED BY <2>2, <2>3 DEF Files
<1>9. ASSUME NEW other \in Files(Chain(h)) \ {e}
      PROVE  other.name # e.name
  <2>1. PICK r \in Listed(Chain(h)) : other = EntryAt(Chain(h), r)
    BY DEF Files
  <2>2. Chain(h) \in Seen(h)
    BY ChainFacts
  <2>3. r \in Positions(Chain(h)) /\ EntryOf(data, Chain(h), r) = other /\ Live(other)
    BY <2>1, <2>2, ListedEntry
  <2>4. r \in Places(fat, h) /\ Ent(fat, data, h, r) = other
    BY <2>3, ChainIs DEF Places, Ent
  <2>5. other.kind = "file" /\ r # q
    BY <1>6, <2>3, <2>4, EntFacts
  <2> QED BY <1>7, <2>4, <2>5
<1> DEFINE k == e.first
<1>10. Len(Chain(k)) = s.size /\ \A c \in ToSet(Chain(k)) : data[c].file = s.id
  <2>1. k \in Clusters /\ Whole(fat, data, k, s.size, s.id)
    BY <1>7, <1>8
  <2> HIDE DEF k
  <2>2. Chain(k) = ChainIn(fat, k) /\ DOMAIN Chain(k) = 1..Len(Chain(k))
    BY <2>1, ChainIs, ChainFacts
  <2> QED BY <2>1, <2>2 DEF Whole, ToSet
<1> HIDE DEF d, e
<1> QED BY <1>5, <1>7, <1>8, <1>9, <1>10 DEF k

\* The invariant gives the property.
LEMMA SavedInvStays == CardInv /\ SavedInv /\ Fat32Assumption => SavedFilesStay
<1> SUFFICES ASSUME CardInv, SavedInv, Fat32Assumption, ~misread, ~wild, NEW s \in saved
             PROVE  \E d \in LiveDirs : d.name = s.dir /\
                      \E e \in Files(Chain(d.first)) :
                        /\ e.kind = "file" /\ e.id = s.id
                        /\ \A other \in Files(Chain(d.first)) \ {e} : other.name # e.name
                        /\ LET C == Chain(e.first)
                           IN  Len(C) = s.size /\ \A c \in ToSet(C) : data[c].file = s.id
  BY Zenon DEF SavedFilesStay
<1>1. PICK R : CardOK(fat, data, R, cur, list, screen, op)
  BY DEF CardInv
<1>2. DiskOK(fat, data, R) /\ DirsOK(fat, data) /\ Kept(fat, data, op, s)
  BY <1>1 DEF CardOK, SavedInv, StateOK
<1> QED BY <1>2, KeptIsListed

\* A file reported saved stays in a directory of its app, whole, with its own
\* contents and under a name of its own there, until the user deletes it: for
\* every size of card, number of saves and number of faults, unless a failed
\* FAT read was taken for the end of a directory or a deletion read on in a
\* buffer of FAT data.
THEOREM SavedFilesStayHolds == CardSpec => []SavedFilesStay
<1>1. CardInit => CardInv /\ SavedInv
  BY CardInvInit, SavedInvInit, Fat32Assumption
<1>2. CardInv /\ SavedInv /\ [CardNext]_cardVars => CardInv' /\ SavedInv'
  BY CardInvStep, SavedInvStep, Fat32Assumption
<1>3. CardInv /\ SavedInv => SavedFilesStay
  BY SavedInvStays, Fat32Assumption
<1> QED BY <1>1, <1>2, <1>3, PTL DEF CardSpec

-----------------------------------------------------------------------------
(* Fat32Card. Clusters in use: what accounts for each.                     *)

\* A directory starts at h: the root, or one entered there.
DirAt(f, d, h) ==
  \/ h = Root
  \/ \E p \in Places(f, Root) : Ent(f, d, Root, p).kind = "dir" /\ Ent(f, d, Root, p).first = h
\* A directory or a file has the cluster x.
Occupied(f, d, x) == \E h \in Clusters : ChainHead(d, h) /\ x \in Covers(f, h)
\* What is entered, is entered in a directory, and in the root only directories.
SlotsHeld(f, d) ==
  \A c \in Clusters, i \in Ordinals : Live(Slot(d, c, i)) =>
    \E h \in Clusters : DirAt(f, d, h) /\ c \in Covers(f, h)
RootDirs(f, d) == \A p \in Places(f, Root) : Live(Ent(f, d, Root, p)) => Ent(f, d, Root, p).kind = "dir"

\* A call has it in hand: it was taken for a save, belongs to what a save is to
\* enter, or is to be freed.
Gathers(o) == o.at \in {"alloc", "link", "init", "write"}
Brings(o) == o.at \in {"slot", "clear", "join", "enter"} \/ (o.at = "alloc" /\ o.then = "clear")
Carried(f, o, x) ==
  \/ Gathers(o) /\ \E i \in 1..Len(o.got) : o.got[i] = x
  \/ o.at \in {"clear", "join"} /\ x = o.got[1]
  \/ Brings(o) /\ x \in Covers(f, o.entry.first)
  \/ o.at = "free" /\ x \in Covers(f, o.cluster)
Accounted(f, d, o) == \A x \in Clusters : f[x] # Free => Occupied(f, d, x) \/ Carried(f, o, x)

\* The entry e is at pos of the directory at in; nothing is entered there before
\* place n, or at all.
ItemNow(f, d, in, pos, e) == pos \in Places(f, in) /\ Ent(f, d, in, pos) = e
ClearedTo(f, d, h, n) == \A p \in Places(f, h) : p < n => ~Live(Ent(f, d, h, p))
NoneLive(f, d, h) == \A p \in Places(f, h) : ~Live(Ent(f, d, h, p))
\* How far the deletion of a directory is.
WithinNow(f, d, o) ==
  /\ ItemNow(f, d, o.whole.in, o.whole.pos, o.whole.entry) /\ o.in = o.whole.entry.first
  /\ {"in", "pos"} \subseteq DOMAIN o /\ o.pos \in Places(f, o.in)
  /\ ClearedTo(f, d, o.in, IF o.at = "mark" THEN o.pos ELSE o.pos + 1)
DoomedNow(f, d, o) ==
  /\ o.at = "contents" => /\ ItemNow(f, d, o.in, o.pos, o.entry)
                          /\ o.from \in Nat /\ ClearedTo(f, d, o.entry.first, o.from)
  /\ o.at = "mark" => ItemNow(f, d, o.in, o.pos, o.entry)
                      /\ (o.entry.kind = "dir" => NoneLive(f, d, o.entry.first))
  /\ WithinWhole(o) => WithinNow(f, d, o)
AccountOK(f, d, o, shown, home) ==
  /\ Accounted(f, d, o) /\ SlotsHeld(f, d) /\ RootDirs(f, d) /\ DoomedNow(f, d, o)
  /\ o = Idle => \A item \in shown : ItemNow(f, d, home, item.pos, item.entry)

\* The invariant, and what a step has to establish.
AccountInv == disturbed \/ misread \/ wild \/ AccountOK(fat, data, op, list, cur)
AccountNext == disturbed' \/ misread' \/ wild' \/ AccountOK(fat', data', op', list', cur')

\* A slot of a chain has a place in the directory.
LEMMA PlaceExists ==
  ASSUME Fat32Assumption, NEW f, NEW c \in Clusters, NEW x \in Covers(f, c), NEW i \in Ordinals
  PROVE  \E p \in Places(f, c) : /\ SlotAt(ChainIn(f, c), p) = <<x, i>>
                                 /\ \A d : Ent(f, d, c, p) = Slot(d, x, i)
<1> DEFINE s == ChainIn(f, c)
           S == SlotsPerCluster
           n == Len(s)
<1>1. n \in Nat \ {0} /\ S \in Nat \ {0}
  BY CoverFacts DEF Fat32Assumption
<1>2. PICK k \in 1..n : x = s[k]
  BY DEF Covers
<1>3. i \in 1..S
  BY DEF Ordinals
<1> DEFINE p == S * (k - 1) + i
<1> HIDE DEF s, n
<1>4. k \in Nat \ {0} /\ k <= n
  BY <1>1, <1>2
<1>5. S * (k - 1) \in Nat /\ p \in Nat /\ p >= 1 /\ p - 1 = S * (k - 1) + (i - 1) /\ p - 1 \in Nat
  <2>1. S * (k - 1) \in Nat
    BY <1>1, <1>4
  <2> HIDE DEF S
  <2> QED BY <1>1, <1>3, <2>1
<1>6. p <= n * S
  <2>1. n - k \in Nat /\ n = k + (n - k)
    BY <1>1, <1>4
  <2>2. PICK j \in Nat : n = k + j
    BY <2>1
  <2>3. (k + j) * S = S * (k - 1) + S + j * S /\ j * S \in Nat
    BY <1>1, <1>4
  <2> HIDE DEF S
  <2> QED BY <1>1, <1>3, <1>5, <2>2, <2>3
<1> DEFINE q == (p - 1) \div S
           r == (p - 1) % S
<1>7. q \in Nat /\ r \in 0..(S - 1) /\ p - 1 = S * q + r
  <2> DEFINE a == p - 1
  <2>1. a \in Nat
    BY <1>5
  <2> HIDE DEF a, S, p
  <2>2. a \div S \in Nat /\ a % S \in 0..(S - 1) /\ a = S * (a \div S) + (a % S)
    BY <1>1, <2>1, DivMod
  <2> QED BY <2>2 DEF a
<1> HIDE DEF q, r
<1>8. q = k - 1
  <2> DEFINE m == k - 1
  <2>1. m \in Nat
    BY <1>4
  <2>2. S * m + (i - 1) = S * q + r
    BY <1>5, <1>7
  <2> HIDE DEF m, p
  <2>3. ~(q < m)
    <3> SUFFICES ASSUME q < m
                 PROVE  FALSE
      OBVIOUS
    <3>1. m - q \in Nat \ {0} /\ m = q + (m - q)
      BY <1>7, <2>1
    <3>2. PICK j \in Nat \ {0} : m = q + j
      BY <3>1
    <3>3. S * (q + j) = S * q + S + S * (j - 1) /\ S * (j - 1) \in Nat /\ S * q \in Nat
      BY <1>1, <1>7, <3>2
    <3> HIDE DEF S
    <3> QED BY <1>1, <1>3, <1>7, <2>2, <3>2, <3>3
  <2>4. ~(m < q)
    <3> SUFFICES ASSUME m < q
                 PROVE  FALSE
      OBVIOUS
    <3>1. q - m \in Nat \ {0} /\ q = m + (q - m)
      BY <1>7, <2>1
    <3>2. PICK j \in Nat \ {0} : q = m + j
      BY <3>1
    <3>3. S * (m + j) = S * m + S + S * (j - 1) /\ S * (j - 1) \in Nat /\ S * m \in Nat
      BY <1>1, <2>1, <3>2
    <3> HIDE DEF S
    <3> QED BY <1>1, <1>3, <1>7, <2>2, <3>2, <3>3
  <2>5. q = m
    BY <1>7, <2>1, <2>3, <2>4
  <2> QED BY <2>5 DEF m
<1>9. r = i - 1
  <2>1. r \in Nat /\ i \in Nat
    BY <1>1, <1>3, <1>7
  <2>2. S * (k - 1) + (i - 1) = S * (k - 1) + r
    BY <1>5, <1>7, <1>8
  <2> HIDE DEF p, S
  <2> QED BY <1>5, <2>1, <2>2
<1>10. q + 1 = k /\ r + 1 = i
  BY <1>1, <1>3, <1>4, <1>8, <1>9
<1>11. SlotAt(s, p) = <<x, i>>
  <2>1. SlotAt(s, p) = <<s[q + 1], r + 1>>
    BY DEF SlotAt, q, r
  <2> QED BY <1>2, <1>10, <2>1
<1>12. p \in Places(f, c)
  <2>1. p \in 1..(n * S) /\ Places(f, c) = 1..(n * S)
    <3>1. n * S \in Nat
      BY <1>1
    <3>2. Places(f, c) = 1..(n * S)
      BY DEF Places, Positions, n, s
    <3> HIDE DEF p, S
    <3> QED BY <1>1, <1>5, <1>6, <3>1, <3>2
  <2> QED BY <2>1
<1> HIDE DEF p
<1>13. \A d : Ent(f, d, c, p) = Slot(d, x, i)
  BY <1>11 DEF Ent, EntryOf, s
<1> QED BY <1>11, <1>12, <1>13 DEF s

\* A directory is a chain of its own.
LEMMA DirIsHead ==
  ASSUME Fat32Assumption, NEW f, NEW d, NEW R, DiskOK(f, d, R), NEW h, DirAt(f, d, h)
  PROVE  ChainHead(d, h) /\ h \in Clusters
<1>1. Root \in Clusters /\ ChainHead(d, Root)
  BY ClusterValues DEF ChainHead
<1>2. ASSUME NEW p \in Places(f, Root), Ent(f, d, Root, p).kind = "dir",
             Ent(f, d, Root, p).first = h
      PROVE  ChainHead(d, h) /\ h \in Clusters
  BY <1>1, <1>2, EntFacts DEF Live
<1> QED BY <1>1, <1>2 DEF DirAt

\* Nothing is entered but what was.
NoMore(d, e) ==
  \A c \in Clusters, i \in Ordinals : Live(Slot(e, c, i)) => Slot(e, c, i) = Slot(d, c, i)

\* A step that touches no directory and no file, and enters nothing, leaves
\* every entry in a directory and every cluster in use.
LEMMA KeepHeld ==
  ASSUME Fat32Assumption, NEW f, NEW d, NEW R, DiskOK(f, d, R), NEW g, NEW e,
         AllSame(f, d, g, e), NoMore(d, e), SlotsHeld(f, d), RootDirs(f, d)
  PROVE  /\ SlotsHeld(g, e) /\ RootDirs(g, e)
         /\ \A x : Occupied(f, d, x) => Occupied(g, e, x)
<1>1. Root \in Clusters /\ Same(f, d, g, e, Root)
  BY ClusterValues DEF AllSame, ChainHead
<1>2. /\ Places(g, Root) = Places(f, Root)
      /\ \A p \in Places(f, Root) : Ent(g, e, Root, p) = Ent(f, d, Root, p)
  BY <1>1, SameView
<1>3. \A h : DirAt(f, d, h) => DirAt(g, e, h)
  BY <1>2 DEF DirAt
<1>4. \A h \in Clusters : ChainHead(d, h) => Covers(g, h) = Covers(f, h)
  BY DEF AllSame, Same, Covers
<1>5. SlotsHeld(g, e)
  <2> SUFFICES ASSUME NEW c \in Clusters, NEW i \in Ordinals, Live(Slot(e, c, i))
               PROVE  \E h \in Clusters : DirAt(g, e, h) /\ c \in Covers(g, h)
    BY DEF SlotsHeld
  <2>1. Live(Slot(d, c, i))
    BY DEF NoMore
  <2>2. PICK h \in Clusters : DirAt(f, d, h) /\ c \in Covers(f, h)
    BY <2>1 DEF SlotsHeld
  <2> QED BY <1>3, <1>4, <2>2, DirIsHead
<1>6. RootDirs(g, e)
  BY <1>2 DEF RootDirs
<1>7. ASSUME NEW h, ChainHead(d, h)
      PROVE  ChainHead(e, h)
  <2>1. CASE h = Root
    BY <2>1 DEF ChainHead
  <2>2. CASE h # Root
    <3>1. PICK c \in Clusters, i \in Ordinals : Live(Slot(d, c, i)) /\ Slot(d, c, i).first = h
      BY <1>7, <2>2 DEF ChainHead, NotHead
    <3>2. PICK b \in Clusters : DirAt(f, d, b) /\ c \in Covers(f, b)
      BY <3>1 DEF SlotsHeld
    <3>3. Same(f, d, g, e, b)
      BY <3>2, DirIsHead DEF AllSame
    <3>4. Slot(e, c, i) = Slot(d, c, i)
      BY <3>2, <3>3 DEF Same, Slot
    <3> QED BY <3>1, <3>4 DEF ChainHead, NotHead
  <2> QED BY <2>1, <2>2
<1>8. ASSUME NEW x, Occupied(f, d, x)
      PROVE  Occupied(g, e, x)
  BY <1>4, <1>7, <1>8 DEF Occupied
<1> QED BY <1>5, <1>6, <1>8

-----------------------------------------------------------------------------
(* Fat32Card. Clusters in use: steps of a save.                            *)

\* What a step hands on to the next one: the clusters it takes, and those that
\* were in hand before and were not freed.
HandedOn(f, g, o, o2) ==
  \A x \in Clusters : g[x] # Free /\ (f[x] = Free \/ Carried(f, o, x)) => Carried(g, o2, x)

\* A write that did not fail.
LEMMA PutDone ==
  ASSUME NEW f, NEW d, NEW next, Put(f, d, next)
  PROVE  disturbed' \/ (fat' = f /\ data' = d /\ op' = next)
BY DEF Put

\* Nothing is deleted in a save, and no list is shown.
LEMMA SavingAccount ==
  ASSUME NEW f, NEW d, NEW o, o.at \in SaveSteps \/ o = Idle, NEW home,
         Accounted(f, d, o), SlotsHeld(f, d), RootDirs(f, d)
  PROVE  AccountOK(f, d, o, {}, home)
BY DEF AccountOK, DoomedNow, WithinWhole, SaveSteps, Idle

\* A step that touches nothing entered and hands on what is in hand keeps every
\* cluster accounted for.
LEMMA KeepAccount ==
  ASSUME Fat32Assumption, NEW f, NEW d, NEW R, DiskOK(f, d, R), NEW g, NEW e,
         AllSame(f, d, g, e), NoMore(d, e), NEW o, Accounted(f, d, o), SlotsHeld(f, d),
         RootDirs(f, d), NEW o2, HandedOn(f, g, o, o2)
  PROVE  Accounted(g, e, o2) /\ SlotsHeld(g, e) /\ RootDirs(g, e)
<1>1. SlotsHeld(g, e) /\ RootDirs(g, e) /\ \A x : Occupied(f, d, x) => Occupied(g, e, x)
  BY KeepHeld
<1>2. ASSUME NEW x \in Clusters, g[x] # Free
      PROVE  Occupied(g, e, x) \/ Carried(g, o2, x)
  BY <1>1, <1>2 DEF Accounted, HandedOn
<1> QED BY <1>1, <1>2 DEF Accounted

\* A write of a save that touches nothing entered.
LEMMA AccountPut ==
  ASSUME Fat32Assumption, NEW R, CardOK(fat, data, R, cur, list, screen, op),
         op.at \in SaveSteps, AccountOK(fat, data, op, list, cur),
         NEW g, NEW e, NEW next, Put(g, e, next), UNCHANGED browser,
         next.at \in SaveSteps \/ next = Idle,
         AllSame(fat, data, g, e), NoMore(data, e), HandedOn(fat, g, op, next)
  PROVE  AccountNext
<1>1. screen \in Writers /\ list = {} /\ DiskOK(fat, data, R)
  BY SavingState DEF BrowserOK, CardOK
<1>2. list' = {} /\ cur' = cur
  BY <1>1 DEF browser
<1>3. Accounted(g, e, next) /\ SlotsHeld(g, e) /\ RootDirs(g, e)
  BY <1>1, KeepAccount DEF AccountOK
<1>4. AccountOK(g, e, next, {}, cur)
  BY <1>3, SavingAccount
<1> QED BY <1>2, <1>4, PutDone DEF AccountNext

\* A step of a save that writes nothing.
LEMMA AccountQuiet ==
  ASSUME Fat32Assumption, NEW R, CardOK(fat, data, R, cur, list, screen, op),
         op.at \in SaveSteps, AccountOK(fat, data, op, list, cur),
         UNCHANGED onCard, UNCHANGED browser, op'.at \in SaveSteps \/ op' = Idle,
         HandedOn(fat, fat, op, op')
  PROVE  AccountNext
<1>1. screen \in Writers /\ list = {} /\ DiskOK(fat, data, R)
  BY SavingState DEF BrowserOK, CardOK
<1>2. list' = {} /\ cur' = cur /\ fat' = fat /\ data' = data
  BY <1>1 DEF browser, onCard
<1>3. AllSame(fat, data, fat, data) /\ NoMore(data, data)
  BY DEF AllSame, Same, NoMore
<1>4. Accounted(fat, data, op') /\ SlotsHeld(fat, data) /\ RootDirs(fat, data)
  BY <1>1, <1>3, KeepAccount DEF AccountOK
<1>5. AccountOK(fat, data, op', {}, cur)
  BY <1>4, SavingAccount
<1> QED BY <1>2, <1>5 DEF AccountNext

\* Nothing is in hand when a call begins to look for its directory or a name.
LEMMA EmptyHands ==
  ASSUME NEW f, NEW o, o.at \notin {"alloc", "link", "init", "write", "clear", "join", "slot",
                                    "enter", "free"}, NEW o2
  PROVE  HandedOn(f, f, o, o2)
BY DEF HandedOn, Carried, Gathers, Brings

\* A save begins with nothing in hand.
LEMMA BeginSaveAccount ==
  ASSUME Fat32Assumption, NEW R, CardOK(fat, data, R, cur, list, screen, op),
         AccountOK(fat, data, op, list, cur), NEW size, BeginSave(size)
  PROVE  AccountNext
<1>1. op = Idle /\ screen \in Writers /\ UNCHANGED browser /\ UNCHANGED onCard
      /\ op' = [at |-> "find_dir", id |-> saves + 1, size |-> size]
  BY DEF BeginSave
<1>2. list = {} /\ op'.at \in SaveSteps /\ DiskOK(fat, data, R)
  BY <1>1 DEF CardOK, BrowserOK, SaveSteps
<1>3. HandedOn(fat, fat, op, op')
  <2>1. op.at = "idle"
    BY <1>1 DEF Idle
  <2> QED BY <2>1, EmptyHands
<1>4. AllSame(fat, data, fat, data) /\ NoMore(data, data)
  BY DEF AllSame, Same, NoMore
<1>5. Accounted(fat, data, op') /\ SlotsHeld(fat, data) /\ RootDirs(fat, data)
  BY <1>2, <1>3, <1>4, KeepAccount DEF AccountOK
<1>6. AccountOK(fat, data, op', {}, cur)
  BY <1>2, <1>5, SavingAccount
<1> QED BY <1>1, <1>2, <1>6 DEF AccountNext, browser, onCard

\* Neither has a save that looks for its directory,
LEMMA FindDirAccount ==
  ASSUME Fat32Assumption, NEW R, CardOK(fat, data, R, cur, list, screen, op),
         AccountOK(fat, data, op, list, cur), FindDir
  PROVE  AccountNext
<1>1. op.at = "find_dir" /\ op.at \in SaveSteps /\ UNCHANGED browser /\ UNCHANGED onCard
  BY DEF FindDir, SaveSteps
<1> DEFINE named(s) == {p \in Listed(s) : EntryAt(s, p).kind = "dir" /\ EntryAt(s, p).name = screen}
<1>2. PICK seen \in Seen(Root) :
        op' = IF named(seen) # {}
              THEN With(op, [at |-> "name", dir |-> EntryAt(seen, Min(named(seen))).first])
              ELSE Alloc(op, 1, "init")
  BY DEF FindDir
<1> HIDE DEF named
<1>3. op'.at \in {"name", "alloc"}
  BY <1>2 DEF With, Alloc
<1>4. HandedOn(fat, fat, op, op') /\ op'.at \in SaveSteps
  BY <1>1, <1>3, EmptyHands DEF SaveSteps
<1> QED BY <1>1, <1>4, AccountQuiet

\* or for a name.
LEMMA NextNameAccount ==
  ASSUME Fat32Assumption, NEW R, CardOK(fat, data, R, cur, list, screen, op),
         AccountOK(fat, data, op, list, cur), NextName
  PROVE  AccountNext
<1>1. op.at = "name" /\ op.at \in SaveSteps /\ UNCHANGED browser /\ UNCHANGED onCard
  BY DEF NextName, SaveSteps
<1>2. PICK seen \in Seen(op.dir) :
        op' = Alloc(With(op, [name |-> HighestName(seen) + 1]), op.size, "write")
  BY DEF NextName
<1>3. op'.at = "alloc"
  BY <1>2 DEF With, Alloc
<1>4. HandedOn(fat, fat, op, op') /\ op'.at \in SaveSteps
  BY <1>1, <1>3, EmptyHands DEF SaveSteps
<1> QED BY <1>1, <1>4, AccountQuiet

\* What is to be entered is still in hand once its slot is found, or while its
\* directory grows.
LEMMA FindSlotAccount ==
  ASSUME Fat32Assumption, NEW R, CardOK(fat, data, R, cur, list, screen, op),
         AccountOK(fat, data, op, list, cur), FindSlot
  PROVE  AccountNext
<1>1. op.at = "slot" /\ op.at \in SaveSteps /\ UNCHANGED browser /\ UNCHANGED onCard
  BY DEF FindSlot, SaveSteps
<1>2. "entry" \in DOMAIN op
  BY <1>1 DEF CardOK, SavingOK, SlotOK, PendingOK
<1>3. \/ \E s : op' = With(op, [at |-> "enter", slot |-> s])
      \/ \E s : op' = Alloc(With(op, [last |-> s]), 1, "clear")
  BY DEF FindSlot
<1>4. op'.entry = op.entry /\ (op'.at = "enter" \/ (op'.at = "alloc" /\ op'.then = "clear"))
  <2>1. ASSUME NEW s, op' = With(op, [at |-> "enter", slot |-> s])
        PROVE  op'.entry = op.entry /\ op'.at = "enter"
    BY <1>2, <2>1 DEF With
  <2>2. ASSUME NEW s, op' = Alloc(With(op, [last |-> s]), 1, "clear")
        PROVE  op'.entry = op.entry /\ op'.at = "alloc" /\ op'.then = "clear"
    BY <1>2, <2>2 DEF With, Alloc
  <2> QED BY <1>3, <2>1, <2>2
<1>5. HandedOn(fat, fat, op, op') /\ op'.at \in SaveSteps
  BY <1>1, <1>4 DEF HandedOn, Carried, Gathers, Brings, SaveSteps
<1> QED BY <1>1, <1>5, AccountQuiet

\* The cluster that fat_alloc_chain takes is in hand with those before it.
LEMMA TakeClusterAccount ==
  ASSUME Fat32Assumption, NEW R, CardOK(fat, data, R, cur, list, screen, op),
         AccountOK(fat, data, op, list, cur), TakeCluster
  PROVE  AccountNext
<1>1. op.at = "alloc" /\ op.at \in SaveSteps /\ UNCHANGED browser
  BY DEF TakeCluster, SaveSteps
<1>2. AllocOK(fat, data, R, op) /\ DiskOK(fat, data, R) /\ LinksOK(fat)
  BY <1>1 DEF CardOK, SavingOK, DiskOK
<1>3. CASE FreeClusters = {}
  BY <1>3 DEF TakeCluster, GiveUp, AccountNext
<1>4. CASE FreeClusters # {}
  <2> DEFINE c == FirstFree
             g == [fat EXCEPT ![c] = EOC]
             step == IF op.got # <<>> THEN "link" ELSE IF op.want = 1 THEN op.then ELSE "alloc"
             next == With(op, [got |-> Append(op.got, c), at |-> step])
  <2>1. Put(g, data, next)
    BY <1>4 DEF TakeCluster
  <2>2. c \in Clusters /\ fat[c] = Free
    BY <1>4, FirstFreeIsFree
  <2> HIDE DEF c
  <2>3. \A x \in Clusters : g[x] = IF x = c THEN EOC ELSE fat[x]
    BY <1>2 DEF LinksOK
  <2> HIDE DEF g
  <2>4. NoLinkTo(fat, c) /\ ~ChainHead(data, c)
    BY <1>2, <2>2, HeadFacts DEF LinksOK, NoLinkTo
  <2>5. AllSame(fat, data, g, data) /\ NoMore(data, data)
    BY <1>2, <2>2, <2>3, <2>4, AllApart DEF NoMore
  <2>6. /\ next.at = step /\ next.got = Append(op.got, c) /\ next.then = op.then
        /\ Carries(op, next)
    <3>1. {"want", "then"} \subseteq DOMAIN op
      BY <1>2 DEF AllocOK
    <3> QED BY <3>1 DEF With, Carries, Luggage
  <2>7. /\ op.got \in Seq(Clusters) /\ Len(op.got) \in Nat /\ op.then \in {"init", "clear", "write"}
        /\ (op.then = "clear" => op.want = 1 /\ op.got = <<>>)
    BY <1>2 DEF AllocOK, GotOK, ForOK
  <2>8. /\ next.at \in {"link", "alloc", "init", "clear", "write"}
        /\ (op.then = "clear" => next.at = "clear" /\ next.got[1] = c)
        /\ (op.then # "clear" => next.at # "clear")
    BY <2>2, <2>6, <2>7
  <2> HIDE DEF next
  <2>9. (\A i \in 1..Len(op.got) : \E j \in 1..Len(next.got) : next.got[j] = op.got[i])
        /\ \E j \in 1..Len(next.got) : next.got[j] = c
    <3>1. Len(next.got) = Len(op.got) + 1 /\ next.got[Len(op.got) + 1] = c
          /\ \A i \in 1..Len(op.got) : next.got[i] = op.got[i]
      BY <2>2, <2>6, <2>7
    <3>2. Len(op.got) + 1 \in 1..Len(next.got) /\ \A i \in 1..Len(op.got) : i \in 1..Len(next.got)
      BY <2>7, <3>1
    <3> QED BY <3>1, <3>2
  <2>10. ASSUME op.then = "clear"
         PROVE  Covers(g, next.entry.first) = Covers(fat, op.entry.first)
    <3>1. PendingOK(fat, data, R, op)
      BY <1>2, <2>10 DEF AllocOK, ForOK
    <3>2. Fresh(fat, data, R, op.entry.first) /\ next.entry = op.entry
      BY <2>6, <3>1 DEF PendingOK, Carries, Luggage
    <3>3. op.entry.first # c
      BY <2>2, <3>2 DEF Fresh
    <3>4. Same(fat, data, g, data, op.entry.first)
      BY <1>2, <2>2, <2>3, <2>4, <3>2, <3>3, TouchApart DEF Fresh
    <3> QED BY <3>2, <3>4 DEF Same, Covers
  <2>11. HandedOn(fat, g, op, next)
    <3> SUFFICES ASSUME NEW x \in Clusters, g[x] # Free, fat[x] = Free \/ Carried(fat, op, x)
                 PROVE  Carried(g, next, x)
      BY DEF HandedOn
    <3>1. op.then = "clear" \/ Gathers(next)
      BY <2>7, <2>8 DEF Gathers
    <3>2. CASE fat[x] = Free
      <4>1. x = c
        BY <2>3, <3>2
      <4>2. CASE op.then = "clear"
        BY <2>8, <4>1, <4>2 DEF Carried
      <4>3. CASE Gathers(next)
        BY <2>9, <4>1, <4>3 DEF Carried
      <4> QED BY <3>1, <4>2, <4>3
    <3>3. CASE \E i \in 1..Len(op.got) : op.got[i] = x
      <4>1. op.then # "clear"
        BY <2>7, <3>3
      <4> QED BY <2>9, <3>1, <3>3, <4>1 DEF Carried
    <3>4. CASE Brings(op) /\ x \in Covers(fat, op.entry.first)
      <4>1. op.then = "clear"
        BY <1>1, <3>4 DEF Brings
      <4>2. Brings(next)
        BY <2>8, <4>1 DEF Brings
      <4> QED BY <2>10, <3>4, <4>1, <4>2 DEF Carried
    <3> QED BY <1>1, <3>2, <3>3, <3>4 DEF Carried
  <2>12. next.at \in SaveSteps
    BY <2>8 DEF SaveSteps
  <2> QED BY <1>1, <2>1, <2>5, <2>11, <2>12, AccountPut
<1> QED BY <1>3, <1>4

\* Linking them keeps them in hand.
LEMMA LinkClusterAccount ==
  ASSUME Fat32Assumption, NEW R, CardOK(fat, data, R, cur, list, screen, op),
         StateOK(fat, data, op, saved, list, cur, screen),
         AccountOK(fat, data, op, list, cur), LinkCluster
  PROVE  AccountNext
<1>1. op.at = "link" /\ op.at \in SaveSteps /\ UNCHANGED browser
  BY DEF LinkCluster, SaveSteps
<1>2. LinkOK(fat, data, R, op) /\ DiskOK(fat, data, R) /\ LinksOK(fat)
  BY <1>1 DEF CardOK, SavingOK, DiskOK
<1> DEFINE n == Len(op.got)
           x == op.got[n - 1]
           y == op.got[n]
           t == op.got[1]
           g == [fat EXCEPT ![x] = y]
           next == With(op, [at |-> IF n = op.want THEN op.then ELSE "alloc"])
<1>3. Put(g, data, next)
  BY DEF LinkCluster
<1>4. /\ GotOK(fat, data, R, op) /\ ForOK(fat, data, R, op, op.then) /\ op.then # "clear"
      /\ n >= 2 /\ {"want", "then"} \subseteq DOMAIN op
  BY <1>2 DEF LinkOK
<1>5. op.got \in Seq(Clusters) /\ n \in Nat /\ "got" \in DOMAIN op
      /\ \A i \in 1..n : op.got[i] \in Clusters
  BY <1>4 DEF GotOK
<1>6. n - 1 \in 1..n /\ n - 1 \in 1..(n - 1) /\ x \in Clusters /\ t \in Clusters
      /\ op.then \in {"init", "clear", "write"}
  BY <1>4, <1>5 DEF ForOK
<1>7. Fresh(fat, data, R, t)
  BY <1>4, <1>5 DEF GotOK
<1>8. next.at = (IF n = op.want THEN op.then ELSE "alloc") /\ next.got = op.got
  BY <1>4, <1>5 DEF With
<1>9. Linked(fat, op.got, n - 1)
  BY <1>1 DEF StateOK, PhaseOK
<1>10. \A z \in Clusters : g[z] = IF z = x THEN y ELSE fat[z]
  BY <1>2 DEF LinksOK
<1>11. NoLinkTo(fat, t) /\ ~ChainHead(data, t)
  BY <1>2, <1>7 DEF Fresh, ChainHead, DiskOK, RegionOK
<1>12. \A i \in 1..(n - 1) : op.got[i] \in Covers(fat, t)
  BY <1>2, <1>4, <1>5, <1>6, <1>9, <1>11, LinkedChain
<1> HIDE DEF x, y, t, g, next
<1>13. AllSame(fat, data, g, data) /\ NoMore(data, data)
  <2>1. x \in Covers(fat, t)
    BY <1>6, <1>12 DEF x
  <2> QED BY <1>2, <1>6, <1>10, <1>11, <2>1, AllApart DEF NoMore
<1>14. next.at \in {"init", "write", "alloc"}
  BY <1>4, <1>6, <1>8
<1>15. HandedOn(fat, g, op, next)
  <2> SUFFICES ASSUME NEW z \in Clusters, g[z] # Free, fat[z] = Free \/ Carried(fat, op, z)
               PROVE  Carried(g, next, z)
    BY DEF HandedOn
  <2>1. \E i \in 1..n : op.got[i] = z
    <3>1. CASE fat[z] = Free
      BY <1>6, <1>10, <3>1 DEF x
    <3>2. CASE Carried(fat, op, z)
      BY <1>1, <3>2 DEF Carried, Brings
    <3> QED BY <3>1, <3>2
  <2> QED BY <1>8, <1>14, <2>1 DEF Carried, Gathers
<1>16. next.at \in SaveSteps
  BY <1>14 DEF SaveSteps
<1> QED BY <1>1, <1>3, <1>13, <1>15, <1>16, AccountPut

\* Writing the clusters taken enters nothing, and they are the chain of the
\* first.
LEMMA BlankAccount ==
  ASSUME Fat32Assumption, NEW R, CardOK(fat, data, R, cur, list, screen, op),
         StateOK(fat, data, op, saved, list, cur, screen), op.at \in {"init", "write", "clear"},
         NEW e, e = [c \in Clusters |-> e[c]],
         \A c \in Clusters : \/ e[c] = data[c]
                             \/ /\ \E i \in 1..Len(op.got) : op.got[i] = c
                                /\ e[c] = Zeroed \/ \E id : e[c] = Holding(id)
  PROVE  /\ AllSame(fat, data, fat, e) /\ NoMore(data, e)
         /\ \A i \in 1..Len(op.got) : op.got[i] \in Covers(fat, op.got[1])
<1>1. /\ AllSame(fat, data, fat, e) /\ Len(ChainIn(fat, op.got[1])) = Len(op.got)
      /\ \A i \in 1..Len(op.got) : ChainIn(fat, op.got[1])[i] = op.got[i]
  BY BlankSaved
<1>2. NoMore(data, e)
  <2>1. Blanked(data, e)
    BY BlankedBy DEF CardOK, DiskOK
  <2> QED BY <2>1, DeadEntries DEF Blanked, NoMore
<1>3. \A i \in 1..Len(op.got) : op.got[i] \in Covers(fat, op.got[1])
  BY <1>1 DEF Covers
<1> QED BY <1>1, <1>2, <1>3

\* The cluster of the directory to be is what is to be entered.
LEMMA InitDirAccount ==
  ASSUME Fat32Assumption, NEW R, CardOK(fat, data, R, cur, list, screen, op),
         StateOK(fat, data, op, saved, list, cur, screen),
         AccountOK(fat, data, op, list, cur), InitDir
  PROVE  AccountNext
<1> DEFINE t == op.got[1]
           e == [data EXCEPT ![op.got[1]] = Zeroed]
           next == With(op, [at |-> "slot", into |-> Root, entry |-> DirEntry(screen, op.got[1])])
<1>1. op.at = "init" /\ op.at \in SaveSteps /\ UNCHANGED browser
      /\ op.at \in {"init", "write", "clear"}
  BY DEF InitDir, SaveSteps
<1>2. Put(fat, e, next)
  BY DEF InitDir
<1>3. ReadyOK(fat, data, R, op, "init") /\ DiskOK(fat, data, R)
  BY <1>1 DEF CardOK, SavingOK
<1>4. Len(op.got) > 0 /\ op.got \in Seq(Clusters)
  BY <1>3 DEF ReadyOK, GotOK
<1>5. t \in Clusters /\ 1 \in 1..Len(op.got)
  BY <1>4
<1>6. next.at = "slot" /\ next.entry.first = t
  BY DEF With, DirEntry
<1> HIDE DEF next
<1>7. e = [c \in Clusters |-> e[c]] /\ \A c \in Clusters : e[c] = IF c = t THEN Zeroed ELSE data[c]
  BY <1>3 DEF DiskOK, ShapeOK
<1> HIDE DEF e
<1>8. /\ AllSame(fat, data, fat, e) /\ NoMore(data, e)
      /\ \A i \in 1..Len(op.got) : op.got[i] \in Covers(fat, op.got[1])
  <2>1. \A c \in Clusters : \/ e[c] = data[c]
                            \/ /\ \E i \in 1..Len(op.got) : op.got[i] = c
                               /\ e[c] = Zeroed \/ \E id : e[c] = Holding(id)
    BY <1>5, <1>7
  <2> QED BY <1>1, <1>7, <2>1, BlankAccount
<1>9. HandedOn(fat, fat, op, next)
  BY <1>1, <1>6, <1>8 DEF HandedOn, Carried, Gathers, Brings
<1>10. next.at \in SaveSteps
  BY <1>6 DEF SaveSteps
<1> QED BY <1>1, <1>2, <1>8, <1>9, <1>10, AccountPut

\* So are the clusters of the file,
LEMMA WriteDataAccount ==
  ASSUME Fat32Assumption, NEW R, CardOK(fat, data, R, cur, list, screen, op),
         StateOK(fat, data, op, saved, list, cur, screen),
         AccountOK(fat, data, op, list, cur), WriteData
  PROVE  AccountNext
<1> DEFINE t == op.got[1]
           e == [c \in Clusters |-> IF c \in ToSet(op.got) THEN Holding(op.id) ELSE data[c]]
           next == [at |-> "slot", into |-> op.dir,
                    entry |-> FileEntry(op.name, op.got[1], op.size, op.id)]
<1>1. op.at = "write" /\ op.at \in SaveSteps /\ UNCHANGED browser
      /\ op.at \in {"init", "write", "clear"}
  BY DEF WriteData, SaveSteps
<1>2. Put(fat, e, next)
  BY DEF WriteData
<1>3. ReadyOK(fat, data, R, op, "write")
  BY <1>1 DEF CardOK, SavingOK
<1>4. op.got \in Seq(Clusters)
  BY <1>3 DEF ReadyOK, GotOK
<1>5. ToSet(op.got) = {op.got[i] : i \in 1..Len(op.got)}
  BY <1>4 DEF ToSet
<1>6. next.at = "slot" /\ next.entry.first = t
  BY DEF FileEntry
<1> HIDE DEF next
<1>7. e = [c \in Clusters |-> e[c]]
      /\ \A c \in Clusters : e[c] = IF c \in ToSet(op.got) THEN Holding(op.id) ELSE data[c]
  OBVIOUS
<1> HIDE DEF e
<1>8. /\ AllSame(fat, data, fat, e) /\ NoMore(data, e)
      /\ \A i \in 1..Len(op.got) : op.got[i] \in Covers(fat, op.got[1])
  <2>1. \A c \in Clusters : \/ e[c] = data[c]
                            \/ /\ \E i \in 1..Len(op.got) : op.got[i] = c
                               /\ e[c] = Zeroed \/ \E id : e[c] = Holding(id)
    BY <1>5, <1>7
  <2> QED BY <1>1, <1>7, <2>1, BlankAccount
<1>9. HandedOn(fat, fat, op, next)
  BY <1>1, <1>6, <1>8 DEF HandedOn, Carried, Gathers, Brings
<1>10. next.at \in SaveSteps
  BY <1>6 DEF SaveSteps
<1> QED BY <1>1, <1>2, <1>8, <1>9, <1>10, AccountPut

\* and the cluster by which a directory is to grow stays in hand once cleared.
LEMMA ClearClusterAccount ==
  ASSUME Fat32Assumption, NEW R, CardOK(fat, data, R, cur, list, screen, op),
         StateOK(fat, data, op, saved, list, cur, screen),
         AccountOK(fat, data, op, list, cur), ClearCluster
  PROVE  AccountNext
<1> DEFINE t == op.got[1]
           e == [data EXCEPT ![op.got[1]] = Zeroed]
           next == With(op, [at |-> "join", slot |-> <<op.got[1], 1>>])
<1>1. op.at = "clear" /\ op.at \in SaveSteps /\ UNCHANGED browser
      /\ op.at \in {"init", "write", "clear"}
  BY DEF ClearCluster, SaveSteps
<1>2. Put(fat, e, next)
  BY DEF ClearCluster
<1>3. ReadyOK(fat, data, R, op, "clear") /\ DiskOK(fat, data, R)
  BY <1>1 DEF CardOK, SavingOK
<1>4. Len(op.got) > 0 /\ op.got \in Seq(Clusters) /\ "got" \in DOMAIN op /\ "entry" \in DOMAIN op
  BY <1>3 DEF ReadyOK, GotOK, ForOK, PendingOK
<1>5. t \in Clusters /\ 1 \in 1..Len(op.got)
  BY <1>4
<1>6. next.at = "join" /\ next.got = op.got /\ next.entry = op.entry
  BY <1>4 DEF With
<1> HIDE DEF next
<1>7. e = [c \in Clusters |-> e[c]] /\ \A c \in Clusters : e[c] = IF c = t THEN Zeroed ELSE data[c]
  BY <1>3 DEF DiskOK, ShapeOK
<1> HIDE DEF e
<1>8. AllSame(fat, data, fat, e) /\ NoMore(data, e)
  <2>1. \A c \in Clusters : \/ e[c] = data[c]
                            \/ /\ \E i \in 1..Len(op.got) : op.got[i] = c
                               /\ e[c] = Zeroed \/ \E id : e[c] = Holding(id)
    BY <1>5, <1>7
  <2> QED BY <1>1, <1>7, <2>1, BlankAccount
<1>9. HandedOn(fat, fat, op, next)
  BY <1>1, <1>6 DEF HandedOn, Carried, Gathers, Brings
<1>10. next.at \in SaveSteps
  BY <1>6 DEF SaveSteps
<1> QED BY <1>1, <1>2, <1>8, <1>9, <1>10, AccountPut

\* All that was entered is entered still, and what is not new was.
NoLess(d, e) ==
  \A x \in Clusters, i \in Ordinals : Live(Slot(d, x, i)) => Slot(e, x, i) = Slot(d, x, i)
OneMore(d, e, within, new) ==
  \A x \in Clusters, i \in Ordinals : Live(Slot(e, x, i)) =>
    Slot(e, x, i) = Slot(d, x, i) \/ (Slot(e, x, i) = new /\ x \in within)

\* A directory that grows, or in which something is entered, keeps every entry
\* in a directory and every cluster in use.
LEMMA HeldBy ==
  ASSUME Fat32Assumption, NEW f, NEW d, NEW R, DiskOK(f, d, R), NEW g, NEW e, NEW c,
         DirAt(f, d, c), Only(f, d, g, e, c), StayLive(f, d, g, e, c),
         Covers(f, c) \subseteq Covers(g, c), NEW new, NoNew(f, d, g, e, c, new),
         OneMore(d, e, Covers(f, c), new), NoLess(d, e),
         c = Root /\ Live(new) => new.kind = "dir", SlotsHeld(f, d), RootDirs(f, d)
  PROVE  /\ SlotsHeld(g, e) /\ RootDirs(g, e)
         /\ \A x : Occupied(f, d, x) => Occupied(g, e, x)
<1>1. Root \in Clusters /\ (c # Root => Same(f, d, g, e, Root)) /\ c \in Clusters
  BY ClusterValues, DirIsHead DEF Only, ChainHead
<1>2. c # Root => /\ Places(g, Root) = Places(f, Root)
                  /\ \A p \in Places(f, Root) : Ent(g, e, Root, p) = Ent(f, d, Root, p)
  BY <1>1, SameView
<1>3. ASSUME NEW h, DirAt(f, d, h)
      PROVE  DirAt(g, e, h)
  <2>1. ASSUME NEW p \in Places(f, Root), Ent(f, d, Root, p).kind = "dir", Ent(f, d, Root, p).first = h
        PROVE  p \in Places(g, Root) /\ Ent(g, e, Root, p) = Ent(f, d, Root, p)
    <3>1. Live(Ent(f, d, Root, p))
      BY <2>1 DEF Live
    <3> QED BY <1>2, <3>1 DEF StayLive
  <2> QED BY <1>3, <2>1 DEF DirAt
<1>4. \A h \in Clusters : ChainHead(d, h) => Covers(f, h) \subseteq Covers(g, h)
  BY DEF Only, Same, Covers
<1>5. SlotsHeld(g, e)
  <2> SUFFICES ASSUME NEW x \in Clusters, NEW i \in Ordinals, Live(Slot(e, x, i))
               PROVE  \E h \in Clusters : DirAt(g, e, h) /\ x \in Covers(g, h)
    BY DEF SlotsHeld
  <2>1. CASE Slot(e, x, i) = Slot(d, x, i)
    <3>1. PICK h \in Clusters : DirAt(f, d, h) /\ x \in Covers(f, h)
      BY <2>1 DEF SlotsHeld
    <3> QED BY <1>3, <1>4, <3>1, DirIsHead
  <2>2. CASE x \in Covers(f, c)
    BY <1>1, <1>3, <2>2
  <2> QED BY <2>1, <2>2 DEF OneMore
<1>6. RootDirs(g, e)
  <2> SUFFICES ASSUME NEW p \in Places(g, Root), Live(Ent(g, e, Root, p))
               PROVE  Ent(g, e, Root, p).kind = "dir"
    BY DEF RootDirs
  <2>1. CASE c # Root
    BY <1>2, <2>1 DEF RootDirs
  <2>2. CASE c = Root
    BY <2>2 DEF NoNew, RootDirs
  <2> QED BY <2>1, <2>2
<1>7. \A h : ChainHead(d, h) => ChainHead(e, h)
  BY DEF NoLess, ChainHead, NotHead
<1>8. ASSUME NEW x, Occupied(f, d, x)
      PROVE  Occupied(g, e, x)
  BY <1>4, <1>7, <1>8 DEF Occupied
<1> QED BY <1>5, <1>6, <1>8

\* The target of a save is a directory.
LEMMA TargetDirAt ==
  ASSUME NEW f, NEW d, NEW o, NEW where, TargetOK(f, d, o, where)
  PROVE  DirAt(f, d, o.into)
<1>1. CASE NewDirOK(f, d, o, where)
  BY <1>1 DEF NewDirOK, DirAt
<1>2. CASE NewFileOK(f, d, o, where)
  BY <1>2 DEF NewFileOK, HasDir, IsDir, DirAt
<1> QED BY <1>1, <1>2 DEF TargetOK

\* fat_dir_find_slots: the cluster belongs to the directory that it joins.
LEMMA JoinClusterAccount ==
  ASSUME Fat32Assumption, NEW R, CardOK(fat, data, R, cur, list, screen, op),
         StateOK(fat, data, op, saved, list, cur, screen),
         AccountOK(fat, data, op, list, cur), JoinCluster
  PROVE  AccountNext
<1> DEFINE x == op.got[1]
           c == op.into
           g == [fat EXCEPT ![op.last] = op.got[1]]
           next == With(op, [at |-> "enter"])
<1>1. op.at = "join" /\ op.at \in SaveSteps /\ UNCHANGED browser
  BY DEF JoinCluster, SaveSteps
<1>2. Put(g, data, next)
  BY DEF JoinCluster
<1>3. JoinOK(fat, data, R, op) /\ DiskOK(fat, data, R) /\ LinksOK(fat)
  BY <1>1 DEF CardOK, SavingOK, DiskOK
<1>4. /\ Fresh(fat, data, R, x) /\ op.last \in Clusters /\ fat[x] = EOC
      /\ PendingOK(fat, data, R, op) /\ "entry" \in DOMAIN op
  BY <1>3 DEF JoinOK, ReadyOK, GotOK, ForOK, PendingOK
<1>5. GrowOK(fat, data, op, screen) /\ \A i \in Ordinals : Slot(data, x, i) = End
  BY <1>1 DEF StateOK, PhaseOK
<1>6. TargetOK(fat, data, op, screen) /\ op.last = Last(ChainIn(fat, c))
  BY <1>5 DEF GrowOK
<1>7. ChainHead(data, c) /\ c \in Clusters /\ NoLinkTo(fat, c) /\ fat[c] # Free
      /\ DirAt(fat, data, c)
  BY <1>3, <1>6, TargetIsDir, HeadFacts, TargetDirAt
<1>8. ~ChainHead(data, x) /\ x \in Clusters /\ NoLinkTo(fat, x) /\ x # c
  BY <1>3, <1>4, <1>7, FreshNotHead
<1>9. next.at = "enter" /\ next.entry = op.entry
  BY <1>4 DEF With
<1> HIDE DEF next
<1>10. LinksOK(g)
  <2>1. op.last \in R => fat[x] = EOC
    BY <1>4
  <2> QED BY <1>3, <1>4, <2>1, LinkDisk DEF DiskOK
<1>11. \A z \in Clusters : g[z] = IF z = op.last THEN x ELSE fat[z]
  BY <1>3 DEF LinksOK
<1> HIDE DEF g
<1>12. /\ Len(ChainIn(g, c)) = Len(ChainIn(fat, c)) + 1
       /\ \A i \in 1..Len(ChainIn(fat, c)) : ChainIn(g, c)[i] = ChainIn(fat, c)[i]
       /\ ChainIn(g, c)[Len(ChainIn(fat, c)) + 1] = x
       /\ op.last \in Covers(fat, c)
  <2> HIDE DEF c, x
  <2> QED BY <1>3, <1>4, <1>6, <1>7, <1>8, <1>10, <1>11, JoinedChain
<1> HIDE DEF x
<1> HIDE DEF c
<1>13. GrownBy(fat, g, data, c, x)
  <2>1. Unused(data, x) /\ Longer(ChainIn(fat, c), ChainIn(g, c), x)
    BY <1>5, <1>12 DEF x, Unused, Longer
  <2> QED BY <1>7, <1>8, <2>1, GrownEntries
<1>14. Covers(fat, c) \subseteq Covers(g, c) /\ x \in Covers(g, c)
  <2>1. Len(ChainIn(fat, c)) \in Nat
    BY <1>7, CoverFacts
  <2> QED BY <1>12, <2>1 DEF Covers
<1>15. \A z \in Clusters : g[z] # fat[z] \/ data[z] # data[z] => z \in Covers(fat, c) \/ fat[z] = Free
  BY <1>11, <1>12
<1>16. Only(fat, data, g, data, c)
  BY <1>3, <1>7, <1>15, TouchApart, HeadFacts DEF Only
<1>17. Same(fat, data, g, data, op.entry.first)
  <2>1. Fresh(fat, data, R, op.entry.first)
    BY <1>4 DEF PendingOK
  <2>2. op.entry.first # c
    BY <1>3, <1>7, <2>1, FreshNotHead
  <2> QED BY <1>3, <1>7, <1>15, <2>1, <2>2, TouchApart, FreshNotHead
<1>18. StayLive(fat, data, g, data, c) /\ NoNew(fat, data, g, data, c, End) /\ ~Live(End)
  BY <1>13 DEF StayLive, NoNew, GrownBy, Live, End
<1>19. SlotsHeld(g, data) /\ RootDirs(g, data) /\ \A z : Occupied(fat, data, z) => Occupied(g, data, z)
  <2>1. OneMore(data, data, Covers(fat, c), End) /\ NoLess(data, data)
    BY DEF OneMore, NoLess
  <2>2. SlotsHeld(fat, data) /\ RootDirs(fat, data)
    BY DEF AccountOK
  <2> QED BY <1>3, <1>7, <1>14, <1>16, <1>18, <2>1, <2>2, HeldBy
<1>20. Accounted(g, data, next)
  <2> SUFFICES ASSUME NEW z \in Clusters, g[z] # Free
               PROVE  Occupied(g, data, z) \/ Carried(g, next, z)
    BY DEF Accounted
  <2>1. fat[z] # Free
    BY <1>3, <1>7, <1>11, <1>12, CoversTaken
  <2>2. CASE Occupied(fat, data, z)
    BY <1>19, <2>2
  <2>3. CASE Carried(fat, op, z)
    <3>1. CASE z = x
      BY <1>7, <1>14, <3>1 DEF Occupied
    <3>2. CASE z \in Covers(fat, op.entry.first)
      <4>1. z \in Covers(g, next.entry.first)
        BY <1>9, <1>17, <3>2 DEF Same, Covers
      <4> QED BY <1>9, <4>1 DEF Carried, Brings
    <3> QED BY <1>1, <2>3, <3>1, <3>2 DEF Carried, Gathers, x
  <2> QED BY <2>1, <2>2, <2>3 DEF AccountOK, Accounted
<1>21. screen \in Writers /\ list = {}
  BY <1>1, SavingState DEF BrowserOK
<1>22. AccountOK(g, data, next, {}, cur)
  BY <1>9, <1>19, <1>20, SavingAccount DEF SaveSteps
<1> QED BY <1>1, <1>2, <1>21, <1>22, PutDone DEF AccountNext, browser

\* fat_dir_write_slots: what is entered has its clusters from then on.
LEMMA EnterAccount ==
  ASSUME Fat32Assumption, NEW R, CardOK(fat, data, R, cur, list, screen, op),
         StateOK(fat, data, op, saved, list, cur, screen),
         AccountOK(fat, data, op, list, cur), Enter
  PROVE  AccountNext
<1> DEFINE c == op.into
           new == op.entry
           s == op.slot
           e == WriteSlot(data, op.slot[1], op.slot[2], op.entry)
           next == IF op.entry.kind = "file" THEN Idle
                   ELSE [at |-> "name", dir |-> op.entry.first, id |-> op.id, size |-> op.size]
<1>1. op.at = "enter" /\ op.at \in SaveSteps /\ UNCHANGED browser
  BY DEF Enter, SaveSteps
<1>2. Put(fat, e, next)
  BY DEF Enter, WriteSlot
<1>3. EnterOK(fat, data, R, op) /\ DiskOK(fat, data, R) /\ LinksOK(fat) /\ ShapeOK(data)
  BY <1>1 DEF CardOK, SavingOK, DiskOK
<1>4. Live(new) /\ Fresh(fat, data, R, new.first) /\ s[1] \in Clusters /\ s[2] \in Ordinals
  BY <1>3 DEF EnterOK, PendingOK
<1>5. TargetOK(fat, data, op, screen)
  BY <1>1 DEF StateOK, PhaseOK
<1>6. PICK p0 \in Places(fat, c) : s = SlotAt(ChainIn(fat, c), p0) /\ ~Live(Ent(fat, data, c, p0))
  BY <1>1 DEF StateOK, PhaseOK
<1>7. ChainHead(data, c) /\ c \in Clusters /\ NoLinkTo(fat, c) /\ fat[c] # Free
      /\ DirAt(fat, data, c)
  BY <1>3, <1>5, TargetIsDir, HeadFacts, TargetDirAt
<1>8. c = Root => new.kind = "dir"
  <2>1. CASE NewDirOK(fat, data, op, screen)
    BY <2>1 DEF NewDirOK
  <2>2. CASE NewFileOK(fat, data, op, screen)
    BY <1>3, <2>2, HasDirIsHead DEF NewFileOK
  <2> QED BY <1>5, <2>1, <2>2 DEF TargetOK
<1>9. next.at \in SaveSteps \/ next = Idle
  BY DEF SaveSteps
<1> HIDE DEF c, new, s, next
<1>10. e = WriteSlot(data, s[1], s[2], new)
  BY DEF s, new
<1> HIDE DEF e
<1>11. \A z \in Clusters, j \in Ordinals :
         Slot(e, z, j) = IF z = s[1] /\ j = s[2] THEN new ELSE Slot(data, z, j)
  BY <1>3, <1>4, <1>10, SlotWrite
<1>12. EnteredAt(fat, data, e, c, p0, new)
  BY <1>3, <1>4, <1>6, <1>7, <1>10, SlotEntered
<1>13. \A p \in Places(fat, c) : Ent(fat, e, c, p) = IF p = p0 THEN new ELSE Ent(fat, data, c, p)
  BY <1>12 DEF EnteredAt
<1>14. Only(fat, data, fat, e, c)
  <2>1. \A y \in Clusters : ChainHead(data, y) => NoLinkTo(fat, y) /\ fat[y] # Free
    BY <1>3, HeadFacts
  <2> QED BY <1>12, <2>1 DEF EnteredAt, Only
<1>15. StayLive(fat, data, fat, e, c) /\ NoNew(fat, data, fat, e, c, new)
  BY <1>6, <1>13 DEF StayLive, NoNew
<1>16. OneMore(data, e, Covers(fat, c), new) /\ NoLess(data, e)
  <2>1. s[1] \in Covers(fat, c)
    BY <1>6, <1>7, PlaceCovered
  <2>2. ~Live(Slot(data, s[1], s[2]))
    BY <1>6 DEF Ent, EntryOf
  <2> QED BY <1>11, <2>1, <2>2 DEF OneMore, NoLess
<1>17. SlotsHeld(fat, e) /\ RootDirs(fat, e) /\ \A z : Occupied(fat, data, z) => Occupied(fat, e, z)
  <2>1. SlotsHeld(fat, data) /\ RootDirs(fat, data) /\ Covers(fat, c) \subseteq Covers(fat, c)
    BY DEF AccountOK
  <2> QED BY <1>3, <1>7, <1>8, <1>14, <1>15, <1>16, <2>1, HeldBy
<1>18. ChainHead(e, new.first) /\ new.first \in Clusters
  BY <1>4, <1>11 DEF ChainHead, NotHead, Fresh
<1>19. Accounted(fat, e, next)
  <2> SUFFICES ASSUME NEW z \in Clusters, fat[z] # Free
               PROVE  Occupied(fat, e, z)
    BY DEF Accounted
  <2>1. CASE Occupied(fat, data, z)
    BY <1>17, <2>1
  <2>2. CASE Carried(fat, op, z)
    <3>1. z \in Covers(fat, new.first)
      BY <1>1, <2>2 DEF Carried, Gathers, new
    <3> QED BY <1>18, <3>1 DEF Occupied
  <2> QED BY <2>1, <2>2 DEF AccountOK, Accounted
<1>20. screen \in Writers /\ list = {}
  BY <1>1, SavingState DEF BrowserOK
<1>21. AccountOK(fat, e, next, {}, cur)
  BY <1>9, <1>17, <1>19, SavingAccount
<1> QED BY <1>1, <1>2, <1>20, <1>21, PutDone DEF AccountNext, browser

-----------------------------------------------------------------------------
(* Fat32Card. Clusters in use: steps of a deletion.                        *)

\* A step of a deletion that writes nothing and takes nothing in hand.
LEMMA AccountNoWrite ==
  ASSUME AccountOK(fat, data, op, list, cur), UNCHANGED onCard, UNCHANGED browser,
         op'.at \in DeleteSteps, HandedOn(fat, fat, op, op'), DoomedNow(fat, data, op')
  PROVE  AccountNext
<1>1. fat' = fat /\ data' = data /\ list' = list /\ cur' = cur
  BY DEF onCard, browser
<1>2. op' # Idle
  BY DEF DeleteSteps, Idle
<1>3. Accounted(fat, data, op')
  BY DEF AccountOK, Accounted, HandedOn
<1>4. AccountOK(fat, data, op', list, cur)
  BY <1>2, <1>3 DEF AccountOK
<1> QED BY <1>1, <1>4 DEF AccountNext

\* files_delete_selected: the item is where the list shows it.
LEMMA BeginDeleteAccount ==
  ASSUME Fat32Assumption, NEW R, CardOK(fat, data, R, cur, list, screen, op),
         AccountOK(fat, data, op, list, cur), NEW item \in list, BeginDelete(item)
  PROVE  AccountNext
<1> DEFINE e == item.entry
<1>1. op = Idle /\ UNCHANGED onCard /\ UNCHANGED browser
      /\ op' = [at |-> IF e.kind = "dir" THEN "contents" ELSE "mark",
                in |-> cur, pos |-> item.pos, entry |-> e, from |-> 1, back |-> "reload"]
  BY DEF BeginDelete
<1>2. e.first \in Clusters
  BY DEF CardOK, BrowserOK, ItemOK
<1>3. ItemNow(fat, data, cur, item.pos, e)
  BY <1>1 DEF AccountOK
<1>4. /\ op'.at = (IF e.kind = "dir" THEN "contents" ELSE "mark")
      /\ op'.in = cur /\ op'.pos = item.pos /\ op'.entry = e /\ op'.back = "reload" /\ op'.from = 1
  BY <1>1
<1> HIDE DEF e
<1>5. ClearedTo(fat, data, e.first, 1)
  <2> SUFFICES ASSUME NEW p \in Places(fat, e.first), p < 1
               PROVE  FALSE
    BY DEF ClearedTo
  <2>1. p \in Nat \ {0}
    BY <1>2, PlaceCovered
  <2> QED BY <2>1
<1>6. DoomedNow(fat, data, op') /\ op'.at \in DeleteSteps
  BY <1>3, <1>4, <1>5 DEF DoomedNow, WithinWhole, DeleteSteps
<1>7. HandedOn(fat, fat, op, op')
  <2>1. op.at = "idle"
    BY <1>1 DEF Idle
  <2> QED BY <2>1, EmptyHands
<1> QED BY <1>1, <1>6, <1>7, AccountNoWrite

\* The root and the directories in it have no gaps.
LEMMA HereNoGaps ==
  ASSUME Fat32Assumption, NEW f, NEW d, DirsOK(f, d), NEW pos, NEW e, ItemNow(f, d, Root, pos, e),
         e.kind = "dir"
  PROVE  NoGaps(f, d, e.first)
BY DEF DirsOK, ItemNow

\* files_delete_dir_contents goes on to the first file that is left, or to the
\* directory when none is.
LEMMA DeleteContentsAccount ==
  ASSUME Fat32Assumption, NEW R, CardOK(fat, data, R, cur, list, screen, op),
         StateOK(fat, data, op, saved, list, cur, screen),
         AccountOK(fat, data, op, list, cur), DeleteContents
  PROVE  AccountNext
<1>1. op.at = "contents" /\ op.at \in DeleteSteps /\ UNCHANGED onCard /\ UNCHANGED browser
  BY DEF DeleteContents, DeleteSteps
<1>2. DiskOK(fat, data, R) /\ WholeOK(fat, data, R, cur, op)
  BY <1>1, DeletingState DEF DeleteOK
<1> DEFINE c == op.entry.first
<1>3. /\ {"at", "in", "pos", "entry", "back"} \subseteq DOMAIN op /\ op.back = "reload"
      /\ op.in = Root /\ op.entry.kind = "dir" /\ c \in Clusters \ R
  BY <1>2 DEF WholeOK, ItemOK
<1>4. /\ ItemNow(fat, data, op.in, op.pos, op.entry) /\ op.from \in Nat
      /\ ClearedTo(fat, data, c, op.from)
  BY <1>1 DEF AccountOK, DoomedNow
<1>5. NoGaps(fat, data, c)
  BY <1>3, <1>4, HereNoGaps DEF StateOK
<1> DEFINE inside == Chain(op.entry.first)
           left == {p \in Listed(inside) : p >= op.from}
           next == Min(left)
<1>6. IF left = {} THEN op' = With(op, [at |-> "mark"])
      ELSE op' = [at |-> "mark", in |-> op.entry.first, pos |-> next,
                  entry |-> EntryAt(inside, next), back |-> "rest", whole |-> op]
  BY DEF DeleteContents
<1>7. HandedOn(fat, fat, op, op')
  BY <1>1, EmptyHands
<1>8. inside = ChainIn(fat, c) /\ inside \in Seen(c)
  BY <1>3, ChainIs, ChainFacts
<1>9. \A p \in Places(fat, c) : p \in Nat /\ (Live(Ent(fat, data, c, p)) => p \in left)
  <2> SUFFICES ASSUME NEW p \in Places(fat, c)
               PROVE  p \in Nat /\ (Live(Ent(fat, data, c, p)) => p \in left)
    OBVIOUS
  <2> HIDE DEF c, inside
  <2>1. p \in Nat
    BY <1>3, PlaceCovered
  <2>2. ASSUME Live(Ent(fat, data, c, p))
        PROVE  p \in Listed(inside) /\ p >= op.from
    <3>1. p \in Listed(Chain(c))
      BY <1>3, <1>5, <2>2, LiveIsListed
    <3>2. ~(p < op.from)
      BY <1>4, <2>2 DEF ClearedTo
    <3> QED BY <1>4, <2>1, <3>1, <3>2 DEF inside, c
  <2> QED BY <2>1, <2>2
<1>10. CASE left = {}
  <2>1. NoneLive(fat, data, c)
    BY <1>9, <1>10 DEF NoneLive
  <2>2. op' = With(op, [at |-> "mark"])
    BY <1>6, <1>10
  <2>3. /\ op'.at = "mark" /\ op'.in = op.in /\ op'.pos = op.pos /\ op'.entry = op.entry
        /\ op'.back = "reload"
    BY <1>3, <2>2 DEF With
  <2>4. DoomedNow(fat, data, op') /\ op'.at \in DeleteSteps
    BY <1>4, <2>1, <2>3 DEF DoomedNow, DeleteSteps, WithinWhole
  <2> QED BY <1>1, <1>7, <2>4, AccountNoWrite
<1>11. CASE left # {}
  <2>1. next \in Listed(inside) /\ \A p \in left : next <= p
    <3>1. \A p \in Listed(inside) : p \in Nat
      BY <1>2, <1>3, <1>8, ListedEntry DEF Positions
    <3>2. left \subseteq Nat /\ left \subseteq Listed(inside)
      BY <3>1
    <3> HIDE DEF left
    <3> QED BY <1>11, <3>2, MinIsLeast
  <2> DEFINE e == EntryAt(inside, next)
  <2>2. op' = [at |-> "mark", in |-> c, pos |-> next, entry |-> e, back |-> "rest", whole |-> op]
    BY <1>6, <1>11
  <2> HIDE DEF next
  <2>3. next \in Positions(inside) /\ EntryOf(data, inside, next) = e /\ Live(e)
    BY <1>2, <1>3, <1>8, <2>1, ListedEntry
  <2> HIDE DEF e, inside, left, c
  <2>4. /\ op'.at = "mark" /\ op'.in = c /\ op'.pos = next /\ op'.entry = e
        /\ op'.back = "rest" /\ op'.whole = op /\ {"in", "pos"} \subseteq DOMAIN op'
    BY <2>2
  <2>5. ItemNow(fat, data, c, next, e) /\ next \in Places(fat, c)
    BY <1>8, <2>3 DEF ItemNow, Places, Ent
  <2>6. e.kind = "file"
    BY <1>2, <1>3, <2>3, <2>5, EntFacts DEF ItemNow
  <2>7. ClearedTo(fat, data, c, next)
    <3> SUFFICES ASSUME NEW p \in Places(fat, c), p < next, Live(Ent(fat, data, c, p))
                 PROVE  FALSE
      BY DEF ClearedTo
    <3>1. p \in Nat /\ next <= p
      BY <1>9, <2>1
    <3>2. next \in Nat
      BY <1>9, <2>5
    <3> QED BY <3>1, <3>2
  <2>8. WithinNow(fat, data, op')
    BY <1>4, <2>4, <2>5, <2>7 DEF WithinNow, c
  <2>9. DoomedNow(fat, data, op') /\ op'.at \in DeleteSteps
    BY <2>4, <2>5, <2>6, <2>8 DEF DoomedNow, DeleteSteps
  <2> QED BY <1>1, <1>7, <2>9, AccountNoWrite
<1> QED BY <1>10, <1>11

\* Positions that come later are in no earlier cluster of the chain.
LEMMA IndexGrows ==
  ASSUME Fat32Assumption, NEW s, Len(s) \in Nat, NEW p \in Positions(s), NEW q \in Positions(s),
         p <= q
  PROVE  IndexOf(p) <= IndexOf(q)
<1> DEFINE S == SlotsPerCluster
           a == IndexOf(p)
           b == IndexOf(q)
           i == OrdinalOf(p)
           j == OrdinalOf(q)
<1>1. /\ p \in Nat /\ q \in Nat /\ S \in Nat \ {0} /\ a \in Nat \ {0} /\ b \in Nat \ {0}
      /\ i \in 1..S /\ j \in 1..S /\ p = S * (a - 1) + i /\ q = S * (b - 1) + j
  BY PlaceOf DEF Ordinals, Fat32Assumption
<1> HIDE DEF S, a, b, i, j
<1> SUFFICES ASSUME b < a
             PROVE  FALSE
  BY <1>1 DEF a, b
<1> DEFINE m == b - 1
<1>2. m \in Nat /\ b - 1 = m /\ (a - 1) - m \in Nat \ {0} /\ a - 1 = m + ((a - 1) - m)
  BY <1>1
<1>3. PICK k \in Nat \ {0} : a - 1 = m + k
  BY <1>2
<1> HIDE DEF m
<1>4. S * (m + k) = S * m + S + S * (k - 1) /\ S * (k - 1) \in Nat /\ S * m \in Nat
  BY <1>1, <1>2, <1>3
<1>5. p = S * (m + k) + i /\ q = S * m + j
  BY <1>1, <1>2, <1>3
<1> QED BY <1>1, <1>4, <1>5

\* What is left of the sector follows the entry without a gap.
LEMMA RestIsNext ==
  ASSUME Fat32Assumption, NEW s, Len(s) \in Nat, DOMAIN s = 1..Len(s), IsInjective(s),
         NEW pos \in Positions(s), NEW rest,
         rest = {q \in Positions(s) : q > pos /\ SlotAt(s, q)[1] = SlotAt(s, pos)[1]}
  PROVE  /\ Cardinality(rest) \in Nat
         /\ \A p \in Positions(s) : p > pos /\ p < pos + Cardinality(rest) + 1 => p \in rest
<1>1. \A q \in Positions(s) : q \in Nat /\ SlotAt(s, q)[1] = s[IndexOf(q)] /\ IndexOf(q) \in 1..Len(s)
  BY PlaceOf
<1>2. pos \in Nat
  BY <1>1
<1>3. IsFiniteSet(rest) /\ Cardinality(rest) \in Nat
  <2> DEFINE n == Len(s) * SlotsPerCluster
  <2>1. n \in Nat
    BY DEF Fat32Assumption
  <2>2. Positions(s) = 1..n
    BY DEF Positions
  <2> HIDE DEF n
  <2>3. IsFiniteSet(1..n)
    BY <2>1, FS_Interval
  <2>4. IsFiniteSet(rest)
    BY <2>2, <2>3, FS_Subset
  <2> QED BY <2>4, FS_CardinalityType
<1>4. ASSUME NEW p \in Positions(s), p > pos, p < pos + Cardinality(rest) + 1, p \notin rest
      PROVE  FALSE
  <2>1. p \in Nat /\ s[IndexOf(p)] # s[IndexOf(pos)]
    BY <1>1, <1>4
  <2>2. \A q \in rest : q \in (pos + 1)..(p - 1)
    <3> SUFFICES ASSUME NEW q \in rest, ~(q \in (pos + 1)..(p - 1))
                 PROVE  FALSE
      OBVIOUS
    <3>1. q \in Nat /\ q \in Positions(s) /\ q > pos /\ s[IndexOf(q)] = s[IndexOf(pos)]
      BY <1>1
    <3>2. p <= q /\ pos <= p
      BY <1>2, <1>4, <2>1, <3>1
    <3>3. IndexOf(q) = IndexOf(pos)
      BY <1>1, <3>1 DEF IsInjective
    <3>4. IndexOf(pos) <= IndexOf(p) /\ IndexOf(p) <= IndexOf(q)
      BY <3>1, <3>2, IndexGrows
    <3>5. IndexOf(p) = IndexOf(pos)
      BY <1>1, <3>1, <3>3, <3>4
    <3> QED BY <2>1, <3>5
  <2> DEFINE a == pos + 1
             b == p - 1
  <2>3. a \in Int /\ b \in Int /\ a <= b + 1
    BY <1>2, <1>4, <2>1
  <2>4. rest \subseteq a..b
    BY <2>2
  <2> HIDE DEF a, b
  <2>5. IsFiniteSet(a..b) /\ Cardinality(a..b) = (IF a > b THEN 0 ELSE b - a + 1)
    BY <2>3, FS_Interval
  <2>6. Cardinality(rest) <= Cardinality(a..b)
    BY <2>4, <2>5, FS_Subset
  <2>7. Cardinality(rest) <= b - a + 1
    BY <2>3, <2>5, <2>6
  <2> QED BY <1>2, <1>3, <1>4, <2>1, <2>7 DEF a, b
<1> QED BY <1>3, <1>4

\* A deletion that does not go wild goes on behind what it has cleared.
LEMMA DeleteRestAccount ==
  ASSUME Fat32Assumption, NEW R, CardOK(fat, data, R, cur, list, screen, op),
         StateOK(fat, data, op, saved, list, cur, screen),
         AccountOK(fat, data, op, list, cur), DeleteRest
  PROVE  AccountNext
<1> SUFFICES ASSUME ~wild'
             PROVE  AccountNext
  BY DEF AccountNext
<1>1. op.at = "rest" /\ op.at \in DeleteSteps /\ UNCHANGED onCard /\ UNCHANGED browser
  BY DEF DeleteRest, DeleteSteps
<1> DEFINE w == op.whole
           c == op.in
           rest == RestOfSector
           from == op.pos + Cardinality(RestOfSector) + 1
<1>2. WholeOK(fat, data, R, cur, w) /\ DiskOK(fat, data, R)
  BY <1>1, DeletingState DEF DeleteOK
<1>3. /\ {"at", "in", "pos", "entry", "back"} \subseteq DOMAIN w
      /\ w.at = "contents" /\ w.back = "reload" /\ w.in = Root /\ w.entry.kind = "dir"
      /\ w.entry.first \in Clusters \ R
  BY <1>2 DEF WholeOK, ItemOK
<1>4. /\ ItemNow(fat, data, w.in, w.pos, w.entry) /\ c = w.entry.first
      /\ op.pos \in Places(fat, c) /\ ClearedTo(fat, data, c, op.pos + 1)
  BY <1>1 DEF AccountOK, DoomedNow, WithinWhole, WithinNow
<1>5. NoGaps(fat, data, c) /\ c \in Clusters
  BY <1>3, <1>4, HereNoGaps DEF StateOK
<1>6. \/ op' = With(w, [from |-> from]) /\ rest \cap Listed(Chain(c)) = {}
      \/ op' = With(w, [at |-> "mark"]) /\ Listed(Chain(c)) = {}
  BY DEF DeleteRest
<1> DEFINE s == ChainIn(fat, c)
<1>7. /\ Chain(c) = s /\ Len(s) \in Nat /\ DOMAIN s = 1..Len(s) /\ IsInjective(s)
      /\ Places(fat, c) = Positions(s)
  <2>1. IsChain(fat, c, s) /\ Len(s) \in Nat /\ DOMAIN s = 1..Len(s)
    BY <1>5, CoverFacts
  <2>2. ChainHead(data, c) /\ LinksOK(fat)
    <3>1. Live(Ent(fat, data, Root, w.pos)) /\ w.pos \in Places(fat, Root)
          /\ Ent(fat, data, Root, w.pos).first = c
      BY <1>3, <1>4 DEF ItemNow, Live
    <3> QED BY <1>2, <3>1, EntFacts, ClusterValues DEF DiskOK
  <2>3. NoLinkTo(fat, c) /\ fat[c] # Free
    BY <1>2, <2>2, HeadFacts
  <2>4. IsInjective(s)
    BY <1>5, <2>1, <2>2, <2>3, ChainIsWhole
  <2> QED BY <2>1, <2>4, ChainIs DEF Places
<1>8. rest = {q \in Positions(s) : q > op.pos /\ SlotAt(s, q)[1] = SlotAt(s, op.pos)[1]}
  BY <1>7 DEF RestOfSector
<1> HIDE DEF rest, s, c, w
<1>9. /\ Cardinality(rest) \in Nat
      /\ \A p \in Positions(s) : p > op.pos /\ p < op.pos + Cardinality(rest) + 1 => p \in rest
  BY <1>4, <1>7, <1>8, RestIsNext
<1>10. \A p \in Places(fat, c) :
         p \in Nat /\ (Live(Ent(fat, data, c, p)) => p \in Listed(Chain(c)))
  BY <1>5, PlaceCovered, LiveIsListed
<1>11. op.pos \in Nat
  BY <1>4, <1>10
<1>12. HandedOn(fat, fat, op, op')
  BY <1>1, EmptyHands
<1>13. CASE op' = With(w, [from |-> from]) /\ rest \cap Listed(Chain(c)) = {}
  <2>1. from \in Nat /\ from = op.pos + Cardinality(rest) + 1
    BY <1>9, <1>11 DEF rest
  <2> HIDE DEF from
  <2>2. /\ op'.at = "contents" /\ op'.in = w.in /\ op'.pos = w.pos /\ op'.entry = w.entry
        /\ op'.back = "reload" /\ op'.from = from
    BY <1>3, <1>13 DEF With
  <2>3. ClearedTo(fat, data, c, from)
    <3> SUFFICES ASSUME NEW p \in Places(fat, c), p < from, Live(Ent(fat, data, c, p))
                 PROVE  FALSE
      BY DEF ClearedTo
    <3>1. p \in Nat /\ p \in Listed(Chain(c))
      BY <1>10
    <3>2. ~(p < op.pos + 1)
      BY <1>4 DEF ClearedTo
    <3>3. p \in rest
      BY <1>7, <1>9, <1>11, <2>1, <3>1, <3>2
    <3> QED BY <1>13, <3>1, <3>3
  <2>4. DoomedNow(fat, data, op') /\ op'.at \in DeleteSteps
    BY <1>4, <2>1, <2>2, <2>3 DEF DoomedNow, DeleteSteps, WithinWhole
  <2> QED BY <1>1, <1>12, <2>4, AccountNoWrite
<1>14. CASE op' = With(w, [at |-> "mark"]) /\ Listed(Chain(c)) = {}
  <2>1. NoneLive(fat, data, c)
    BY <1>10, <1>14 DEF NoneLive
  <2>2. /\ op'.at = "mark" /\ op'.in = w.in /\ op'.pos = w.pos /\ op'.entry = w.entry
        /\ op'.back = "reload"
    BY <1>3, <1>14 DEF With
  <2>3. DoomedNow(fat, data, op') /\ op'.at \in DeleteSteps
    BY <1>4, <2>1, <2>2 DEF DoomedNow, DeleteSteps, WithinWhole
  <2> QED BY <1>1, <1>12, <2>3, AccountNoWrite
<1> QED BY <1>6, <1>13, <1>14

\* fat_dir_mark_deleted takes out the one entry that the chain had; the chain is
\* in hand from there on, until it is freed.
LEMMA MarkDeletedAccount ==
  ASSUME Fat32Assumption, NEW R, CardOK(fat, data, R, cur, list, screen, op),
         AccountOK(fat, data, op, list, cur), MarkDeleted
  PROVE  AccountNext
<1>1. op.at = "mark" /\ op.at \in DeleteSteps /\ UNCHANGED browser
  BY DEF MarkDeleted, DeleteSteps
<1>2. DiskOK(fat, data, R) /\ ShapeOK(data) /\ MarkOK(fat, data, R, cur, op)
  BY <1>1, DeletingState DEF DeleteOK, DiskOK
<1> DEFINE gone == op.entry
           c == op.in
           s == SlotAt(Chain(op.in), op.pos)
           e == WriteSlot(data, s[1], s[2], Deleted)
           next == With(op, [at |-> "free", cluster |-> op.entry.first])
<1>3. /\ Live(gone) /\ c \in Clusters /\ BackOK(fat, data, R, cur, op)
      /\ {"in", "pos", "entry"} \subseteq DOMAIN op
  BY <1>2 DEF MarkOK, ItemOK
<1>4. /\ op.pos \in Places(fat, c) /\ Ent(fat, data, c, op.pos) = gone
      /\ gone.kind = "dir" => NoneLive(fat, data, gone.first)
      /\ op.back = "rest" => WithinNow(fat, data, op)
  BY <1>1 DEF AccountOK, DoomedNow, ItemNow, WithinWhole
<1>5. s = SlotAt(ChainIn(fat, c), op.pos) /\ Positions(Chain(c)) = Places(fat, c)
  BY ChainIs DEF Places
<1>6. Put(fat, e, next)
  BY <1>4, <1>5 DEF MarkDeleted, WriteSlot
<1>7. /\ next.at = "free" /\ next.cluster = gone.first /\ next.in = op.in /\ next.pos = op.pos
      /\ "back" \in DOMAIN op => next.back = op.back
      /\ "whole" \in DOMAIN op => next.whole = op.whole
      /\ {"in", "pos"} \subseteq DOMAIN next
  BY <1>3 DEF With
<1>8. /\ "back" \in DOMAIN op
      /\ op.back = "rest" => "whole" \in DOMAIN op /\ WholeOK(fat, data, R, cur, op.whole)
  BY <1>3 DEF BackOK
<1>9. s[1] \in Clusters /\ s[2] \in Ordinals /\ Slot(data, s[1], s[2]) = gone
  BY <1>3, <1>4, <1>5, PlaceCovered DEF Ent, EntryOf
<1>10. \A z \in Clusters, j \in Ordinals :
         Slot(e, z, j) = IF z = s[1] /\ j = s[2] THEN Deleted ELSE Slot(data, z, j)
  BY <1>2, <1>9, SlotWrite
<1>11. Marked(fat, data, e, gone)
  BY <1>2, <1>3, <1>4, <1>5, SlotMarked
<1>12. Ent(fat, e, c, op.pos) = Deleted
  BY <1>5, <1>9, <1>10 DEF Ent, EntryOf
<1>13. ~Live(Deleted) /\ Root \in Clusters
  BY DeadEntries, ClusterValues
<1> HIDE DEF e, next, gone, c, s
<1>14. \A x \in Clusters, i \in Ordinals : Live(Slot(e, x, i)) => Slot(e, x, i) = Slot(data, x, i)
  BY <1>10, <1>13
<1>15. ASSUME NEW x \in Clusters, NEW i \in Ordinals, Live(Slot(data, x, i)),
              Slot(data, x, i).first # gone.first
       PROVE  Slot(e, x, i) = Slot(data, x, i)
  BY <1>9, <1>10, <1>15
<1>16. \A z \in Clusters : \A p \in Places(fat, z) :
         \/ Ent(fat, e, z, p) = Ent(fat, data, z, p)
         \/ Ent(fat, e, z, p) = Deleted /\ Ent(fat, data, z, p) \in {gone, Deleted}
  BY <1>11 DEF Marked
<1>17. SlotsHeld(fat, e)
  <2> SUFFICES ASSUME NEW x \in Clusters, NEW i \in Ordinals, Live(Slot(e, x, i))
               PROVE  \E h \in Clusters : DirAt(fat, e, h) /\ x \in Covers(fat, h)
    BY DEF SlotsHeld
  <2>1. Live(Slot(data, x, i))
    BY <1>14
  <2>2. PICK h \in Clusters : DirAt(fat, data, h) /\ x \in Covers(fat, h)
    BY <2>1 DEF AccountOK, SlotsHeld
  <2>3. CASE h = Root
    BY <2>2, <2>3 DEF DirAt
  <2>4. CASE h # Root
    <3>1. PICK p \in Places(fat, Root) :
            Ent(fat, data, Root, p).kind = "dir" /\ Ent(fat, data, Root, p).first = h
      BY <2>2, <2>4 DEF DirAt
    <3>2. Ent(fat, data, Root, p) # gone
      <4> SUFFICES ASSUME Ent(fat, data, Root, p) = gone
                   PROVE  FALSE
        OBVIOUS
      <4>1. NoneLive(fat, data, h)
        BY <1>4, <3>1
      <4>2. PICK q \in Places(fat, h) : \A d : Ent(fat, d, h, q) = Slot(d, x, i)
        BY <2>2, PlaceExists
      <4> QED BY <2>1, <4>1, <4>2 DEF NoneLive
    <3>3. Ent(fat, data, Root, p) # Deleted
      BY <3>1 DEF Deleted
    <3>4. Ent(fat, e, Root, p) = Ent(fat, data, Root, p)
      BY <1>13, <1>16, <3>2, <3>3
    <3> QED BY <2>2, <3>1, <3>4 DEF DirAt
  <2> QED BY <2>3, <2>4
<1>18. RootDirs(fat, e)
  BY <1>13, <1>16 DEF RootDirs, AccountOK
<1>19. Accounted(fat, e, next)
  <2> SUFFICES ASSUME NEW x \in Clusters, fat[x] # Free
               PROVE  Occupied(fat, e, x) \/ Carried(fat, next, x)
    BY DEF Accounted
  <2>1. Occupied(fat, data, x)
    BY <1>1 DEF AccountOK, Accounted, Carried, Gathers, Brings
  <2>2. PICK h \in Clusters : ChainHead(data, h) /\ x \in Covers(fat, h)
    BY <2>1 DEF Occupied
  <2>3. CASE h = gone.first
    BY <1>7, <2>2, <2>3 DEF Carried
  <2>4. CASE h # gone.first
    <3>1. ChainHead(e, h)
      <4>1. CASE h = Root
        BY <4>1 DEF ChainHead
      <4>2. CASE h # Root
        <5>1. PICK y \in Clusters, j \in Ordinals : Live(Slot(data, y, j)) /\ Slot(data, y, j).first = h
          BY <2>2, <4>2 DEF ChainHead, NotHead
        <5>2. Slot(e, y, j) = Slot(data, y, j)
          BY <1>15, <2>4, <5>1
        <5> QED BY <5>1, <5>2 DEF ChainHead, NotHead
      <4> QED BY <4>1, <4>2
    <3> QED BY <2>2, <3>1 DEF Occupied
  <2> QED BY <2>3, <2>4
<1>20. ASSUME op.back = "rest"
       PROVE  WithinNow(fat, e, next)
  <2> DEFINE w == op.whole
  <2>1. /\ WholeOK(fat, data, R, cur, w) /\ next.whole = w /\ WithinNow(fat, data, op)
    BY <1>4, <1>7, <1>8, <1>20
  <2>2. /\ ItemNow(fat, data, w.in, w.pos, w.entry) /\ c = w.entry.first
        /\ ClearedTo(fat, data, c, op.pos)
    BY <1>1, <2>1 DEF WithinNow, c
  <2>3. w.in = Root /\ w.entry.kind = "dir" /\ c \notin R
    BY <2>1, <2>2 DEF WholeOK, ItemOK
  <2> HIDE DEF w
  <2>4. gone.kind = "file"
    BY <1>2, <1>3, <1>4, <2>3, EntFacts
  <2>5. ItemNow(fat, e, w.in, w.pos, w.entry)
    <3>1. w.entry # gone /\ w.entry # Deleted
      BY <2>3, <2>4 DEF Deleted
    <3> QED BY <1>13, <1>16, <2>2, <2>3, <3>1 DEF ItemNow
  <2>6. ClearedTo(fat, e, c, op.pos + 1)
    <3> SUFFICES ASSUME NEW p \in Places(fat, c), p < op.pos + 1, Live(Ent(fat, e, c, p))
                 PROVE  FALSE
      BY DEF ClearedTo
    <3>1. p \in Nat /\ op.pos \in Nat
      BY <1>3, <1>4, PlaceCovered
    <3>2. p # op.pos
      BY <1>12, <1>13
    <3>3. p < op.pos
      BY <3>1, <3>2
    <3>4. Ent(fat, e, c, p) = Ent(fat, data, c, p)
      BY <1>3, <1>13, <1>16
    <3> QED BY <2>2, <3>3, <3>4 DEF ClearedTo
  <2> QED BY <1>4, <1>7, <2>1, <2>2, <2>5, <2>6 DEF WithinNow, c
<1>21. DoomedNow(fat, e, next)
  BY <1>7, <1>8, <1>20 DEF DoomedNow, WithinWhole
<1>22. AccountOK(fat, e, next, list, cur)
  <2>1. next # Idle
    BY <1>7 DEF Idle
  <2> QED BY <1>17, <1>18, <1>19, <1>21, <2>1 DEF AccountOK
<1>23. disturbed' \/ (fat' = fat /\ data' = e /\ op' = next)
  BY <1>6, PutDone
<1>24. cur' = cur /\ list' = list
  BY <1>1 DEF browser
<1> QED BY <1>22, <1>23, <1>24 DEF AccountNext

\* What follows the first cluster of a chain is the chain from the second.
LEMMA ChainTail ==
  ASSUME Fat32Assumption, NEW f, LinksOK(f), NEW g, LinksOK(g), NEW k \in Clusters, NoLinkTo(f, k),
         \A x \in Clusters : x # k => g[x] = f[x], f[k] \in Clusters => NoLinkTo(g, f[k]),
         NEW x \in Covers(f, k), x # k
  PROVE  f[k] \in Clusters /\ x \in Covers(g, f[k])
<1> DEFINE s == ChainIn(f, k)
           t == ChainIn(g, f[k])
<1>1. IsChain(f, k, s)
  BY CoverFacts
<1>2. PICK n \in 1..Len(s) : x = s[n]
  BY DEF Covers
<1> HIDE DEF s
<1>3. /\ DOMAIN s = 1..Len(s) /\ Len(s) \in Nat \ {0} /\ s[1] = k
      /\ \A i \in 1..Len(s) : s[i] \in Clusters
      /\ \A i \in 1..Len(s) : i # 1 => i - 1 \in 1..Len(s) /\ f[s[i - 1]] = s[i]
  BY <1>1, ChainElements
<1>4. n # 1 /\ 2 \in 1..Len(s) /\ 2 # 1 /\ 2 - 1 = 1
  BY <1>2, <1>3
<1>5. f[k] = s[2] /\ f[k] \in Clusters /\ f[k] # k
  BY <1>3, <1>4 DEF NoLinkTo
<1>6. f[f[k]] # Free /\ g[f[k]] # Free /\ NoLinkTo(g, f[k])
  BY <1>5 DEF LinksOK
<1>7. IsChain(g, f[k], t) /\ f[k] \in Covers(g, f[k])
  BY <1>5, CoverFacts
<1>8. g[Last(t)] = EOC
  BY <1>5, <1>6, <1>7, ChainIsWhole
<1>9. /\ Len(t) \in Nat \ {0} /\ \A i \in 1..Len(t) : t[i] \in Clusters
      /\ \A i \in 1..Len(t) : i # 1 => i - 1 \in 1..Len(t) /\ g[t[i - 1]] = t[i]
  BY <1>7, ChainElements
<1>10. Covers(g, f[k]) = {t[i] : i \in 1..Len(t)}
  BY DEF Covers
<1> HIDE DEF t
<1>11. ASSUME NEW y \in Covers(g, f[k]), g[y] \in Clusters
       PROVE  g[y] \in Covers(g, f[k])
  <2>1. PICK i \in 1..Len(t) : y = t[i]
    BY <1>10
  <2>2. i # Len(t)
    BY <1>8, <1>11, <2>1, ClusterValues DEF Last
  <2>3. i + 1 \in 1..Len(t) /\ i + 1 # 1 /\ (i + 1) - 1 = i
    BY <1>9, <2>2
  <2>4. g[y] = t[i + 1]
    BY <1>9, <2>1, <2>3
  <2> QED BY <1>10, <2>3, <2>4
<1> DEFINE Bad == {i \in 1..Len(s) : i # 1 /\ s[i] \notin Covers(g, f[k])}
<1>12. Bad = {}
  <2> SUFFICES ASSUME Bad # {}
               PROVE  FALSE
    OBVIOUS
  <2>1. PICK i \in Bad : \A j \in Bad : i <= j
    <3>1. Bad \in SUBSET Nat
      BY <1>3
    <3> HIDE DEF Bad
    <3> QED BY <3>1, LeastOf
  <2>2. i \in 1..Len(s) /\ i # 1 /\ s[i] \notin Covers(g, f[k])
    BY <2>1
  <2>3. i - 1 \in 1..Len(s) /\ f[s[i - 1]] = s[i] /\ s[i] \in Clusters /\ i - 1 \notin Bad
    BY <1>3, <2>1, <2>2
  <2>4. i # 2
    BY <1>5, <1>7, <2>2
  <2>5. i - 1 # 1
    BY <2>2, <2>4
  <2>6. s[i - 1] \in Covers(g, f[k])
    BY <2>3, <2>5
  <2> DEFINE j == i - 1
  <2>7. j \in 1..Len(s) /\ j # 1 /\ s[j] \in Covers(g, f[k]) /\ f[s[j]] = s[i] /\ s[i] \in Clusters
    BY <2>3, <2>5, <2>6
  <2> HIDE DEF j, Bad
  <2>8. s[j] \in Clusters /\ s[j] # k
    BY <1>3, <2>7 DEF NoLinkTo
  <2>9. g[s[j]] = s[i]
    BY <2>7, <2>8
  <2> QED BY <1>11, <2>2, <2>7, <2>9
<1> QED BY <1>2, <1>4, <1>5, <1>12

\* fat_free_chain: what is not freed yet is in hand still.
LEMMA FreeClusterAccount ==
  ASSUME Fat32Assumption, NEW R, CardOK(fat, data, R, cur, list, screen, op),
         AccountOK(fat, data, op, list, cur), FreeCluster
  PROVE  AccountNext
<1> SUFFICES ASSUME ~misread', ~disturbed'
             PROVE  AccountNext
  BY DEF AccountNext
<1>1. op.at = "free" /\ op.at \in DeleteSteps /\ UNCHANGED browser /\ data' = data
  BY DEF FreeCluster, DeleteSteps
<1>2. DiskOK(fat, data, R) /\ FreeOK(fat, data, R, cur, op) /\ LinksOK(fat)
  BY <1>1, DeletingState DEF DeleteOK, DiskOK
<1> DEFINE k == op.cluster
           g == [fat EXCEPT ![k] = Free]
           next == fat[k]
<1>3. /\ k \in Clusters \ R /\ NoLinkTo(fat, k) /\ NotHead(data, k)
      /\ BackOK(fat, data, R, cur, op) /\ {"at", "cluster"} \subseteq DOMAIN op
  BY <1>2 DEF FreeOK
<1>4. /\ fat' = g
      /\ op' = With(op, IF next \in Clusters THEN [cluster |-> next] ELSE [at |-> op.back])
  <2>1. PICK n \in {NextCluster(op.cluster)} \cup (IF faults < MaxFaults THEN {EOC} ELSE {}) :
          \/ /\ fat' = [fat EXCEPT ![op.cluster] = Free]
             /\ op' = With(op, IF n \in Clusters THEN [cluster |-> n] ELSE [at |-> op.back])
             /\ misread' = (misread \/ (IF n = NextCluster(op.cluster) THEN 0 ELSE 1) = 1)
          \/ GiveUp
    BY DEF FreeCluster
  <2>2. n = NextCluster(op.cluster)
    BY <2>1 DEF GiveUp
  <2> QED BY <2>1, <2>2 DEF GiveUp, NextCluster
<1>5. list' = list /\ cur' = cur
  BY <1>1 DEF browser
<1>6. /\ "back" \in DOMAIN op /\ op.back \in {"reload", "rest"}
      /\ op.back = "rest" => "whole" \in DOMAIN op /\ WholeOK(fat, data, R, cur, op.whole)
  BY <1>3 DEF BackOK
<1>7. (\A x \in Clusters : x # k => g[x] = fat[x]) /\ g[k] = Free
  BY <1>2, <1>3 DEF LinksOK
<1>8. LinksOK(g) /\ (next \in Clusters => NoLinkTo(g, next))
  BY <1>2, <1>3, FreeDisk DEF DiskOK
<1> HIDE DEF k, g, next
<1>9. Root # k /\ Root \in Clusters /\ \A c \in Clusters : ChainHead(data, c) => c # k
  BY <1>2, <1>3, ClusterValues DEF ChainHead, DiskOK, RegionOK
<1>10. \A c \in Clusters : c # k => Same(fat, data, g, data, c)
  BY <1>3, <1>7, FreedApart
<1>11. AllSame(fat, data, g, data) /\ NoMore(data, data)
  BY <1>9, <1>10 DEF AllSame, NoMore
<1>12. /\ next \in Clusters => op'.at = "free" /\ op'.cluster = next
       /\ op'.at \in {"free", op.back} /\ op'.back = op.back
       /\ "whole" \in DOMAIN op => op'.whole = op.whole
       /\ {"in", "pos"} \subseteq DOMAIN op => /\ {"in", "pos"} \subseteq DOMAIN op'
                                               /\ op'.in = op.in /\ op'.pos = op.pos
  <2>1. CASE next \in Clusters
    <3>1. op' = With(op, [cluster |-> next])
      BY <1>4, <2>1
    <3> QED BY <1>1, <1>3, <1>6, <2>1, <3>1 DEF With
  <2>2. CASE next \notin Clusters
    <3>1. op' = With(op, [at |-> op.back])
      BY <1>4, <2>2
    <3> QED BY <1>3, <1>6, <2>2, <3>1 DEF With
  <2> QED BY <2>1, <2>2
<1>13. HandedOn(fat, g, op, op')
  <2> SUFFICES ASSUME NEW x \in Clusters, g[x] # Free, fat[x] = Free \/ Carried(fat, op, x)
               PROVE  Carried(g, op', x)
    BY DEF HandedOn
  <2>1. x # k /\ fat[x] # Free
    BY <1>7
  <2>2. x \in Covers(fat, k)
    BY <1>1, <2>1 DEF Carried, Gathers, Brings, k
  <2>3. next \in Clusters /\ x \in Covers(g, next)
    BY <1>2, <1>3, <1>7, <1>8, <2>1, <2>2, ChainTail DEF next
  <2> QED BY <1>12, <2>3 DEF Carried
<1>14. Accounted(g, data, op') /\ SlotsHeld(g, data) /\ RootDirs(g, data)
  BY <1>2, <1>11, <1>13, KeepAccount DEF AccountOK
<1>15. ASSUME op.back = "rest"
       PROVE  WithinNow(g, data, op')
  <2> DEFINE w == op.whole
             h == op.in
  <2>1. WithinNow(fat, data, op) /\ WholeOK(fat, data, R, cur, w) /\ op'.whole = w
    BY <1>1, <1>6, <1>12, <1>15 DEF AccountOK, DoomedNow, WithinWhole
  <2>2. /\ ItemNow(fat, data, w.in, w.pos, w.entry) /\ h = w.entry.first
        /\ {"in", "pos"} \subseteq DOMAIN op /\ op.pos \in Places(fat, h)
        /\ ClearedTo(fat, data, h, op.pos + 1)
    BY <1>1, <2>1 DEF WithinNow
  <2>3. w.in = Root /\ Live(w.entry) /\ h \in Clusters
    BY <2>1, <2>2 DEF WholeOK, ItemOK
  <2>4. op'.in = h /\ op'.pos = op.pos /\ {"in", "pos"} \subseteq DOMAIN op'
    BY <1>12, <2>2
  <2> HIDE DEF w, h
  <2>5. ChainHead(data, h)
    BY <1>2, <1>9, <2>2, <2>3, EntFacts DEF ItemNow
  <2>6. Same(fat, data, g, data, h) /\ Same(fat, data, g, data, Root)
    BY <1>9, <1>10, <2>3, <2>5
  <2>7. /\ Places(g, h) = Places(fat, h)
        /\ \A p \in Places(fat, h) : Ent(g, data, h, p) = Ent(fat, data, h, p)
    BY <2>3, <2>6, SameView
  <2>8. /\ Places(g, Root) = Places(fat, Root)
        /\ \A p \in Places(fat, Root) : Ent(g, data, Root, p) = Ent(fat, data, Root, p)
    BY <1>9, <2>6, SameView
  <2>9. ItemNow(g, data, w.in, w.pos, w.entry)
    BY <2>2, <2>3, <2>8 DEF ItemNow
  <2>10. ClearedTo(g, data, h, op.pos + 1)
    BY <2>2, <2>7 DEF ClearedTo
  <2>11. op'.at # "mark"
    BY <1>6, <1>12
  <2> QED BY <2>1, <2>2, <2>4, <2>7, <2>9, <2>10, <2>11 DEF WithinNow
<1>16. op'.at \notin {"contents", "mark", "idle"} /\ (WithinWhole(op') => op.back = "rest")
  BY <1>6, <1>12 DEF WithinWhole
<1>17. DoomedNow(g, data, op') /\ op' # Idle
  BY <1>15, <1>16 DEF DoomedNow, Idle
<1>18. AccountOK(g, data, op', list, cur)
  BY <1>14, <1>17 DEF AccountOK
<1> QED BY <1>1, <1>4, <1>5, <1>18 DEF AccountNext

\* A list just read shows what is there.
LEMMA ShownNow ==
  ASSUME Fat32Assumption, NEW R, DiskOK(fat, data, R), NEW c \in Clusters,
         NEW s, s \in Seen(c) \/ s = <<>>
  PROVE  \A item \in Shown(s) : ItemNow(fat, data, c, item.pos, item.entry)
<1> SUFFICES ASSUME NEW p \in Listed(s)
             PROVE  ItemNow(fat, data, c, p, EntryAt(s, p))
  BY DEF Shown
<1>1. s \in Seen(c)
  <2> SUFFICES ASSUME s = <<>>
               PROVE  FALSE
    OBVIOUS
  <2>1. s \in Seq(Clusters) /\ Len(s) = 0
    OBVIOUS
  <2>2. p \in Positions(s)
    BY <2>1, ListedIsLive DEF DiskOK
  <2>3. SlotsPerCluster \in Nat /\ 0 * SlotsPerCluster = 0
    BY DEF Fat32Assumption
  <2> QED BY <2>1, <2>2, <2>3 DEF Positions
<1> DEFINE e == EntryAt(s, p)
<1>2. p \in Positions(Chain(c)) /\ EntryOf(data, Chain(c), p) = e
  BY <1>1, ListedEntry
<1> HIDE DEF e
<1>3. p \in Places(fat, c) /\ Ent(fat, data, c, p) = e
  BY <1>2, ChainIs DEF Places, Ent
<1> QED BY <1>3 DEF ItemNow, e

\* Between calls nothing is in hand, and the list is as it was read.
LEMMA AccountIdle ==
  ASSUME AccountOK(fat, data, op, list, cur), op.at \in {"idle", "reload"},
         fat' = fat, data' = data, op' = Idle,
         \A item \in list' : ItemNow(fat, data, cur', item.pos, item.entry)
  PROVE  AccountNext
<1>1. Accounted(fat, data, Idle)
  BY DEF AccountOK, Accounted, Carried, Gathers, Brings
<1>2. AccountOK(fat, data, Idle, list', cur')
  BY <1>1 DEF AccountOK, DoomedNow, WithinWhole, Idle
<1> QED BY <1>2 DEF AccountNext

\* files_load_dir after a deletion.
LEMMA ReloadAccount ==
  ASSUME Fat32Assumption, NEW R, CardOK(fat, data, R, cur, list, screen, op),
         AccountOK(fat, data, op, list, cur), Reload
  PROVE  AccountNext
<1>1. /\ op.at = "reload" /\ op.at \in DeleteSteps /\ op' = Idle
      /\ fat' = fat /\ data' = data /\ cur' = cur
  BY DEF Reload, DeleteSteps, onCard
<1>2. PICK s : (s \in Seen(cur) \/ s = <<>>) /\ list' = Shown(s)
  BY DEF Reload
<1>3. DiskOK(fat, data, R) /\ cur \in Clusters
  BY <1>1, DeletingState DEF BrowserOK, HomeOK
<1>4. \A item \in list' : ItemNow(fat, data, cur', item.pos, item.entry)
  BY <1>1, <1>2, <1>3, ShownNow
<1> QED BY <1>1, <1>4, AccountIdle

-----------------------------------------------------------------------------
(* Fat32Card. Clusters in use: the browser, and the theorem.               *)

\* A step of the browser shows nothing, what it showed, or what is in the
\* directory it is in.
LEMMA BrowseAccount ==
  ASSUME Fat32Assumption, NEW R, DiskOK(fat, data, R), AccountOK(fat, data, op, list, cur),
         op = Idle, fat' = fat, data' = data, op' = Idle, Browsed
  PROVE  AccountNext
<1>1. \A item \in list' : ItemNow(fat, data, cur', item.pos, item.entry)
  <2>1. CASE list' = {}
    BY <2>1
  <2>2. CASE list' = list /\ cur' = cur
    BY <2>2 DEF AccountOK
  <2>3. ASSUME NEW h \in Clusters, cur' = h, list' = Shown(Chain(h))
        PROVE  \A item \in list' : ItemNow(fat, data, cur', item.pos, item.entry)
    <3>1. Chain(h) \in Seen(h)
      BY ChainFacts
    <3>2. \A item \in Shown(Chain(h)) : ItemNow(fat, data, h, item.pos, item.entry)
      BY <3>1, ShownNow
    <3> QED BY <2>3, <3>2
  <2> QED BY <2>1, <2>2, <2>3 DEF Browsed
<1>2. op.at \in {"idle", "reload"}
  BY DEF Idle
<1> QED BY <1>1, <1>2, AccountIdle

\* The browser, the SD service, and whatever cuts a call short.
LEMMA OtherAccount ==
  ASSUME Fat32Assumption, NEW R, CardOK(fat, data, R, cur, list, screen, op),
         AccountOK(fat, data, op, list, cur),
         \/ EnterFiles \/ (\E w \in Writers : EnterWriter(w)) \/ (\E dir \in Clusters : Open(dir))
         \/ SdServiceTick \/ HealthCheckFails \/ TransferFails \/ CardPulled \/ CardInserted
         \/ PowerCut \/ UNCHANGED cardVars
  PROVE  AccountNext
<1>1. DiskOK(fat, data, R) /\ Root \in Clusters
  BY ClusterValues DEF CardOK
<1>2. ASSUME NEW dir \in Clusters, Open(dir)
      PROVE  AccountNext
  <2>1. /\ op = Idle /\ op' = Idle /\ fat' = fat /\ data' = data
        /\ cur' = dir /\ (list' = {} \/ list' = Shown(Chain(dir)))
    BY <1>2 DEF Open, onCard
  <2>2. Browsed
    BY <1>1, <2>1 DEF Browsed
  <2> QED BY <1>1, <2>1, <2>2, BrowseAccount
<1>3. CASE EnterFiles
  <2>1. /\ op = Idle /\ op' = Idle /\ fat' = fat /\ data' = data
        /\ cur' = Root /\ (list' = {} \/ list' = Shown(Chain(Root)))
    BY <1>3 DEF EnterFiles, onCard
  <2>2. Browsed
    BY <1>1, <2>1 DEF Browsed
  <2> QED BY <1>1, <2>1, <2>2, BrowseAccount
<1>4. ASSUME NEW w \in Writers, EnterWriter(w)
      PROVE  AccountNext
  <2>1. op = Idle /\ op' = Idle /\ fat' = fat /\ data' = data /\ list' = {}
    BY <1>4 DEF EnterWriter, onCard
  <2>2. Browsed
    BY <1>1, <2>1 DEF Browsed
  <2> QED BY <1>1, <2>1, <2>2, BrowseAccount
<1>5. CASE SdServiceTick
  <2>1. /\ op = Idle /\ op' = Idle /\ fat' = fat /\ data' = data
        /\ (list' = {} \/ (cur' = Root /\ list' = Shown(Chain(Root))))
    BY <1>5 DEF SdServiceTick, NoteRemoved, onCard
  <2>2. Browsed
    BY <1>1, <2>1 DEF Browsed
  <2> QED BY <1>1, <2>1, <2>2, BrowseAccount
<1>6. CASE HealthCheckFails
  <2>1. op = Idle /\ op' = Idle /\ fat' = fat /\ data' = data /\ list' = {}
    BY <1>6 DEF HealthCheckFails, NoteRemoved, onCard
  <2>2. Browsed
    BY <1>1, <2>1 DEF Browsed
  <2> QED BY <1>1, <2>1, <2>2, BrowseAccount
<1>7. CASE TransferFails
  BY <1>7 DEF TransferFails, GiveUp, AccountNext
<1>8. CASE CardPulled \/ PowerCut
  <2>1. CASE op # Idle
    <3>1. disturbed' = (disturbed \/ op # Idle)
      BY <1>8 DEF CardPulled, PowerCut
    <3>2. disturbed'
      BY <2>1, <3>1, Zenon
    <3> QED BY <3>2 DEF AccountNext
  <2>2. CASE op = Idle
    <3>1. /\ op' = Idle /\ fat' = fat /\ data' = data
          /\ (list' = {} \/ (list' = list /\ cur' = cur))
      BY <1>8 DEF CardPulled, PowerCut, onCard
    <3>2. Browsed
      BY <1>1, <3>1 DEF Browsed
    <3> QED BY <1>1, <2>2, <3>1, <3>2, BrowseAccount
  <2> QED BY <2>1, <2>2
<1>9. CASE CardInserted \/ UNCHANGED cardVars
  <2>1. /\ op' = op /\ fat' = fat /\ data' = data /\ list' = list /\ cur' = cur
    BY <1>9 DEF CardInserted, cardVars, onCard, browser
  <2> QED BY <2>1 DEF AccountNext
<1> QED BY <1>2, <1>3, <1>4, <1>5, <1>6, <1>7, <1>8, <1>9

\* Once a call failed, that stays known.
LEMMA DisturbedStays == disturbed /\ [CardNext]_cardVars => disturbed'
<1> SUFFICES ASSUME disturbed, [CardNext]_cardVars
             PROVE  disturbed'
  OBVIOUS
<1>1. \A f, d, next : Put(f, d, next) => disturbed'
  BY DEF Put
<1>2. CASE FindDir \/ NextName \/ FindSlot
  BY <1>2 DEF FindDir, NextName, FindSlot
<1>3. CASE InitDir
  BY <1>1, <1>3 DEF InitDir
<1>4. CASE WriteData
  BY <1>1, <1>4 DEF WriteData
<1>5. CASE TakeCluster
  BY <1>1, <1>5 DEF TakeCluster, GiveUp
<1>6. CASE LinkCluster
  BY <1>1, <1>6 DEF LinkCluster
<1>7. CASE ClearCluster
  BY <1>1, <1>7 DEF ClearCluster
<1>8. CASE JoinCluster
  BY <1>1, <1>8 DEF JoinCluster
<1>9. CASE Enter
  BY <1>1, <1>9 DEF Enter
<1>10. CASE DeleteContents \/ DeleteRest
  BY <1>10 DEF DeleteContents, DeleteRest
<1>11. CASE MarkDeleted
  BY <1>1, <1>11 DEF MarkDeleted, GiveUp
<1>12. CASE FreeCluster
  BY <1>12 DEF FreeCluster, GiveUp
<1>13. CASE Reload
  BY <1>13 DEF Reload
<1>14. CASE (\E size \in 1..MaxFileClusters : BeginSave(size)) \/ (\E item \in list : BeginDelete(item))
  BY <1>14 DEF BeginSave, BeginDelete
<1>15. CASE EnterFiles \/ (\E w \in Writers : EnterWriter(w)) \/ (\E dir \in Clusters : Open(dir))
  BY <1>15 DEF EnterFiles, EnterWriter, Open
<1>16. CASE SdServiceTick \/ HealthCheckFails \/ TransferFails \/ CardInserted
  BY <1>16 DEF SdServiceTick, HealthCheckFails, TransferFails, CardInserted, GiveUp
<1>17. CASE CardPulled \/ PowerCut
  <2>1. disturbed' = (disturbed \/ op # Idle)
    BY <1>17 DEF CardPulled, PowerCut
  <2> QED BY <2>1, Zenon
<1>18. CASE UNCHANGED cardVars
  BY <1>18 DEF cardVars
<1> QED BY <1>2, <1>3, <1>4, <1>5, <1>6, <1>7, <1>8, <1>9, <1>10, <1>11, <1>12, <1>13, <1>14,
           <1>15, <1>16, <1>17, <1>18 DEF CardNext, Save, Delete

\* On a freshly formatted card the root is all that is in use.
LEMMA AccountInvInit == CardInit /\ Fat32Assumption => AccountInv
<1> SUFFICES ASSUME CardInit, Fat32Assumption
             PROVE  AccountOK(fat, data, op, list, cur)
  BY DEF AccountInv
<1>1. /\ fat = [c \in Clusters |-> IF c = Root THEN EOC ELSE Free]
      /\ data = [c \in Clusters |-> IF c = Root THEN Zeroed ELSE Holding(0)]
      /\ op = Idle /\ list = {}
  BY DEF CardInit
<1>2. Root \in Clusters
  BY ClusterValues
<1>3. \A c \in Clusters, i \in Ordinals : ~Live(Slot(data, c, i))
  <2> SUFFICES ASSUME NEW c \in Clusters, NEW i \in Ordinals
               PROVE  ~Live(Slot(data, c, i))
    OBVIOUS
  <2>1. data[c] = Zeroed \/ data[c] = Holding(0)
    BY <1>1
  <2>2. Slot(data, c, i) \in {End, Deleted}
    BY <2>1 DEF Zeroed, Holding, Slot, Ordinals
  <2> QED BY <2>2, DeadEntries
<1>4. Accounted(fat, data, op)
  <2>1. Root \in Covers(fat, Root) /\ ChainHead(data, Root)
    BY <1>2, CoverFacts DEF ChainHead
  <2>2. \A x \in Clusters : fat[x] # Free => x = Root
    BY <1>1
  <2> QED BY <1>2, <2>1, <2>2 DEF Accounted, Occupied
<1>5. SlotsHeld(fat, data)
  BY <1>3 DEF SlotsHeld
<1>6. RootDirs(fat, data)
  <2> SUFFICES ASSUME NEW p \in Places(fat, Root)
               PROVE  ~Live(Ent(fat, data, Root, p))
    BY DEF RootDirs
  <2>1. PICK x \in Clusters, i \in Ordinals : Ent(fat, data, Root, p) = Slot(data, x, i)
    BY <1>2, EntSlot
  <2> QED BY <1>3, <2>1
<1> QED BY <1>1, <1>4, <1>5, <1>6 DEF AccountOK, DoomedNow, WithinWhole, Idle

\* Every step keeps the invariant.
LEMMA AccountInvStep ==
  CardInv /\ SavedInv /\ AccountInv /\ [CardNext]_cardVars /\ Fat32Assumption => AccountInv'
<1> SUFFICES ASSUME CardInv, SavedInv, AccountInv, [CardNext]_cardVars, Fat32Assumption,
                    ~disturbed', ~misread', ~wild'
             PROVE  AccountNext
  BY DEF AccountInv, AccountNext
<1>1. ~disturbed /\ ~misread /\ ~wild
  BY DisturbedStays, MisreadStays, WildStays DEF SavedInv
<1>2. StateOK(fat, data, op, saved, list, cur, screen) /\ AccountOK(fat, data, op, list, cur)
  BY <1>1 DEF SavedInv, AccountInv
<1>3. PICK R : CardOK(fat, data, R, cur, list, screen, op)
  BY <1>1 DEF CardInv
<1>4. CASE \E size \in 1..MaxFileClusters : BeginSave(size)
  BY <1>2, <1>3, <1>4, BeginSaveAccount
<1>5. CASE Save
  BY <1>2, <1>3, <1>5, FindDirAccount, NextNameAccount, InitDirAccount, WriteDataAccount,
     TakeClusterAccount, LinkClusterAccount, FindSlotAccount, ClearClusterAccount,
     JoinClusterAccount, EnterAccount DEF Save
<1>6. CASE \E item \in list : BeginDelete(item)
  BY <1>2, <1>3, <1>6, BeginDeleteAccount
<1>7. CASE Delete
  BY <1>2, <1>3, <1>7, DeleteContentsAccount, DeleteRestAccount, MarkDeletedAccount,
     FreeClusterAccount, ReloadAccount DEF Delete
<1>8. CASE \/ EnterFiles \/ (\E w \in Writers : EnterWriter(w)) \/ (\E dir \in Clusters : Open(dir))
           \/ SdServiceTick \/ HealthCheckFails \/ TransferFails \/ CardPulled \/ CardInserted
           \/ PowerCut \/ UNCHANGED cardVars
  BY <1>2, <1>3, <1>8, OtherAccount
<1> QED BY <1>4, <1>5, <1>6, <1>7, <1>8 DEF CardNext

\* A directory or a file is listed, in the root or in a directory of it.
LEMMA HeadIsOwned ==
  ASSUME Fat32Assumption, NEW R, DiskOK(fat, data, R), DirsOK(fat, data), SlotsHeld(fat, data),
         RootDirs(fat, data), NEW h \in Clusters, ChainHead(data, h)
  PROVE  \E o \in Owned : o[3] = Chain(h)
<1>1. Root \in Clusters /\ NoGaps(fat, data, Root)
  BY ClusterValues DEF DirsOK
<1>2. CASE h = Root
  <2> DEFINE o == <<Root, 0, Chain(Root)>>
  <2>1. o \in Owned /\ o[3] = Chain(h)
    BY <1>2 DEF Owned
  <2> QED BY <2>1
<1>3. ASSUME NEW q \in Places(fat, Root), Ent(fat, data, Root, q).kind = "dir",
             NEW o \in ChainsOf(Ent(fat, data, Root, q).first)
      PROVE  o \in Owned
  <2>1. q \in Listed(Chain(Root)) /\ EntryAt(Chain(Root), q) = Ent(fat, data, Root, q)
    BY <1>1, <1>3, LiveIsListed DEF Live
  <2> QED BY <1>3, <2>1 DEF Owned
<1>4. CASE h # Root
  <2>1. PICK c \in Clusters, i \in Ordinals : Live(Slot(data, c, i)) /\ Slot(data, c, i).first = h
    BY <1>4 DEF ChainHead, NotHead
  <2>2. PICK b \in Clusters : DirAt(fat, data, b) /\ c \in Covers(fat, b)
    BY <2>1 DEF SlotsHeld
  <2>3. PICK p \in Places(fat, b) : \A d : Ent(fat, d, b, p) = Slot(d, c, i)
    BY <2>2, PlaceExists
  <2>4. Live(Ent(fat, data, b, p)) /\ Ent(fat, data, b, p).first = h
    BY <2>1, <2>3
  <2>5. CASE b = Root
    <3>1. Ent(fat, data, Root, p).kind = "dir"
      BY <2>4, <2>5 DEF RootDirs
    <3> DEFINE o == <<h, 0, Chain(h)>>
    <3>2. o \in ChainsOf(h) /\ o[3] = Chain(h)
      BY DEF ChainsOf
    <3> HIDE DEF o
    <3>3. o \in Owned
      BY <1>3, <2>4, <2>5, <3>1, <3>2
    <3> QED BY <3>2, <3>3
  <2>6. CASE b # Root
    <3>1. PICK q \in Places(fat, Root) :
            Ent(fat, data, Root, q).kind = "dir" /\ Ent(fat, data, Root, q).first = b
      BY <2>2, <2>6 DEF DirAt
    <3>2. NoGaps(fat, data, b)
      BY <3>1 DEF DirsOK
    <3>3. p \in Listed(Chain(b)) /\ EntryAt(Chain(b), p).first = h
      BY <2>4, <3>2, LiveIsListed
    <3> DEFINE o == <<b, p, Chain(h)>>
    <3>4. o \in ChainsOf(b) /\ o[3] = Chain(h)
      BY <3>3 DEF ChainsOf
    <3> HIDE DEF o
    <3>5. o \in Owned
      BY <1>3, <3>1, <3>4
    <3> QED BY <3>4, <3>5
  <2> QED BY <2>5, <2>6
<1> QED BY <1>2, <1>4

\* The invariants give the property.
LEMMA AccountInvStays ==
  CardInv /\ SavedInv /\ AccountInv /\ Fat32Assumption => NothingLeaks
<1> SUFFICES ASSUME CardInv, SavedInv, AccountInv, Fat32Assumption, op = Idle,
                    ~disturbed, ~misread, ~wild
             PROVE  Clusters \ FreeClusters = UNION {ToSet(o[3]) : o \in Owned}
  BY DEF NothingLeaks
<1>1. PICK R : DiskOK(fat, data, R)
  BY DEF CardInv, CardOK
<1>2. DirsOK(fat, data) /\ AccountOK(fat, data, op, list, cur) /\ LinksOK(fat)
  BY <1>1 DEF SavedInv, StateOK, AccountInv, DiskOK
<1>3. \A h \in Clusters : ToSet(Chain(h)) = Covers(fat, h)
  <2> SUFFICES ASSUME NEW h \in Clusters
               PROVE  ToSet(Chain(h)) = Covers(fat, h)
    OBVIOUS
  <2>1. Chain(h) = ChainIn(fat, h) /\ DOMAIN Chain(h) = 1..Len(Chain(h))
    BY ChainIs, ChainFacts
  <2> QED BY <2>1 DEF Covers, ToSet
<1>4. ASSUME NEW x \in Clusters, fat[x] # Free
      PROVE  \E o \in Owned : x \in ToSet(o[3])
  <2>1. Occupied(fat, data, x)
    BY <1>2, <1>4 DEF AccountOK, Accounted, Carried, Gathers, Brings, Idle
  <2>2. PICK h \in Clusters : ChainHead(data, h) /\ x \in Covers(fat, h)
    BY <2>1 DEF Occupied
  <2>3. PICK o \in Owned : o[3] = Chain(h)
    BY <1>1, <1>2, <2>2, HeadIsOwned DEF AccountOK
  <2> QED BY <1>3, <2>2, <2>3
<1>5. ASSUME NEW o \in Owned, NEW x \in ToSet(o[3])
      PROVE  x \in Clusters /\ fat[x] # Free
  <2>1. PICK h \in Clusters : o[3] = Chain(h) /\ fat[h] # Free
    BY <1>1, OwnedStarts
  <2>2. x \in Covers(fat, h)
    BY <1>3, <1>5, <2>1
  <2> QED BY <1>2, <2>1, <2>2, CoversTaken, CoverFacts
<1>6. \A x : x \in Clusters \ FreeClusters <=> x \in Clusters /\ fat[x] # Free
  BY DEF FreeClusters
<1>7. \A x : x \in Clusters \ FreeClusters <=> \E o \in Owned : x \in ToSet(o[3])
  BY <1>4, <1>5, <1>6
<1> DEFINE T == {ToSet(o[3]) : o \in Owned}
<1>8. \A x : x \in UNION T <=> \E o \in Owned : x \in ToSet(o[3])
  OBVIOUS
<1> HIDE DEF T
<1>9. Clusters \ FreeClusters = UNION T
  BY <1>7, <1>8
<1> QED BY <1>9 DEF T

\* As long as every call succeeds, a cluster that is not free belongs to
\* something listed: for every size of card and number of saves, saving and
\* deleting for ever does not use the card up.
THEOREM NothingLeaksHolds == CardSpec => []NothingLeaks
<1>1. CardInit => CardInv /\ SavedInv /\ AccountInv
  BY CardInvInit, SavedInvInit, AccountInvInit, Fat32Assumption
<1>2. CardInv /\ SavedInv /\ AccountInv /\ [CardNext]_cardVars => CardInv' /\ SavedInv' /\ AccountInv'
  BY CardInvStep, SavedInvStep, AccountInvStep, Fat32Assumption
<1>3. CardInv /\ SavedInv /\ AccountInv => NothingLeaks
  BY AccountInvStays, Fat32Assumption
<1> QED BY <1>1, <1>2, <1>3, PTL DEF CardSpec

=============================================================================
