----------------------------- MODULE SettingsStore -----------------------------
(***************************************************************************)
(* storage/settings_store.c and services/settings_persistence.c over       *)
(* drivers/boot_flash.c: the settings are kept as numbered records in two  *)
(* flash slots, written alternately, and the newest valid one is loaded    *)
(* at start.  The power may fail between any two steps and in the middle   *)
(* of an erase or a program; the flash may time out or report done what    *)
(* did not take, and it stays refused after an error until a restart.      *)
(*                                                                         *)
(* A record is valid as a whole or torn (its CRC); older schemas differ    *)
(* from the current one in their payload's layout only and are not told    *)
(* apart.                                                                  *)
(***************************************************************************)
EXTENDS Integers

CONSTANTS
  Values,       \* settings a user can choose
  Default,      \* settings_defaults
  Delay,        \* SETTINGS_SAVE_DELAY_TICKS
  MaxSequence,  \* bound on the records written
  MaxFailures   \* bound on the failures of the flash

ASSUME SettingsAssumption ==
  /\ Default \in Values
  /\ Delay \in Nat \ {0}
  /\ MaxSequence \in Nat /\ MaxFailures \in Nat

Slots  == {0, 1}
NoSlot == 255
Blank  == [valid |-> FALSE, sequence |-> 0, payload |-> Default]
Torn   == [valid |-> FALSE, sequence |-> 1, payload |-> Default]
Record(n, v) == [valid |-> TRUE, sequence |-> n, payload |-> v]

VARIABLES
  flash,     \* the two settings partitions
  faulted,   \* g_boot_flash_info.faulted
  store,     \* g_settings_storage_ok, g_settings_storage_slot, g_settings_sequence
  settings,  \* the settings in use
  dirty,     \* g_settings_dirty
  ticks,     \* g_settings_save_ticks
  save,      \* the save under way: its next step, target and record
  failures   \* failures of the flash so far

vars == <<flash, faulted, store, settings, dirty, ticks, save, failures>>

NoSave(step) == [step |-> step, target |-> 0, record |-> Blank]
NoStore == [ok |-> FALSE, slot |-> NoSlot, sequence |-> 0]

Init ==
  /\ flash = [s \in Slots |-> Blank]
  /\ faulted = FALSE /\ store = NoStore
  /\ settings = Default /\ dirty = FALSE /\ ticks = 0
  /\ save = NoSave("off") /\ failures = 0

-----------------------------------------------------------------------------
(* Loading                                                                 *)

ValidSlots == {s \in Slots : flash[s].valid}

\* The slot settings_store_init selects: the newer of two valid records,
\* slot 0 on a tie.
Selected ==
  IF ValidSlots = {} THEN NoSlot
  ELSE IF ValidSlots = Slots
  THEN IF flash[1].sequence > flash[0].sequence THEN 1 ELSE 0
  ELSE CHOOSE s \in ValidSlots : TRUE

Loaded == IF Selected = NoSlot THEN Default ELSE flash[Selected].payload

\* settings_storage_init: the defaults, and what the store finds.
Boot ==
  /\ save.step = "off"
  /\ faulted' = FALSE
  /\ store' = [ok |-> TRUE, slot |-> Selected,
               sequence |-> IF Selected = NoSlot THEN 0 ELSE flash[Selected].sequence]
  /\ settings' = Loaded
  /\ dirty' = FALSE /\ ticks' = 0
  /\ save' = NoSave("idle")
  /\ UNCHANGED <<flash, failures>>

Fails == failures < MaxFailures /\ failures' = failures + 1

\* The flash does not answer: persistence is off until the next restart.
BootFails ==
  /\ save.step = "off"
  /\ Fails
  /\ faulted' \in BOOLEAN
  /\ store' = NoStore
  /\ settings' = Default
  /\ dirty' = FALSE /\ ticks' = 0
  /\ save' = NoSave("idle")
  /\ UNCHANGED flash

-----------------------------------------------------------------------------
(* Changing and saving                                                     *)

\* A setter of the settings service, with settings_mark_dirty.
Change(v, immediate) ==
  /\ save.step = "idle"
  /\ settings' = v
  /\ dirty' = TRUE
  /\ ticks' = IF immediate THEN 1 ELSE Delay
  /\ UNCHANGED <<flash, faulted, store, save, failures>>

\* mutant: the slots are not alternated
Target_Same == IF store.slot = NoSlot THEN 0 ELSE store.slot

\* The slot that does not hold the record in use.
Target == IF store.slot = 0 THEN 1 ELSE 0

\* settings_storage_save_now, up to the erase.  Without a store there is
\* nothing to be saved and the mark is dropped.
SaveNow ==
  /\ save.step = "idle"
  /\ IF store.ok
     THEN /\ store.sequence < MaxSequence
          /\ save' = [step |-> "erase", target |-> Target,
                      record |-> Record(store.sequence + 1, settings)]
          /\ UNCHANGED <<dirty, ticks>>
     ELSE dirty' = FALSE /\ ticks' = 0 /\ UNCHANGED save
  /\ UNCHANGED <<flash, faulted, store, settings, failures>>

\* mutant: the count never passes from 1 to 0
CountDown_StopsAtOne ==
  /\ ticks' = IF ticks > 1 THEN ticks - 1 ELSE ticks
  /\ UNCHANGED <<flash, faulted, store, settings, dirty, save, failures>>

CountDown ==
  /\ ticks' = ticks - 1
  /\ UNCHANGED <<flash, faulted, store, settings, dirty, save, failures>>

\* settings_storage_tick
Tick ==
  /\ save.step = "idle"
  /\ dirty
  /\ IF ticks > 0 THEN CountDown ELSE SaveNow

\* mutant: the settings count as saved whatever the store answers
SaveRefused_Clean ==
  /\ save' = NoSave("idle")
  /\ dirty' = FALSE
  /\ UNCHANGED <<store, settings, ticks>>

\* settings_store_save returned 0: the mark stays, so the next tick tries
\* again.
SaveRefused ==
  /\ save' = NoSave("idle")
  /\ UNCHANGED <<store, settings, dirty, ticks>>

\* What the target can hold when an erase or a program has not completed.
Interrupted ==
  CASE save.step = "erase"   -> {flash[save.target], Torn, Blank}
    [] save.step = "program" ->
         {flash[save.target], Torn}
           \cup (IF flash[save.target] = Blank THEN {save.record} ELSE {})
    [] OTHER -> {flash[save.target]}

\* boot_flash_sector_erase succeeded, or only said so.
Erase ==
  /\ save.step = "erase"
  /\ ~faulted
  /\ \/ flash' = [flash EXCEPT ![save.target] = Blank] /\ UNCHANGED failures
     \/ flash' = [flash EXCEPT ![save.target] = Torn] /\ Fails
  /\ save' = [save EXCEPT !.step = "program"]
  /\ UNCHANGED <<faulted, store, settings, dirty, ticks>>

\* boot_flash_program succeeded, or only said so.
Program ==
  /\ save.step = "program"
  /\ ~faulted
  /\ \/ /\ flash' = [flash EXCEPT ![save.target] =
             IF @ = Blank THEN save.record ELSE Torn]
        /\ UNCHANGED failures
     \/ flash' = [flash EXCEPT ![save.target] = Torn] /\ Fails
  /\ save' = [save EXCEPT !.step = "verify"]
  /\ UNCHANGED <<faulted, store, settings, dirty, ticks>>

\* An erase or a program that ends in an error, which is remembered
\* (boot_flash_mark_fault).
FlashError ==
  /\ save.step \in {"erase", "program"}
  /\ ~faulted
  /\ Fails
  /\ faulted' = TRUE
  /\ \E r \in Interrupted : flash' = [flash EXCEPT ![save.target] = r]
  /\ SaveRefused

\* The flash refuses: an error before, of the settings or of the file system.
Refused ==
  /\ save.step \in {"erase", "program", "verify"}
  /\ faulted
  /\ SaveRefused
  /\ UNCHANGED <<flash, faulted, failures>>

\* The record is read back, and only a valid one of the right number is
\* taken for saved.
Verify ==
  /\ save.step = "verify"
  /\ ~faulted
  /\ LET read == flash[save.target]
     IN  IF read.valid /\ read.sequence = save.record.sequence
         THEN /\ store' = [store EXCEPT !.slot = save.target,
                                        !.sequence = read.sequence]
              /\ dirty' = FALSE /\ ticks' = 0
              /\ save' = NoSave("idle")
              /\ UNCHANGED settings
         ELSE SaveRefused
  /\ UNCHANGED <<flash, faulted, failures>>

\* An error the user file system meets on the same chip.
OtherFlashError ==
  /\ save.step = "idle"
  /\ store.ok /\ ~faulted
  /\ Fails
  /\ faulted' = TRUE
  /\ UNCHANGED <<flash, store, settings, dirty, ticks, save>>

\* Power lost, or a reset by the watchdog.
PowerLoss ==
  /\ save.step # "off"
  /\ \E r \in Interrupted : flash' = [flash EXCEPT ![save.target] = r]
  /\ save' = NoSave("off")
  /\ store' = NoStore /\ settings' = Default
  /\ dirty' = FALSE /\ ticks' = 0 /\ faulted' = FALSE
  /\ UNCHANGED failures

-----------------------------------------------------------------------------
Saving == Tick \/ Erase \/ Program \/ FlashError \/ Refused \/ Verify

Next ==
  \/ Boot \/ BootFails
  \/ \E v \in Values, immediate \in BOOLEAN : Change(v, immediate)
  \/ SaveNow
  \/ Saving
  \/ OtherFlashError
  \/ PowerLoss

Spec == Init /\ [][Next]_vars

\* The main loop ticks, and a save it begins is one synchronous call.
FairSpec == Spec /\ WF_vars(Saving)

-----------------------------------------------------------------------------
(* Properties                                                              *)

(***************************************************************************)
(* Settings that are not marked dirty are what a restart would load: no    *)
(* failed or interrupted save makes the firmware forget a change it has    *)
(* not stored.                                                             *)
(***************************************************************************)
CleanMeansStored ==
  (save.step # "off" /\ store.ok /\ ~dirty /\ save.step = "idle")
    => Loaded = settings

Changes == \E v \in Values, immediate \in BOOLEAN : Change(v, immediate)

(***************************************************************************)
(* A change is stored in the end: unless the flash has failed for good or  *)
(* the power goes, a dirty mark is cleared by a save, once the user leaves *)
(* off changing settings (every change starts the delay again; records     *)
(* that still have a number within the bound).                             *)
(***************************************************************************)
ChangesGetStored ==
  <>[][~Changes]_vars =>
    ((dirty /\ store.ok /\ store.sequence < MaxSequence) ~> (~dirty \/ faulted))

(***************************************************************************)
(* Two records and a restart keep what one atomic cell would: the mapping  *)
(* takes as attempts the values written or being written over the record   *)
(* in use.                                                                 *)
(***************************************************************************)
InUse == IF store.ok THEN (IF store.slot = NoSlot THEN Default
                                          ELSE flash[store.slot].payload)
                     ELSE Loaded

Unacknowledged ==
  IF ~store.ok THEN {}
  ELSE {flash[s].payload : s \in {t \in ValidSlots :
                                    flash[t].sequence > store.sequence}}
         \cup (IF save.step \in {"erase", "program", "verify"}
               THEN {save.record.payload} ELSE {})

Durable == INSTANCE DurableSetting WITH
  durable <- Loaded, acked <- InUse, attempts <- Unacknowledged

KeepsOneValue == Durable!Spec
===============================================================================
