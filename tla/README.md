# A formal model of the Dristy K210 camera firmware

Dristy is the firmware of a K210 vision camera (`src/dristy/firmware/k210`): a
dual-core RISC-V chip with a DVP camera block, a KPU neural accelerator, an LCD,
an SD card, two serial links and a NOR flash. This directory holds TLA+ models of
its core logic, the TLC configurations that check them, and TLAPS proofs.
Paths below are relative to `src/dristy/firmware/k210/firmware/src` unless they
begin with `platforms/` (then to `src/dristy/firmware/k210`).

## How the system runs

* **Core 0** runs one cooperative loop (`runtime/hk_main.c`); every pass calls
  the ticks of `controllers/system_tick_controller.c` in a fixed order: the vision
  pipeline, the MicroPython bridge, the runtime poll, the external link service,
  the debug UART (with the HMPY session), the application in the background, the
  SD card, the settings.
* **Interrupts on core 0**: DVP frame start and finish, KPU completion, I2C and
  UART of the external link. The main loop masks them around its critical
  sections; where it does not, they interleave.
* **Core 1** runs one loop that takes jobs from a mailbox in uncached memory
  (`services/core1_executor.c`): a MicroPython script, or an AprilTag detection.
  There are no locks between the cores, only ordered stores.
* **The flash** keeps settings (two alternating records) and a littlefs user
  filesystem; power can fail at any time.
* **Hosts** talk to it over the debug UART (HMPY framing), the external link
  (UART or I2C target) and the Dristy protocol.

## Inventory

| component | state | operations | what is hard | what makes it correct |
|---|---|---|---|---|
| capability core (`capabilities/capability_core.c`) | owner slots, lease slots, counters and quarantine of providers | open, close, acquire, release, quarantine, recover | generations that retire, cleanups that fail, counters beside a table | a handle is never valid twice; counters = table; a lease never outlives its owner |
| core-1 executor (`services/core1_executor.c`) | job mailbox, request and completion tickets | start, submit, complete, worker loop | two cores, ordered stores, no lock | one job at a time; a ticket completes once |
| MicroPython runtime (`services/micropython_runtime.c`) | a shared record: state, exit reason, stop flag, deadline | start, poll, stop, watchdog, worker, VM hook | unlocked handoff, stop against end, watchdog reset | nobody touches a run in progress; every run ends |
| binding bridge (`adapters/micropython/micropython_capability_bridge.c`) | one request record, tickets, owned leases | call, tick, cancel, cleanup | a call given up while core 0 works on it; cleanup that fails | the record has one user; leases are returned |
| camera stream, frame pool, capture (`drivers/camera_stream.c`, `services/frame_pool.c`, `services/camera_capture.c`, `controllers/camera_runtime_controller.c`) | slots, capture slot, pause and sync flags, leases | start, stop, pause, resume, acquire, release, borrow | interrupts between any two calls; a conversion cut by a pause | a buffer has one user; frames get newer; the stream does not wedge |
| settings store (`storage/settings_store.c`, `services/settings_persistence.c`) | two flash records, dirty mark, delay | mark, tick, save, load | power loss, flash faults, retries | acknowledged settings survive; unsaved ones stay marked |
| external link adapter (`platforms/k210/capabilities/external_link_adapter.c`) | one operation, UART ring, I2C target window and buffers | configure, begin, poll, cancel, target poll, preload | ISR against main loop, overflow, repeated START | transactions intact, loss reported, one response per READ |
| external link facade and service (`capabilities/external_link.c`, `services/external_link_service.c`, `dristy/dristy_uart_bridge.c`) | two parsers, one buffer, the write in flight, transport, speed, suspended flag | tick, set_transport, set_uart_baud, suspend, resume, console feed | a buffer borrowed across reconfiguration, lost bytes, two protocols on a line | whole answers to requests that were made, none overwritten; a host that waits is answered |
| HMPY session, codec (`services/hmpy_session.c`, `services/hmpy_codec.c`) | decoder, upload, read, lease, cursors | 15 requests, tick | lost and repeated frames, idle lease | an upload is whole or absent; a duplicate is harmless |
| user filesystem (`storage/userfs.c`) | mount state, one upload, startup selection | mount, format, upload, read, remove | power loss, failed commit | a file is never half there; the startup selection never dangles |
| AI input, model runtime (`services/camera_ai_input.c`, `services/ai_model_runtime.c`) | input buffer state, KPU run state | arm, take, cancel, load, run, unload, tick | KPU and DVP interrupts against unload | the input has one writer or one reader |
| detectors (`apps/*_detect`, `apps/apriltag`, `apps/qr_camera`) | job states, result slots | submit, service | core 1 outliving a screen | workspace returned, results belong to their frame |
| display (`capabilities/display.c`, `platforms/k210/capabilities/display_adapter.c`, `ui/display_binding.c`) | backing store, overlay commands, dirty and repair lists, the batch being staged | frames of the native views; begin, append, present, restore, cancel of a script | transfers that stop half-way, rollback, a borrowed workspace | what is shown is what was committed; what was undone leaves no trace |
| lights, input, time (`capabilities/`) | event queue, light claims | acquire, read, set | queue overflow | events in order, loss reported |
| Dristy pipeline (`dristy/dristy_pipeline.c`, `dristy/dristy_legacy_export.c`, `dristy/dristy_result_bus.c`, `dristy/dristy_host_mode.c`, `apps/vision_mode/`) | mode, target, snapshot, the open app and its published results | set mode, tick, ingest, set target, publish, open, close | mode changes of host and user between the ticks, results exported more than once a frame | the target is the one asked for; an identity stays with its object |
| Dristy tracker (`dristy/dristy_tracker.c`) | tracks, next identity; the solver's work area | update, predict, reset, report | an 8-bit budget, gated cells in 16 bits, coasting limits | a detection goes to one track; lost tracks end |
| Dristy host protocol (`dristy/dristy_protocol.c`, `dristy/dristy_uart_bridge.c`) | parser, context | feed, handle | resynchronisation | a command is run once and whole |
| FAT32 and SD (`storage/fat32_*.c`, `storage/sd_card.c`, `services/sd_service.c`) | FAT, clusters, allocation hint, mount flags | mount, allocate, write, list, delete, poll | no journal: a card pulled, a power cut, a failed transfer between any two writes | no cluster in two chains; a saved file stays; nothing leaks unnoticed |
| photo and QR text writers, Files browser (`apps/camera/camera_photo_*.c`, `apps/qr_camera/qr_text_*.c`, `apps/files/`) | next name, current directory, listed entries | save, enter, list, delete a file or a directory | a deletion that fails in the middle | a name is given once |
| screens and controllers (`core/`, `runtime/hk_screen_runtime.c`, `controllers/`, `apps/`) | current screen, app state | enter, leave, dispatch | order of leave and enter | resources of a screen end with it |
| host tools, Arduino header, ISP dumper, vendored code | | | | left aside |

`PROJECT.json` lists every component with its status and every hazard at its line.

## Modules

| module | models | composed with |
|---|---|---|
| `CapabilityCore` | `capability_core.c`, one action per API call; a refused call changes nothing and is no step | implements `LeaseRegistry` |
| `LeaseRegistry` | what the core promises: identities issued once, leases that die with their owner, limits, quarantine | |
| `CapabilityCoreProofs` | theorems about `CapabilityCore` | |
| `MCCapabilityCore` | the instance TLC checks | |
| `Core1Executor` | mailbox, tickets and the loop of core 1 | part of `MicropythonRuntime` |
| `BindingBridge` | the request record, its tickets, the tick of core 0, cleanup | part of `MicropythonRuntime` |
| `MicropythonRuntime` | start, stop, poll and watchdog on core 0, worker and VM hook on core 1 | the two above |
| `MicropythonProofs` | theorems about `MicropythonRuntime` with executor and bridge, and about `DisplayStage` | |
| `CameraStream` | stream, DVP flags and registers, interrupt handler, frame pool | part of `CameraCapture` |
| `CameraCapture` | the clients of the stream on core 0: preview, capture, photo, restarts | `CameraStream` |
| `CameraCaptureProofs` | theorems about `CameraCapture` and the stream, and about `AiPipeline` | |
| `SettingsStore` | store, persistence and the flash driver under them | implements `DurableSetting` |
| `DurableSetting` | what a restart may find | |
| `SettingsStoreProofs` | theorems about `SettingsStore`, the refinement among them, and about `Fat32Card` | |
| `ExternalLinkTarget` | the I2C target half of the adapter, a master on the bus | |
| `ExternalLinkProofs` | theorems about `ExternalLinkTarget` | |
| `UserFs` | the user filesystem over a littlefs whose calls may fail: each operation as the set of its outcomes | part of `HmpySession` |
| `HmpySession` | the file session, the serial line, a host that gives up and repeats, the user of the MicroPython app (a second client of the filesystem), power cuts | `UserFs`; implements `FileStore` |
| `FileStore` | what the filesystem promises an uploader: whole files, one upload at a time | |
| `HmpySessionProofs` | theorems about `HmpySession` and `UserFs`, the refinement among them | |
| `MCHmpySession` | the instance TLC checks | |
| `Hungarian` | the tracker's assignment solver, one action per step of the algorithm | |
| `MCHungarian` | the matrices TLC checks | |
| `Tracker` | the life cycle of tracks, as operators on the tracker's state | used by `DristyPipeline` |
| `DristyPipeline` | a committed frame from detector results to snapshot, the vision app's routes and tick, host and user | `Tracker` |
| `MCDristyPipeline` | the instance TLC checks | |
| `DristyPipelineProofs` | theorems about `DristyPipeline` and `Tracker` | |
| `AiPipeline` | camera AI input, model runtime, KPU and camera interrupts, object and face detectors with their apps | |
| `ExternalLinkService` | the UART link: a host, the line, both parsers, the service, facade and adapter under it | |
| `ExternalLinkServiceProofs` | theorems about `ExternalLinkService` | |
| `DisplayStage` | the planes of the display adapter, the native views and a script that stages batches | |
| `Fat32Card` | allocation, directories, the two writers, the Files browser, the SD poll | |

**State and code.** Variables carry the names of the C state (`owners`, `leases`,
`provider_state`; `shared`, `g_ticket`, `control`, `operation`; `stream.slots`,
`dirty`, `ticks`; the `target_*` fields as the record `tgt`). Actions are named after the
functions; the comment before each one names it. A step is as large as the code makes it
atomic: an API call on core 0 that no interrupt sees inside (capability core, masked
sections of the camera stream, sections under the target lock, interrupt handlers), or a
single store where the other core can look in between (`MicropythonRuntime`: `hart0` and
`hart1` are program counters). In `SettingsStore` each flash operation is a step, so that
power can fail between them and inside them. In `DristyPipeline` a committed frame, the tick of an app and a host
command are a step each: all run in the main loop and nothing they use changes under them. In
`Hungarian` a step is one of Munkres' steps. `AiPipeline` splits a call of the main loop where
it stores into what an interrupt handler reads (`todo` holds the stores that are left). In `DisplayStage` a
transfer stops after any part of its cells; one that is cut off in its first slice, or cancelled
as that slice ends, does not count as begun. In `Fat32Card` a step is the work up to and
including one write to the card, so that it can be pulled between any two. In `HmpySession` a frame is handled in one step, as in the main loop, and
what the user does in the MicroPython app (`apps/micropython/micropython_app.c`: mount, select, remove) is a step
between two frames; `UserFs` gives the flash after each littlefs commit, and a power cut or a failing call stops
at any of them.

**What is abstracted.** littlefs is an empty submodule here: `UserFs` takes each of its renames,
removals and closes to happen as a whole or not at all, and lets any call fail before or after it took effect. Pixels, text, CRCs and payload layouts are values: a record is valid or
torn, a frame is its sequence number, a write is a sequence of bytes from a small
alphabet. Time is what the code compares it with: a deadline is ahead, due, or past its
grace. Versions, features and grants of the capability core are kept as the checks use
them. Printing and statistics counters are left out.
A detection is an object; a track is in the gate of its own object's detections only, and
of the cost of a pair nothing is left: `Tracker` allows every matching that leaves no pair
in the gate unused, which `Hungarian` shows to be what the solver returns (every maximum
matching is one). The table of tracks is a set: its order
decides only which of two equally good assignments is returned, and identities follow the order
of the detections. What an export reads of its uninitialized array is any detection.
Geometry, scores, poses and the QR payload do not appear in `DristyPipeline`; of the
results an app holds for display nothing is kept, since the pipeline does not read them.
An image in `AiPipeline` is torn or one whole frame, taken before or after the results were
last invalidated. A frame of `ExternalLinkService` is its magic bytes, a payload symbol and a request that
stands for length and checksum; an answer has two parts so that it can be cut; a host's SET_BAUD
command and the user's choice end in the same `set_uart_baud`. A picture in `DisplayStage` gives each cell a
colour, and a command paints a set of cells; what the panel shows in a cell is decided by the last command that covers it. `rect_union` is
the least rectangle of `Rects` around both that straddles none already dirty; whether a list of rectangles
fits is asked of the whole list, where the code asks after each and may refuse one that would fit in the end
(a present refused there has transferred nothing but its repair, as one refused for the whole list). In `Fat32Card` a sector is a cluster, a directory
slot stands for an entry with the slots of its long name, dot entries are left out, and the FAT is its
first copy, the only one the code reads. A write is done, or reported failed with or
without being stored. A card that was pulled answers nothing until the poll has initialised it
again. A failed FAT read inside the search for a free cluster is taken with the
failure it leads to. The walk of a directory that is being deleted is not cut short by one: that state would
fall under the exception `misread` in any case.

## What the runs check

| run | instance | states | shows |
|---|---|---|---|
| `capability_core` | 2 owner slots, 3 lease slots, 2 generations, an exclusive and a shared provider | 37 253 | `LeaseAccounting`, `LeaseHasLiveOwner` through every mixture of closes, failing cleanups, quarantines and retirements; `ImplementsRegistry`: the tables implement the registry of identities |
| `micropython_runtime` | 2 runs, 2 calls per run, 2 tickets, a transfer and a lights call | 266 485 | `VMOwnsRun`, `RequestOwned`, `LeasesReturned`; under fairness `RunEnds`, `CallAnswered` |
| `camera_capture` | 2 slots, 4 frames, lease ids that wrap at 3, 2 borrows | 24 031 | `OneUserPerBuffer`, `LeasesAgree`, `FramesGetNewer`; under fairness `FramesFlow` |
| `settings_store` | 3 values, delay 2, 4 records, 2 flash failures | 8 767 | `CleanMeansStored`; `KeepsOneValue`: it implements `DurableSetting`; under fairness `ChangesGetStored` |
| `external_link_target` | 2 byte values, payloads up to 2 (masters send up to 3) | 1 735 976 | `WindowIntact`, `NoSilentLoss`, `ResponseIntact` |
| `external_link_service` | 2 requests of each protocol, a ring and a read of 5 symbols, 2 disturbances | 96 748 | `WireIntact`: the host reads whole answers to what it asked; under fairness `RequestsAnswered` |
| `hmpy_session` | 1 file name, 2 contents of two chunks with a common first one, 2 uploads a boot, 1 failing flash call, 1 power cut, a frame each way on the line | 531 665 | `StartupExists`, `UploadOwned`, `AnsweredIsStored` (unless the user removed the file on the device), `RepeatsAccepted`; `ImplementsFileStore`; under fairness `SilentHostReleases` |
| `hungarian` | every matrix up to 3x3 of two costs and gated cells | 162 740 | `AssignmentIsMaximum` |
| `dristy_pipeline` | 2 objects, 2 tracks, 4 modes (one of each route but QR), 1 result a frame, 3 committed frames, 1 frame of coasting | 1 643 070 | `FollowedIdKeepsItsObject`, `LostTracksExpire`, `TargetIsTheRequestedOne` |
| `ai_pipeline` | both detectors, both apps and the menu, no bound | 9 k | `InputIsOneFrame`, `ResultsAreCurrent` under every interleaving of the two interrupts; under fairness `WaitingAppLoads`, `InferencesGoOn` |
| `display_stage` | 2 cells, 2 rectangles, 1 native and 1 script colour, 2 commands, 1 dirty rectangle, slices of one cell | 108 768 | `PanelShowsCommitted` once nothing is pending, but for what a transfer changed that was cut off in its first slice; `UndoneCallsLeaveNoTrace` |
| `fat32_card` | 8 clusters of 2 slots, files up to 2 clusters, 4 photos, 1 fault | 1 744 960 | `ChainsDisjoint`, `SavedFilesStay` through pulls, power cuts and failed transfers; `NothingLeaks` as long as every call succeeds; under fairness `CardComesBack` |

Every property has a mutant in `PROJECT.json`: an operator of the same module, marked
`mutant` in its comment, that changes the definition as a plausible bug would and breaks
that property in that run.

**Bounds.** Two owner slots and three lease slots are the least in which one owner holds two
leases while another holds one; two generations reach retirement. Two runs and two tickets
let a run meet what its predecessor left; two calls let a call meet a cancelled one. Two
camera slots make captures wait for leases (the code has as many); lease ids wrap at 3 so that an
old id comes back, where the code wraps at 2^32. Four records fill both flash slots
twice; two failures allow one during a save and one at its retry. Payloads of two bytes,
with masters that go one over the limit, reach every branch of the target; there is no bound
on the number of transactions. The contents of `hmpy_session` share their first chunk because the session recognises
a repeated chunk by its offset and bytes; two uploads let one meet what its predecessor left,
and a power cut gives old ids again. With two file names the safety properties hold on
9 801 379 states (too long for a run); no operation treats one name differently from another,
but that a removal compares its name with the startup selection. The external link's request kind "link" is not in the
`micropython_runtime` instance: it takes the same path as "lights".

`AiPipeline` has no bound: its state is finite. Its run keeps `MayLeaveWaiting` at FALSE, because an
app left while it waits for its own model is a disagreement (below); everything else about
leaving and entering is in. The link's run takes one payload symbol that is no magic byte, hosts
that speak one protocol, and no change of speed while an answer is written: each of the three
constants has a value that gives a disagreement. Two disturbances let a suspension meet a lost
byte; ring and read of five are one frame and what follows it. One dirty rectangle makes the list overflow into
its bounding rectangle with two. Two slots to a cluster and
four photos make a directory grow by a cluster and fill it; one fault falls between any two writes. A
deletion that goes astray ends what is claimed: no call begins after it. With two writers
(`Writers = {"photo", "text"}`, one slot to a cluster, seven clusters, three saves, two faults) the same properties hold as
well, in longer than a run may take.

A 3x3 matrix is the least in which an augmenting path passes through a star that is itself
replaced; two finite costs give ties and preferences. The 8-bit budget wraps from n = 12
on, and the path array of step 5 is exceeded from n = 18 on: both are listed as hazards and
are beyond what can be enumerated. `SolverReturns`, `TrackTableOK` and `ReadsOneVersion` also hold on these
instances; they are stated in their modules without a run, and the last two are proved. Three committed frames create and confirm a track, lose it, and
pass its coasting limit; two objects can take each other's place (their symmetry is used: no
liveness is checked there). The modes are one with the tracker behind a detector, one with
the tracker behind a preview, one with a detector and no tracker, and one that ingests
and exports tags.

**Fairness.** `Hungarian`: the solver is straight-line code and keeps running. `MicropythonRuntime`: the loop of core 0 goes on (weak fairness for its
steps in progress, strong for the poll and the bridge tick, which a stop or a start entry can
precede in any pass but not in all), core 1 executes (weak, except a script, which
may compute for ever), and time passes. `CameraCapture`: the sensor delivers frames while a
client waits, interrupts are taken, the client goes on. `FramesFlow` does not promise a
frame to a client that resumes or restarts for ever, since each lets one frame pass.
`SettingsStore`: the tick keeps being called; `ChangesGetStored` speaks of a user who stops
changing settings and of a flash that stops failing. `HmpySession`: the main loop ticks and the clock reaches the end of the lease of a host
that has gone; nothing is assumed of a host that stays. `AiPipeline`: the main loop
ends the call it is in (weak) and comes back to the ticks of the apps and to their background ticks
(strong, since leaving and entering can precede any one of them), the camera delivers frames while it runs, and time passes; the KPU need not
finish. `ExternalLinkService`: the loop ticks, the turnaround time passes, a script ends, and a host
finishes a request and repeats what was not answered; disturbances are finite in number. `Fat32Card`: the poll comes back, as the super loop calls it,
and a call that was begun goes on; a screen that keeps the poll from running does so for as
long as the user stays there, so `CardComesBack` speaks of the Files screen.
`DisplayStage` has no liveness.

## What is proved

Eight modules hold theorems, each about the one or two modules it extends, for every value of the
constants that the module's assumptions allow. The runs check the same properties on the
instances above. A proof follows one line throughout: `Init` gives `IInv`, each action of `Next` keeps it (a
lemma per action or group of actions), and the theorem is read off `IInv`.

| module | theorems | assumed |
|---|---|---|
| `CapabilityCoreProofs` | `TypeCorrect`, `AccountingHolds`, `LimitsHold`, `LiveOwnerHolds`, `RegistryImplemented`, `NeverReusedHolds` | `CoreAssumption` |
| `MicropythonProofs` | `TypeCorrect`, `VMOwnsRunHolds`, `RequestOwnedHolds`, `LeasesReturnedHolds` | `KindsAssumption` |
| the same, about `DisplayStage` | `PanelShowsCommittedHolds`, `UndoneCallsLeaveNoTraceHolds`, `DisplayListsSound`, `CleanupForgetsNothing` | `DisplayAssumption` |
| `SettingsStoreProofs` | `TypeCorrect`, `CleanMeansStoredHolds`, `OneValueKept` | `SettingsAssumption` |
| the same, about `Fat32Card` | `ChainsDisjointHolds`, `SavedFilesStayHolds`, `NothingLeaksHolds` | `Fat32Assumption`: no writer's app is the Files browser |
| `CameraCaptureProofs` | `TypeCorrect`, `OneUserPerBufferHolds`, `LeasesAgreeHolds`, `FramesGetNewerHolds` | `StreamAssumption`: at least three lease ids |
| the same, about `AiPipeline` | `InputIsOneFrameHolds`, `ResultsAreCurrentHolds`, `LoadedModelIsInUse` | none: also with `MayLeaveWaiting` |
| `ExternalLinkProofs` | `TypeCorrect`, `WindowIntactHolds`, `NoSilentLossHolds`, `ResponseIntactHolds` | `TargetAssumption`, `~RepeatedStart` |
| `ExternalLinkServiceProofs` | `TypeCorrect`, `WireIntactHolds` | `LinkServiceAssumption`, `OneProtocolPerHost` |
| `HmpySessionProofs` | `TypeCorrect`, `StartupExistsHolds`, `UploadOwnedHolds`, `AnsweredIsStoredHolds`, `RepeatsAcceptedHolds`, `ReadsOneVersionHolds`, `FileStoreImplemented` | `HmpyAssumption`, `UserFsAssumption` |
| `DristyPipelineProofs` | `TypeCorrect`, `LostTracksExpireHolds`, `TargetIsTheRequestedOneHolds`; `FollowedIdKeepsItsObjectHolds`, `TrackTableHolds` until identities come round | `TrackerAssumption`, `PipelineAssumption`; `[]RoomForIds` for the last two |

**Capability core.** `IInv` joins accounting, limits and live owners with `SlotsOK`: an active slot is not
retired, has left generation 0, and names an owner and a provider. It is needed because the
saturating decrement of the counters is exact only if each lease cleaned up was counted, and because an
owner's slot is reused only in another generation. `CleanUpKeeps` is the core of it: cleaning up any
set of active leases, with any failures, takes exactly that set off the counters. The refinement of
`LeaseRegistry` maps a slot and its generation to an identity; each operation is then a step of the registry or a stutter.

**MicroPython.** `VMOwnsRun` is not inductive: what it needs from the submission on is
`RunKept` (until core 1 has stored its terminal state the shared state is an active one, the run
is active and the ticket is the submitted one) together with `MailboxOK` (core 1 works on nothing but
the one unfinished job). `CallServed` says that a call is served in one of the two ways, immediate or
transfer, never both; with it the request record has one user.

**Settings.** `NumbersDiffer` makes "the newer record" meaningful, `StoreOK` bounds what an
unacknowledged save can leave, `SaveOK` ties the steps of a save to the slot not in use, and `CleanOK` is
`CleanMeansStored` made inductive: if nothing is dirty, the record in use and any newer one carry the
settings. `OneValueKept` follows a save through erase, program and verify, with a cut or a
fault at each, as steps of `DurableSetting`.

**Card.** `ChainsDisjoint` is about chains, which are followed link by link, and a step changes links; so the invariant is
about links and slots instead. No two links lead to the same cluster and none to a free one or
to the root (`LinksOK`); every entry in use, wherever it is, also one no directory leads to any
more, starts a chain of its own to which no link leads (`EntriesOK`); the clusters of the root
directory, the set `R`, are apart from all others (`RegionOK`). That is inductive because of the order of the
writes: `SavingOK` says for each point of a save that what it took so far is reached by nothing
(`Fresh`), `DeleteOK` that the entry of the chain being freed is gone before its first cluster is. The
browser's list is kept across calls that end early, so its items may be old: `ItemOK` says that
an item is in its slot still, or that its chain starts nowhere any more. From the links
to the chains lead `ChainIsWhole` (a chain to whose start no link leads has no cluster twice and runs to an end
mark) and `ChainsApart` (two chains that start apart, neither start linked to, never meet), both by the least
place where it would go wrong. `ChainIsChain` shows that the model's recursive `Chain` walks the links:
its equation has a solution because no walk is longer than the card. A failing FAT read costs
clusters but never disjointness; the exception is `wild`, as in the property.

**Saved files.** `SavedFilesStay` is proved from a second invariant on top of that one, `SavedInv`. A file that was reported
saved is entered in a directory of its app, whole and under a name of its own (`FileAt`), and is not being deleted (`Spared`).
To keep that, more must be known of directories. Behind the first slot never used none is in use
(`NoGaps`), since a scan stops there: a file behind it would be lost while its slot still holds it, and `photo_next_name`
would give its name again. A directory grows only when every slot of it is in use, and a save carries what it found
out along: `PhaseOK` says for each point of it that the name is free still, the clusters taken are linked so far, the data
in place, the new directory empty. A deletion names a directory and an ordinal; `DoomedOK` says the entry shown is at that
place or marked deleted, so nothing else gets marked. `AllSame` carries all of it over a write: a write
to what nothing leads to leaves each directory and file as it was. A list is reduced to the places of its chain by
`LiveIsListed`. The exceptions, `misread` and `wild`, are those of the property.

**Clusters in use.** `NothingLeaks` is the converse and rests on both: `AccountInv` says that every cluster not free is in
a chain that an entry in use or the root starts (`Occupied`), or is carried by the call under way (`Carried`): taken for
a save and not entered yet, or waiting to be freed. That accounts for a cluster only if the entry itself can be reached, so
every entry in use is in a slot of a directory that is listed (`SlotsHeld`), and the root holds only directories
(`RootDirs`). The hard step is the deletion of a directory: its entry goes only when nothing in it is in use any more
(`DoomedNow`, `WithinNow`), because everything before the place the deletion has reached is cleared (`ClearedTo`), and what is left
of a sector in the buffer follows that entry without a gap (`RestIsNext`), so that going on skips nothing. While a chain is
freed the rest of it stays in hand (`ChainTail`). The conditions `disturbed`, `misread` and `wild` are those of the
property; once set they stay (`DisturbedStays`).

**Camera.** The invariant takes the stream's record as a parameter, since the interrupt handler passes through an
intermediate one. `CaptureOK`, `DvpOK` and `ClientsOK` say which slot is whose; `IdsOK` counts the leases
given since the snapshot's, at most two while it is held, so that its id is not given
again. That is why three ids are needed: with two, TLC finds `LeasesAgree` violated. The code's 32 bits satisfy it.

**AI pipeline.** `AiInv` says what a main-loop call still has to do may still do harm: `todo` is one of thirteen
lists (`StepLists`), told apart by whether they will disable the input, arm it, or unload a model. A
loaded model belongs to the app on the screen or is being unloaded (`LoadedOnScreen`); an input that
is not disabled belongs to that app or is about to be disabled, and is armed only while the KPU
rests (`InputOnScreen`); the KPU reads the input of its owner (`KpuOwnsInput`). With these, what is written,
ready or read is sound between calls (`ImageSound`), and an interrupt that comes inside a call finds
nothing it could spoil. The settings are the hard part: they leave the input disabled or busy,
so that closing them may arm it exactly unless an inference runs. The proof does not use
`MayLeaveWaiting`: the disagreement about entering again costs liveness, not these two.

**Display.** What the panel shows is compared with the backing store under the committed commands. Merging a
dirty rectangle into a full list and adding a command's rectangles are folds; `SubsetInduction` (the
well-founded form of the library, over sets rather than with an operator parameter) proves that a fold has a
value and only one (`FoldExists`, `FoldUnique`), from which `DirtyAllSteps` follows. The invariant says that the dirty
list of a batch is the least list of rectangles around its commands, none straddling another, and
that the committed overlay and a pending repair lie inside theirs (`DisplayListsSound`). Because a
join is the least rectangle that straddles no dirty one, the order of the commands does not
matter. What a first slice changed without being counted is in the history variable `unrecorded`, and the invariant leaves
out exactly these cells until a transfer reaches them again. `CleanupForgetsNothing` settles a doubt about the code: the close of the display ignores when a rectangle does
not fit its cleanup list, and yet neither the repair list nor the overlay's is cut short there.

**I2C target.** `OneUse` is the heart: each of the two buffers is the write being received, the response being
sent, the response armed, or one queued event. `PhaseOK` relates what the master has sent to the
receive buffer, and `WindowOK` says the events are the completed transactions in order. It
holds for masters that end each transaction with STOP; the disagreement on repeated START is below.

**Link service.** Parser and answer share one buffer. `AnswerOK` says that a kept answer occupies it whole and that
nothing is parsed over it: an HK answer ends the chunk it came in, and a Dristy host never makes the HK parser
store anything (`ParserOK`). `WriteOK` says the adapter writes exactly while the service knows
of it. Both fail on a line with two protocols, hence `OneProtocolPerHost`; the other two disagreements (a
0x55 in an HK frame, a speed set during a write) cost liveness only, and the theorems hold with them.

**File session.** Lemmas about each operation of `UserFs` come first: what it does to the files, the upload and the startup
selection, for every point a call can fail or power can go. `IInv` then says that one request is
outstanding and every earlier frame on the line is stale (`OneRequest`), that the board's upload is as far as the host
knows or one chunk further (`InStep`), and that a request on the line changes only files the host
has ceased to rely on (`LineOK`). What the user removes on the device is in the history variable `removed` until it is
published again, and `Explained` says of each step outside the session that a file is as it was or was removed so. Of these follow `AnsweredIsStored` and `RepeatsAccepted`, and step by step the refinement of `FileStore`.

**Pipeline and tracker.** Lemmas about the tracker's operators: the turns of the unmatched detections
number them (`TurnIs`, `FreshFit`), so that what is created fits the table and has fresh identities
(`CreatedIs`); an update or a prediction keeps the table in shape, keeps the object of every identity,
and leaves no track behind the frame (`UpdateIs`, `PredictIs`). `Builds` carries this through the exports of
one frame, four updates at most (`ProcessedIs`). `LostTracksExpire` needs `UpToDate`, that in a tracking mode no
track is behind the last frame by more than it has missed. `FollowedIdKeepsItsObject` needs
`IdentitiesAgree`: table, snapshot and target agree on every identity, and all they name has been
issued. It holds as long as identities have not come round, 16 bits wide and up to four tables of
them to a frame (`RoomForIds`). After that the code gives old identities to new tracks, and a host that still
follows one follows another object: no run gets that far, and the theorem does not claim it.

**Model-checked only.**

* Liveness under fairness and everything that needs ENABLED: out of the prover's reach.
* `Hungarian.AssignmentIsMaximum`: what the solver returns is found by iterating, and a proof needs the
  theory of augmenting paths by induction. `Tracker` takes from it that no pair in the gate is left unused.

## Known disagreements

Where the code does something else than its own documents, comments or callers expect.
Each is reproduced by running TLC on the module with the configuration or the constants
named; none of them is part of the runs above.

* **Stop against end** (`services/micropython_runtime.c:264`): `request_stop` stores
  STOPPING over a terminal state stored by core 1 between its test and its store; the
  next poll reports a failure of core 1 for a script that ran to its end.
  `MCMicropythonStop.cfg`, `CoreFailureMeansFailure`.
* **Repeated START** (`platforms/k210/capabilities/external_link_adapter.c:505`): a STOP that ends a
  combined write and read handles the read only. After an oversized write phase the
  discard mark stays and swallows the next write without an overflow; after a normal one the bytes
  stay and are prepended to the next write. `ExternalLinkTarget` is therefore checked
  for masters that end each transaction with a STOP. `MCExternalLinkRestart.cfg`, `DiscardEndsAtStop`.
* **One frame confirms** (`dristy/dristy_pipeline.c:471`): a committed frame exports the
  detector's results to the tracker twice, so that a new track has its two hits in
  the frame it is first seen, while `min_hits_to_confirm` is a number of frames
  (`dristy/dristy_tracker.h:44`). In the second export a part of the array given to the tracker
  is uninitialized. `MCDristyConfirm.cfg`, `ConfirmedInSeparateFrames`.
* **Not globally optimal** (`dristy/dristy_tracker.c:359`): with gated pairs the solver
  keeps whatever its greedy start assigned, once the uncovered cells left are all
  gated; `dristy/dristy_tracker.h:9` promises a globally optimal matching. The
  assignment is still one of maximum size, for matrices up to 3x3. `MCHungarianOptimal.cfg`, `GloballyOptimal`.
* **An app entered again while it waits** (`services/ai_model_runtime.c:297`): leaving an app whose
  model the KPU still holds defers the unload; entering it again does not take the
  request back, and the deferred unload is carried out or lost depending on where the
  other detector stands. `MCAiReenter.cfg`, `DeferredUnloadCompletes`.
* **0x55 inside an HK frame** (`dristy/dristy_uart_bridge.c:121`): the bridge takes a 0x55 for the
  start of a Dristy frame wherever it stands, so an HK frame that holds one is never
  answered, however often it is sent. `ExternalLinkService` with `Payloads = {"U"}`, `RequestsAnswered`.
* **Two protocols on a line** (`services/external_link_service.c:399`): the parser's data and
  the answer being written share a union; a host of one protocol is safe because it
  waits, a line with both is not. `Protocols = {{"HK", "DLP"}}`, `WireIntact`.
* **A speed set during a write** (`services/external_link_service.c:254`): the adapter refuses
  it as busy, the setting is kept as applied and never tried again. `MayRetimeAWrite = TRUE`, `RequestsAnswered`.
* **First slice of a transfer** (`platforms/k210/capabilities/display_adapter.c:578`,
  `drivers/lcd_st7789.c:179`): a transfer is marked as begun only after its first slice has
  returned well, while a timeout inside that slice, or a cancel as it ends, comes after pixels were
  written. A present that stops there records no repair, and a close that stops there neither reports an internal
  failure nor quarantines, so pixels of a script can stay after its end.
  `docs/spec/capabilities/DISPLAY.md:162` (in `src/dristy/firmware/k210`) says that a failure after any physical progress
  records the whole affected list. `PanelShowsCommitted` excepts these cells. `MCDisplayFirstSlice.cfg`, `AllDamageIsRecorded`.
* **A FAT read that fails ends a chain** (`storage/fat32_alloc.c:26`): a directory is then cut off
  where it failed (a name is given twice), and a deletion frees part of a chain and
  reports success. `Fat32Card` marks the state (`misread`), and `SavedFilesStay` and `NothingLeaks`
  except it; without the exception TLC finds the violation.
* **Deleting a directory with several entries** (`apps/files/file_delete.c:61`): the deletion
  of each entry reuses the sector buffer the directory was read into, so that what
  follows the first entry is read from FAT data; other chains may be freed.
  `Fat32Card` marks the state (`wild`), and `ChainsDisjoint` excepts it; without the exception TLC finds the violation.
  `fat_alloc_chain` on a card that fills up also keeps what it took: `NothingLeaks` speaks of a card on which every call succeeded.

Read in the code beside the models, without a model of their own: `apriltag_detector_deinit`
after a CREATE that timed out sets the cleanup mark from `g_detector`, which core 1 may
not have stored yet, and so disarms the cleanup that the comment in `apriltag_detector_init`
(`apps/apriltag/apriltag_detector.c:395`) keeps armed. In the display adapter, an overlay
`mark_dirty` without commands releases the workspace under a dirty list that still has a
count, and an empty text aborts the frame it is drawn in.

## Not modelled, and the plan

`DristyPipeline` leaves out: the pipeline's own KPU runtime (initialised, never
loaded), `dristy_pipeline_stop` (no caller), the detectors' apps opened outside the
vision app, loading of models, and the configuration applied at boot.

`AiPipeline` leaves out what detectors compute from an inference. `ExternalLinkService` leaves out
the I2C controller mode and the commands behind a request. `DisplayStage` leaves out batches of
the BASE plane by capability (no client stages any), blit, clip, explicit overlay marks,
`keep_last_clear` and closing BASE (never done while the firmware runs).
`Fat32Card` leaves out reading files (`fat32_file.c` changes nothing), the text of long names, the
SPI commands of `sd_card.c`, and the screenshot writer, which has no caller.

The plan from here:

1. the AprilTag worker on `Core1Executor` beside the MicroPython runtime;
2. the commands of the Dristy host protocol, and suppression as a pure operator;
3. screens and controllers: the order of leave and enter with the owners they close.

Proofs to write: that `Core1Executor` alone keeps one job at a time, for any clients.

Left aside: drawing, fonts, games, image decoders, detector arithmetic, sensor registers
(data, no control worth a model), vendored code, and the ISP dumper.
