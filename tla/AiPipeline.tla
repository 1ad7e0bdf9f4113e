------------------------------ MODULE AiPipeline ------------------------------
(***************************************************************************)
(* Object and face detection on the KPU: the planar image the camera block *)
(* writes beside each frame (services/camera_ai_input.c), the one model    *)
(* that can be loaded (services/ai_model_runtime.c over hal_kpu.c), and    *)
(* the two detectors and apps that share both.                             *)
(*                                                                         *)
(* The main loop is preempted by the camera's and the KPU's interrupts.    *)
(* Where it stores into what an interrupt handler reads, each store is a   *)
(* step: todo lists the stores that are left of the call being made.       *)
(* Everything else a call does is done in the step that begins it.         *)
(*                                                                         *)
(* Data: an image is torn, or one whole frame that was taken after (fresh) *)
(* or before (stale) the results were last invalidated.  A session epoch   *)
(* is kept as whether it is still the current one; it is 32 bits wide and  *)
(* does not come round within an inference.                                *)
(***************************************************************************)
EXTENDS Sequences

CONSTANT MayLeaveWaiting  \* may an app be left that waits for its own model?

ASSUME AiAssumption == MayLeaveWaiting \in BOOLEAN

VARIABLES
  camera,   \* camera_stream.c and the DVP block, as far as they matter here
  input,    \* camera_ai_input.c: owner, state and what the buffer holds
  kpu,      \* hal_kpu.c: who has a model loaded, does it run, is it late
  runtime,  \* ai_model_runtime_t and g_result of each detector
  object,   \* the rest of object_detect_detector.c
  app,      \* the app on the screen, and object's frame not yet processed
  todo      \* what is left of a call of the main loop

aiVars == <<camera, input, kpu, runtime, object, app, todo>>

Detectors == {"object", "face"}
Nothing == "none"

AiInit ==
  /\ camera = [running |-> FALSE, paused |-> FALSE, sync |-> FALSE,
               capturing |-> FALSE, ready |-> FALSE, hooks |-> Nothing,
               output |-> FALSE, writing |-> Nothing]
  /\ input = [owner |-> Nothing, state |-> "DISABLED", image |-> "torn"]
  /\ kpu = [owner |-> Nothing, busy |-> FALSE, late |-> FALSE]
  /\ runtime = [d \in Detectors |->
                 [state |-> "UNLOADED", completion |-> FALSE, ok |-> FALSE]]
  /\ object = [active |-> FALSE, paused |-> FALSE, unload |-> FALSE,
               run |-> Nothing, result |-> Nothing]
  /\ app = [name |-> "menu", phase |-> "open", frame |-> FALSE]
  /\ todo = [who |-> Nothing, steps |-> <<>>]

-----------------------------------------------------------------------------
(* Interrupts                                                              *)

Hooked == camera.hooks # Nothing /\ camera.hooks = input.owner

\* The start of a frame (camera_stream_on_event) and, when the input waits
\* for one, camera_ai_convert_start.  With the AI output on, the conversion
\* overwrites the input.
ConvertStart ==
  /\ camera.running /\ ~camera.paused /\ ~camera.capturing
  /\ IF camera.sync
     THEN camera' = [camera EXCEPT !.sync = FALSE] /\ UNCHANGED input
     ELSE LET arms == Hooked /\ input.state = "ARMED"
              on   == camera.output \/ arms
          IN  /\ camera' = [camera EXCEPT !.capturing = TRUE, !.output = on,
                              !.writing = IF on THEN "fresh" ELSE Nothing]
              /\ input' = [input EXCEPT
                             !.state = IF arms THEN "CAPTURING" ELSE @,
                             !.image = IF on THEN "torn" ELSE @]
  /\ UNCHANGED <<kpu, runtime, object, app, todo>>

\* The end of a frame and camera_ai_convert_finish.
ConvertFinish ==
  /\ camera.running /\ camera.capturing
  /\ LET takes == Hooked /\ input.state = "CAPTURING"
     IN  /\ camera' = [camera EXCEPT !.capturing = FALSE, !.ready = TRUE,
                         !.output = @ /\ ~takes, !.writing = Nothing]
         /\ input' = [input EXCEPT
                        !.state = IF takes THEN "READY" ELSE @,
                        !.image = IF camera.writing # Nothing
                                  THEN camera.writing ELSE @]
  /\ UNCHANGED <<kpu, runtime, object, app, todo>>

\* hal_kpu_done and inference_done
KpuDone ==
  /\ kpu.busy
  /\ kpu' = [kpu EXCEPT !.busy = FALSE]
  /\ runtime' = IF runtime[kpu.owner].state = "RUNNING"
                THEN [runtime EXCEPT ![kpu.owner].state = "READY",
                                     ![kpu.owner].completion = TRUE]
                ELSE runtime
  /\ UNCHANGED <<camera, input, object, app, todo>>

\* The time an unload may wait for the KPU passes.
UnloadTimePasses ==
  /\ kpu.busy /\ ~kpu.late /\ runtime[kpu.owner].state = "UNLOAD_PENDING"
  /\ kpu' = [kpu EXCEPT !.late = TRUE]
  /\ UNCHANGED <<camera, input, runtime, object, app, todo>>

-----------------------------------------------------------------------------
(* Stores of the main loop, one step each                                  *)

Owned(d, steps) == IF input.owner = d THEN steps ELSE <<>>

\* camera_ai_input_cancel, camera_ai_input_arm, ai_model_runtime_request_unload
Cancel(d)  == Owned(d, <<"output off", "disable">>)
Arm(d)     == Owned(d, <<"output off", "arm">>)
Request(d) == IF runtime[d].state = "UNLOADED" THEN <<>>
              ELSE <<"forget completion", "decide">>

OutputOff(c) == [c EXCEPT !.output = FALSE, !.writing = Nothing]

Freed(d) == [runtime EXCEPT ![d].state = "UNLOADED", ![d].completion = FALSE]

NoModel == [owner |-> Nothing, busy |-> FALSE, late |-> FALSE]

Doing(step) == todo.steps # <<>> /\ Head(todo.steps) = step

Then(steps) == todo' = [todo EXCEPT !.steps = steps \o Tail(@)]

StoreOutput ==
  /\ Doing("output off")
  /\ camera' = OutputOff(camera)
  /\ Then(<<>>)
  /\ UNCHANGED <<input, kpu, runtime, object, app>>

StoreState ==
  /\ \/ Doing("disable") /\ input' = [input EXCEPT !.state = "DISABLED"]
     \/ Doing("arm") /\ input' = [input EXCEPT !.state = "ARMED"]
  /\ Then(<<>>)
  /\ UNCHANGED <<camera, kpu, runtime, object, app>>

ForgetCompletion ==
  /\ Doing("forget completion")
  /\ runtime' = [runtime EXCEPT ![todo.who].completion = FALSE]
  /\ Then(<<>>)
  /\ UNCHANGED <<camera, input, kpu, object, app>>

DecideUnload ==
  /\ Doing("decide")
  /\ Then(<<IF runtime[todo.who].state = "RUNNING" THEN "wait" ELSE "free">>)
  /\ UNCHANGED <<camera, input, kpu, runtime, object, app>>

WaitToUnload ==
  /\ Doing("wait")
  /\ runtime' = [runtime EXCEPT ![todo.who].state = "UNLOAD_PENDING"]
  /\ kpu' = [kpu EXCEPT !.late = FALSE]
  /\ Then(<<>>)
  /\ UNCHANGED <<camera, input, object, app>>

\* release_resources, which the KPU refuses while it runs
FreeModel ==
  /\ Doing("free")
  /\ IF kpu.busy
     THEN /\ runtime' = [runtime EXCEPT ![todo.who].state = "FAULT"]
          /\ UNCHANGED kpu
     ELSE runtime' = Freed(todo.who) /\ kpu' = NoModel
  /\ Then(<<>>)
  /\ UNCHANGED <<camera, input, object, app>>

NextStore ==
  StoreOutput \/ StoreState \/ ForgetCompletion \/ DecideUnload
    \/ WaitToUnload \/ FreeModel

Idle == todo.steps = <<>>

Call(d, steps) == todo' = [who |-> d, steps |-> steps]

-----------------------------------------------------------------------------
(* The model and the input of a detector                                   *)

\* A new session epoch: what was captured or begun before is out of date.
Old(image) == IF image = "fresh" THEN "stale" ELSE image
Outdated(result) == IF result = Nothing THEN Nothing ELSE "outdated"

Frees_NoTimeout(d) ==
  \/ runtime[d].state = "UNLOAD_PENDING" /\ ~kpu.busy
  \/ d = "object" /\ object.unload /\ runtime[d].state = "FAULT" /\ ~kpu.busy

\* ai_model_runtime_tick frees the model when the KPU has ended or, after
\* the timeout, has been stopped and reset (hal_kpu_stop_and_reset).  The
\* object detector asks again for an unload that went wrong.
Frees(d) ==
  \/ runtime[d].state = "UNLOAD_PENDING" /\ (~kpu.busy \/ kpu.late)
  \/ d = "object" /\ object.unload /\ runtime[d].state = "FAULT" /\ ~kpu.busy

Unloaded(d) == runtime[d].state = "UNLOADED" \/ Frees(d)

\* camera_ai_input_release
Released(d) == [OutputOff(camera) EXCEPT !.hooks = IF @ = d THEN Nothing ELSE @]
NoInput == [owner |-> Nothing, state |-> "DISABLED", image |-> "torn"]

\* ..._detector_service_tick: an unloaded detector gives back the input.
Service(d) ==
  /\ runtime[d].state \notin {"READY", "RUNNING"}
  /\ IF Frees(d) THEN runtime' = Freed(d) /\ kpu' = NoModel
     ELSE UNCHANGED <<runtime, kpu>>
  /\ IF Unloaded(d) /\ input.owner = d
     THEN input' = NoInput /\ camera' = Released(d)
     ELSE UNCHANGED <<input, camera>>
  /\ object' = IF d = "object" /\ Unloaded(d) THEN [object EXCEPT !.unload = FALSE]
               ELSE object
  /\ UNCHANGED todo

\* The detector's unload.
Unload(d) ==
  /\ Call(d, Cancel(d) \o Request(d))
  /\ object' = IF d # "object" THEN object
               ELSE [active |-> FALSE, paused |-> TRUE, unload |-> TRUE,
                     run |-> Outdated(object.run),
                     result |-> Outdated(object.result)]
  /\ input' = IF d = "object" THEN [input EXCEPT !.image = Old(@)] ELSE input

Ready(d) ==
  /\ runtime[d].ok
  /\ kpu.owner = d /\ runtime[d].state \in {"READY", "RUNNING"}
  /\ d = "object" => object.active

-----------------------------------------------------------------------------
(* A detector's load and the start of its app                              *)

\* Its own model is still being unloaded, or another detector has the input.
Busy(d) ==
  \/ runtime[d].state = "UNLOAD_PENDING" /\ ~Frees(d)
  \/ input.owner \notin {Nothing, d}

\* What the object detector resets before it knows whether it may load.
Reset(d, loaded) ==
  object' = IF d # "object" \/ ~Unloaded(d) THEN object
            ELSE [active |-> object.active \/ loaded, paused |-> FALSE,
                  unload |-> FALSE, run |-> Nothing, result |-> Nothing]

Show(d, phase) == app' = [app EXCEPT !.name = d, !.phase = phase]

\* camera_stop and camera_stream_stop
Stopped(c) == [OutputOff(c) EXCEPT !.running = FALSE, !.capturing = FALSE,
                                   !.ready = FALSE]

WaitForModel(d) ==
  /\ Busy(d)
  /\ Reset(d, FALSE)
  /\ Show(d, "waiting")
  /\ UNCHANGED <<camera, input, kpu, runtime, todo>>

\* The card, the model file or its contents are not right; or an earlier
\* unload went wrong.
LoadFails(d) ==
  /\ ~Busy(d)
  /\ IF Unloaded(d)
     THEN /\ runtime' = [Freed(d) EXCEPT ![d].ok = FALSE]
          /\ kpu' = NoModel
          /\ input' = NoInput /\ camera' = Released(d)
     ELSE UNCHANGED <<runtime, kpu, input, camera>>
  /\ Reset(d, FALSE)
  /\ Show(d, "error")
  /\ UNCHANGED todo

\* The model is loaded, the camera restarted, which may fail, and the input
\* attached to its conversions (camera_ai_input_attach).
LoadWorks(d) ==
  /\ ~Busy(d) /\ Unloaded(d)
  /\ runtime' = [Freed(d) EXCEPT ![d].state = "READY", ![d].ok = TRUE]
  /\ kpu' = [NoModel EXCEPT !.owner = d]
  /\ input' = [owner |-> d, state |-> "ARMED", image |-> "torn"]
  /\ \E starts \in BOOLEAN :
       camera' = [Stopped(camera) EXCEPT !.hooks = d, !.running = starts,
                                         !.paused = FALSE, !.sync = TRUE]
  /\ Reset(d, TRUE)
  /\ Show(d, "open")
  /\ UNCHANGED todo

StartDetector(d) == WaitForModel(d) \/ LoadFails(d) \/ LoadWorks(d)

-----------------------------------------------------------------------------
(* One call of a detector's process_frame                                  *)

FinishInference_NotArmed(d) ==
  /\ runtime[d].completion
  /\ \E decoded \in BOOLEAN :
       /\ runtime' = [runtime EXCEPT ![d].completion = FALSE,
                                     ![d].ok = @ /\ decoded]
       /\ object' = IF decoded /\ d = "object" /\ object.run # "outdated"
                    THEN [object EXCEPT !.result = object.run] ELSE object
       /\ Call(d, Cancel(d))
  /\ UNCHANGED <<camera, input, kpu>>

\* finish_inference: the output is decoded and the input armed again.
FinishInference(d) ==
  /\ runtime[d].completion
  /\ \E decoded \in BOOLEAN :
       /\ runtime' = [runtime EXCEPT ![d].completion = FALSE,
                                     ![d].ok = @ /\ decoded]
       /\ object' = IF decoded /\ d = "object" /\ object.run # "outdated"
                    THEN [object EXCEPT !.result = object.run] ELSE object
       /\ Call(d, CASE d = "face" -> Arm(d)
                    [] d = "object" /\ object.paused -> Cancel(d)
                    [] d = "object" /\ ~object.paused /\ decoded -> Cancel(d) \o Arm(d)
                    [] OTHER -> Arm(d))
  /\ UNCHANGED <<camera, input, kpu>>

\* camera_ai_input_take and ai_model_runtime_run, which may fail
RunInference(d) ==
  /\ ~runtime[d].completion /\ runtime[d].state = "READY"
  /\ input.owner = d /\ input.state = "READY"
  /\ input' = [input EXCEPT !.state = "BUSY"]
  /\ object' = IF d = "object" THEN [object EXCEPT !.run = input.image] ELSE object
  /\ \/ /\ kpu' = [kpu EXCEPT !.busy = TRUE]
        /\ runtime' = [runtime EXCEPT ![d].state = "RUNNING"]
        /\ UNCHANGED todo
     \/ /\ runtime' = [runtime EXCEPT ![d].ok = FALSE]
        /\ Call(d, IF d = "object" /\ object.paused THEN <<>> ELSE Arm(d))
        /\ UNCHANGED kpu
  /\ UNCHANGED camera

\* The KPU runs, or there is no image for it.
NothingToRun(d) ==
  /\ ~runtime[d].completion
  /\ runtime[d].state = "RUNNING" \/ input.owner # d \/ input.state # "READY"
  /\ UNCHANGED <<camera, input, kpu, runtime, object, todo>>

ProcessFrame(d) ==
  /\ Ready(d)
  /\ FinishInference(d) \/ RunInference(d) \/ NothingToRun(d)

-----------------------------------------------------------------------------
(* The main loop                                                           *)

\* face_detect_background_tick
FaceBackground ==
  /\ Idle
  /\ Service("face") \/ ProcessFrame("face")
  /\ UNCHANGED app

\* object_detect_controller_background_tick
ObjectBackground ==
  /\ Idle
  /\ \/ Service("object")
     \/ app.frame /\ ProcessFrame("object")
  /\ app' = [app EXCEPT !.frame = FALSE]

\* ..._controller_enter, and the next attempts while it waits
Open(d) == Idle /\ app.name = "menu" /\ StartDetector(d)

Retry(d) == Idle /\ app.name = d /\ app.phase = "waiting" /\ StartDetector(d)

\* The controller's tick with a new frame on the screen; it gives up when
\* the detector failed meanwhile.
Tick(d) ==
  /\ Idle
  /\ app.name = d /\ app.phase = "open"
  /\ camera.running /\ camera.ready
  /\ IF Ready(d)
     THEN /\ app' = [app EXCEPT !.frame = (d = "object")]
          /\ camera' = [camera EXCEPT !.ready = FALSE]
          /\ UNCHANGED <<input, object, todo>>
     ELSE /\ app' = [app EXCEPT !.phase = "error", !.frame = (d = "object")]
          /\ camera' = Stopped(camera)
          /\ Unload(d)
  /\ UNCHANGED <<kpu, runtime>>

\* ..._controller_exit, which BACK, HKMENU and a change of mode all reach.
\* Not when the app only waits to unload what it ran before, unless
\* MayLeaveWaiting: see DeferredUnloadCompletes.
Leave(d) ==
  /\ Idle
  /\ app.name = d
  /\ MayLeaveWaiting \/ app.phase # "waiting" \/ runtime[d].state # "UNLOAD_PENDING"
  /\ camera' = IF camera.running THEN Stopped(camera) ELSE camera
  /\ Unload(d)
  /\ Show("menu", "open")
  /\ UNCHANGED <<kpu, runtime>>

\* Another app that uses the camera, and no detector.
OpenCamera ==
  /\ Idle
  /\ app.name = "menu"
  /\ camera' = [Stopped(camera) EXCEPT !.running = TRUE, !.paused = FALSE,
                                       !.sync = TRUE]
  /\ Show("camera", "open")
  /\ UNCHANGED <<input, kpu, runtime, object, todo>>

LeaveCamera ==
  /\ Idle
  /\ app.name = "camera"
  /\ camera' = Stopped(camera)
  /\ Show("menu", "open")
  /\ UNCHANGED <<input, kpu, runtime, object, todo>>

Invalidated_SameEpoch(paused) ==
  [object EXCEPT !.paused = paused, !.run = Old(@), !.result = Nothing]

\* object_detect_detector_invalidate_results
Invalidated(paused) ==
  [object EXCEPT !.paused = paused, !.run = Outdated(@), !.result = Nothing]

\* The settings of the object app open: results are forgotten, the camera is
\* frozen, then the input cancelled.
OpenSettings ==
  /\ Idle
  /\ app.name = "object" /\ app.phase = "open"
  /\ object' = Invalidated(TRUE)
  /\ input' = [input EXCEPT !.image = Old(@)]
  /\ camera' = [camera EXCEPT !.paused = @ \/ camera.running, !.writing = Old(@)]
  /\ Call("object", Cancel("object"))
  /\ Show("object", "settings")
  /\ UNCHANGED <<kpu, runtime>>

CloseSettings_Arms ==
  /\ Idle
  /\ app.name = "object" /\ app.phase = "settings"
  /\ object' = Invalidated(FALSE)
  /\ input' = [input EXCEPT !.image = Old(@)]
  /\ camera' = [camera EXCEPT !.paused = FALSE, !.sync = @ \/ camera.running,
                              !.ready = FALSE, !.writing = Old(@)]
  /\ Call("object", Arm("object"))
  /\ Show("object", "open")
  /\ UNCHANGED <<kpu, runtime>>

\* The settings close: the camera goes on, and the input is armed unless the
\* KPU is still reading it.
CloseSettings ==
  /\ Idle
  /\ app.name = "object" /\ app.phase = "settings"
  /\ object' = Invalidated(FALSE)
  /\ input' = [input EXCEPT !.image = Old(@)]
  /\ camera' = [camera EXCEPT !.paused = FALSE, !.sync = @ \/ camera.running,
                              !.ready = FALSE, !.writing = Old(@)]
  /\ Call("object", IF runtime["object"].state = "RUNNING" THEN <<>>
                    ELSE Arm("object"))
  /\ Show("object", "open")
  /\ UNCHANGED <<kpu, runtime>>

-----------------------------------------------------------------------------
AiNext ==
  \/ ConvertStart \/ ConvertFinish \/ KpuDone \/ UnloadTimePasses
  \/ NextStore
  \/ FaceBackground \/ ObjectBackground
  \/ \E d \in Detectors : Open(d) \/ Retry(d) \/ Tick(d) \/ Leave(d)
  \/ OpenCamera \/ LeaveCamera \/ OpenSettings \/ CloseSettings

AiSpec == AiInit /\ [][AiNext]_aiVars

(***************************************************************************)
(* The camera delivers frames while it runs, time passes, and the main     *)
(* loop goes round: it ends the call it is in, runs the background ticks   *)
(* and the tick of the app.  The KPU need not end: it may hang.            *)
(***************************************************************************)
AiFairSpec ==
  /\ AiSpec
  /\ WF_aiVars(ConvertStart) /\ WF_aiVars(ConvertFinish) /\ WF_aiVars(UnloadTimePasses)
  /\ WF_aiVars(NextStore)
  /\ SF_aiVars(FaceBackground) /\ SF_aiVars(ObjectBackground)
  /\ \A d \in Detectors : SF_aiVars(Retry(d)) /\ SF_aiVars(Tick(d))

-----------------------------------------------------------------------------
(* Properties                                                              *)

AiTypeOK ==
  /\ camera \in [running : BOOLEAN, paused : BOOLEAN, sync : BOOLEAN,
                 capturing : BOOLEAN, ready : BOOLEAN, output : BOOLEAN,
                 hooks : Detectors \cup {Nothing}, writing : {Nothing, "fresh", "stale"}]
  /\ input \in [owner : Detectors \cup {Nothing},
                state : {"DISABLED", "ARMED", "CAPTURING", "READY", "BUSY"},
                image : {"torn", "fresh", "stale"}]
  /\ kpu \in [owner : Detectors \cup {Nothing}, busy : BOOLEAN, late : BOOLEAN]

(***************************************************************************)
(* "captures one complete planar frame at DVP boundaries and remains       *)
(* immutable until KPU completion" (docs/APP_LIFECYCLE.md): while the KPU  *)
(* runs no conversion writes the input, and an image that was taken for    *)
(* the KPU is one whole frame, wherever settings, errors, exits and        *)
(* interrupts cut in.                                                      *)
(***************************************************************************)
InputIsOneFrame ==
  /\ kpu.busy => camera.writing = Nothing /\ input.image # "torn"
  /\ input.state = "BUSY" => camera.writing = Nothing /\ input.image # "torn"

(***************************************************************************)
(* "A session epoch rejects any result begun before settings, exit, or     *)
(* re-entry", and beyond that: the results the object app shows are of an  *)
(* image that was captured after the settings closed or the app was        *)
(* opened, also when the image was ready, or half written, before.         *)
(***************************************************************************)
ResultsAreCurrent ==
  object.active => object.result \in {Nothing, "outdated", "fresh"}

(***************************************************************************)
(* An app that waits for the KPU or the input of another, or for its own   *)
(* earlier model, gets to load, even when the KPU hangs and has to be      *)
(* reset.                                                                  *)
(***************************************************************************)
WaitingAppLoads ==
  \A d \in Detectors :
    (app.name = d /\ app.phase = "waiting")
      ~> ~(app.name = d /\ app.phase = "waiting")

Detecting(d) ==
  app.name = d /\ app.phase = "open" /\ camera.running /\ Ready(d)

(***************************************************************************)
(* Detection does not wedge: as long as the app is open, unpaused and      *)
(* without error another inference is begun, whatever the settings, the    *)
(* interrupts and the errors before left armed, cancelled or ready.        *)
(***************************************************************************)
InferencesGoOn == \A d \in Detectors : Detecting(d) ~> kpu.busy \/ ~Detecting(d)

(***************************************************************************)
(* "If inference is active, the module's background_tick services the      *)
(* generic deferred unload after navigation has returned to the menu"      *)
(* (docs/APP_LIFECYCLE.md): an unload that waits for the KPU ends with     *)
(* the model unloaded.                                                     *)
(***************************************************************************)
DeferredUnloadCompletes ==
  \A d \in Detectors :
    (runtime[d].state = "UNLOAD_PENDING") ~> (runtime[d].state = "UNLOADED")
===============================================================================
