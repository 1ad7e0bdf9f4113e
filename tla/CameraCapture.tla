----------------------------- MODULE CameraCapture -----------------------------
(***************************************************************************)
(* The users of the camera's buffers: services/camera_capture.c (a         *)
(* snapshot that is held for as long as an app wants, over any number of   *)
(* ticks), the preview of services/camera_frame_access.c (a frame held     *)
(* within one call), and services/frame_pool.c, which lends the memory of  *)
(* slot 0 as a workspace (animations, PNG images) while the camera is off. *)
(*                                                                         *)
(* They are one thread, the main loop; its calls into the stream that are  *)
(* made under separate maskings of the interrupt are separate steps, with  *)
(* main saying which call is next.                                         *)
(***************************************************************************)
EXTENDS CameraStream

CONSTANT MaxBorrows   \* UINT32_MAX, after which a workspace is refused

ASSUME CaptureAssumption == MaxBorrows \in Nat

VARIABLES
  snapshot,   \* g_snapshot_frame
  preview,    \* the frame camera_runtime_present_preview draws
  main,       \* what the main loop does next
  last_shown  \* the sequence of the last frame given to a client, 0 after a start

vars == <<stream, dvp, pool, snapshot, preview, main, last_shown>>

\* A frame in the hands of a client: pixels points into slot, or is NULL.
NoFrame == [slot |-> None, lease_id |-> 0]
Frame == [slot : Slots \cup {None}, lease_id : 0 .. MaxLeaseId]

TypeOK ==
  /\ stream \in StreamType
  /\ dvp \in DvpType
  /\ pool \in [reserved : BOOLEAN, generation : 0 .. MaxBorrows,
               borrowed : 0 .. MaxBorrows]
  /\ snapshot \in Frame
  /\ preview \in Frame
  /\ main \in {"idle", "preview", "pause", "stop", "start", "resume"}
  /\ last_shown \in 0 .. MaxSequence

Init ==
  /\ StreamInit
  /\ pool = [reserved |-> FALSE, generation |-> 0, borrowed |-> 0]
  /\ snapshot = NoFrame /\ preview = NoFrame
  /\ main = "idle" /\ last_shown = 0

FrameOf(s) == [slot |-> s, lease_id |-> NextLeaseId]

-----------------------------------------------------------------------------
(* Preview                                                                 *)

\* camera_service_preview_acquire: the latest frame, or the snapshot being
\* held, without a lease.
PreviewBegin ==
  /\ main = "idle"
  /\ main' = "preview"
  /\ \/ \E s \in Slots :
          /\ AcquireLatest(s)
          /\ preview' = FrameOf(s)
          /\ last_shown' = stream.slots[s].sequence
     \/ /\ ~(stream.running /\ In(stream, "READY") # {})
        /\ snapshot.slot # None
        /\ preview' = [slot |-> snapshot.slot, lease_id |-> 0]
        /\ UNCHANGED <<stream, dvp, pool, last_shown>>
  /\ UNCHANGED snapshot

\* camera_service_preview_release
PreviewEnd ==
  /\ main = "preview"
  /\ Release(preview.lease_id)
  /\ preview' = NoFrame
  /\ main' = "idle"
  /\ UNCHANGED <<snapshot, last_shown>>

-----------------------------------------------------------------------------
(* Snapshot and session                                                    *)

\* camera_capture_snapshot: the frame first, the pause after it.
SnapshotTake ==
  /\ main = "idle"
  /\ snapshot.lease_id = 0
  /\ \E s \in Slots :
       /\ AcquireLatest(s)
       /\ snapshot' = FrameOf(s)
       /\ last_shown' = stream.slots[s].sequence
  /\ main' = "pause"
  /\ UNCHANGED preview

SnapshotPause ==
  /\ main = "pause"
  /\ Pause
  /\ main' = "idle"
  /\ UNCHANGED <<snapshot, preview, last_shown>>

\* mutant: the frame is given back but not forgotten
GiveUpSnapshot_Kept(next) ==
  /\ main = "idle"
  /\ Release(snapshot.lease_id)
  /\ snapshot' = snapshot
  /\ main' = next
  /\ UNCHANGED <<preview, last_shown>>

\* The first half of camera_capture_snapshot_done and of
\* camera_capture_reset_session.
GiveUpSnapshot(next) ==
  /\ main = "idle"
  /\ Release(snapshot.lease_id)
  /\ snapshot' = NoFrame
  /\ main' = next
  /\ UNCHANGED <<preview, last_shown>>

\* camera_capture_snapshot_done, which may or may not resume.
SnapshotDone == GiveUpSnapshot("resume") \/ GiveUpSnapshot("idle")

CaptureResume ==
  /\ main = "resume"
  /\ Resume
  /\ main' = "idle"
  /\ UNCHANGED <<snapshot, preview, last_shown>>

\* camera_capture_pause, when the camera is frozen.
CapturePause ==
  /\ main = "idle"
  /\ Pause
  /\ UNCHANGED <<snapshot, preview, main, last_shown>>

\* camera_capture_reset_session, and camera_capture_start which begins
\* with it.
SessionReset == GiveUpSnapshot("stop") \/ GiveUpSnapshot("start")

SessionStop ==
  /\ main = "stop"
  /\ Stop
  /\ main' = "idle"
  /\ UNCHANGED <<snapshot, preview, last_shown>>

SessionStart ==
  /\ main = "start"
  /\ Start
  /\ main' = "idle"
  /\ last_shown' = 0
  /\ UNCHANGED <<snapshot, preview>>

-----------------------------------------------------------------------------
(* Workspace                                                               *)

\* frame_workspace_borrow
Borrow ==
  /\ main = "idle"
  /\ ~pool.reserved
  /\ pool.borrowed = 0
  /\ pool.generation < MaxBorrows
  /\ pool' = [pool EXCEPT !.generation = @ + 1, !.borrowed = pool.generation + 1]
  /\ UNCHANGED <<stream, dvp, snapshot, preview, main, last_shown>>

\* frame_workspace_release by the borrower
ReturnWorkspace ==
  /\ main = "idle"
  /\ pool.borrowed # 0
  /\ pool' = [pool EXCEPT !.borrowed = 0]
  /\ UNCHANGED <<stream, dvp, snapshot, preview, main, last_shown>>

-----------------------------------------------------------------------------
Clients == UNCHANGED <<pool, snapshot, preview, main, last_shown>>

Hardware == (FrameStart \/ FrameFinish) /\ Clients

Irq == Interrupt /\ Clients

\* The calls the main loop makes inside a call it has begun.
Continue == PreviewEnd \/ SnapshotPause \/ CaptureResume \/ SessionStop \/ SessionStart

Main ==
  \/ PreviewBegin \/ SnapshotTake \/ SnapshotDone \/ CapturePause \/ SessionReset
  \/ Borrow \/ ReturnWorkspace
  \/ Continue

Next == Hardware \/ Irq \/ Main

Spec == Init /\ [][Next]_vars

(***************************************************************************)
(* The sensor sends frames and ends the conversions it is asked for, a     *)
(* pending interrupt is taken, and a call the main loop has begun returns. *)
(* Nothing obliges an app to start the camera or to end a snapshot.        *)
(***************************************************************************)
FairSpec ==
  /\ Spec
  /\ WF_vars(FrameStart /\ Clients) /\ WF_vars(FrameFinish /\ Clients)
  /\ WF_vars(Irq)
  /\ WF_vars(Continue)

-----------------------------------------------------------------------------
(* Properties                                                              *)

Reading == {snapshot.slot, preview.slot} \ {None}

(***************************************************************************)
(* A buffer has one user.  The slot the DVP block writes is the one the    *)
(* stream captures into; no client reads it; and the workspace, which is   *)
(* the memory of slot 0, is lent only while the camera neither writes any  *)
(* slot nor has a frame of it out.  A break is a torn picture, or a frame  *)
(* written over the canvas of an animation.                                *)
(***************************************************************************)
OneUserPerBuffer ==
  /\ dvp.converting => /\ dvp.addr = stream.capture_slot
                       /\ stream.slots[dvp.addr].state = "CAPTURING"
                       /\ dvp.addr \notin Reading
  /\ pool.borrowed # 0 => ~pool.reserved /\ ~dvp.converting /\ Reading = {}

\* The leases clients hold.
Held == {f \in {snapshot, preview} : f.lease_id # 0}

(***************************************************************************)
(* The leases the clients hold are the leased slots, each under its own    *)
(* id, also after the ids wrapped round and after a session restarted them *)
(* at 1: nobody frees the frame of another, and no slot stays leased to    *)
(* nobody.                                                                 *)
(***************************************************************************)
LeasesAgree ==
  /\ \A f \in Held : /\ stream.slots[f.slot].state = "LEASED"
                     /\ stream.slots[f.slot].lease_id = f.lease_id
  /\ \A s \in In(stream, "LEASED") :
       \E f \in Held : f.slot = s

(***************************************************************************)
(* Within a session the frames given out only get newer: one that is older *)
(* than a frame already shown is never delivered, whatever was ready,      *)
(* dropped, paused or resumed in between.                                  *)
(***************************************************************************)
FramesGetNewer ==
  [][last_shown' # 0 /\ last_shown' # last_shown => last_shown < last_shown']_vars

(***************************************************************************)
(* The stream does not wedge: while it runs and is neither paused nor      *)
(* resumed or started again (each lets one frame pass), another frame is   *)
(* captured, whichever conversion the pauses, resumes and leases before    *)
(* caught half way.                                                        *)
(***************************************************************************)
FramesFlow ==
  \A n \in 0 .. MaxSequence - 1 :
    (stream.running /\ ~stream.paused /\ stream.next_sequence = n)
      ~> (\/ ~stream.running \/ stream.paused \/ main \in {"resume", "start"}
          \/ stream.next_sequence # n)
===============================================================================
