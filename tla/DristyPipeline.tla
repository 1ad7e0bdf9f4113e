---------------------------- MODULE DristyPipeline ----------------------------
(***************************************************************************)
(* The Dristy pipeline (dristy/dristy_pipeline.c) with the tracker it      *)
(* feeds, the mode table, the export of the detectors' results into the    *)
(* snapshot (dristy_legacy_export.c), the result bus it commits to, and    *)
(* the vision app whose route a mode selects (apps/vision_mode).           *)
(*                                                                         *)
(* Everything here runs in the main loop of core 0; what interleaves are   *)
(* its stages (the pipeline's tick and the tick of the open app), the      *)
(* detectors on core 1, the camera, the user and the host's commands.  A   *)
(* committed frame is one action.                                          *)
(*                                                                         *)
(* Geometry, scores, poses, timing and the QR payload are abstracted: no   *)
(* control decision of these files depends on more than which items there  *)
(* are.  The pipeline's own KPU runtime is never loaded, so that its       *)
(* completion branch (process_kpu_result) is not taken.  The detectors'    *)
(* own apps, opened outside the vision app, are left out.                  *)
(***************************************************************************)
EXTENDS Tracker

CONSTANTS
    Modes,          \* the modes of the mode table that are exercised
    AnyObject,      \* no class filter (0xFF)
    MaxItems,       \* VISION_RESULT_MAX_ITEMS
    MaxDetections,  \* DRISTY_MAX_DETECTIONS
    MaxFrames       \* bound on the committed frames

AnyId == 0

VARIABLES
    mode,       \* g_mode
    tk,         \* g_tracker
    target,     \* g_target_track_id, g_target_class, and what had that identity
    newFrame,   \* the stream's sequence differs from the last one committed
    frame,      \* g_frame_number
    bus,        \* the front snapshot of the result bus, or NoSnapshot
    app,        \* the route of the vision app that is open, or "none"
    active,     \* s_active_mode of the vision app, or NoMode
    found,      \* the object or face detector's current results
    tags,       \* the AprilTag detector's current results, counted
    vision      \* g_snapshot of vision_result_service

vars == <<mode, tk, target, newFrame, frame, bus, app, active, found, tags, vision>>

NoMode == "none"
NoSnapshot == [frame |-> 0]
NoVision == [source |-> "NONE", items |-> <<>>]

\* The results a detector can hand over.
Findings == BoundedSeq(Objects, MaxItems)

\* The mode table: what each mode uses.
Capabilities ==
    [DETECT |-> {"KPU"}, DETECT_CUSTOM |-> {"KPU"}, CLASSIFY |-> {"KPU"},
     FACE_DETECT |-> {"KPU"}, FACE_RECOGNISE |-> {"KPU"},
     COLOUR_TRACK |-> {"CLASSICAL", "TRACKER"}, LINE_FOLLOW |-> {"CLASSICAL"},
     APRILTAG |-> {"CLASSICAL", "TAGS"}, QR_CODE |-> {"CLASSICAL", "QR"},
     OPTICAL_FLOW |-> {"CLASSICAL", "FLOW"}, COLOUR_SORT |-> {"CLASSICAL"},
     ARUCO |-> {"CLASSICAL", "TAGS"}, MOTION_DETECT |-> {"CLASSICAL"},
     DETECT_TRACK |-> {"KPU", "TRACKER"},
     DETECT_TAG |-> {"KPU", "CLASSICAL", "TAGS"},
     LANDING_TARGET |-> {"CLASSICAL", "TAGS", "FLOW"},
     DETECT_ARUCO |-> {"KPU", "CLASSICAL", "TAGS"},
     DETECT_MOTION |-> {"KPU", "CLASSICAL"}]

Uses(capability) == capability \in Capabilities[mode]

ASSUME PipelineAssumption ==
    /\ Modes \subseteq DOMAIN Capabilities
    /\ AnyObject \notin Objects
    /\ {MaxItems, MaxDetections, MaxFrames} \subseteq Nat

\* Modes whose frames the open app hands over; the tick leaves them alone.
UsesCameraStream == Uses("CLASSICAL") /\ mode \notin {"APRILTAG", "QR_CODE"}

\* The app that serves a mode: a detector's app, or a preview for the modes that
\* only look at pixels.
Route(m) ==
    CASE m \in {"DETECT", "DETECT_TRACK", "DETECT_CUSTOM", "CLASSIFY",
                "DETECT_MOTION", "DETECT_ARUCO"} -> "object"
      [] m = "DETECT_TAG" -> "object+tags"
      [] m \in {"FACE_DETECT", "FACE_RECOGNISE"} -> "face"
      [] m \in {"APRILTAG", "LANDING_TARGET"} -> "apriltag"
      [] m = "QR_CODE" -> "qr"
      [] OTHER -> "preview"

DetectsObjects == app \in {"object", "object+tags"}
DetectsTags == app \in {"apriltag", "object+tags"}

\* The frame consumers that hand their frame to the pipeline.
Ingests ==
    \/ app = "preview"
    \/ DetectsObjects /\ active \in {"DETECT_MOTION", "DETECT_ARUCO", "DETECT_TAG"}
    \/ app = "apriltag" /\ active = "LANDING_TARGET"

Init ==
    /\ mode \in Modes
    /\ tk = EmptyTracker
    /\ target = [id |-> AnyId, cls |-> AnyObject, was |-> AnyObject]
    /\ newFrame = FALSE
    /\ frame = 0
    /\ bus = NoSnapshot
    /\ app = "none" /\ active = NoMode
    /\ found = <<>> /\ tags = 0
    /\ vision = NoVision

-----------------------------------------------------------------------------
(* Building a snapshot: [tk, dets, tags, blobs] *)

\* Results are appended to the snapshot's detections, and the whole array goes to
\* the tracker.  The array is local to the call: what an earlier export of the
\* same frame counted was not put there, so those entries are uninitialized and
\* can be anything.
AppendAndTrack(s, items) ==
    LET room == MaxDetections - s.dets
        taken == SubSeq(items, 1, IF Len(items) > room THEN room ELSE Len(items))
    IN  IF items = <<>> THEN {s}
        ELSE UNION {{[s EXCEPT !.dets = @ + Len(taken), !.tk = after] :
                        after \in Update(s.tk, stale \o taken, frame + 1)} :
                    stale \in [1 .. s.dets -> Objects]}

\* export_vision_service: tags replace a smaller tag count; other items are tracked.
ExportVision(s) ==
    IF vision.source = "APRILTAG"
    THEN {IF Len(vision.items) > s.tags THEN [s EXCEPT !.tags = Len(vision.items)] ELSE s}
    ELSE AppendAndTrack(s, vision.items)

\* export_object_detector
ExportObjects(s) == AppendAndTrack(s, IF DetectsObjects THEN found ELSE <<>>)

\* export_face_detector: counted, not tracked.
ExportFaces(s) ==
    IF app # "face" THEN s
    ELSE [s EXCEPT !.dets = AtMost(MaxDetections, @ + Len(found))]

ExportTags(s) == [s EXCEPT !.tags = @ + tags]

\* dristy_legacy_export_into_snap
Export(s0) ==
    UNION {CASE mode = "DETECT_TAG" -> {ExportTags(s) : s \in ExportObjects(s1)}
             [] mode \in {"DETECT", "DETECT_TRACK", "DETECT_CUSTOM", "CLASSIFY",
                          "DETECT_MOTION"} -> ExportObjects(s1)
             [] mode \in {"FACE_DETECT", "FACE_RECOGNISE"} -> {ExportFaces(s1)}
             [] mode \in {"APRILTAG", "LANDING_TARGET"} -> {ExportTags(s1)}
             [] OTHER -> {s1} : s1 \in ExportVision(s0)}

\* The classical stages on the frame's pixels: whether there are blobs, markers
\* or motion is up to the scene.
Classical(s) ==
    CASE mode \in {"COLOUR_TRACK", "COLOUR_SORT"} -> {[s EXCEPT !.blobs = k] : k \in {0, 1}}
      [] mode \in {"ARUCO", "DETECT_ARUCO"} -> {s, [s EXCEPT !.tags = 1]}
      [] mode = "MOTION_DETECT" -> {s, [s EXCEPT !.dets = 1]}
      [] mode = "DETECT_MOTION" -> {s, [s EXCEPT !.dets = 0]}
      [] OTHER -> {s}

\* process_kpu_result exports, and so does the stage after it, classical or not.
Processed(s0, pixels) ==
    LET afterKpu == IF Uses("KPU") THEN Export(s0) ELSE {s0}
        afterSync == UNION {Export(s) : s \in afterKpu}
    IN  IF UsesCameraStream /\ pixels
        THEN UNION {Classical(s) : s \in afterSync}
        ELSE afterSync

\* Mutant: a frame without detections leaves the tracks as they are.
TrackedIfDetected(s) == s

\* A frame without detections moves the tracks on, in a mode that tracks.
Tracked(s) ==
    IF Uses("TRACKER") /\ s.dets = 0 THEN [s EXCEPT !.tk = Predict(@)] ELSE s

\* Mutant: a requested track that is lost is replaced by one of its class.
EligibleByClass(t) == t.id = target.id \/ target.cls \in {AnyObject, t.obj}

\* select_primary_target: the requested track, else the best one of the requested
\* class (the score is abstracted), else a tag, else a blob.
Eligible(t) ==
    IF target.id # AnyId THEN t.id = target.id
    ELSE target.cls \in {AnyObject, t.obj}

Primary(s) ==
    LET eligible == {t \in Report(s.tk) : Eligible(t)}
    IN  IF eligible # {} THEN {[type |-> "TRACK", track |-> t.id] : t \in eligible}
        ELSE {[type |-> IF s.tags > 0 THEN "TAG" ELSE IF s.blobs > 0 THEN "BLOB" ELSE "NONE",
               track |-> AnyId]}

\* What the snapshot keeps of a track, and the two histories.
Shown(t) == [id |-> t.id, obj |-> t.obj, frames |-> t.frames, seen |-> t.seen]

\* pipeline_commit_frame
Commit(pixels) ==
    /\ frame < MaxFrames
    /\ frame' = frame + 1
    /\ \E s0 \in Processed([tk |-> tk, dets |-> 0, tags |-> 0, blobs |-> 0], pixels) :
        LET s == Tracked(s0)
        IN  /\ tk' = s.tk
            /\ \E primary \in Primary(s) :
                bus' = [frame |-> frame + 1, mode |-> mode, target |-> primary,
                        tracks |-> {Shown(t) : t \in Report(s.tk)}]

-----------------------------------------------------------------------------
(* The stages of the main loop, and what drives them *)

\* A frame arrives on the camera stream.
CameraFrame ==
    /\ app # "none"
    /\ newFrame' = TRUE
    /\ UNCHANGED <<mode, tk, target, frame, bus, app, active, found, tags, vision>>

\* dristy_pipeline_tick: once per camera frame, outside the modes that are given
\* their pixels.
PipelineTick ==
    /\ app # "none" /\ newFrame
    /\ ~UsesCameraStream
    /\ newFrame' = FALSE
    /\ Commit(FALSE)
    /\ UNCHANGED <<mode, target, app, active, found, tags, vision>>

\* What the app publishes of its detector's results after a frame.
Published ==
    CASE DetectsObjects   -> [source |-> "OBJECT_DETECT", items |-> found]
      [] app = "face"     -> [source |-> "FACE", items |-> found]
      [] app = "apriltag" -> [source |-> "APRILTAG", items |-> [i \in 1 .. tags |-> "tag"]]
      [] OTHER            -> vision

\* The tick of the open app shows a frame: its consumer may hand the frame to the
\* pipeline (dristy_pipeline_ingest_rgb565), and then the results are published.
AppTick ==
    /\ app # "none"
    /\ IF Ingests THEN Commit(TRUE) ELSE UNCHANGED <<tk, frame, bus>>
    /\ vision' = Published
    /\ UNCHANGED <<mode, target, newFrame, app, active, found, tags>>

\* dristy_pipeline_set_mode
SetMode(m) ==
    /\ mode' = m
    /\ tk' = Reset(tk)
    /\ newFrame' = (app # "none")

\* The vision app opens the route of a mode; one that was open has been closed,
\* with its detector and its results.
OpenRoute(m) ==
    /\ SetMode(m)
    /\ app' = Route(m) /\ active' = m
    /\ found' = <<>> /\ tags' = 0
    /\ vision' = NoVision

\* The user picks a mode from the menu.
OpenMode(m) ==
    /\ app = "none"
    /\ OpenRoute(m)
    /\ UNCHANGED <<target, frame, bus>>

\* The host sets the mode.  The pipeline changes at once; the vision app follows
\* later in the same tick (dristy_host_mode_service), in place when the route
\* stays, and not at all while the screen is off.
HostMode(m, screenOn) ==
    /\ IF screenOn /\ (app = "none" \/ Route(active) # Route(m))
       THEN OpenRoute(m)
       ELSE /\ SetMode(m)
            /\ active' = IF screenOn THEN m ELSE active
            /\ UNCHANGED <<app, found, tags, vision>>
    /\ UNCHANGED <<target, frame, bus>>

\* DLP SET_TARGET_ID, with an identity the host has been told or none.
SetTargetTrack(id, obj) ==
    /\ target' = [target EXCEPT !.id = id, !.was = obj]
    /\ UNCHANGED <<mode, tk, newFrame, frame, bus, app, active, found, tags, vision>>

\* DLP SET_TARGET_CLS
SetTargetClass(cls) ==
    /\ target' = [target EXCEPT !.cls = cls]
    /\ UNCHANGED <<mode, tk, newFrame, frame, bus, app, active, found, tags, vision>>

\* The app's detector publishes the results of a frame.
DetectorResult(items, k) ==
    /\ items # <<>> => DetectsObjects \/ app = "face"
    /\ k # 0 => DetectsTags
    /\ <<items, k>> # <<found, tags>>
    /\ found' = items /\ tags' = k
    /\ UNCHANGED <<mode, tk, target, newFrame, frame, bus, app, active, vision>>

\* The settings menu opens over the app: what it published is withdrawn, and
\* object results are invalidated.
OpenSettings ==
    /\ DetectsObjects \/ app = "apriltag"
    /\ vision' = NoVision
    /\ found' = <<>>
    /\ UNCHANGED <<mode, tk, target, newFrame, frame, bus, app, active, tags>>

\* The app closes: it clears its results and stops the camera.
CloseApp ==
    /\ app # "none"
    /\ app' = "none" /\ active' = NoMode
    /\ found' = <<>> /\ tags' = 0
    /\ vision' = NoVision
    /\ UNCHANGED <<mode, tk, target, newFrame, frame, bus>>

Next ==
    \/ CameraFrame \/ PipelineTick \/ AppTick \/ OpenSettings \/ CloseApp
    \/ \E m \in Modes : OpenMode(m) \/ \E screenOn \in BOOLEAN : HostMode(m, screenOn)
    \/ bus # NoSnapshot /\ \E t \in bus.tracks : SetTargetTrack(t.id, t.obj)
    \/ SetTargetTrack(AnyId, AnyObject)
    \/ \E cls \in Objects \union {AnyObject} : SetTargetClass(cls)
    \/ \E items \in Findings, k \in {0, 1} : DetectorResult(items, k)

Spec == Init /\ [][Next]_vars

-----------------------------------------------------------------------------
(* Properties *)

\* The table of tracks between two frames: it fits, identities are issued once,
\* and no track has missed more frames than its state allows
\* (track_mark_missed, prune_deleted).
TrackTableOK ==
    /\ Cardinality(tk.tracks) <= MaxTracks
    /\ \A t \in tk.tracks :
        /\ t \in Tracks
        /\ t.state = "TENTATIVE" => t.misses <= MaxTentativeCoast
        /\ t.state = "CONFIRMED" => t.misses = 0
        /\ t.state = "COASTING" => t.misses \in 1 .. MaxCoast
        /\ t.state # "DELETED"
        /\ \A u \in tk.tracks \ {t} : u.id # t.id

\* A host that follows an identity follows one object: whatever is matched,
\* deleted or forgotten with a change of mode, the identity it asked for never
\* passes to another object (class gate, dristy_tracker_reset's saved_id).
FollowedIdKeepsItsObject ==
    target.id # AnyId =>
        /\ \A t \in tk.tracks : t.id = target.id => t.obj = target.was
        /\ \A t \in bus.tracks : t.id = target.id => t.obj = target.was

\* The primary target, which a flight controller steers by, is the one that was
\* asked for when the frame was committed: a lost identity or class is never
\* replaced by another track (select_primary_target).
TargetIsTheRequestedOne ==
    [][bus' # bus /\ bus'.target.type = "TRACK" =>
        \E t \in bus'.tracks :
            /\ t.id = bus'.target.track
            /\ IF target.id # AnyId THEN t.id = target.id
               ELSE target.cls \in {AnyObject, t.obj}]_vars

\* In a mode that tracks, an object that is gone leaves the reports: nothing is
\* reported that no detection was matched to in the last MaxCoast frames
\* (pipeline_commit_frame's predict, track_mark_missed).
LostTracksExpire ==
    bus # NoSnapshot /\ "TRACKER" \in Capabilities[bus.mode] =>
        \A t \in bus.tracks : bus.frame - t.seen <= MaxCoast

\* "frames before track is confirmed" (dristy_tracker.h, min_hits_to_confirm):
\* what is reported has been detected in that many frames.
ConfirmedInSeparateFrames ==
    bus # NoSnapshot => \A t \in bus.tracks : t.frames >= MinHits

=============================================================================
