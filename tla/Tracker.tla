------------------------------- MODULE Tracker -------------------------------
(***************************************************************************)
(* The multi-object tracker (dristy/dristy_tracker.c) as operators on its  *)
(* state: the tracks of the table and the next identity.  The order of the *)
(* table decides nothing but which of two equally good assignments the     *)
(* solver returns, and that is left open here.                             *)
(*                                                                         *)
(* A detection is an object: its class and where it is.  The IoU,          *)
(* Mahalanobis and class gates let a track match the detections of its own *)
(* object, and the Kalman filter keeps the track on it; the cost that      *)
(* separates two detections of one object is abstracted to a choice.       *)
(* Hungarian.tla is the solver itself.                                     *)
(*                                                                         *)
(* `frames` and `seen` of a track are histories: in how many pipeline      *)
(* frames, counted up to min_hits_to_confirm, and in which one last, a     *)
(* detection was matched to it.                                            *)
(***************************************************************************)
EXTENDS Integers, Sequences, SequencesExt, FiniteSets

CONSTANTS
    Objects,            \* what can be detected: each a class of its own
    MaxTracks,          \* DRISTY_TRACKER_MAX_TRACKS
    MinHits,            \* config.min_hits_to_confirm
    MaxCoast,           \* config.max_coast_frames
    MaxTentativeCoast   \* config.max_tentative_coast

ASSUME TrackerAssumption ==
    /\ Objects # {}
    /\ {MaxTracks, MinHits} \subseteq Nat \ {0}
    /\ {MaxCoast, MaxTentativeCoast} \subseteq Nat

\* Identities are 16 bits wide and 0 stands for none.
IdWrap == 65536

\* The identity that is next after k more have been issued.
Later(id, k) == ((id + k - 1) % (IdWrap - 1)) + 1

Tracks == [id : 1 .. (IdWrap - 1), obj : Objects,
           state : {"TENTATIVE", "CONFIRMED", "COASTING", "DELETED"},
           hits : 0 .. MinHits,     \* consecutive_hits, counted up to MinHits
           misses : 0 .. (MaxCoast + MaxTentativeCoast + 1),
           frames : 1 .. MinHits, seen : Nat]

EmptyTracker == [tracks |-> {}, next |-> 1]

\* Mutant: the identities start again.
ResetAll(tk) == EmptyTracker

\* dristy_tracker_reset forgets the tracks and keeps the identities running.
Reset(tk) == [tk EXCEPT !.tracks = {}]

Established(t) == t.state \in {"CONFIRMED", "COASTING"}

AtMost(limit, k) == IF k > limit THEN limit ELSE k

\* track_create
NewTrack(id, obj, frame) ==
    [id |-> id, obj |-> obj, state |-> "TENTATIVE", hits |-> 1, misses |-> 0,
     frames |-> 1, seen |-> frame]

\* track_update_with_det: enough consecutive hits confirm a tentative track, and
\* one brings a coasting track back.
Matched(t, obj, frame) ==
    LET hits == AtMost(MinHits, t.hits + 1)
    IN  [t EXCEPT !.obj = obj, !.hits = hits, !.misses = 0, !.seen = frame,
                  !.frames = AtMost(MinHits, IF t.seen = frame THEN @ ELSE @ + 1),
                  !.state = IF t.state = "COASTING" \/ hits >= MinHits
                            THEN "CONFIRMED" ELSE @]

\* track_mark_missed
Missed(t) ==
    LET misses == t.misses + 1
        limit == IF t.state = "TENTATIVE" THEN MaxTentativeCoast ELSE MaxCoast
    IN  [t EXCEPT !.hits = 0, !.misses = misses,
                  !.state = IF misses > limit THEN "DELETED"
                            ELSE IF @ = "CONFIRMED" THEN "COASTING" ELSE @]

\* prune_deleted
Live(tracks) == {t \in tracks : t.state # "DELETED"}

\* The gates of build_cost_matrix: class, IoU and Mahalanobis distance.
InGate(t, obj) == t.obj = obj

\* The assignments of one matching pass of the tracks T with the detections at
\* positions D: 0 is no detection, and the solver leaves no gated-in pair unused
\* (AssignmentIsMaximum in Hungarian.tla).
Matchings(T, dets, D) ==
    {m \in [T -> D \union {0}] :
        /\ \A t \in T : m[t] # 0 =>
              /\ InGate(t, dets[m[t]])
              /\ \A u \in T \ {t} : m[u] # m[t]
        /\ \A t \in T, d \in D :
              m[t] = 0 /\ InGate(t, dets[d]) => \E u \in T : m[u] = d}

\* The cascade: confirmed and coasting tracks choose first, tentative tracks
\* among the detections that are left.
Cascades(tracks, dets) ==
    LET first == {t \in tracks : Established(t)}
        both(m1, m2) == [t \in tracks |-> IF t \in first THEN m1[t] ELSE m2[t]]
        left(m1) == DOMAIN dets \ {m1[t] : t \in first}
    IN  UNION {{both(m1, m2) : m2 \in Matchings(tracks \ first, dets, left(m1))} :
                    m1 \in Matchings(first, dets, DOMAIN dets)}

\* Where the detection d stands among the unmatched ones.
Turn(unmatched, d) == Cardinality({e \in unmatched : e <= d})

\* track_create for the unmatched detections, one after the other, while the table
\* has room for them.
Created(next, dets, unmatched, room, frame) ==
    LET fresh == {d \in unmatched : Turn(unmatched, d) <= room}
    IN  [tracks |-> {NewTrack(Later(next, Turn(unmatched, d) - 1), dets[d], frame) :
                        d \in fresh},
         next |-> Later(next, Cardinality(fresh))]

\* dristy_tracker_update: one result for each assignment the solver may return.
\* Deleted tracks still take room while new ones are created.
Update(tk, dets, frame) ==
    {LET judged == {IF m[t] # 0 THEN Matched(t, dets[m[t]], frame) ELSE Missed(t) :
                        t \in tk.tracks}
         unmatched == {d \in DOMAIN dets : \A t \in tk.tracks : m[t] # d}
         new == Created(tk.next, dets, unmatched,
                        MaxTracks - Cardinality(tk.tracks), frame)
     IN  [tracks |-> Live(judged) \union new.tracks, next |-> new.next] :
         m \in Cascades(tk.tracks, dets)}

\* dristy_tracker_predict: a frame without detections.
Predict(tk) == [tk EXCEPT !.tracks = Live({Missed(t) : t \in @})]

\* dristy_tracker_report: tentative tracks are not shown.
Report(tk) == {t \in tk.tracks : Established(t)}

=============================================================================
