-------------------------- MODULE DristyPipelineProofs --------------------------
(***************************************************************************)
(* Proofs about DristyPipeline and the tracker it feeds, for any objects,  *)
(* table size, limits, modes and number of frames: the table of tracks     *)
(* fits, a lost object leaves the reports, the primary target is the one   *)
(* that was asked for, and an identity a host follows stays with its       *)
(* object until identities come round.                                     *)
(***************************************************************************)
EXTENDS DristyPipeline, FiniteSetTheorems, FunctionTheorems, SequenceTheorems, TLAPS

-----------------------------------------------------------------------------
(* The tracker's table: what its operations keep *)

\* No track has missed more frames than its state allows, and none is deleted.
Settled(t) ==
  /\ t.state # "DELETED"
  /\ t.state = "TENTATIVE" => t.misses <= MaxTentativeCoast
  /\ t.state = "CONFIRMED" => t.misses = 0
  /\ t.state = "COASTING" => t.misses \in 1 .. MaxCoast

Tables == [tracks : SUBSET Tracks, next : 1 .. (IdWrap - 1)]

TableOK(k) ==
  /\ k \in Tables
  /\ IsFiniteSet(k.tracks)
  /\ Cardinality(k.tracks) <= MaxTracks
  /\ \A t \in k.tracks : Settled(t)

\* Every track has an identity of its own, issued before the next one.
OwnIds(k) ==
  /\ \A t \in k.tracks : t.id < k.next
  /\ \A t, u \in k.tracks : t.id = u.id => t = u

\* By the frame fr, no detection has been matched to a track for at most as many
\* frames as it has missed.
Lag(k, fr) == \A t \in k.tracks : fr - t.seen <= t.misses

\* The table b comes from a by issuing at most n identities: unless identities
\* come round, a track of b is a track of a with the same object, or it is new.
Continues(a, b, n) ==
  a.next + n < IdWrap =>
    /\ b.next \in a.next .. (a.next + n)
    /\ \A t \in b.tracks :
         \/ t.id >= a.next
         \/ \E s \in a.tracks : s.id = t.id /\ s.obj = t.obj
    /\ OwnIds(a) => OwnIds(b)

\* The limits of the tracker are numbers.
LEMMA Limits ==
  /\ MaxTracks \in Nat \ {0}
  /\ MinHits \in Nat \ {0}
  /\ MaxCoast \in Nat
  /\ MaxTentativeCoast \in Nat
BY TrackerAssumption

\* The identities are numbers below IdWrap; zero is none.
LEMMA WrapIs == IdWrap \in Nat /\ IdWrap > 1
BY DEF IdWrap

\* Every identity is a number.
LEMMA IdsAreNumbers ==
  /\ IdWrap \in Nat
  /\ \A x \in 1 .. (IdWrap - 1) : x \in Nat
  /\ \A t \in Tracks : t.id \in Nat
<1>1. \A x \in 1 .. (IdWrap - 1) : x \in Nat
  BY WrapIs
<1>2. \A t \in Tracks : t.id \in 1 .. (IdWrap - 1)
  BY DEF Tracks
<1> QED BY <1>1, <1>2, WrapIs

\* A matched track keeps its identity and its object, and has been seen now.
LEMMA MatchedKeeps ==
  ASSUME NEW t \in Tracks, NEW fr \in Nat
  PROVE  LET u == Matched(t, t.obj, fr)
         IN  /\ u \in Tracks
             /\ u.id = t.id /\ u.obj = t.obj
             /\ u.seen = fr /\ u.misses = 0
             /\ t.state # "DELETED" => Settled(u)
<1> DEFINE hits == AtMost(MinHits, t.hits + 1)
           frames == AtMost(MinHits, IF t.seen = fr THEN t.frames ELSE t.frames + 1)
           state == IF t.state = "COASTING" \/ hits >= MinHits
                    THEN "CONFIRMED" ELSE t.state
           u == Matched(t, t.obj, fr)
<1>1. /\ hits \in 0 .. MinHits
      /\ frames \in 1 .. MinHits
      /\ state \in {"TENTATIVE", "CONFIRMED", "COASTING", "DELETED"}
      /\ t.state # "DELETED" => state \in {"TENTATIVE", "CONFIRMED"}
  BY Limits DEF Tracks, AtMost
<1>2. /\ u.hits = hits /\ u.frames = frames /\ u.state = state
      /\ u.id = t.id /\ u.obj = t.obj /\ u.seen = fr /\ u.misses = 0
  BY DEF Matched, Tracks
<1>3. u = [t EXCEPT !.obj = t.obj, !.hits = hits, !.misses = 0, !.seen = fr,
                    !.frames = frames, !.state = state]
  BY DEF Matched
<1>4. 0 \in 0 .. (MaxCoast + MaxTentativeCoast + 1)
  BY Limits
<1>5. u \in Tracks
  <2> HIDE DEF hits, frames, state, u
  <2> QED BY <1>1, <1>3, <1>4 DEF Tracks
<1>6. t.state # "DELETED" => Settled(u)
  <2> HIDE DEF hits, frames, state, u
  <2> QED BY <1>1, <1>2, Limits DEF Settled
<1> QED BY <1>2, <1>5, <1>6

\* A missed track keeps its identity and its object, and has missed one more.
LEMMA MissedKeeps ==
  ASSUME NEW t \in Tracks, Settled(t)
  PROVE  LET u == Missed(t)
         IN  /\ u \in Tracks
             /\ u.id = t.id /\ u.obj = t.obj
             /\ u.seen = t.seen /\ u.misses = t.misses + 1
             /\ u.state # "DELETED" => Settled(u)
<1> DEFINE limit == IF t.state = "TENTATIVE" THEN MaxTentativeCoast ELSE MaxCoast
           state == IF t.misses + 1 > limit THEN "DELETED"
                    ELSE IF t.state = "CONFIRMED" THEN "COASTING" ELSE t.state
           u == Missed(t)
<1>1. /\ t.misses + 1 \in 0 .. (MaxCoast + MaxTentativeCoast + 1)
      /\ state \in {"TENTATIVE", "CONFIRMED", "COASTING", "DELETED"}
  BY Limits DEF Tracks, Settled
<1>2. /\ u.state = state
      /\ u.id = t.id /\ u.obj = t.obj /\ u.seen = t.seen /\ u.misses = t.misses + 1
  BY DEF Missed, Tracks
<1>3. u = [t EXCEPT !.hits = 0, !.misses = t.misses + 1, !.state = state]
  BY DEF Missed
<1>4. 0 \in 0 .. MinHits
  BY Limits
<1>5. u \in Tracks
  <2> HIDE DEF state, u
  <2> QED BY <1>1, <1>3, <1>4 DEF Tracks
<1>6. state # "DELETED" =>
        /\ state = "TENTATIVE" => t.misses + 1 <= MaxTentativeCoast
        /\ state # "CONFIRMED"
        /\ state = "COASTING" => t.misses + 1 \in 1 .. MaxCoast
  BY Limits DEF Tracks, Settled
<1>7. u.state # "DELETED" => Settled(u)
  <2> HIDE DEF state, u
  <2> QED BY <1>2, <1>6 DEF Settled
<1> QED BY <1>2, <1>5, <1>7

\* A new track.
LEMMA NewTrackIs ==
  ASSUME NEW id \in 1 .. (IdWrap - 1), NEW obj \in Objects, NEW fr \in Nat
  PROVE  LET u == NewTrack(id, obj, fr)
         IN  /\ u \in Tracks /\ Settled(u)
             /\ u.id = id /\ u.obj = obj /\ u.seen = fr /\ u.misses = 0
BY Limits DEF NewTrack, Tracks, Settled

\* What a remainder is.
LEMMA Remainder ==
  ASSUME NEW n \in Nat \ {0}, NEW x \in Nat
  PROVE  /\ x % n \in Nat
         /\ x % n < n
         /\ x < n => x % n = x
OBVIOUS

\* A number below n has a successor up to n.
LEMMA OneMore ==
  ASSUME NEW n \in Nat, NEW y \in Nat, y < n
  PROVE  y + 1 \in 1 .. n
OBVIOUS

\* The identities that are issued: in range, and one after the other until they
\* come round.
LEMMA LaterIs ==
  ASSUME NEW id \in 1 .. (IdWrap - 1), NEW k \in Nat
  PROVE  /\ Later(id, k) \in 1 .. (IdWrap - 1)
         /\ id + k < IdWrap => Later(id, k) = id + k
<1>1. PICK last \in Nat \ {0} : last = IdWrap - 1
  BY WrapIs
<1>2. id \in 1 .. last
  BY <1>1
<1>3. PICK x \in Nat : x = id + k - 1
  BY <1>2
<1>4. Later(id, k) = (x % last) + 1
  BY <1>1, <1>3 DEF Later
<1>5. Later(id, k) \in 1 .. last
  BY <1>4, Remainder, OneMore
<1>6. ASSUME id + k < IdWrap
      PROVE  Later(id, k) = id + k
  <2>1. x < last
    BY <1>1, <1>2, <1>3, <1>6, WrapIs
  <2>2. x % last = x
    BY <2>1, Remainder
  <2> QED BY <1>2, <1>3, <1>4, <2>2
<1> QED BY <1>1, <1>5, <1>6
-----------------------------------------------------------------------------
(* Creating tracks *)

\* The unmatched detections take turns in their order.
LEMMA TurnIs ==
  ASSUME NEW n \in Nat, NEW U \in SUBSET (1 .. n), NEW d \in U
  PROVE  /\ Turn(U, d) \in Nat \ {0}
         /\ \A e \in U : e < d => Turn(U, e) < Turn(U, d)
<1> DEFINE S(x) == {e \in U : e <= x}
<1>1. IsFiniteSet(1 .. n)
  BY FS_Interval
<1>2. \A x : IsFiniteSet(S(x)) /\ Cardinality(S(x)) \in Nat
  <2>1. \A x : S(x) \in SUBSET (1 .. n)
    OBVIOUS
  <2> HIDE DEF S
  <2> QED BY <1>1, <2>1, FS_Subset, FS_CardinalityType
<1>3. Cardinality(S(d)) # 0
  <2>1. d \in S(d)
    OBVIOUS
  <2> HIDE DEF S
  <2> QED BY <1>2, <2>1, FS_EmptySet
<1>4. ASSUME NEW e \in U, e < d
      PROVE  Cardinality(S(e)) < Cardinality(S(d))
  <2>0. \A x \in U : x \in Nat
    OBVIOUS
  <2>1. S(e) \in SUBSET S(d)
    <3> SUFFICES ASSUME NEW x \in U, x <= e
                 PROVE  x <= d
      OBVIOUS
    <3> QED BY <1>4, <2>0
  <2>2. d \in S(d) /\ d \notin S(e)
    BY <1>4, <2>0
  <2> HIDE DEF S
  <2> QED BY <1>2, <2>1, <2>2, FS_Subset
<1> QED BY <1>2, <1>3, <1>4 DEF Turn

\* Those whose turn comes while there is room are no more than there is room for,
\* and their turns count them.
LEMMA FreshFit ==
  ASSUME NEW n \in Nat, NEW U \in SUBSET (1 .. n), NEW room \in Int
  PROVE  LET fresh == {d \in U : Turn(U, d) <= room}
         IN  /\ IsFiniteSet(fresh)
             /\ Cardinality(fresh) \in Nat
             /\ Cardinality(fresh) <= (IF room > 0 THEN room ELSE 0)
             /\ \A d \in fresh : Turn(U, d) <= Cardinality(fresh)
<1> DEFINE fresh == {d \in U : Turn(U, d) <= room}
           most == IF room > 0 THEN room ELSE 0
           f == [d \in fresh |-> Turn(U, d)]
<1>1. \A d \in U : /\ Turn(U, d) \in Nat \ {0}
                   /\ \A e \in U : e < d => Turn(U, e) < Turn(U, d)
  BY TurnIs
<1>2. IsFiniteSet(1 .. most) /\ Cardinality(1 .. most) = most
  BY FS_Interval
<1>3. \A d \in fresh : f[d] \in 1 .. most
  BY <1>1
<1>4. \A d, e \in fresh : f[d] = f[e] => d = e
  BY <1>1
<1>5. f \in Injection(fresh, 1 .. most)
  <2>1. f \in [fresh -> 1 .. most]
    BY <1>3
  <2> QED BY <1>4, <2>1, Fun_IsInj
<1>6. IsFiniteSet(fresh) /\ Cardinality(fresh) <= most
  <2> HIDE DEF f, fresh, most
  <2> QED BY <1>2, <1>5, FS_Injection
<1>7. Cardinality(fresh) \in Nat
  BY <1>6, FS_CardinalityType
<1>8. ASSUME NEW d \in fresh
      PROVE  Turn(U, d) <= Cardinality(fresh)
  <2> DEFINE before == {e \in U : e <= d}
  <2>1. \A e \in before : e \in fresh
    <3> SUFFICES ASSUME NEW e \in before
                 PROVE  e \in fresh
      OBVIOUS
    <3>1. Turn(U, e) \in Nat /\ Turn(U, d) \in Nat
      BY <1>1
    <3>2. e = d \/ Turn(U, e) < Turn(U, d)
      BY <1>1
    <3> QED BY <3>1, <3>2
  <2>2. before \in SUBSET fresh
    BY <2>1
  <2>3. Turn(U, d) = Cardinality(before)
    BY DEF Turn
  <2> HIDE DEF before, fresh
  <2> QED BY <1>6, <2>2, <2>3, FS_Subset
<1> QED BY <1>6, <1>7, <1>8
\* What is created fits into the room there is; each new track has an identity of
\* its own, from the next one on.
LEMMA CreatedIs ==
  ASSUME NEW next \in 1 .. (IdWrap - 1), NEW dets \in Seq(Objects),
         NEW U \in SUBSET DOMAIN dets, NEW room \in Int, NEW fr \in Nat
  PROVE  LET c == Created(next, dets, U, room, fr)
         IN  /\ c \in Tables
             /\ IsFiniteSet(c.tracks)
             /\ Cardinality(c.tracks) <= (IF room > 0 THEN room ELSE 0)
             /\ \A t \in c.tracks : Settled(t) /\ t.seen = fr /\ t.misses = 0
             /\ \A n \in Nat : room <= n /\ next + n < IdWrap =>
                  /\ c.next \in next .. (next + n)
                  /\ \A t \in c.tracks : next <= t.id /\ t.id < c.next
                  /\ \A t, u \in c.tracks : t.id = u.id => t = u
<1> DEFINE fresh == {d \in U : Turn(U, d) <= room}
           most == IF room > 0 THEN room ELSE 0
           id(d) == Later(next, Turn(U, d) - 1)
           new(d) == NewTrack(id(d), dets[d], fr)
           c == Created(next, dets, U, room, fr)
<1>1. U \in SUBSET (1 .. Len(dets)) /\ Len(dets) \in Nat
  OBVIOUS
<1>2. /\ IsFiniteSet(fresh)
      /\ Cardinality(fresh) \in Nat
      /\ Cardinality(fresh) <= most
      /\ \A d \in fresh : Turn(U, d) <= Cardinality(fresh)
  BY <1>1, FreshFit
<1>3. \A d \in U : /\ Turn(U, d) \in Nat \ {0}
                   /\ \A e \in U : e < d => Turn(U, e) < Turn(U, d)
  BY <1>1, TurnIs
<1>4. /\ c.tracks = {new(d) : d \in fresh}
      /\ c.next = Later(next, Cardinality(fresh))
      /\ c = [tracks |-> c.tracks, next |-> c.next]
  BY DEF Created
<1>5. \A d \in fresh : Turn(U, d) - 1 \in Nat /\ id(d) \in 1 .. (IdWrap - 1)
  <2> SUFFICES ASSUME NEW d \in fresh
               PROVE  Turn(U, d) - 1 \in Nat /\ id(d) \in 1 .. (IdWrap - 1)
    OBVIOUS
  <2>1. Turn(U, d) - 1 \in Nat
    BY <1>3
  <2> QED BY <2>1, LaterIs
<1>6. \A d \in fresh :
        /\ new(d) \in Tracks /\ Settled(new(d))
        /\ new(d).id = id(d) /\ new(d).seen = fr /\ new(d).misses = 0
  <2> SUFFICES ASSUME NEW d \in fresh
               PROVE  /\ new(d) \in Tracks /\ Settled(new(d))
                      /\ new(d).id = id(d) /\ new(d).seen = fr /\ new(d).misses = 0
    OBVIOUS
  <2>1. dets[d] \in Objects
    BY <1>1
  <2>2. id(d) \in 1 .. (IdWrap - 1)
    BY <1>5
  <2> HIDE DEF id
  <2> QED BY <2>1, <2>2, NewTrackIs
<1>7. c \in Tables
  <2>1. c.next \in 1 .. (IdWrap - 1)
    BY <1>2, <1>4, LaterIs
  <2>2. c.tracks \in SUBSET Tracks
    BY <1>4, <1>6
  <2> HIDE DEF c
  <2> QED BY <1>4, <2>1, <2>2 DEF Tables
<1>8. IsFiniteSet(c.tracks) /\ Cardinality(c.tracks) <= most
  <2> DEFINE f == [d \in fresh |-> new(d)]
  <2>1. f \in Surjection(fresh, c.tracks)
    <3>1. f \in [fresh -> c.tracks]
      BY <1>4
    <3>2. \A t \in c.tracks : \E d \in fresh : f[d] = t
      BY <1>4
    <3> HIDE DEF f
    <3> QED BY <3>1, <3>2, Fun_IsSurj
  <2>2. IsFiniteSet(c.tracks) /\ Cardinality(c.tracks) <= Cardinality(fresh)
    <3> HIDE DEF f, fresh, c
    <3> QED BY <1>2, <2>1, FS_Surjection
  <2>3. Cardinality(c.tracks) \in Nat
    BY <2>2, FS_CardinalityType
  <2> HIDE DEF fresh, c
  <2> QED BY <1>2, <2>2, <2>3
<1>9. \A t \in c.tracks : Settled(t) /\ t.seen = fr /\ t.misses = 0
  BY <1>4, <1>6
<1>10. ASSUME NEW n \in Nat, room <= n, next + n < IdWrap
       PROVE  /\ c.next \in next .. (next + n)
              /\ \A t \in c.tracks : next <= t.id /\ t.id < c.next
              /\ \A t, u \in c.tracks : t.id = u.id => t = u
  <2>1. next \in Nat /\ IdWrap \in Nat
    BY IdsAreNumbers
  <2>2. Cardinality(fresh) <= n
    BY <1>2, <1>10
  <2>3. c.next = next + Cardinality(fresh)
    <3> HIDE DEF fresh, c
    <3> QED BY <1>2, <1>4, <1>10, <2>1, <2>2, LaterIs
  <2>4. \A d \in fresh : id(d) = next + Turn(U, d) - 1
    <3> SUFFICES ASSUME NEW d \in fresh
                 PROVE  id(d) = next + Turn(U, d) - 1
      OBVIOUS
    <3>1. PICK k \in Nat : k = Turn(U, d) - 1
      BY <1>5
    <3>2. Turn(U, d) \in Nat /\ Turn(U, d) <= Cardinality(fresh)
      BY <1>2, <1>3
    <3>3. next + k < IdWrap
      BY <1>2, <1>10, <2>1, <2>2, <3>1, <3>2
    <3>4. Later(next, k) = next + k
      BY <3>3, LaterIs
    <3> QED BY <2>1, <3>1, <3>2, <3>4
  <2>5. c.next \in next .. (next + n)
    BY <1>2, <2>1, <2>2, <2>3
  <2>6. \A d \in fresh : next <= new(d).id /\ new(d).id < c.next
    BY <1>2, <1>3, <1>6, <2>1, <2>3, <2>4
  <2>7. \A d, e \in fresh : id(d) = id(e) => d = e
    <3> SUFFICES ASSUME NEW d \in fresh, NEW e \in fresh, id(d) = id(e)
                 PROVE  d = e
      OBVIOUS
    <3>1. Turn(U, d) = Turn(U, e)
      BY <1>3, <2>1, <2>4
    <3>2. d \in Nat /\ e \in Nat
      BY <1>1
    <3>3. ~(d < e) /\ ~(e < d)
      BY <1>3, <3>1
    <3> QED BY <3>2, <3>3
  <2>8. \A t, u \in c.tracks : t.id = u.id => t = u
    <3> HIDE DEF fresh, id
    <3> QED BY <1>4, <1>6, <2>7
  <2> QED BY <1>4, <2>5, <2>6, <2>8
<1> QED BY <1>7, <1>8, <1>9, <1>10
-----------------------------------------------------------------------------
(* The tracker's operations *)

\* Whatever the solver assigns, a track is matched to a detection of its object.
LEMMA CascadeIs ==
  ASSUME NEW T, NEW dets \in Seq(Objects), NEW m \in Cascades(T, dets), NEW t \in T,
         m[t] # 0
  PROVE  m[t] \in DOMAIN dets /\ dets[m[t]] = t.obj
<1> DEFINE first == {u \in T : Established(u)}
           left(m1) == DOMAIN dets \ {m1[u] : u \in first}
<1>0. PICK m1 \in Matchings(first, dets, DOMAIN dets) :
        \E m2 \in Matchings(T \ first, dets, left(m1)) :
          m = [u \in T |-> IF u \in first THEN m1[u] ELSE m2[u]]
  BY DEF Cascades
<1>1. PICK m2 \in Matchings(T \ first, dets, left(m1)) :
        m = [u \in T |-> IF u \in first THEN m1[u] ELSE m2[u]]
  BY <1>0
<1>2. CASE t \in first
  <2>1. m[t] = m1[t]
    BY <1>1, <1>2
  <2>2. m1[t] \in DOMAIN dets \union {0} /\ InGate(t, dets[m1[t]])
    <3> HIDE DEF first
    <3> QED BY <1>2, <2>1 DEF Matchings
  <2> QED BY <2>1, <2>2 DEF InGate
<1>3. CASE t \notin first
  <2>1. m[t] = m2[t]
    BY <1>1, <1>3
  <2>2. m2[t] \in left(m1) \union {0} /\ InGate(t, dets[m2[t]])
    <3> HIDE DEF first, left
    <3> QED BY <1>3, <2>1 DEF Matchings
  <2> QED BY <2>1, <2>2 DEF InGate
<1> QED BY <1>2, <1>3

\* What a pass of the tracker makes of a track of its table.
Judged(t, u, fr) ==
  /\ u \in Tracks
  /\ u.id = t.id /\ u.obj = t.obj
  /\ \/ u.seen = fr /\ u.misses = 0
     \/ u.seen = t.seen /\ u.misses = t.misses + 1
  /\ u.state # "DELETED" => Settled(u)

\* The tracks that stay of a table, each of them judged.
LEMMA LiveIs ==
  ASSUME NEW a, TableOK(a), NEW J, NEW fr \in Nat,
         \A t \in a.tracks : Judged(t, J[t], fr)
  PROVE  LET live == Live({J[t] : t \in a.tracks})
         IN  /\ live \in SUBSET Tracks
             /\ IsFiniteSet(live)
             /\ Cardinality(live) <= Cardinality(a.tracks)
             /\ \A u \in live : Settled(u) /\ \E t \in a.tracks : u = J[t]
<1> DEFINE judged == {J[t] : t \in a.tracks}
           live == Live(judged)
           f == [t \in a.tracks |-> J[t]]
<1>1. IsFiniteSet(a.tracks)
  BY DEF TableOK
<1>2. f \in Surjection(a.tracks, judged)
  <2>1. f \in [a.tracks -> judged]
    OBVIOUS
  <2>2. \A u \in judged : \E t \in a.tracks : f[t] = u
    OBVIOUS
  <2> HIDE DEF f, judged
  <2> QED BY <2>1, <2>2, Fun_IsSurj
<1>3. IsFiniteSet(judged) /\ Cardinality(judged) <= Cardinality(a.tracks)
  <2> HIDE DEF f, judged
  <2> QED BY <1>1, <1>2, FS_Surjection
<1>4. live \in SUBSET judged
  BY DEF Live
<1>5. IsFiniteSet(live) /\ Cardinality(live) <= Cardinality(judged)
  <2> HIDE DEF judged, live
  <2> QED BY <1>3, <1>4, FS_Subset
<1>6. /\ Cardinality(live) \in Nat /\ Cardinality(judged) \in Nat
      /\ Cardinality(a.tracks) \in Nat
  BY <1>1, <1>3, <1>5, FS_CardinalityType
<1>7. Cardinality(live) <= Cardinality(a.tracks)
  <2> HIDE DEF judged, live
  <2> QED BY <1>3, <1>5, <1>6
<1>8. \A u \in live : u \in Tracks /\ Settled(u) /\ \E t \in a.tracks : u = J[t]
  <2> SUFFICES ASSUME NEW u \in live
               PROVE  u \in Tracks /\ Settled(u) /\ \E t \in a.tracks : u = J[t]
    OBVIOUS
  <2>1. PICK t \in a.tracks : u = J[t]
    BY <1>4
  <2>2. u.state # "DELETED"
    BY DEF Live
  <2> QED BY <2>1, <2>2 DEF Judged
<1> QED BY <1>5, <1>7, <1>8
\* dristy_tracker_update keeps the table in shape, lets a track go only with its
\* identity and object, and leaves no track behind the frame.
LEMMA UpdateIs ==
  ASSUME NEW a, TableOK(a), NEW dets \in Seq(Objects), NEW fr \in Nat,
         NEW b \in Update(a, dets, fr)
  PROVE  /\ TableOK(b)
         /\ Continues(a, b, MaxTracks)
         /\ Lag(a, fr - 1) => Lag(b, fr)
<1>1. PICK m \in Cascades(a.tracks, dets) :
        LET judged == {IF m[t] # 0 THEN Matched(t, dets[m[t]], fr) ELSE Missed(t) :
                          t \in a.tracks}
            unmatched == {d \in DOMAIN dets : \A t \in a.tracks : m[t] # d}
            new == Created(a.next, dets, unmatched,
                           MaxTracks - Cardinality(a.tracks), fr)
        IN  b = [tracks |-> Live(judged) \union new.tracks, next |-> new.next]
  BY DEF Update
<1> DEFINE J == [t \in a.tracks |-> IF m[t] # 0 THEN Matched(t, dets[m[t]], fr)
                                    ELSE Missed(t)]
           live == Live({J[t] : t \in a.tracks})
           U == {d \in DOMAIN dets : \A t \in a.tracks : m[t] # d}
           room == MaxTracks - Cardinality(a.tracks)
           new == Created(a.next, dets, U, room, fr)
<1>2. b.tracks = live \union new.tracks /\ b.next = new.next /\
      b = [tracks |-> b.tracks, next |-> b.next]
  BY <1>1
<1>3. ASSUME NEW t \in a.tracks
      PROVE  Judged(t, J[t], fr)
  <2>1. t \in Tracks /\ Settled(t)
    BY DEF TableOK, Tables
  <2>2. CASE m[t] # 0
    <3>1. J[t] = Matched(t, t.obj, fr)
      BY <2>2, CascadeIs
    <3>2. t.state # "DELETED"
      BY <2>1 DEF Settled
    <3> DEFINE u == Matched(t, t.obj, fr)
    <3>3. /\ u \in Tracks
          /\ u.id = t.id /\ u.obj = t.obj
          /\ u.seen = fr /\ u.misses = 0
          /\ Settled(u)
      BY <2>1, <3>2, MatchedKeeps
    <3> HIDE DEF J, u
    <3>4. Judged(t, u, fr)
      BY <3>3 DEF Judged
    <3> QED BY <3>1, <3>4 DEF u
  <2>3. CASE m[t] = 0
    <3>1. J[t] = Missed(t)
      BY <2>3
    <3> HIDE DEF J
    <3> QED BY <2>1, <3>1, MissedKeeps DEF Judged
  <2> HIDE DEF J
  <2> QED BY <2>2, <2>3
<1>4. /\ live \in SUBSET Tracks
      /\ IsFiniteSet(live)
      /\ Cardinality(live) <= Cardinality(a.tracks)
      /\ \A u \in live : Settled(u) /\ \E t \in a.tracks : u = J[t]
  <2> HIDE DEF J
  <2> QED BY <1>3, LiveIs
<1>5. /\ a.next \in 1 .. (IdWrap - 1)
      /\ Cardinality(a.tracks) \in Nat /\ Cardinality(a.tracks) <= MaxTracks
      /\ room \in Nat /\ room <= MaxTracks
  BY FS_CardinalityType, Limits DEF TableOK, Tables
<1>6. /\ new \in Tables
      /\ IsFiniteSet(new.tracks)
      /\ Cardinality(new.tracks) <= room
      /\ \A t \in new.tracks : Settled(t) /\ t.seen = fr /\ t.misses = 0
      /\ \A n \in Nat : room <= n /\ a.next + n < IdWrap =>
           /\ new.next \in a.next .. (a.next + n)
           /\ \A t \in new.tracks : a.next <= t.id /\ t.id < new.next
           /\ \A t, u \in new.tracks : t.id = u.id => t = u
  <2>1. U \in SUBSET DOMAIN dets
    OBVIOUS
  <2>2. room \in Int /\ (IF room > 0 THEN room ELSE 0) = room
    BY <1>5
  <2> HIDE DEF U, room
  <2>3. /\ new \in Tables
        /\ IsFiniteSet(new.tracks)
        /\ Cardinality(new.tracks) <= (IF room > 0 THEN room ELSE 0)
        /\ \A t \in new.tracks : Settled(t) /\ t.seen = fr /\ t.misses = 0
        /\ \A n \in Nat : room <= n /\ a.next + n < IdWrap =>
             /\ new.next \in a.next .. (a.next + n)
             /\ \A t \in new.tracks : a.next <= t.id /\ t.id < new.next
             /\ \A t, u \in new.tracks : t.id = u.id => t = u
    BY <1>5, <2>1, <2>2, CreatedIs
  <2> HIDE DEF new
  <2> QED BY <2>2, <2>3
<1> HIDE DEF J, live, U, new
<1>7. TableOK(b)
  <2>1. b \in Tables
    BY <1>2, <1>4, <1>6 DEF Tables
  <2>2. IsFiniteSet(b.tracks)
    <3>1. IsFiniteSet(live \union new.tracks)
      BY <1>4, <1>6, FS_Union
    <3> QED BY <1>2, <3>1
  <2>3. Cardinality(b.tracks) <= MaxTracks
    <3> DEFINE both == live \intersect new.tracks
    <3>1. Cardinality(b.tracks) =
            Cardinality(live) + Cardinality(new.tracks) - Cardinality(both)
      BY <1>2, <1>4, <1>6, FS_Union
    <3>2. both \in SUBSET live
      OBVIOUS
    <3>3. IsFiniteSet(both)
      <4> HIDE DEF both
      <4> QED BY <1>4, <3>2, FS_Subset
    <3>4. /\ Cardinality(both) \in Nat /\ Cardinality(live) \in Nat
          /\ Cardinality(new.tracks) \in Nat
      BY <1>4, <1>6, <3>3, FS_CardinalityType
    <3> HIDE DEF both
    <3> QED BY <1>4, <1>5, <1>6, <3>1, <3>4, Limits
  <2>4. \A t \in b.tracks : Settled(t)
    BY <1>2, <1>4, <1>6
  <2> QED BY <2>1, <2>2, <2>3, <2>4 DEF TableOK
<1>8. Continues(a, b, MaxTracks)
  <2> SUFFICES ASSUME a.next + MaxTracks < IdWrap
               PROVE  /\ b.next \in a.next .. (a.next + MaxTracks)
                      /\ \A t \in b.tracks :
                           \/ t.id >= a.next
                           \/ \E s \in a.tracks : s.id = t.id /\ s.obj = t.obj
                      /\ OwnIds(a) => OwnIds(b)
    BY DEF Continues
  <2>1. /\ new.next \in a.next .. (a.next + MaxTracks)
        /\ \A t \in new.tracks : a.next <= t.id /\ t.id < new.next
        /\ \A t, u \in new.tracks : t.id = u.id => t = u
    BY <1>5, <1>6, Limits
  <2>2. \A u \in live : \E s \in a.tracks : u = J[s] /\ s.id = u.id /\ s.obj = u.obj
    BY <1>3, <1>4 DEF Judged
  <2>3. \A t \in b.tracks :
          \/ t.id >= a.next
          \/ \E s \in a.tracks : s.id = t.id /\ s.obj = t.obj
    <3> SUFFICES ASSUME NEW t \in b.tracks, t \notin live
                 PROVE  t.id >= a.next
      BY <2>2
    <3>1. t \in new.tracks /\ t \in Tracks
      BY <1>2, <1>6 DEF Tables
    <3>2. t.id \in Nat /\ a.next \in Nat
      BY <1>5, <3>1, IdsAreNumbers
    <3> QED BY <2>1, <3>1, <3>2
  <2>4. ASSUME OwnIds(a)
        PROVE  OwnIds(b)
    <3>1. \A t \in b.tracks : t.id \in Nat
      BY <1>7, IdsAreNumbers DEF TableOK, Tables
    <3>2. a.next \in Nat /\ b.next \in Nat /\ a.next <= b.next
      <4>1. a.next \in Nat
        BY <1>5, IdsAreNumbers
      <4> QED BY <1>2, <2>1, <4>1, Limits
    <3>3. \A t \in live : t.id < a.next
      BY <2>2, <2>4 DEF OwnIds
    <3>4. \A t \in live : t.id < b.next
      <4> SUFFICES ASSUME NEW t \in live
                   PROVE  t.id < b.next
        OBVIOUS
      <4>1. t.id \in Nat
        BY <1>2, <3>1
      <4> QED BY <3>2, <3>3, <4>1
    <3>5. \A t, u \in live : t.id = u.id => t = u
      BY <2>2, <2>4 DEF OwnIds
    <3>6. \A t \in live, u \in new.tracks : t.id # u.id
      <4> SUFFICES ASSUME NEW t \in live, NEW u \in new.tracks
                   PROVE  t.id # u.id
        OBVIOUS
      <4>1. t.id \in Nat /\ u.id \in Nat
        BY <1>2, <3>1
      <4> QED BY <2>1, <3>2, <3>3, <4>1
    <3>7. \A t, u \in b.tracks : t.id = u.id => t = u
      BY <1>2, <2>1, <3>5, <3>6
    <3>8. \A t \in b.tracks : t.id < b.next
      BY <1>2, <2>1, <3>4
    <3> QED BY <3>7, <3>8 DEF OwnIds
  <2> QED BY <1>2, <2>1, <2>3, <2>4
<1>9. ASSUME Lag(a, fr - 1)
      PROVE  Lag(b, fr)
  <2> SUFFICES ASSUME NEW u \in b.tracks
               PROVE  fr - u.seen <= u.misses
    BY DEF Lag
  <2>1. CASE u \in live
    <3>1. PICK s \in a.tracks : Judged(s, u, fr)
      BY <1>3, <1>4, <2>1
    <3>2. s.seen \in Nat /\ s.misses \in Nat /\ (fr - 1) - s.seen <= s.misses
      BY <1>9 DEF Lag, TableOK, Tables, Tracks
    <3>3. CASE u.seen = fr /\ u.misses = 0
      BY <3>3
    <3>4. CASE u.seen = s.seen /\ u.misses = s.misses + 1
      BY <3>2, <3>4
    <3> QED BY <3>1, <3>3, <3>4 DEF Judged
  <2>2. CASE u \in new.tracks
    BY <1>6, <2>2
  <2> QED BY <1>2, <2>1, <2>2
<1> QED BY <1>7, <1>8, <1>9

\* dristy_tracker_predict likewise.
LEMMA PredictIs ==
  ASSUME NEW a, TableOK(a), NEW fr \in Nat
  PROVE  LET b == Predict(a)
         IN  /\ TableOK(b)
             /\ b.next = a.next
             /\ \A u \in b.tracks : \E t \in a.tracks : t.id = u.id /\ t.obj = u.obj
             /\ OwnIds(a) => OwnIds(b)
             /\ Lag(a, fr - 1) => Lag(b, fr)
<1> DEFINE J == [t \in a.tracks |-> Missed(t)]
           live == Live({J[t] : t \in a.tracks})
           b == Predict(a)
<1>1. b = [a EXCEPT !.tracks = live]
  BY DEF Predict
<1>2. b \in [tracks : {live}, next : {a.next}]
  <2> HIDE DEF live, b
  <2> QED BY <1>1 DEF TableOK, Tables
<1>3. b.tracks = live /\ b.next = a.next /\ b = [tracks |-> live, next |-> a.next]
  <2> HIDE DEF live, b
  <2> QED BY <1>2
<1>4. ASSUME NEW t \in a.tracks
      PROVE  Judged(t, J[t], fr) /\ J[t].seen = t.seen /\ J[t].misses = t.misses + 1
  <2>1. t \in Tracks /\ Settled(t)
    BY DEF TableOK, Tables
  <2>2. J[t] = Missed(t)
    OBVIOUS
  <2> HIDE DEF J
  <2> QED BY <2>1, <2>2, MissedKeeps DEF Judged
<1>5. /\ live \in SUBSET Tracks
      /\ IsFiniteSet(live)
      /\ Cardinality(live) <= Cardinality(a.tracks)
      /\ \A u \in live : Settled(u) /\ \E t \in a.tracks : u = J[t]
  <2> HIDE DEF J
  <2> QED BY <1>4, LiveIs
<1> HIDE DEF J, live, b
<1>6. TableOK(b)
  <2>1. b \in Tables
    BY <1>3, <1>5 DEF TableOK, Tables
  <2>2. Cardinality(live) \in Nat /\ Cardinality(a.tracks) \in Nat
    BY <1>5, FS_CardinalityType DEF TableOK
  <2>3. Cardinality(live) <= MaxTracks
    BY <1>5, <2>2, Limits DEF TableOK
  <2> QED BY <1>3, <1>5, <2>1, <2>3 DEF TableOK
<1>7. \A u \in live : \E t \in a.tracks : u = J[t] /\ t.id = u.id /\ t.obj = u.obj
  BY <1>4, <1>5 DEF Judged
<1>8. OwnIds(a) => OwnIds(b)
  BY <1>3, <1>7 DEF OwnIds
<1>9. ASSUME Lag(a, fr - 1)
      PROVE  Lag(b, fr)
  <2> SUFFICES ASSUME NEW u \in live
               PROVE  fr - u.seen <= u.misses
    BY <1>3 DEF Lag
  <2>1. PICK s \in a.tracks : u.seen = s.seen /\ u.misses = s.misses + 1
    BY <1>4, <1>5
  <2>2. s.seen \in Nat /\ s.misses \in Nat /\ (fr - 1) - s.seen <= s.misses
    BY <1>9 DEF Lag, TableOK, Tables, Tracks
  <2> QED BY <2>1, <2>2
<1> QED BY <1>3, <1>6, <1>7, <1>8, <1>9 DEF b
-----------------------------------------------------------------------------
(* Building a snapshot *)

Snaps == {s \in [tk : Tables, dets : Nat, tags : Nat, blobs : Nat] : TableOK(s.tk)}

\* In a mode that tracks, the tracks are not behind the frame before; they are not
\* behind the frame being built once detections of it have been counted.
Moved(s) ==
  Uses("TRACKER") =>
    /\ Lag(s.tk, frame)
    /\ s.dets # 0 => Lag(s.tk, frame + 1)

\* The snapshot s is built on from r, with at most n identities issued.
Builds(r, s, n) ==
  /\ s \in Snaps
  /\ Continues(r.tk, s.tk, n)
  /\ Moved(r) => Moved(s)

\* A table that continues one that continues another continues that one.
LEMMA ContinuesOn ==
  ASSUME NEW a, TableOK(a), NEW b, TableOK(b), NEW c, TableOK(c),
         NEW n \in Nat, NEW k \in Nat, Continues(a, b, n), Continues(b, c, k)
  PROVE  Continues(a, c, n + k)
<1>1. a.next \in Nat /\ b.next \in Nat /\ c.next \in Nat /\ IdWrap \in Nat
  BY IdsAreNumbers DEF TableOK, Tables
<1> SUFFICES ASSUME a.next + (n + k) < IdWrap
             PROVE  /\ c.next \in a.next .. (a.next + (n + k))
                    /\ \A t \in c.tracks :
                         \/ t.id >= a.next
                         \/ \E s \in a.tracks : s.id = t.id /\ s.obj = t.obj
                    /\ OwnIds(a) => OwnIds(c)
  BY DEF Continues
<1>2. /\ b.next \in a.next .. (a.next + n)
      /\ \A t \in b.tracks :
           \/ t.id >= a.next
           \/ \E s \in a.tracks : s.id = t.id /\ s.obj = t.obj
      /\ OwnIds(a) => OwnIds(b)
  <2>1. a.next + n < IdWrap
    BY <1>1
  <2> QED BY <2>1 DEF Continues
<1>3. /\ c.next \in b.next .. (b.next + k)
      /\ \A t \in c.tracks :
           \/ t.id >= b.next
           \/ \E s \in b.tracks : s.id = t.id /\ s.obj = t.obj
      /\ OwnIds(b) => OwnIds(c)
  <2>1. b.next + k < IdWrap
    BY <1>1, <1>2
  <2> QED BY <2>1 DEF Continues
<1>4. c.next \in a.next .. (a.next + (n + k))
  BY <1>1, <1>2, <1>3
<1>5. ASSUME NEW t \in c.tracks
      PROVE  \/ t.id >= a.next
             \/ \E s \in a.tracks : s.id = t.id /\ s.obj = t.obj
  <2>1. t.id \in Nat
    BY IdsAreNumbers DEF TableOK, Tables
  <2>2. CASE t.id >= b.next
    BY <1>1, <1>2, <2>1, <2>2
  <2>3. CASE \E s \in b.tracks : s.id = t.id /\ s.obj = t.obj
    BY <1>2, <2>3
  <2> QED BY <1>3, <2>2, <2>3
<1> QED BY <1>2, <1>3, <1>4, <1>5

\* A table continues itself.
LEMMA ContinuesSame ==
  ASSUME NEW a, TableOK(a), NEW n \in Nat
  PROVE  Continues(a, a, n)
<1>1. a.next \in Nat
  BY IdsAreNumbers DEF TableOK, Tables
<1>2. a.next \in a.next .. (a.next + n)
  BY <1>1
<1> QED BY <1>2 DEF Continues

\* The stages of a frame build on one another.
LEMMA BuildsOn ==
  ASSUME NEW r \in Snaps, NEW s, NEW t, NEW n \in Nat, NEW k \in Nat,
         Builds(r, s, n), Builds(s, t, k)
  PROVE  Builds(r, t, n + k)
<1>1. TableOK(r.tk) /\ TableOK(s.tk) /\ TableOK(t.tk)
  BY DEF Builds, Snaps
<1>2. Continues(r.tk, t.tk, n + k)
  BY <1>1, ContinuesOn DEF Builds
<1> QED BY <1>2 DEF Builds

\* What is counted of the frame without touching the tracks.
LEMMA BuildsAside ==
  ASSUME NEW r \in Snaps, NEW s \in Snaps, s.tk = r.tk, NEW n \in Nat,
         Uses("TRACKER") => s.dets \in {0, r.dets}
  PROVE  Builds(r, s, n)
<1>1. Continues(r.tk, s.tk, n)
  BY ContinuesSame DEF Snaps
<1>2. Moved(r) => Moved(s)
  BY DEF Moved
<1> QED BY <1>1, <1>2 DEF Builds

\* What is exported while the pipeline builds a snapshot.
SourcesOK ==
  /\ mode \in DOMAIN Capabilities
  /\ frame \in Nat
  /\ found \in Seq(Objects)
  /\ tags \in Nat
  /\ vision.items \in Seq(Objects \union {"tag"})
  /\ vision.source # "APRILTAG" => vision.items \in Seq(Objects)

\* The detections there is room for are detections.
LEMMA TakenIs ==
  ASSUME NEW items \in Seq(Objects), NEW room \in Int
  PROVE  LET taken == SubSeq(items, 1, IF Len(items) > room THEN room ELSE Len(items))
         IN  taken \in Seq(Objects) /\ Len(taken) \in Nat
<1> DEFINE n == IF Len(items) > room THEN room ELSE Len(items)
           taken == SubSeq(items, 1, n)
<1>1. n \in Int /\ n <= Len(items)
  OBVIOUS
<1>2. taken \in Seq(Objects)
  <2>1. CASE n < 1
    <3>1. taken = << >>
      <4> HIDE DEF n
      <4> QED BY <1>1, <2>1
    <3> QED BY <3>1
  <2>2. CASE n >= 1
    <3> HIDE DEF n
    <3>1. 1 \in 1 .. Len(items) /\ n \in 1 .. Len(items)
      BY <1>1, <2>2
    <3>2. \A i \in 1 .. n : items[i] \in Objects
      BY <1>1
    <3> QED BY <1>1, <2>2, <3>1, <3>2, SubSeqProperties
  <2> QED BY <1>1, <2>1, <2>2
<1> QED BY <1>2

\* Appending detections and tracking them issues at most MaxTracks identities.
LEMMA AppendIs ==
  ASSUME frame \in Nat, NEW s \in Snaps, NEW items \in Seq(Objects),
         NEW r \in AppendAndTrack(s, items)
  PROVE  Builds(s, r, MaxTracks)
<1> DEFINE room == MaxDetections - s.dets
           taken == SubSeq(items, 1, IF Len(items) > room THEN room ELSE Len(items))
<1>1. CASE items = << >>
  <2>1. r = s
    BY <1>1 DEF AppendAndTrack
  <2> QED BY <2>1, BuildsAside, Limits
<1>2. CASE items # << >>
  <2>1. s.dets \in Nat /\ room \in Int
    BY PipelineAssumption DEF Snaps
  <2>2. taken \in Seq(Objects) /\ Len(taken) \in Nat
    <3> HIDE DEF room
    <3> QED BY <2>1, TakenIs
  <2> DEFINE built(stale) == {[s EXCEPT !.dets = @ + Len(taken), !.tk = after] :
                                 after \in Update(s.tk, stale \o taken, frame + 1)}
  <2>3. r \in UNION {built(stale) : stale \in [1 .. s.dets -> Objects]}
    BY <1>2 DEF AppendAndTrack
  <2> HIDE DEF taken, room
  <2>4. PICK stale \in [1 .. s.dets -> Objects] : r \in built(stale)
    <3> HIDE DEF built
    <3> QED BY <2>3
  <2>5. PICK after \in Update(s.tk, stale \o taken, frame + 1) :
          r = [s EXCEPT !.dets = s.dets + Len(taken), !.tk = after]
    BY <2>4
  <2>6. stale \o taken \in Seq(Objects)
    <3>1. stale \in Seq(Objects)
      BY <2>1
    <3> QED BY <2>2, <3>1, ConcatProperties
  <2>7. /\ TableOK(after)
        /\ Continues(s.tk, after, MaxTracks)
        /\ Lag(s.tk, frame) => Lag(after, frame + 1)
    <3>1. TableOK(s.tk) /\ frame + 1 \in Nat /\ (frame + 1) - 1 = frame
      BY DEF Snaps
    <3> QED BY <2>6, <3>1, UpdateIs
  <2>8. /\ r.tk = after
        /\ r \in [tk : Tables, dets : Nat, tags : Nat, blobs : Nat]
    <3>1. PICK d \in Nat : d = s.dets + Len(taken)
      BY <2>1, <2>2
    <3>2. r = [s EXCEPT !.dets = d, !.tk = after]
      BY <2>5, <3>1
    <3>3. s \in [tk : Tables, dets : Nat, tags : Nat, blobs : Nat] /\ after \in Tables
      BY <2>7 DEF Snaps, TableOK
    <3> QED BY <3>2, <3>3
  <2>9. Moved(s) => Moved(r)
    <3>1. Lag(after, frame + 1) => Lag(after, frame)
      <4>1. \A t \in after.tracks : t.seen \in Nat /\ t.misses \in Nat
        BY <2>7 DEF TableOK, Tables, Tracks
      <4> QED BY <4>1 DEF Lag
    <3> QED BY <2>7, <2>8, <3>1 DEF Moved
  <2> QED BY <2>7, <2>8, <2>9 DEF Builds, Snaps
<1> QED BY <1>1, <1>2
\* What is counted, but not tracked, is counted in modes without the tracker.
LEMMA UntrackedModes ==
  /\ mode \in {"FACE_DETECT", "FACE_RECOGNISE", "MOTION_DETECT"} => ~Uses("TRACKER")
  /\ mode \in DOMAIN Capabilities /\ Uses("TRACKER") =>
       mode \in {"COLOUR_TRACK", "DETECT_TRACK"}
BY DEF Uses, Capabilities

\* The export of the vision result, tags or detections.
LEMMA ExportVisionIs ==
  ASSUME SourcesOK, NEW s \in Snaps, NEW r \in ExportVision(s)
  PROVE  Builds(s, r, MaxTracks)
<1>1. CASE vision.source = "APRILTAG"
  <2>1. r = (IF Len(vision.items) > s.tags THEN [s EXCEPT !.tags = Len(vision.items)]
             ELSE s)
    BY <1>1 DEF ExportVision
  <2>2. PICK k \in Nat : k = Len(vision.items)
    BY DEF SourcesOK
  <2>3. r \in Snaps /\ r.tk = s.tk /\ r.dets = s.dets
    BY <2>1, <2>2 DEF Snaps
  <2> QED BY <2>3, BuildsAside, Limits
<1>2. CASE vision.source # "APRILTAG"
  <2>1. r \in AppendAndTrack(s, vision.items) /\ vision.items \in Seq(Objects)
    BY <1>2 DEF ExportVision, SourcesOK
  <2> QED BY <2>1, AppendIs DEF SourcesOK
<1> QED BY <1>1, <1>2

\* The export of the object detector, which may find nothing.
LEMMA ExportObjectsIs ==
  ASSUME SourcesOK, NEW s \in Snaps, NEW r \in ExportObjects(s)
  PROVE  Builds(s, r, MaxTracks)
<1>1. CASE DetectsObjects
  BY <1>1, AppendIs DEF ExportObjects, SourcesOK
<1>2. CASE ~DetectsObjects
  <2>1. << >> \in Seq(Objects) /\ r \in AppendAndTrack(s, << >>)
    BY <1>2 DEF ExportObjects
  <2> QED BY <2>1, AppendIs DEF SourcesOK
<1> QED BY <1>1, <1>2

\* The export of the tags touches no track.
LEMMA ExportTagsIs ==
  ASSUME SourcesOK, NEW s \in Snaps
  PROVE  Builds(s, ExportTags(s), 0)
<1> DEFINE r == ExportTags(s)
<1>1. PICK k \in Nat : k = s.tags + tags
  BY DEF SourcesOK, Snaps
<1>2. r = [s EXCEPT !.tags = k]
  BY <1>1 DEF ExportTags
<1> HIDE DEF r
<1>3. r \in Snaps /\ r.tk = s.tk /\ r.dets = s.dets
  BY <1>2 DEF Snaps
<1>4. Builds(s, r, 0)
  BY <1>3, BuildsAside
<1> QED BY <1>4 DEF r

\* The export of the faces touches no track, in a mode that does not track.
LEMMA ExportFacesIs ==
  ASSUME SourcesOK, NEW s \in Snaps, ~Uses("TRACKER")
  PROVE  Builds(s, ExportFaces(s), 0)
<1> DEFINE r == ExportFaces(s)
<1>1. PICK d \in Nat : d = AtMost(MaxDetections, s.dets + Len(found))
  BY PipelineAssumption DEF SourcesOK, Snaps, AtMost
<1>2. r = IF app # "face" THEN s ELSE [s EXCEPT !.dets = d]
  BY <1>1 DEF ExportFaces
<1> HIDE DEF r
<1>3. r \in Snaps /\ r.tk = s.tk
  BY <1>2 DEF Snaps
<1>4. Builds(s, r, 0)
  BY <1>3, BuildsAside
<1> QED BY <1>4 DEF r

\* One export updates the tracker at most twice.
LEMMA ExportIs ==
  ASSUME SourcesOK, NEW s0 \in Snaps, NEW r \in Export(s0)
  PROVE  Builds(s0, r, 2 * MaxTracks)
<1> DEFINE after(s1) ==
             CASE mode = "DETECT_TAG" -> {ExportTags(s) : s \in ExportObjects(s1)}
               [] mode \in {"DETECT", "DETECT_TRACK", "DETECT_CUSTOM", "CLASSIFY",
                            "DETECT_MOTION"} -> ExportObjects(s1)
               [] mode \in {"FACE_DETECT", "FACE_RECOGNISE"} -> {ExportFaces(s1)}
               [] mode \in {"APRILTAG", "LANDING_TARGET"} -> {ExportTags(s1)}
               [] OTHER -> {s1}
<1>1. PICK s1 \in ExportVision(s0) : r \in after(s1)
  <2>1. r \in UNION {after(s1) : s1 \in ExportVision(s0)}
    BY DEF Export
  <2> HIDE DEF after
  <2> QED BY <2>1
<1>2. Builds(s0, s1, MaxTracks) /\ s1 \in Snaps
  BY ExportVisionIs DEF Builds
<1> SUFFICES \E k \in {0, MaxTracks} : Builds(s1, r, k)
  <2>1. ASSUME NEW k \in {0, MaxTracks}, Builds(s1, r, k)
        PROVE  Builds(s0, r, 2 * MaxTracks)
    <3>1. CASE k = MaxTracks
      <4>1. Builds(s0, r, MaxTracks + MaxTracks)
        BY <1>2, <2>1, <3>1, BuildsOn, Limits
      <4>2. MaxTracks + MaxTracks = 2 * MaxTracks
        BY Limits
      <4> QED BY <4>1, <4>2
    <3>2. CASE k = 0
      <4>1. r \in Snaps /\ Builds(s1, r, 0)
        BY <2>1, <3>2 DEF Builds
      <4>2. Builds(r, r, MaxTracks)
        BY <4>1, BuildsAside, Limits
      <4>3. Builds(s0, r, MaxTracks + 0)
        BY <1>2, <4>1, BuildsOn, Limits
      <4>4. Builds(s0, r, (MaxTracks + 0) + MaxTracks)
        BY <4>2, <4>3, BuildsOn, Limits
      <4>5. (MaxTracks + 0) + MaxTracks = 2 * MaxTracks
        BY Limits
      <4> QED BY <4>4, <4>5
    <3> QED BY <2>1, <3>1, <3>2
  <2> QED BY <2>1
<1>3. CASE mode = "DETECT_TAG"
  <2>1. PICK s \in ExportObjects(s1) : r = ExportTags(s)
    BY <1>1, <1>3
  <2>2. Builds(s1, s, MaxTracks) /\ s \in Snaps
    BY <1>2, <2>1, ExportObjectsIs DEF Builds
  <2>3. Builds(s1, r, MaxTracks + 0)
    BY <1>2, <2>1, <2>2, ExportTagsIs, BuildsOn, Limits
  <2>4. MaxTracks + 0 = MaxTracks
    BY Limits
  <2> QED BY <2>3, <2>4
<1>4. CASE mode \in {"DETECT", "DETECT_TRACK", "DETECT_CUSTOM", "CLASSIFY",
                     "DETECT_MOTION"}
  <2>1. r \in ExportObjects(s1)
    BY <1>1, <1>4
  <2> QED BY <1>2, <2>1, ExportObjectsIs
<1>5. CASE mode \in {"FACE_DETECT", "FACE_RECOGNISE"}
  <2>1. r = ExportFaces(s1)
    BY <1>1, <1>5
  <2> QED BY <1>2, <1>5, <2>1, ExportFacesIs, UntrackedModes
<1>6. CASE mode \in {"APRILTAG", "LANDING_TARGET"}
  <2>1. r = ExportTags(s1)
    BY <1>1, <1>6
  <2> QED BY <1>2, <2>1, ExportTagsIs
<1>7. CASE mode \notin {"DETECT_TAG", "DETECT", "DETECT_TRACK", "DETECT_CUSTOM",
                        "CLASSIFY", "DETECT_MOTION", "FACE_DETECT",
                        "FACE_RECOGNISE", "APRILTAG", "LANDING_TARGET"}
  <2>1. r = s1
    BY <1>1, <1>7
  <2> QED BY <1>2, <2>1, BuildsAside
<1> QED BY <1>3, <1>4, <1>5, <1>6, <1>7

\* The classical detectors touch no track.
LEMMA ClassicalIs ==
  ASSUME SourcesOK, NEW s \in Snaps, NEW r \in Classical(s)
  PROVE  Builds(s, r, 0)
<1>1. CASE mode \in {"COLOUR_TRACK", "COLOUR_SORT"}
  <2>1. PICK k \in {0, 1} : r = [s EXCEPT !.blobs = k]
    BY <1>1 DEF Classical
  <2>2. r \in Snaps /\ r.tk = s.tk /\ r.dets = s.dets
    BY <2>1 DEF Snaps
  <2> QED BY <2>2, BuildsAside
<1>2. CASE mode \in {"ARUCO", "DETECT_ARUCO"}
  <2>1. r \in {s, [s EXCEPT !.tags = 1]}
    BY <1>2 DEF Classical
  <2>2. r \in Snaps /\ r.tk = s.tk /\ r.dets = s.dets
    BY <2>1 DEF Snaps
  <2> QED BY <2>2, BuildsAside
<1>3. CASE mode = "MOTION_DETECT"
  <2>1. r \in {s, [s EXCEPT !.dets = 1]}
    BY <1>3 DEF Classical
  <2>2. r \in Snaps /\ r.tk = s.tk
    BY <2>1 DEF Snaps
  <2> QED BY <1>3, <2>2, BuildsAside, UntrackedModes
<1>4. CASE mode = "DETECT_MOTION"
  <2>1. r \in {s, [s EXCEPT !.dets = 0]}
    BY <1>4 DEF Classical
  <2>2. r \in Snaps /\ r.tk = s.tk /\ r.dets \in {0, s.dets}
    BY <2>1 DEF Snaps
  <2> QED BY <2>2, BuildsAside
<1>5. CASE mode \notin {"COLOUR_TRACK", "COLOUR_SORT", "ARUCO", "DETECT_ARUCO",
                        "MOTION_DETECT", "DETECT_MOTION"}
  <2>1. r = s
    BY <1>5 DEF Classical
  <2> QED BY <2>1, BuildsAside
<1> QED BY <1>1, <1>2, <1>3, <1>4, <1>5

\* A frame updates the tracker at most four times.
LEMMA ProcessedIs ==
  ASSUME SourcesOK, NEW s0 \in Snaps, NEW pixels \in BOOLEAN,
         NEW r \in Processed(s0, pixels)
  PROVE  Builds(s0, r, 4 * MaxTracks)
<1> DEFINE afterKpu == IF Uses("KPU") THEN Export(s0) ELSE {s0}
           afterSync == UNION {Export(s) : s \in afterKpu}
<1>0. 2 * MaxTracks \in Nat /\ 2 * MaxTracks + 2 * MaxTracks = 4 * MaxTracks
  BY Limits
<1>1. PICK s2 \in afterSync : r = s2 \/ r \in Classical(s2)
  BY DEF Processed
<1>2. PICK s1 \in afterKpu : s2 \in Export(s1)
  BY <1>1
<1>3. Builds(s0, s1, 2 * MaxTracks) /\ s1 \in Snaps
  <2>1. CASE Uses("KPU")
    BY <1>2, <2>1, ExportIs DEF Builds
  <2>2. CASE ~Uses("KPU")
    BY <1>0, <1>2, <2>2, BuildsAside
  <2> QED BY <2>1, <2>2
<1> HIDE DEF afterKpu, afterSync
<1>4. Builds(s1, s2, 2 * MaxTracks) /\ s2 \in Snaps
  BY <1>2, <1>3, ExportIs DEF Builds
<1>5. Builds(s0, s2, 4 * MaxTracks)
  BY <1>0, <1>3, <1>4, BuildsOn
<1>6. Builds(s2, r, 0)
  BY <1>1, <1>4, ClassicalIs, BuildsAside
<1>7. Builds(s0, r, 4 * MaxTracks + 0)
  BY <1>0, <1>5, <1>6, BuildsOn
<1>8. 4 * MaxTracks + 0 = 4 * MaxTracks
  BY Limits
<1> QED BY <1>7, <1>8

\* After a frame, no track is behind it.
LEMMA TrackedIs ==
  ASSUME SourcesOK, TableOK(tk), NEW pixels \in BOOLEAN,
         NEW s0 \in Processed([tk |-> tk, dets |-> 0, tags |-> 0, blobs |-> 0], pixels)
  PROVE  LET s == Tracked(s0)
         IN  /\ TableOK(s.tk)
             /\ s.tags \in Nat /\ s.blobs \in Nat
             /\ Continues(tk, s.tk, 4 * MaxTracks)
             /\ Uses("TRACKER") /\ Lag(tk, frame) => Lag(s.tk, frame + 1)
<1> DEFINE r == [tk |-> tk, dets |-> 0, tags |-> 0, blobs |-> 0]
           s == Tracked(s0)
<1>1. r \in Snaps
  BY DEF Snaps, TableOK
<1>2. Builds(r, s0, 4 * MaxTracks)
  BY <1>1, ProcessedIs
<1>3. /\ s0 \in Snaps /\ TableOK(s0.tk)
      /\ Continues(tk, s0.tk, 4 * MaxTracks)
      /\ s0.tags \in Nat /\ s0.blobs \in Nat /\ s0.dets \in Nat
  BY <1>2 DEF Builds, Snaps
<1>4. Uses("TRACKER") /\ Lag(tk, frame) =>
        Lag(s0.tk, frame) /\ (s0.dets # 0 => Lag(s0.tk, frame + 1))
  BY <1>2 DEF Builds, Moved
<1>5. frame + 1 \in Nat /\ (frame + 1) - 1 = frame
  BY DEF SourcesOK
<1>6. CASE Uses("TRACKER") /\ s0.dets = 0
  <2> DEFINE b == Predict(s0.tk)
  <2>1. /\ TableOK(b)
        /\ b.next = s0.tk.next
        /\ \A u \in b.tracks : \E t \in s0.tk.tracks : t.id = u.id /\ t.obj = u.obj
        /\ OwnIds(s0.tk) => OwnIds(b)
        /\ Lag(s0.tk, frame) => Lag(b, frame + 1)
    BY <1>3, <1>5, PredictIs
  <2> HIDE DEF b
  <2>2. s = [s0 EXCEPT !.tk = b]
    BY <1>6 DEF Tracked, b
  <2> HIDE DEF s
  <2>3. s.tk = b /\ s.tags = s0.tags /\ s.blobs = s0.blobs
    BY <1>3, <2>2 DEF Snaps
  <2>4. Continues(s0.tk, b, 0)
    <3>1. b.next \in s0.tk.next .. (s0.tk.next + 0)
      BY <1>3, <2>1, IdsAreNumbers DEF TableOK, Tables
    <3> QED BY <2>1, <3>1 DEF Continues
  <2>5. Continues(tk, b, 4 * MaxTracks)
    <3>1. 4 * MaxTracks \in Nat /\ 4 * MaxTracks + 0 = 4 * MaxTracks
      BY Limits
    <3>2. Continues(tk, b, 4 * MaxTracks + 0)
      BY <1>3, <2>1, <2>4, <3>1, ContinuesOn
    <3> QED BY <3>1, <3>2
  <2>6. Uses("TRACKER") /\ Lag(tk, frame) => Lag(b, frame + 1)
    BY <1>4, <2>1
  <2> QED BY <1>3, <2>1, <2>3, <2>5, <2>6 DEF s
<1>7. CASE ~(Uses("TRACKER") /\ s0.dets = 0)
  <2>1. s = s0
    BY <1>7 DEF Tracked
  <2> HIDE DEF s
  <2>2. Uses("TRACKER") /\ Lag(tk, frame) => Lag(s0.tk, frame + 1)
    BY <1>4, <1>7
  <2> QED BY <1>3, <2>1, <2>2 DEF s
<1> QED BY <1>6, <1>7
-----------------------------------------------------------------------------
(* The inductive invariant *)

Apps == {"none", "object", "object+tags", "face", "apriltag", "qr", "preview"}

ShownTracks == [id : 1 .. (IdWrap - 1), obj : Objects, frames : 1 .. MinHits, seen : Nat]

Snapshots ==
  [frame : Nat \ {0}, mode : DOMAIN Capabilities,
   target : [type : {"TRACK", "TAG", "BLOB", "NONE"}, track : 0 .. (IdWrap - 1)],
   tracks : SUBSET ShownTracks]

TypeOK ==
  /\ mode \in DOMAIN Capabilities
  /\ TableOK(tk)
  /\ target \in [id : 0 .. (IdWrap - 1), cls : Objects \union {AnyObject},
                 was : Objects \union {AnyObject}]
  /\ newFrame \in BOOLEAN
  /\ frame \in Nat
  /\ bus \in Snapshots \union {NoSnapshot}
  /\ app \in Apps
  /\ active \in DOMAIN Capabilities \union {NoMode}
  /\ found \in Seq(Objects)
  /\ tags \in Nat
  /\ vision \in [source : {"NONE", "OBJECT_DETECT", "FACE", "APRILTAG"},
                 items : Seq(Objects \union {"tag"})]
  /\ vision.source # "APRILTAG" => vision.items \in Seq(Objects)

\* In a mode that tracks, no track is behind the last frame by more than it has
\* missed.
UpToDate == Uses("TRACKER") => Lag(tk, frame)

\* What the table, the last snapshot and the target say of an identity agrees, and
\* all they name has been issued.
IdentitiesAgree ==
  /\ OwnIds(tk)
  /\ bus # NoSnapshot =>
       \A t \in bus.tracks :
         /\ t.id < tk.next
         /\ \A u \in tk.tracks \union bus.tracks : u.id = t.id => u.obj = t.obj
  /\ target.id # AnyId =>
       /\ target.id < tk.next
       /\ bus # NoSnapshot
       /\ \A t \in tk.tracks \union bus.tracks : t.id = target.id => t.obj = target.was

IInv == TypeOK /\ UpToDate /\ LostTracksExpire

\* Identities have not come round, and will not with the next frame.
RoomForIds == tk.next + 4 * MaxTracks < IdWrap

\* The sources have their types.
LEMMA SourcesHold ==
  ASSUME TypeOK
  PROVE  SourcesOK
BY DEF TypeOK, SourcesOK

\* A committed snapshot is not the absent one.
LEMMA NotASnapshot ==
  ASSUME NEW b \in Snapshots
  PROVE  b # NoSnapshot
BY DEF Snapshots, NoSnapshot

\* What a committed frame does to the table and to the bus.
LEMMA CommitIs ==
  ASSUME TypeOK, NEW pixels \in BOOLEAN, Commit(pixels)
  PROVE  /\ TableOK(tk')
         /\ Continues(tk, tk', 4 * MaxTracks)
         /\ Uses("TRACKER") /\ Lag(tk, frame) => Lag(tk', frame')
         /\ frame' = frame + 1
         /\ bus' \in Snapshots
         /\ bus'.frame = frame' /\ bus'.mode = mode
         /\ bus'.tracks = {Shown(t) : t \in Report(tk')}
         /\ bus'.target.type = "TRACK" =>
              \E t \in Report(tk') : t.id = bus'.target.track /\ Eligible(t)
<1>1. PICK s0 \in Processed([tk |-> tk, dets |-> 0, tags |-> 0, blobs |-> 0], pixels) :
        LET s == Tracked(s0)
        IN  /\ tk' = s.tk
            /\ \E primary \in Primary(s) :
                bus' = [frame |-> frame + 1, mode |-> mode, target |-> primary,
                        tracks |-> {Shown(t) : t \in Report(s.tk)}]
  BY DEF Commit
<1> DEFINE s == Tracked(s0)
<1>2. /\ TableOK(s.tk)
      /\ s.tags \in Nat /\ s.blobs \in Nat
      /\ Continues(tk, s.tk, 4 * MaxTracks)
      /\ Uses("TRACKER") /\ Lag(tk, frame) => Lag(s.tk, frame + 1)
  BY SourcesHold, TrackedIs DEF TypeOK
<1>3. tk' = s.tk /\ frame' = frame + 1
  BY <1>1 DEF Commit
<1>4. PICK primary \in Primary(s) :
        bus' = [frame |-> frame + 1, mode |-> mode, target |-> primary,
                tracks |-> {Shown(t) : t \in Report(s.tk)}]
  BY <1>1
<1> HIDE DEF s
<1>5. \A t \in Report(s.tk) : t \in Tracks /\ Shown(t) \in ShownTracks
  <2> SUFFICES ASSUME NEW t \in Report(s.tk)
               PROVE  t \in Tracks /\ Shown(t) \in ShownTracks
    OBVIOUS
  <2>1. t \in Tracks
    BY <1>2 DEF Report, TableOK, Tables
  <2> QED BY <2>1 DEF Tracks, Shown, ShownTracks
<1>6. /\ primary \in [type : {"TRACK", "TAG", "BLOB", "NONE"}, track : 0 .. (IdWrap - 1)]
      /\ primary.type = "TRACK" =>
           \E t \in Report(s.tk) : t.id = primary.track /\ Eligible(t)
  <2> DEFINE eligible == {t \in Report(s.tk) : Eligible(t)}
  <2>1. CASE eligible # {}
    <3>1. PICK t \in eligible : primary = [type |-> "TRACK", track |-> t.id]
      BY <2>1 DEF Primary
    <3>2. t.id \in 0 .. (IdWrap - 1)
      <4>1. t.id \in 1 .. (IdWrap - 1)
        BY <1>5 DEF Tracks
      <4>2. IdWrap \in Nat /\ t.id \in Nat
        BY <1>5, IdsAreNumbers
      <4> QED BY <4>1, <4>2
    <3> QED BY <3>1, <3>2
  <2>2. CASE eligible = {}
    <3>1. PICK k \in {"TAG", "BLOB", "NONE"} : primary = [type |-> k, track |-> AnyId]
      BY <2>2 DEF Primary
    <3>2. AnyId \in 0 .. (IdWrap - 1)
      BY WrapIs DEF AnyId
    <3> QED BY <3>1, <3>2
  <2> QED BY <2>1, <2>2
<1>7. bus' \in Snapshots
  <2>1. frame + 1 \in Nat \ {0} /\ mode \in DOMAIN Capabilities
    BY DEF TypeOK
  <2>2. {Shown(t) : t \in Report(s.tk)} \in SUBSET ShownTracks
    BY <1>5
  <2> QED BY <1>4, <1>6, <2>1, <2>2 DEF Snapshots
<1>8. bus'.frame = frame' /\ bus'.mode = mode /\ bus'.target = primary
  BY <1>3, <1>4
<1>9. bus'.tracks = {Shown(t) : t \in Report(tk')}
  BY <1>3, <1>4
<1> QED BY <1>2, <1>3, <1>6, <1>7, <1>8, <1>9

\* A reset empties the table and does not start the identities over.
LEMMA ResetIs ==
  ASSUME NEW k, TableOK(k)
  PROVE  LET r == Reset(k)
         IN  TableOK(r) /\ r.tracks = {} /\ r.next = k.next
<1> DEFINE r == Reset(k)
<1>1. r = [k EXCEPT !.tracks = {}]
  BY DEF Reset
<1> HIDE DEF r
<1>2. r \in Tables /\ r.tracks = {} /\ r.next = k.next
  BY <1>1 DEF TableOK, Tables
<1>3. IsFiniteSet(r.tracks) /\ Cardinality(r.tracks) <= MaxTracks
  BY <1>2, FS_EmptySet, Limits
<1> QED BY <1>2, <1>3 DEF TableOK, r

\* A committed frame leaves no track behind and reports none that is lost.
LEMMA CommitKeepsUp ==
  ASSUME TypeOK, UpToDate, NEW pixels \in BOOLEAN, Commit(pixels), mode' = mode
  PROVE  /\ TableOK(tk')
         /\ frame' \in Nat
         /\ bus' \in Snapshots
         /\ UpToDate'
         /\ LostTracksExpire'
<1>1. /\ TableOK(tk')
      /\ Uses("TRACKER") /\ Lag(tk, frame) => Lag(tk', frame')
      /\ frame' = frame + 1
      /\ bus' \in Snapshots
      /\ bus'.frame = frame' /\ bus'.mode = mode
      /\ bus'.tracks = {Shown(t) : t \in Report(tk')}
  BY CommitIs
<1>2. Uses("TRACKER") => Lag(tk', frame')
  BY <1>1 DEF UpToDate
<1>3. UpToDate'
  BY <1>2 DEF UpToDate, Uses
<1>4. ASSUME Uses("TRACKER"), NEW u \in bus'.tracks
      PROVE  bus'.frame - u.seen <= MaxCoast
  <2>1. PICK t \in Report(tk') : u = Shown(t)
    BY <1>1
  <2>2. t \in tk'.tracks /\ Established(t)
    BY DEF Report
  <2>3. t \in Tracks /\ Settled(t)
    BY <1>1, <2>2 DEF TableOK, Tables
  <2>4. t.misses \in Nat /\ t.misses <= MaxCoast
    BY <2>2, <2>3, Limits DEF Settled, Established, Tracks
  <2>5. t.seen \in Nat /\ u.seen = t.seen
    BY <2>1, <2>3 DEF Shown, Tracks
  <2>6. frame' - t.seen <= t.misses
    BY <1>2, <1>4, <2>2 DEF Lag
  <2>7. frame' \in Nat
    BY <1>1 DEF TypeOK
  <2> QED BY <1>1, <2>4, <2>5, <2>6, <2>7, Limits
<1>5. LostTracksExpire'
  BY <1>1, <1>4 DEF LostTracksExpire, Uses
<1>6. frame' \in Nat
  BY <1>1 DEF TypeOK
<1> QED BY <1>1, <1>3, <1>5, <1>6

\* A change of mode forgets the tracks.
LEMMA SetModeKeepsUp ==
  ASSUME TypeOK, LostTracksExpire, NEW m \in Modes, SetMode(m), UNCHANGED <<frame, bus>>
  PROVE  /\ mode' \in DOMAIN Capabilities
         /\ newFrame' \in BOOLEAN
         /\ TableOK(tk')
         /\ UpToDate'
         /\ LostTracksExpire'
<1>1. TableOK(tk') /\ tk'.tracks = {}
  BY ResetIs DEF TypeOK, SetMode
<1>2. UpToDate'
  BY <1>1 DEF UpToDate, Lag
<1>3. LostTracksExpire'
  BY DEF LostTracksExpire
<1> QED BY <1>1, <1>2, <1>3, PipelineAssumption DEF SetMode

\* What the open app publishes.
LEMMA PublishedIs ==
  ASSUME TypeOK
  PROVE  /\ Published \in [source : {"NONE", "OBJECT_DETECT", "FACE", "APRILTAG"},
                           items : Seq(Objects \union {"tag"})]
         /\ Published.source # "APRILTAG" => Published.items \in Seq(Objects)
<1>0. found \in Seq(Objects \union {"tag"})
  <2>1. found \in Seq(Objects)
    BY DEF TypeOK
  <2> QED BY <2>1
<1>1. CASE DetectsObjects
  <2>1. Published = [source |-> "OBJECT_DETECT", items |-> found]
    BY <1>1 DEF Published, DetectsObjects
  <2> QED BY <1>0, <2>1 DEF TypeOK
<1>2. CASE app = "face"
  <2>1. Published = [source |-> "FACE", items |-> found]
    BY <1>2 DEF Published, DetectsObjects
  <2> QED BY <1>0, <2>1 DEF TypeOK
<1>3. CASE app = "apriltag"
  <2> DEFINE items == [i \in 1 .. tags |-> "tag"]
  <2>1. Published = [source |-> "APRILTAG", items |-> items]
    BY <1>3 DEF Published, DetectsObjects
  <2>2. items \in Seq(Objects \union {"tag"})
    BY DEF TypeOK
  <2> HIDE DEF items
  <2> QED BY <2>1, <2>2
<1>4. CASE ~DetectsObjects /\ app \notin {"face", "apriltag"}
  <2>1. Published = vision
    BY <1>4 DEF Published
  <2> QED BY <2>1 DEF TypeOK
<1> QED BY <1>1, <1>2, <1>3, <1>4

\* Every mode has its app.
LEMMA RouteIs == \A m : Route(m) \in Apps
BY DEF Route, Apps

\* The absence of a result is a result without items.
LEMMA NothingFound ==
  /\ << >> \in Seq(Objects) /\ << >> \in Seq(Objects \union {"tag"})
  /\ NoVision \in [source : {"NONE", "OBJECT_DETECT", "FACE", "APRILTAG"},
                   items : Seq(Objects \union {"tag"})]
  /\ NoVision.items = << >>
<1>1. << >> \in Seq(Objects) /\ << >> \in Seq(Objects \union {"tag"})
  OBVIOUS
<1> QED BY <1>1 DEF NoVision
-----------------------------------------------------------------------------
(* The steps *)

\* The pipeline starts without tracks, identities or a snapshot.
LEMMA InitOK ==
  ASSUME Init
  PROVE  IInv /\ IdentitiesAgree
<1>1. TableOK(tk) /\ tk.tracks = {}
  <2>1. 1 \in 1 .. (IdWrap - 1)
    BY WrapIs
  <2>2. tk \in Tables /\ tk.tracks = {}
    BY <2>1 DEF Init, EmptyTracker, Tables
  <2> QED BY <2>2, FS_EmptySet, Limits DEF TableOK
<1>2. TypeOK
  <2>1. target \in [id : 0 .. (IdWrap - 1), cls : Objects \union {AnyObject},
                    was : Objects \union {AnyObject}]
    <3>1. 0 \in 0 .. (IdWrap - 1)
      BY WrapIs
    <3> QED BY <3>1 DEF Init, AnyId
  <2>2. mode \in DOMAIN Capabilities
    BY PipelineAssumption DEF Init
  <2>3. /\ vision = NoVision /\ found = << >> /\ vision.items = << >>
        /\ bus = NoSnapshot /\ frame = 0 /\ tags = 0 /\ newFrame = FALSE
        /\ app = "none" /\ active = NoMode
    BY NothingFound DEF Init
  <2>4. app \in Apps
    BY <2>3 DEF Apps
  <2> QED BY <1>1, <2>1, <2>2, <2>3, <2>4, NothingFound DEF TypeOK
<1>3. bus = NoSnapshot /\ target.id = AnyId
  BY DEF Init
<1>4. UpToDate /\ LostTracksExpire
  BY <1>1, <1>3 DEF UpToDate, Lag, LostTracksExpire
<1>5. IdentitiesAgree
  BY <1>1, <1>3 DEF IdentitiesAgree, OwnIds
<1> QED BY <1>2, <1>4, <1>5 DEF IInv

\* What no frame and no change of mode touches.
Rest == <<mode, tk, frame, bus>>

\* A step that leaves the tracks and the bus alone loses no track.
LEMMA RestKeepsUp ==
  ASSUME IInv, UNCHANGED Rest
  PROVE  UpToDate' /\ LostTracksExpire'
BY DEF IInv, Rest, UpToDate, LostTracksExpire, Uses

\* A tick, of the pipeline or of an app, keeps the invariant.
LEMMA CommittingStep ==
  ASSUME IInv, PipelineTick \/ AppTick
  PROVE  IInv'
<1>1. CASE PipelineTick
  <2>1. mode' = mode /\ Commit(FALSE)
    BY <1>1 DEF PipelineTick
  <2>2. /\ TableOK(tk') /\ frame' \in Nat /\ bus' \in Snapshots
        /\ UpToDate' /\ LostTracksExpire'
    BY <2>1, CommitKeepsUp DEF IInv
  <2>3. TypeOK'
    BY <1>1, <2>2 DEF IInv, TypeOK, PipelineTick
  <2> QED BY <2>2, <2>3 DEF IInv
<1>2. CASE AppTick
  <2>1. /\ TableOK(tk') /\ frame' \in Nat /\ bus' \in Snapshots \union {NoSnapshot}
        /\ UpToDate' /\ LostTracksExpire'
    <3>1. CASE Ingests
      <4>1. mode' = mode /\ Commit(TRUE)
        BY <1>2, <3>1 DEF AppTick
      <4> QED BY <4>1, CommitKeepsUp DEF IInv
    <3>2. CASE ~Ingests
      <4>1. UNCHANGED Rest
        BY <1>2, <3>2 DEF AppTick, Rest
      <4>2. TableOK(tk') /\ frame' \in Nat /\ bus' \in Snapshots \union {NoSnapshot}
        BY <4>1 DEF IInv, TypeOK, Rest
      <4> QED BY <4>1, <4>2, RestKeepsUp
    <3> QED BY <3>1, <3>2
  <2>2. vision' = Published
    BY <1>2 DEF AppTick
  <2>3. /\ vision' \in [source : {"NONE", "OBJECT_DETECT", "FACE", "APRILTAG"},
                        items : Seq(Objects \union {"tag"})]
        /\ vision'.source # "APRILTAG" => vision'.items \in Seq(Objects)
    BY <2>2, PublishedIs DEF IInv
  <2>4. TypeOK'
    BY <1>2, <2>1, <2>3 DEF IInv, TypeOK, AppTick
  <2> QED BY <2>1, <2>4 DEF IInv
<1> QED BY <1>1, <1>2

\* A change of mode keeps the invariant.
LEMMA ModeStep ==
  ASSUME IInv, NEW m \in Modes, NEW screenOn \in BOOLEAN,
         OpenMode(m) \/ HostMode(m, screenOn)
  PROVE  IInv'
<1>1. SetMode(m) /\ UNCHANGED <<target, frame, bus>>
  BY DEF OpenMode, HostMode, OpenRoute
<1>2. /\ mode' \in DOMAIN Capabilities
      /\ newFrame' \in BOOLEAN
      /\ TableOK(tk')
      /\ UpToDate'
      /\ LostTracksExpire'
  BY <1>1, SetModeKeepsUp DEF IInv
<1>3. /\ target' \in [id : 0 .. (IdWrap - 1), cls : Objects \union {AnyObject},
                      was : Objects \union {AnyObject}]
      /\ frame' \in Nat
      /\ bus' \in Snapshots \union {NoSnapshot}
  BY <1>1 DEF IInv, TypeOK
<1>4. CASE OpenRoute(m)
  <2>1. /\ app' = Route(m) /\ active' = m
        /\ found' = << >> /\ tags' = 0 /\ vision' = NoVision
    BY <1>4 DEF OpenRoute
  <2>2. /\ app' \in Apps /\ active' \in DOMAIN Capabilities
        /\ found' \in Seq(Objects) /\ tags' \in Nat
        /\ vision' \in [source : {"NONE", "OBJECT_DETECT", "FACE", "APRILTAG"},
                        items : Seq(Objects \union {"tag"})]
        /\ vision'.items \in Seq(Objects)
    BY <2>1, RouteIs, NothingFound, PipelineAssumption
  <2>3. TypeOK'
    BY <1>2, <1>3, <2>2 DEF TypeOK
  <2> QED BY <1>2, <2>3 DEF IInv
<1>5. CASE ~OpenRoute(m)
  <2>1. /\ active' = (IF screenOn THEN m ELSE active)
        /\ UNCHANGED <<app, found, tags, vision>>
    BY <1>5 DEF OpenMode, HostMode
  <2>2. active' \in DOMAIN Capabilities \union {NoMode}
    BY <2>1, PipelineAssumption DEF IInv, TypeOK
  <2>3. TypeOK'
    BY <1>2, <1>3, <2>1, <2>2 DEF IInv, TypeOK
  <2> QED BY <1>2, <2>3 DEF IInv
<1> QED BY <1>4, <1>5
\* The steps that leave the mode, the tracks and the bus alone.
LEMMA QuietStep ==
  ASSUME IInv,
         \/ CameraFrame \/ OpenSettings \/ CloseApp
         \/ bus # NoSnapshot /\ \E t \in bus.tracks : SetTargetTrack(t.id, t.obj)
         \/ SetTargetTrack(AnyId, AnyObject)
         \/ \E cls \in Objects \union {AnyObject} : SetTargetClass(cls)
         \/ \E items \in Findings, k \in {0, 1} : DetectorResult(items, k)
         \/ UNCHANGED vars
  PROVE  IInv' /\ UNCHANGED Rest
<1>1. UNCHANGED Rest
  BY DEF CameraFrame, OpenSettings, CloseApp, SetTargetTrack, SetTargetClass,
         DetectorResult, vars, Rest
<1>2. UpToDate' /\ LostTracksExpire'
  BY <1>1, RestKeepsUp
<1>3. mode' \in DOMAIN Capabilities /\ TableOK(tk') /\ frame' \in Nat
      /\ bus' \in Snapshots \union {NoSnapshot}
  BY <1>1 DEF IInv, TypeOK, Rest
<1> SUFFICES TypeOK'
  BY <1>1, <1>2 DEF IInv
<1> DEFINE TargetType == target' \in [id : 0 .. (IdWrap - 1),
                                      cls : Objects \union {AnyObject},
                                      was : Objects \union {AnyObject}]
<1>4. CASE CameraFrame
  BY <1>3, <1>4 DEF IInv, TypeOK, CameraFrame
<1>5. CASE OpenSettings
  <2>1. found' = << >> /\ vision' = NoVision
    BY <1>5 DEF OpenSettings
  <2> QED BY <1>3, <1>5, <2>1, NothingFound DEF IInv, TypeOK, OpenSettings
<1>6. CASE CloseApp
  <2>1. /\ found' = << >> /\ vision' = NoVision /\ tags' = 0
        /\ app' = "none" /\ active' = NoMode
    BY <1>6 DEF CloseApp
  <2>2. app' \in Apps
    BY <2>1 DEF Apps
  <2> QED BY <1>3, <1>6, <2>1, <2>2, NothingFound DEF IInv, TypeOK, CloseApp
<1>7. CASE bus # NoSnapshot /\ \E t \in bus.tracks : SetTargetTrack(t.id, t.obj)
  <2>1. PICK t \in bus.tracks : SetTargetTrack(t.id, t.obj)
    BY <1>7
  <2>2. t \in ShownTracks
    BY <1>7 DEF IInv, TypeOK, Snapshots
  <2>3. t.obj \in Objects /\ t.id \in 0 .. (IdWrap - 1)
    <3>1. t.id \in 1 .. (IdWrap - 1) /\ t.obj \in Objects
      BY <2>2 DEF ShownTracks
    <3>2. IdWrap \in Nat /\ t.id \in Nat
      BY <3>1, IdsAreNumbers
    <3> QED BY <3>1, <3>2
  <2>4. target' = [target EXCEPT !.id = t.id, !.was = t.obj]
    BY <2>1 DEF SetTargetTrack
  <2>5. TargetType
    BY <2>3, <2>4 DEF IInv, TypeOK
  <2> HIDE DEF TargetType
  <2> QED BY <1>3, <2>1, <2>5 DEF IInv, TypeOK, SetTargetTrack, TargetType
<1>8. CASE SetTargetTrack(AnyId, AnyObject)
  <2>1. AnyId \in 0 .. (IdWrap - 1)
    BY WrapIs DEF AnyId
  <2>2. target' = [target EXCEPT !.id = AnyId, !.was = AnyObject]
    BY <1>8 DEF SetTargetTrack
  <2>3. TargetType
    BY <2>1, <2>2 DEF IInv, TypeOK
  <2> QED BY <1>3, <1>8, <2>3 DEF IInv, TypeOK, SetTargetTrack
<1>9. CASE \E cls \in Objects \union {AnyObject} : SetTargetClass(cls)
  <2>1. PICK cls \in Objects \union {AnyObject} : SetTargetClass(cls)
    BY <1>9
  <2>2. target' = [target EXCEPT !.cls = cls]
    BY <2>1 DEF SetTargetClass
  <2>3. TargetType
    BY <2>2 DEF IInv, TypeOK
  <2> QED BY <1>3, <2>1, <2>3 DEF IInv, TypeOK, SetTargetClass
<1>10. CASE \E items \in Findings, k \in {0, 1} : DetectorResult(items, k)
  <2>1. PICK items \in Findings, k \in {0, 1} : DetectorResult(items, k)
    BY <1>10
  <2>2. items \in Seq(Objects)
    BY PipelineAssumption DEF Findings, BoundedSeq, SeqOf
  <2>3. found' = items /\ tags' = k
    BY <2>1 DEF DetectorResult
  <2> QED BY <1>3, <2>1, <2>2, <2>3 DEF IInv, TypeOK, DetectorResult
<1>11. CASE UNCHANGED vars
  BY <1>3, <1>11 DEF IInv, TypeOK, vars
<1> QED BY <1>4, <1>5, <1>6, <1>7, <1>8, <1>9, <1>10, <1>11

\* Every step keeps the invariant.
LEMMA StepOK ==
  ASSUME IInv, [Next]_vars
  PROVE  IInv'
<1>1. CASE PipelineTick \/ AppTick
  BY <1>1, CommittingStep
<1>2. CASE \E m \in Modes : OpenMode(m) \/ \E screenOn \in BOOLEAN : HostMode(m, screenOn)
  <2>1. PICK m \in Modes : OpenMode(m) \/ \E screenOn \in BOOLEAN : HostMode(m, screenOn)
    BY <1>2
  <2>2. CASE OpenMode(m)
    <3>1. TRUE \in BOOLEAN
      OBVIOUS
    <3> QED BY <2>2, <3>1, ModeStep
  <2>3. CASE \E screenOn \in BOOLEAN : HostMode(m, screenOn)
    BY <2>3, ModeStep
  <2> QED BY <2>1, <2>2, <2>3
<1>3. CASE ~(PipelineTick \/ AppTick)
           /\ ~(\E m \in Modes :
                 OpenMode(m) \/ \E screenOn \in BOOLEAN : HostMode(m, screenOn))
  BY <1>3, QuietStep DEF Next
<1> QED BY <1>1, <1>2, <1>3

\* Every reachable state satisfies the invariant.
THEOREM Invariance == Spec => []IInv
<1>1. Init => IInv
  BY InitOK
<1>2. IInv /\ [Next]_vars => IInv'
  BY StepOK
<1> QED BY <1>1, <1>2, PTL DEF Spec

\* The table of tracks fits, its tracks are settled, and every variable has its
\* type (dristy_tracker.c's table, the pipeline's statics).
THEOREM TypeCorrect == Spec => []TypeOK
<1>1. IInv => TypeOK
  BY DEF IInv
<1> QED BY <1>1, Invariance, PTL

\* For any limits and any order of frames, results and changes of mode: in a mode
\* that tracks, nothing is reported that no detection was matched to in the last
\* MaxCoast frames (track_mark_missed, pipeline_commit_frame's predict).
THEOREM LostTracksExpireHolds == Spec => []LostTracksExpire
<1>1. IInv => LostTracksExpire
  BY DEF IInv
<1> QED BY <1>1, Invariance, PTL
-----------------------------------------------------------------------------
(* Identities, until they come round *)

\* A committed frame keeps the identities of the bus and of the table in agreement.
LEMMA CommitAgrees ==
  ASSUME IInv, IdentitiesAgree, RoomForIds, NEW pixels \in BOOLEAN, Commit(pixels),
         target' = target
  PROVE  IdentitiesAgree'
<1>1. /\ TableOK(tk')
      /\ Continues(tk, tk', 4 * MaxTracks)
      /\ bus' \in Snapshots
      /\ bus'.tracks = {Shown(t) : t \in Report(tk')}
  BY CommitIs DEF IInv
<1>2. /\ tk'.next \in tk.next .. (tk.next + 4 * MaxTracks)
      /\ \A t \in tk'.tracks :
           \/ t.id >= tk.next
           \/ \E s \in tk.tracks : s.id = t.id /\ s.obj = t.obj
      /\ OwnIds(tk')
  BY <1>1 DEF Continues, RoomForIds, IdentitiesAgree
<1>3. \A u \in bus'.tracks : \E t \in tk'.tracks : u.id = t.id /\ u.obj = t.obj
  <2> SUFFICES ASSUME NEW u \in bus'.tracks
               PROVE  \E t \in tk'.tracks : u.id = t.id /\ u.obj = t.obj
    OBVIOUS
  <2>1. PICK t \in Report(tk') : u = Shown(t)
    BY <1>1
  <2>2. t \in tk'.tracks /\ u.id = t.id /\ u.obj = t.obj
    BY <2>1 DEF Report, Shown
  <2> QED BY <2>2
<1>4. \A t \in bus'.tracks :
        /\ t.id < tk'.next
        /\ \A u \in tk'.tracks \union bus'.tracks : u.id = t.id => u.obj = t.obj
  <2>1. /\ \A t \in tk'.tracks : t.id < tk'.next
        /\ \A t, u \in tk'.tracks : t.id = u.id => t = u
    BY <1>2 DEF OwnIds
  <2> QED BY <1>3, <2>1
<1>5. ASSUME target.id # AnyId
      PROVE  /\ target.id < tk'.next
             /\ \A t \in tk'.tracks \union bus'.tracks :
                  t.id = target.id => t.obj = target.was
  <2>1. /\ target.id < tk.next
        /\ \A t \in tk.tracks : t.id = target.id => t.obj = target.was
    BY <1>5 DEF IdentitiesAgree
  <2>2. /\ target.id \in Nat /\ tk.next \in Nat /\ tk'.next \in Nat
        /\ \A t \in tk'.tracks : t.id \in Nat
    <3>1. target.id \in 0 .. (IdWrap - 1)
      BY DEF IInv, TypeOK
    <3>2. tk.next \in Nat /\ tk'.next \in Nat /\ \A t \in tk'.tracks : t.id \in Nat
      BY <1>1, IdsAreNumbers DEF IInv, TypeOK, TableOK, Tables
    <3>3. target.id \in Nat
      BY <3>1, IdsAreNumbers
    <3> QED BY <3>2, <3>3
  <2>3. tk.next <= tk'.next
    BY <1>2, <2>2, Limits
  <2>4. target.id < tk'.next
    BY <2>1, <2>2, <2>3
  <2>5. \A t \in tk'.tracks : t.id = target.id => t.obj = target.was
    <3> SUFFICES ASSUME NEW t \in tk'.tracks, t.id = target.id
                 PROVE  t.obj = target.was
      OBVIOUS
    <3>1. ~(t.id >= tk.next)
      BY <2>1, <2>2
    <3> QED BY <1>2, <2>1, <3>1
  <2> QED BY <1>3, <2>4, <2>5
<1> QED BY <1>1, <1>2, <1>4, <1>5, NotASnapshot DEF IdentitiesAgree

\* Every step keeps them in agreement, while identities have not come round.
LEMMA StepAgrees ==
  ASSUME IInv, IdentitiesAgree, RoomForIds, [Next]_vars
  PROVE  IdentitiesAgree'
<1>1. ASSUME UNCHANGED <<tk, bus, target>>
      PROVE  IdentitiesAgree'
  BY <1>1 DEF IdentitiesAgree, OwnIds
<1>2. CASE PipelineTick
  BY <1>2, CommitAgrees DEF PipelineTick
<1>3. CASE AppTick
  <2>1. CASE Ingests
    BY <1>3, <2>1, CommitAgrees DEF AppTick
  <2>2. CASE ~Ingests
    BY <1>1, <1>3, <2>2 DEF AppTick
  <2> QED BY <2>1, <2>2
<1>4. ASSUME NEW m \in Modes, SetMode(m), UNCHANGED <<target, frame, bus>>
      PROVE  IdentitiesAgree'
  <2>1. tk'.tracks = {} /\ tk'.next = tk.next
    BY <1>4, ResetIs DEF IInv, TypeOK, SetMode
  <2>2. bus' = bus /\ target' = target
    BY <1>4
  <2>3. OwnIds(tk')
    BY <2>1 DEF OwnIds
  <2> QED BY <2>1, <2>2, <2>3 DEF IdentitiesAgree
<1>5. CASE \E m \in Modes : OpenMode(m) \/ \E screenOn \in BOOLEAN : HostMode(m, screenOn)
  BY <1>4, <1>5 DEF OpenMode, HostMode, OpenRoute
<1>6. CASE bus # NoSnapshot /\ \E t \in bus.tracks : SetTargetTrack(t.id, t.obj)
  <2>1. PICK t \in bus.tracks : SetTargetTrack(t.id, t.obj)
    BY <1>6
  <2>2. target'.id = t.id /\ target'.was = t.obj /\ tk' = tk /\ bus' = bus
    BY <2>1 DEF SetTargetTrack, IInv, TypeOK
  <2>3. /\ t.id < tk.next
        /\ \A u \in tk.tracks \union bus.tracks : u.id = t.id => u.obj = t.obj
    BY <1>6 DEF IdentitiesAgree
  <2> QED BY <1>6, <2>2, <2>3 DEF IdentitiesAgree, OwnIds
<1>7. CASE SetTargetTrack(AnyId, AnyObject)
  <2>1. target'.id = AnyId /\ tk' = tk /\ bus' = bus
    BY <1>7 DEF SetTargetTrack, IInv, TypeOK
  <2> QED BY <2>1 DEF IdentitiesAgree, OwnIds
<1>8. CASE \E cls \in Objects \union {AnyObject} : SetTargetClass(cls)
  <2>1. PICK cls \in Objects \union {AnyObject} : SetTargetClass(cls)
    BY <1>8
  <2>2. /\ target'.id = target.id /\ target'.was = target.was
        /\ tk' = tk /\ bus' = bus
    BY <2>1 DEF SetTargetClass, IInv, TypeOK
  <2> QED BY <2>2 DEF IdentitiesAgree, OwnIds
<1>9. CASE \/ CameraFrame \/ OpenSettings \/ CloseApp
           \/ \E items \in Findings, k \in {0, 1} : DetectorResult(items, k)
           \/ UNCHANGED vars
  BY <1>1, <1>9 DEF CameraFrame, OpenSettings, CloseApp, DetectorResult, vars
<1> QED BY <1>2, <1>3, <1>5, <1>6, <1>7, <1>8, <1>9 DEF Next

\* Until identities come round, the table, the snapshot and the target agree.
LEMMA Agreement == Spec /\ []RoomForIds => []IdentitiesAgree
<1>1. Init => IdentitiesAgree
  BY InitOK
<1>2. IInv /\ RoomForIds /\ IdentitiesAgree /\ [Next]_vars => IdentitiesAgree'
  BY StepAgrees
<1> QED BY <1>1, <1>2, Invariance, PTL DEF Spec

\* A host that follows an identity follows one object until identities, 16 bits
\* wide, come round: no match, deletion, doubled export or change of mode gives the
\* identity it asked for to another object (class gate, dristy_tracker_reset).
THEOREM FollowedIdKeepsItsObjectHolds ==
  Spec /\ []RoomForIds => []FollowedIdKeepsItsObject
<1>1. IdentitiesAgree => FollowedIdKeepsItsObject
  BY DEF IdentitiesAgree, FollowedIdKeepsItsObject
<1> QED BY <1>1, Agreement, PTL

\* Until then the table holds each identity once, and it fits whatever is detected
\* (dristy_tracker_update, prune_deleted).
THEOREM TrackTableHolds == Spec /\ []RoomForIds => []TrackTableOK
<1>1. TypeOK /\ IdentitiesAgree => TrackTableOK
  BY DEF TypeOK, TableOK, Tables, IdentitiesAgree, OwnIds, TrackTableOK, Settled
<1> QED BY <1>1, TypeCorrect, Agreement, PTL

\* The primary target is the one that was asked for when the frame was committed: a
\* lost identity or class is never replaced by another track
\* (select_primary_target).
THEOREM TargetIsTheRequestedOneHolds == Spec => TargetIsTheRequestedOne
<1> DEFINE Requested ==
             bus' # bus /\ bus'.target.type = "TRACK" =>
               \E t \in bus'.tracks :
                 /\ t.id = bus'.target.track
                 /\ IF target.id # AnyId THEN t.id = target.id
                    ELSE target.cls \in {AnyObject, t.obj}
<1>1. ASSUME IInv, [Next]_vars
      PROVE  Requested
  <2> SUFFICES ASSUME bus' # bus, bus'.target.type = "TRACK"
               PROVE  \E t \in bus'.tracks :
                        /\ t.id = bus'.target.track
                        /\ IF target.id # AnyId THEN t.id = target.id
                           ELSE target.cls \in {AnyObject, t.obj}
    OBVIOUS
  <2>1. PICK pixels \in BOOLEAN : Commit(pixels)
    <3>1. CASE PipelineTick
      BY <3>1 DEF PipelineTick
    <3>2. CASE AppTick
      BY <3>2 DEF AppTick
    <3>3. CASE ~PipelineTick /\ ~AppTick
      BY <1>1, <3>3 DEF Next, CameraFrame, OpenSettings, CloseApp, OpenMode, HostMode,
                        SetTargetTrack, SetTargetClass, DetectorResult, vars
    <3> QED BY <3>1, <3>2, <3>3
  <2>2. /\ bus'.tracks = {Shown(t) : t \in Report(tk')}
        /\ \E t \in Report(tk') : t.id = bus'.target.track /\ Eligible(t)
    BY <1>1, <2>1, CommitIs DEF IInv
  <2>3. PICK t \in Report(tk') : t.id = bus'.target.track /\ Eligible(t)
    BY <2>2
  <2>4. Shown(t) \in bus'.tracks /\ Shown(t).id = t.id /\ Shown(t).obj = t.obj
    BY <2>2 DEF Shown
  <2> QED BY <2>3, <2>4 DEF Eligible
<1>2. IInv /\ [Next]_vars => [Requested]_vars
  BY <1>1
<1> QED BY <1>2, Invariance, PTL DEF Spec, TargetIsTheRequestedOne

=============================================================================
