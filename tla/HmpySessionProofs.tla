--------------------------- MODULE HmpySessionProofs ---------------------------
(***************************************************************************)
(* Proofs about HmpySession and the filesystem under it, for any names,    *)
(* contents, frames on the line, failing flash calls and power cuts: the   *)
(* upload belongs to the session, an answered commit is stored, a repeated *)
(* chunk is accepted, and files change as FileStore promises.              *)
(***************************************************************************)
EXTENDS HmpySession, SequenceTheorems, TLAPS

-----------------------------------------------------------------------------
(* The filesystem: what each operation of UserFs does to the files and to  *)
(* the upload under way.                                                   *)

\* A selected file exists, unless the selection could not be read.
StartupOf(q) ==
  q.disk.startup # None => q.disk.files[q.disk.startup] # None \/ q.unread

\* An upload is under way only while the filesystem is mounted, and its
\* temporary file is there until all of it has been written.
UploadOf(q) ==
  q.ram.upload # None =>
    /\ q.ram.state = "mounted"
    /\ q.ram.upload.id <= q.ram.next
    /\ q.ram.upload.offset # Len(q.ram.upload.expected) =>
         q.disk.temps[q.ram.upload.id] \in Seq(Chunks \cup {Torn})

FsInv(q) == q \in UserFsState /\ UploadOf(q) /\ StartupOf(q)

\* The state t differs from q in nothing a session sees.
Quiet(q, t) ==
  /\ t.disk.files = q.disk.files
  /\ t.ram.upload = q.ram.upload
  /\ t.ram.next = q.ram.next

\* The upload of q ends and the files stay.
Dropped(q, t) ==
  /\ t.disk.files = q.disk.files
  /\ t.ram.upload = None
  /\ t.ram.next = q.ram.next

\* The state t is q with the flash d and the static variables r.
Is(t, q, d, r) ==
  /\ t \in UserFsState
  /\ t.disk = d /\ t.ram = r /\ t.faults = q.faults /\ t.unread = q.unread

\* What a state is after its disk or its variables change.
LEMMA ChangedState ==
  ASSUME NEW q \in UserFsState, NEW d \in Disk, NEW r \in Ram
  PROVE  /\ Is([q EXCEPT !.disk = d, !.ram = r], q, d, r)
         /\ Is([q EXCEPT !.disk = d], q, d, q.ram)
         /\ Is([q EXCEPT !.ram = r], q, q.disk, r)
<1>1. Is([q EXCEPT !.disk = d, !.ram = r], q, d, r)
  BY DEF Is, UserFsState
<1>2. Is([q EXCEPT !.disk = d], q, d, q.ram)
  BY DEF Is, UserFsState
<1>3. Is([q EXCEPT !.ram = r], q, q.disk, r)
  BY DEF Is, UserFsState
<1>. QED
  BY <1>1, <1>2, <1>3

\* The parts of a state of the filesystem have their types.
LEMMA StateFields ==
  ASSUME NEW q \in UserFsState
  PROVE  /\ q.disk \in Disk /\ q.ram \in Ram
         /\ q.faults \in 0 .. MaxFaults /\ q.unread \in BOOLEAN
  BY DEF UserFsState

\* A failing call leaves one of the states it may leave.
LEMMA FailingKeeps ==
  ASSUME NEW q \in UserFsState, NEW res, NEW S, \A t \in S : FsInv(t),
         NEW o \in Failing(q, res, S)
  PROVE  /\ o.res = res /\ FsInv(o.s)
         /\ \E t \in S : o.s.disk = t.disk /\ o.s.ram = t.ram
<1>1. q.faults < MaxFaults /\ q.faults \in 0 .. MaxFaults
  BY StateFields DEF Failing
<1>2. PICK t \in S : o = Outcome(res, [t EXCEPT !.faults = q.faults + 1])
  BY <1>1 DEF Failing
<1>3. t \in UserFsState
  BY DEF FsInv
<1>4. q.faults + 1 \in 0 .. MaxFaults
  BY <1>1, UserFsAssumption
<1>5. o.res = res /\ o.s = [t EXCEPT !.faults = q.faults + 1]
  BY <1>2 DEF Outcome
<1>6. o.s \in UserFsState /\ o.s.disk = t.disk /\ o.s.ram = t.ram /\ o.s.unread = t.unread
  BY <1>3, <1>4, <1>5 DEF UserFsState
<1>7. FsInv(o.s)
  BY <1>6, <1>3 DEF FsInv, UploadOf, StartupOf
<1>. QED
  BY <1>5, <1>6, <1>7

\* The blank, the formatted and the corrupt disk hold no file.
LEMMA ConstantDisks ==
  /\ Blank \in Disk /\ Formatted \in Disk
  /\ [Formatted EXCEPT !.medium = "corrupt"] \in Disk
  /\ Blank.files = NoFiles /\ Formatted.files = NoFiles
  /\ [Formatted EXCEPT !.medium = "corrupt"].files = NoFiles
  /\ Blank.startup = None /\ Formatted.startup = None
  /\ [Formatted EXCEPT !.medium = "corrupt"].startup = None
<1>1. NoFiles \in [Names -> Contents \cup {None}]
  BY DEF NoFiles
<1>2. NoTemps \in [Ids -> Seq(Chunks \cup {Torn}) \cup {None}]
  BY DEF NoTemps
<1>. QED
  BY <1>1, <1>2 DEF Formatted, Blank, Disk

\* After power-up there is no upload.
LEMMA PoweredUpType == PoweredUp \in Ram /\ PoweredUp.upload = None /\ PoweredUp.next = 0
  BY UserFsAssumption DEF PoweredUp, Ram

-----------------------------------------------------------------------------
\* What userfs.c itself changes of its static variables.
RamState(r, st) == [r EXCEPT !.state = st]

\* Changing the mount state leaves the upload alone.
LEMMA RamStateType ==
  ASSUME NEW r \in Ram,
         NEW st \in {"uninitialized", "unformatted", "corrupt", "io_error", "mounted"}
  PROVE  /\ RamState(r, st) \in Ram
         /\ RamState(r, st).state = st
         /\ RamState(r, st).upload = r.upload /\ RamState(r, st).next = r.next
  BY DEF RamState, Ram

\* Removing the temporary files leaves the files and the startup alone.
LEMMA CleanedType ==
  ASSUME NEW d \in Disk
  PROVE  Cleaned(d) \in Disk /\ Cleaned(d).files = d.files /\ Cleaned(d).startup = d.startup
<1>1. NoTemps \in [Ids -> Seq(Chunks \cup {Torn}) \cup {None}]
  BY DEF NoTemps
<1>. QED
  BY <1>1 DEF Cleaned, Disk

MountResults == {"ok", "io", "unformatted", "corrupt"}

\* mount: no file, startup or upload changes.
LEMMA MountKeeps ==
  ASSUME NEW q, FsInv(q), NEW o \in Mount(q)
  PROVE  FsInv(o.s) /\ Quiet(q, o.s) /\ o.res \in MountResults
<1> USE DEF MountResults
<1>q. q \in UserFsState
  BY DEF FsInv
<1>t. q.disk \in Disk /\ q.ram \in Ram
  BY <1>q, StateFields
<1>1. CASE Mounted(q)
  <2>1. o.res = "ok" /\ o.s = q
    BY <1>1 DEF Mount, Refused, Outcome
  <2>. QED
    BY <2>1 DEF Quiet
<1>2. CASE ~Mounted(q)
  <2>1. q.ram.upload = None
    BY <1>2 DEF FsInv, UploadOf, Mounted
  <2> DEFINE other(st) == [q EXCEPT !.ram.state = st]
             up(d) == [q EXCEPT !.disk = d, !.ram.state = "mounted", !.ram.upload = None]
  <2>2. ASSUME NEW st \in {"unformatted", "corrupt", "io_error"}
        PROVE  FsInv(other(st)) /\ Quiet(q, other(st))
    <3>1. other(st) = [q EXCEPT !.ram = RamState(q.ram, st)]
      BY <1>q DEF RamState, UserFsState
    <3>2. RamState(q.ram, st) \in Ram
      BY <1>t, RamStateType
    <3>3. Is(other(st), q, q.disk, RamState(q.ram, st))
      <4> HIDE DEF other
      <4>. QED
        BY <3>1, <3>2, <1>q, <1>t, ChangedState
    <3> HIDE DEF other
    <3>. QED
      BY <3>3, <2>1, <1>t, <1>q, RamStateType DEF FsInv, UploadOf, StartupOf, Quiet, Is
  <2>3. ASSUME NEW d \in Disk, d.files = q.disk.files, d.startup = q.disk.startup
        PROVE  FsInv(up(d)) /\ Quiet(q, up(d))
    <3> DEFINE r == [q.ram EXCEPT !.state = "mounted", !.upload = None]
    <3>1. r \in Ram /\ r.upload = None /\ r.next = q.ram.next
      BY <1>t DEF Ram
    <3>2. up(d) = [q EXCEPT !.disk = d, !.ram = r]
      BY <1>q DEF UserFsState
    <3>3. Is(up(d), q, d, r)
      <4> HIDE DEF up, r
      <4>. QED
        BY <3>1, <3>2, <1>q, ChangedState
    <3> HIDE DEF up, r
    <3>. QED
      BY <3>1, <3>3, <2>1, <2>3 DEF FsInv, UploadOf, StartupOf, Quiet, Is
  <2>4. ASSUME NEW d \in Disk, d.files = q.disk.files, d.startup = q.disk.startup,
               o \in Failing(q, "ok", {up(d)})
        PROVE  FsInv(o.s) /\ Quiet(q, o.s) /\ o.res \in MountResults
    <3>1. FsInv(up(d)) /\ Quiet(q, up(d))
      BY <2>3, <2>4
    <3> HIDE DEF up
    <3>. QED
      BY <3>1, <2>4, <1>q, FailingKeeps DEF Quiet
  <2>5. ASSUME NEW st \in {"unformatted", "corrupt", "io_error"}, NEW res \in MountResults,
               o \in Failing(q, res, {other(st)})
        PROVE  FsInv(o.s) /\ Quiet(q, o.s) /\ o.res \in MountResults
    <3>1. FsInv(other(st)) /\ Quiet(q, other(st))
      BY <2>2
    <3> HIDE DEF other
    <3>. QED
      BY <3>1, <2>5, <1>q, FailingKeeps DEF Quiet
  <2>6. Cleaned(q.disk) \in Disk /\ Cleaned(q.disk).files = q.disk.files
        /\ Cleaned(q.disk).startup = q.disk.startup
    BY <1>t, CleanedType
  <2>7. \/ o \in Failing(q, "io", {other("io_error")})
        \/ o = Outcome("ok", up(Cleaned(q.disk)))
        \/ o \in Failing(q, "ok", {up(q.disk)})
        \/ o = Outcome("unformatted", other("unformatted"))
        \/ o = Outcome("corrupt", other("corrupt"))
    <3>1. q.disk.medium \in {"blank", "formatted", "corrupt"}
      BY <1>t DEF Disk
    <3>. QED
      BY <3>1, <1>2, Zenon DEF Mount
  <2>8. FsInv(up(Cleaned(q.disk))) /\ Quiet(q, up(Cleaned(q.disk)))
    BY <2>3, <2>6
  <2>9. /\ FsInv(other("unformatted")) /\ Quiet(q, other("unformatted"))
        /\ FsInv(other("corrupt")) /\ Quiet(q, other("corrupt"))
    BY <2>2
  <2>10. \A res, t : Outcome(res, t).res = res /\ Outcome(res, t).s = t
    BY DEF Outcome
  <2> HIDE DEF up, other
  <2>. QED
    BY <2>4, <2>5, <2>7, <2>8, <2>9, <2>10, <1>t
<1>. QED
  BY <1>1, <1>2

\* The upload record of the static variables.
RamUpload(r, u) == [r EXCEPT !.upload = u]

\* Changing the upload leaves the mount state and the next id alone.
LEMMA RamUploadType ==
  ASSUME NEW r \in Ram, NEW u \in Uploads \cup {None}
  PROVE  /\ RamUpload(r, u) \in Ram
         /\ RamUpload(r, u).upload = u
         /\ RamUpload(r, u).state = r.state /\ RamUpload(r, u).next = r.next
  BY DEF RamUpload, Ram

\* The parts of an upload have their types.
LEMMA UploadFields ==
  ASSUME NEW q, FsInv(q), Uploading(q)
  PROVE  /\ q.ram.upload \in Uploads
         /\ q.ram.upload.id \in Ids /\ q.ram.upload.target \in Names
         /\ q.ram.upload.expected \in Contents /\ q.ram.upload.offset \in Nat
         /\ q.ram.upload.open \in BOOLEAN
<1>1. q.ram \in Ram
  BY StateFields DEF FsInv
<1>2. q.ram.upload \in Uploads
  BY <1>1 DEF Ram, Uploading
<1>. QED
  BY <1>2 DEF Uploads

\* One temporary file changes and nothing else on the flash.
Temp(d, id, f) == [d EXCEPT !.temps[id] = f]

\* Changing a temporary file leaves the files and the startup alone.
LEMMA TempType ==
  ASSUME NEW d \in Disk, NEW id \in Ids, NEW f \in Seq(Chunks \cup {Torn}) \cup {None}
  PROVE  /\ Temp(d, id, f) \in Disk
         /\ Temp(d, id, f).files = d.files /\ Temp(d, id, f).startup = d.startup
         /\ Temp(d, id, f).temps[id] = f
<1>1. [d.temps EXCEPT ![id] = f] \in [Ids -> Seq(Chunks \cup {Torn}) \cup {None}]
  BY DEF Disk
<1>2. [d.temps EXCEPT ![id] = f][id] = f
  BY DEF Disk
<1>. QED
  BY <1>1, <1>2 DEF Temp, Disk

\* upload_abort: drops the upload it names, or refuses and changes nothing.
LEMMA AbortKeeps ==
  ASSUME NEW q, FsInv(q), NEW id, NEW o \in UploadAbort(q, id)
  PROVE  /\ FsInv(o.s)
         /\ \/ o.res = "invalid" /\ o.s = q /\ ~(Uploading(q) /\ q.ram.upload.id = id)
            \/ o.res = "ok" /\ Dropped(q, o.s) /\ Uploading(q) /\ q.ram.upload.id = id
<1>q. q \in UserFsState
  BY DEF FsInv
<1>t. q.disk \in Disk /\ q.ram \in Ram
  BY <1>q, StateFields
<1>1. CASE ~Uploading(q) \/ q.ram.upload.id # id
  <2>1. o.res = "invalid" /\ o.s = q
    BY <1>1 DEF UploadAbort, Refused, Outcome
  <2>. QED
    BY <2>1, <1>1
<1>2. CASE Uploading(q) /\ q.ram.upload.id = id
  <2> DEFINE dropped(d) == [q EXCEPT !.disk = d, !.ram.upload = None]
  <2>1. ASSUME NEW d \in Disk, d.files = q.disk.files, d.startup = q.disk.startup
        PROVE  FsInv(dropped(d)) /\ Dropped(q, dropped(d))
    <3>1. dropped(d) = [q EXCEPT !.disk = d, !.ram = RamUpload(q.ram, None)]
      BY <1>q DEF RamUpload, UserFsState
    <3>2. RamUpload(q.ram, None) \in Ram
      BY <1>t, RamUploadType
    <3>3. Is(dropped(d), q, d, RamUpload(q.ram, None))
      <4> HIDE DEF dropped
      <4>. QED
        BY <3>1, <3>2, <1>q, ChangedState
    <3> HIDE DEF dropped
    <3>. QED
      BY <3>3, <2>1, <1>t, RamUploadType DEF FsInv, UploadOf, StartupOf, Dropped, Is
  <2>2. Temp(q.disk, id, None) \in Disk /\ Temp(q.disk, id, None).files = q.disk.files
        /\ Temp(q.disk, id, None).startup = q.disk.startup
    BY <1>2, <1>t, UploadFields, TempType
  <2>3. \/ o = Outcome("ok", dropped(Temp(q.disk, id, None)))
        \/ o \in Failing(q, "ok", {dropped(q.disk)})
    BY <1>2 DEF UploadAbort, Temp
  <2>4. /\ FsInv(dropped(Temp(q.disk, id, None))) /\ Dropped(q, dropped(Temp(q.disk, id, None)))
        /\ FsInv(dropped(q.disk)) /\ Dropped(q, dropped(q.disk))
    BY <2>1, <2>2, <1>t
  <2>5. \A res, t : Outcome(res, t).res = res /\ Outcome(res, t).s = t
    BY DEF Outcome
  <2>6. ASSUME o \in Failing(q, "ok", {dropped(q.disk)})
        PROVE  FsInv(o.s) /\ Dropped(q, o.s) /\ o.res = "ok"
    <3> HIDE DEF dropped
    <3>. QED
      BY <2>4, <2>6, <1>q, FailingKeeps DEF Dropped
  <2> HIDE DEF dropped
  <2>. QED
    BY <2>3, <2>4, <2>5, <2>6, <1>2
<1>. QED
  BY <1>1, <1>2

\* Every file is gone, or none is.
Wiped(q, t) == t.disk.files \in {q.disk.files, NoFiles}

\* format: the files stay or all go.
LEMMA FormatKeeps ==
  ASSUME NEW q, FsInv(q), ~Uploading(q), NEW o \in Format(q)
  PROVE  /\ FsInv(o.s) /\ Wiped(q, o.s)
         /\ o.s.ram.upload = None /\ o.s.ram.next = q.ram.next
         /\ o.res \in MountResults
<1>q. q \in UserFsState
  BY DEF FsInv
<1>t. q.disk \in Disk /\ q.ram \in Ram /\ q.ram.upload = None
  BY <1>q, StateFields DEF Uploading
<1> DEFINE T == IF Mounted(q) THEN Unmounted(q) ELSE {q}
           done(t) == [t EXCEPT !.disk = Last(FormatSteps(t.disk)), !.ram.state = "uninitialized"]
           failed(t, d) == [t EXCEPT !.disk = d, !.ram.state = "io_error"]
           left(t) == {t.disk} \cup ToSet(FormatSteps(t.disk))
<1>1. PICK t \in T : o \in Mount(done(t)) \cup Failing(t, "io", {failed(t, d) : d \in left(t)})
  BY DEF Format
<1>2. FsInv(t) /\ t.disk = q.disk /\ t.ram.next = q.ram.next /\ t.ram.upload = None
  <2>1. CASE t = q
    BY <2>1, <1>t
  <2>2. CASE t = [q EXCEPT !.ram.state = "uninitialized"]
    <3>1. t = [q EXCEPT !.ram = RamState(q.ram, "uninitialized")]
      BY <2>2, <1>q DEF RamState, UserFsState
    <3>2. RamState(q.ram, "uninitialized") \in Ram
      BY <1>t, RamStateType
    <3>3. Is(t, q, q.disk, RamState(q.ram, "uninitialized"))
      BY <3>1, <3>2, <1>q, <1>t, ChangedState
    <3>. QED
      BY <3>3, <1>t, RamStateType DEF FsInv, UploadOf, StartupOf, Is
  <2>. QED
    BY <2>1, <2>2 DEF Unmounted
<1>3. t \in UserFsState /\ t.disk \in Disk /\ t.ram \in Ram
  BY <1>2, StateFields DEF FsInv
<1>4. \A d : Last(FormatSteps(d)) = Formatted
             /\ ToSet(FormatSteps(d)) = {[Formatted EXCEPT !.medium = "corrupt"], Formatted}
  BY DEF FormatSteps, Last, ToSet
<1> DEFINE x(d, st) == [t EXCEPT !.disk = d, !.ram.state = st]
<1>5. ASSUME NEW d \in Disk, NEW st \in {"uninitialized", "io_error"},
             \/ d.files = q.disk.files /\ d.startup = q.disk.startup
             \/ d.files = NoFiles /\ d.startup = None
      PROVE  FsInv(x(d, st)) /\ x(d, st).disk = d /\ x(d, st).ram.upload = None
             /\ x(d, st).ram.next = q.ram.next
  <2>1. x(d, st) = [t EXCEPT !.disk = d, !.ram = RamState(t.ram, st)]
    BY <1>3 DEF RamState, UserFsState
  <2> HIDE DEF x
  <2>2. RamState(t.ram, st) \in Ram
    BY <1>3, RamStateType
  <2>3. Is(x(d, st), t, d, RamState(t.ram, st))
    BY <2>1, <2>2, <1>3, ChangedState
  <2>4. /\ x(d, st) \in UserFsState /\ x(d, st).disk = d
        /\ x(d, st).ram.upload = None /\ x(d, st).ram.next = q.ram.next
        /\ x(d, st).unread = t.unread
    BY <2>3, <1>2, <1>3, RamStateType DEF Is
  <2>5. StartupOf(t)
    BY <1>2 DEF FsInv
  <2>6. StartupOf(x(d, st))
    BY <2>4, <2>5, <1>2, <1>5 DEF StartupOf
  <2>. QED
    BY <2>4, <2>6 DEF FsInv, UploadOf
<1>6. CASE o \in Mount(done(t))
  <2>1. done(t) = x(Formatted, "uninitialized")
    BY <1>4
  <2> HIDE DEF done, x
  <2>2. FsInv(done(t)) /\ done(t).disk = Formatted /\ done(t).ram.upload = None
        /\ done(t).ram.next = q.ram.next
    BY <2>1, <1>5, ConstantDisks
  <2>. QED
    BY <2>2, <1>6, MountKeeps, ConstantDisks DEF Quiet, Wiped
<1>7. CASE o \in Failing(t, "io", {failed(t, d) : d \in left(t)})
  <2>1. \A d \in left(t) : FsInv(failed(t, d)) /\ failed(t, d).disk = d
           /\ failed(t, d).ram.upload = None /\ failed(t, d).ram.next = q.ram.next
           /\ d.files \in {q.disk.files, NoFiles}
    <3> TAKE d \in left(t)
    <3>0. d \in {q.disk, [Formatted EXCEPT !.medium = "corrupt"], Formatted}
      BY <1>4, <1>2
    <3>1. /\ d \in Disk
          /\ \/ d.files = q.disk.files /\ d.startup = q.disk.startup
             \/ d.files = NoFiles /\ d.startup = None
      BY <3>0, <1>t, ConstantDisks
    <3>2. FsInv(failed(t, d)) /\ failed(t, d).disk = d
          /\ failed(t, d).ram.upload = None /\ failed(t, d).ram.next = q.ram.next
      BY <3>1, <1>5
    <3>. QED
      BY <3>1, <3>2
  <2> HIDE DEF failed, left
  <2>2. o.res = "io" /\ FsInv(o.s) /\ \E y \in {failed(t, d) : d \in left(t)} :
           o.s.disk = y.disk /\ o.s.ram = y.ram
    BY <2>1, <1>3, <1>7, FailingKeeps
  <2>3. PICK d \in left(t) : o.s.disk = failed(t, d).disk /\ o.s.ram = failed(t, d).ram
    BY <2>2
  <2>. QED
    BY <2>1, <2>2, <2>3 DEF Wiped, MountResults
<1>. QED
  BY <1>1, <1>6, <1>7

-----------------------------------------------------------------------------
\* What a write leaves of the upload u: the same name and announced content.
SameTarget(u, v) ==
  v.id = u.id /\ v.target = u.target /\ v.expected = u.expected

\* The state q after a step on the temporary file id.
TempState(q, id, f, r) == [q EXCEPT !.disk = Temp(q.disk, id, f), !.ram = r]

\* The upload of r, if any, is written to the temporary file id, which holds f.
Fits(r, id, f) ==
  r.upload # None => /\ r.state = "mounted"
                     /\ r.upload.id = id /\ id <= r.next
                     /\ f \in Seq(Chunks \cup {Torn})

\* Changing the temporary file of the upload changes no file.
LEMMA TempChanged ==
  ASSUME NEW q, FsInv(q), NEW id \in Ids, NEW f \in Seq(Chunks \cup {Torn}) \cup {None},
         NEW r \in Ram, Fits(r, id, f)
  PROVE  /\ FsInv(TempState(q, id, f, r))
         /\ TempState(q, id, f, r).disk.files = q.disk.files
         /\ TempState(q, id, f, r).ram = r
<1>1. q \in UserFsState /\ q.disk \in Disk
  BY StateFields DEF FsInv
<1>2. Temp(q.disk, id, f) \in Disk /\ Temp(q.disk, id, f).files = q.disk.files
      /\ Temp(q.disk, id, f).startup = q.disk.startup
      /\ Temp(q.disk, id, f).temps[id] = f
  BY <1>1, TempType
<1>3. Is(TempState(q, id, f, r), q, Temp(q.disk, id, f), r)
  BY <1>1, <1>2, ChangedState DEF TempState
<1>. QED
  BY <1>2, <1>3 DEF FsInv, UploadOf, StartupOf, Is, Fits

\* The upload a successful BEGIN of name and content starts.
Begun(q, name, content) ==
  [id |-> q.ram.next + 1, target |-> name, expected |-> content, offset |-> 0, open |-> TRUE]

\* upload_begin: starts an upload with a new id, or changes no file.
LEMMA BeginKeeps ==
  ASSUME NEW q, FsInv(q), q.ram.next < MaxUploads, NEW name \in Names,
         NEW content \in Contents, NEW o \in UploadBegin(q, name, content)
  PROVE  /\ FsInv(o.s) /\ o.s.disk.files = q.disk.files
         /\ \/ /\ o.res = "ok" /\ ~Uploading(q)
               /\ o.s.ram.upload = Begun(q, name, content)
               /\ o.s.ram.next = q.ram.next + 1
            \/ /\ o.res \in {"not_mounted", "busy", "io"}
               /\ o.s.ram.upload = q.ram.upload
               /\ o.s.ram.next \in {q.ram.next, q.ram.next + 1}
<1>q. q \in UserFsState
  BY DEF FsInv
<1>t. q.disk \in Disk /\ q.ram \in Ram
  BY <1>q, StateFields
<1>n. q.ram.next \in 0 .. MaxUploads /\ MaxUploads \in Nat
  BY <1>t, UserFsAssumption DEF Ram
<1>o. \A res, t : Outcome(res, t).res = res /\ Outcome(res, t).s = t
  BY DEF Outcome
<1>1. CASE ~Mounted(q)
  BY <1>1, <1>o DEF UploadBegin, Refused
<1>2. CASE Mounted(q) /\ Uploading(q)
  BY <1>2, <1>o DEF UploadBegin, Refused
<1>3. CASE Mounted(q) /\ ~Uploading(q)
  <2> DEFINE id == q.ram.next + 1
             with(f, u) == [q EXCEPT !.disk.temps[id] = f, !.ram.next = id, !.ram.upload = u]
             r(u) == [q.ram EXCEPT !.next = id, !.upload = u]
  <2>1. id \in Ids /\ id \in 0 .. MaxUploads
    BY <1>n DEF Ids
  <2>2. /\ Begun(q, name, content) \in Uploads
        /\ Begun(q, name, content).id = id
    BY <2>1 DEF Begun, Uploads
  <2>3. q.ram.state = "mounted" /\ q.ram.upload = None
    BY <1>3 DEF Mounted, Uploading
  <2>4. ASSUME NEW f \in Seq(Chunks \cup {Torn}) \cup {None},
               NEW u \in {None, Begun(q, name, content)}, u # None => f = <<>>
        PROVE  /\ FsInv(with(f, u)) /\ with(f, u).disk.files = q.disk.files
               /\ with(f, u).ram.upload = u /\ with(f, u).ram.next = q.ram.next + 1
    <3>1. with(f, u) = TempState(q, id, f, r(u))
      BY <1>q DEF TempState, Temp, UserFsState
    <3>2. r(u) \in Ram /\ r(u).upload = u /\ r(u).next = id /\ r(u).state = "mounted"
      BY <1>t, <2>1, <2>2, <2>3 DEF Ram
    <3>3. u # None => u.id = id /\ id <= r(u).next /\ f \in Seq(Chunks \cup {Torn})
      BY <3>2, <2>1, <2>2, <2>4, <1>n
    <3> HIDE DEF with, r, id
    <3>5. r(u) \in Ram
          /\ Fits(r(u), id, f)
      BY <3>2, <3>3 DEF Fits
    <3>6. /\ FsInv(TempState(q, id, f, r(u)))
          /\ TempState(q, id, f, r(u)).disk.files = q.disk.files
          /\ TempState(q, id, f, r(u)).ram = r(u)
      BY <3>5, <2>1, TempChanged
    <3>4. FsInv(with(f, u)) /\ with(f, u).disk.files = q.disk.files /\ with(f, u).ram = r(u)
      BY <3>1, <3>6
    <3>. QED
      BY <3>2, <3>4 DEF id
  <2>5. /\ <<>> \in Seq(Chunks \cup {Torn}) \cup {None}
        /\ q.disk.temps[id] \in Seq(Chunks \cup {Torn}) \cup {None}
    BY <1>t, <2>1 DEF Disk
  <2>6. \/ o = Outcome("ok", with(<<>>, Begun(q, name, content)))
        \/ o \in Failing(q, "io", {with(f, None) : f \in {q.disk.temps[id], None, <<>>}})
    BY <1>3 DEF UploadBegin, Begun
  <2>7. CASE o = Outcome("ok", with(<<>>, Begun(q, name, content)))
    <3>1. /\ FsInv(with(<<>>, Begun(q, name, content)))
          /\ with(<<>>, Begun(q, name, content)).disk.files = q.disk.files
          /\ with(<<>>, Begun(q, name, content)).ram.upload = Begun(q, name, content)
          /\ with(<<>>, Begun(q, name, content)).ram.next = q.ram.next + 1
      BY <2>4, <2>5
    <3> HIDE DEF with
    <3>. QED
      BY <3>1, <2>7, <1>o, <1>3
  <2>8. CASE o \in Failing(q, "io", {with(f, None) : f \in {q.disk.temps[id], None, <<>>}})
    <3>1. \A f \in {q.disk.temps[id], None, <<>>} :
             /\ FsInv(with(f, None)) /\ with(f, None).disk.files = q.disk.files
             /\ with(f, None).ram.upload = None /\ with(f, None).ram.next = q.ram.next + 1
      BY <2>4, <2>5
    <3> HIDE DEF with
    <3>2. o.res = "io" /\ FsInv(o.s)
          /\ \E x \in {with(f, None) : f \in {q.disk.temps[id], None, <<>>}} :
               o.s.disk = x.disk /\ o.s.ram = x.ram
      BY <3>1, <2>8, <1>q, FailingKeeps
    <3>. QED
      BY <3>1, <3>2, <2>3
  <2>. QED
    BY <2>6, <2>7, <2>8
<1>. QED
  BY <1>1, <1>2, <1>3

\* upload_write: moves the upload that it names on, or changes no file.
LEMMA WriteKeeps ==
  ASSUME NEW q, FsInv(q), NEW id, NEW offset \in Nat, NEW chunk \in Chunks,
         NEW o \in UploadWrite(q, id, offset, chunk)
  PROVE  /\ FsInv(o.s) /\ o.s.disk.files = q.disk.files /\ o.s.ram.next = q.ram.next
         /\ \/ /\ o.res = "ok" /\ Uploading(q) /\ q.ram.upload.id = id
               /\ Uploading(o.s) /\ SameTarget(q.ram.upload, o.s.ram.upload)
               /\ offset = q.ram.upload.offset
               /\ o.s.ram.upload.offset = offset + 1
            \/ /\ o.res \in {"invalid", "out_of_order", "size", "io"}
               /\ o.s.ram.upload = q.ram.upload
               /\ o.res = "out_of_order" =>
                    Uploading(q) /\ q.ram.upload.id = id /\ offset # q.ram.upload.offset
<1>q. q \in UserFsState
  BY DEF FsInv
<1>t. q.disk \in Disk /\ q.ram \in Ram
  BY <1>q, StateFields
<1>o. \A res, t : Outcome(res, t).res = res /\ Outcome(res, t).s = t
  BY DEF Outcome
<1>1. CASE ~Uploading(q) \/ q.ram.upload.id # id
  BY <1>1, <1>o DEF UploadWrite, Refused
<1>2. CASE Uploading(q) /\ q.ram.upload.id = id /\ offset # q.ram.upload.offset
  BY <1>2, <1>o DEF UploadWrite, Refused
<1>3. CASE /\ Uploading(q) /\ q.ram.upload.id = id /\ offset = q.ram.upload.offset
           /\ offset = Len(q.ram.upload.expected)
  BY <1>3, <1>o DEF UploadWrite, Refused
<1>4. CASE /\ Uploading(q) /\ q.ram.upload.id = id /\ offset = q.ram.upload.offset
           /\ offset # Len(q.ram.upload.expected)
  <2> DEFINE u == q.ram.upload
             u2 == [u EXCEPT !.offset = @ + 1]
             grown(c) == [q EXCEPT !.disk.temps[id] = Append(@, c)]
             further == [grown(chunk) EXCEPT !.ram.upload.offset = @ + 1]
             file(c) == Append(q.disk.temps[id], c)
  <2>1. u \in Uploads /\ id \in Ids /\ u # None /\ u.offset \in Nat /\ u.id = id
    BY <1>4, UploadFields DEF Uploading
  <2>2. u2 \in Uploads /\ SameTarget(u, u2) /\ u2.offset = u.offset + 1 /\ u2 # None
    BY <2>1, HmpyAssumption DEF Uploads, SameTarget
  <2>3. q.ram.state = "mounted" /\ id <= q.ram.next
        /\ q.disk.temps[id] \in Seq(Chunks \cup {Torn})
    BY <2>1, <1>4 DEF FsInv, UploadOf
  <2>4. ASSUME NEW c \in Chunks \cup {Torn}
        PROVE  file(c) \in Seq(Chunks \cup {Torn})
    BY <2>3, AppendProperties
  <2>5. ASSUME NEW c \in Chunks \cup {Torn}
        PROVE  /\ FsInv(TempState(q, id, file(c), q.ram))
               /\ TempState(q, id, file(c), q.ram).disk.files = q.disk.files
               /\ TempState(q, id, file(c), q.ram).ram = q.ram
               /\ grown(c) = TempState(q, id, file(c), q.ram)
    <3>1. grown(c) = TempState(q, id, file(c), q.ram)
      BY <1>q, <1>t, <2>1 DEF TempState, Temp, UserFsState, Disk
    <3> HIDE DEF grown, file
    <3>2. Fits(q.ram, id, file(c))
      BY <2>1, <2>3, <2>4 DEF Fits
    <3>3. id \in Ids /\ file(c) \in Seq(Chunks \cup {Torn}) \cup {None}
      BY <2>1, <2>4
    <3> HIDE DEF u
    <3>4. /\ FsInv(TempState(q, id, file(c), q.ram))
          /\ TempState(q, id, file(c), q.ram).disk.files = q.disk.files
          /\ TempState(q, id, file(c), q.ram).ram = q.ram
      BY <3>2, <3>3, <1>t, TempChanged
    <3>. QED
      BY <3>1, <3>4
  <2>6. /\ FsInv(further) /\ further.disk.files = q.disk.files
        /\ further.ram = RamUpload(q.ram, u2)
    <3>1. further = TempState(q, id, file(chunk), RamUpload(q.ram, u2))
      BY <1>q, <1>t, <2>1 DEF TempState, Temp, RamUpload, UserFsState, Disk, Ram
    <3>2. /\ RamUpload(q.ram, u2) \in Ram /\ RamUpload(q.ram, u2).upload = u2
          /\ RamUpload(q.ram, u2).state = "mounted"
          /\ RamUpload(q.ram, u2).next = q.ram.next
      BY <2>2, <2>3, <1>t, RamUploadType
    <3>3. u2.id = id
      BY <2>1, <2>2 DEF SameTarget
    <3> HIDE DEF further, file, u2
    <3>4. Fits(RamUpload(q.ram, u2), id, file(chunk))
      BY <3>2, <3>3, <2>3, <2>4 DEF Fits
    <3>5. id \in Ids /\ file(chunk) \in Seq(Chunks \cup {Torn}) \cup {None}
      BY <2>1, <2>4
    <3> DEFINE r == RamUpload(q.ram, u2)
    <3>6. r \in Ram /\ Fits(r, id, file(chunk))
      BY <3>2, <3>4
    <3> HIDE DEF u, r
    <3>7. /\ FsInv(TempState(q, id, file(chunk), r))
          /\ TempState(q, id, file(chunk), r).disk.files = q.disk.files
          /\ TempState(q, id, file(chunk), r).ram = r
      BY <3>5, <3>6, TempChanged
    <3>. QED
      BY <3>1, <3>7 DEF r
  <2>7. o = Outcome("ok", further) \/ o \in Failing(q, "io", {q, grown(Torn)})
    BY <1>4 DEF UploadWrite
  <2>8. CASE o = Outcome("ok", further)
    <3>1. o.res = "ok" /\ o.s = further
      BY <2>8, <1>o
    <3>2. o.s.ram.upload = u2 /\ o.s.ram.next = q.ram.next
      BY <3>1, <2>6, <2>2, <1>t, RamUploadType
    <3> HIDE DEF further, u2
    <3>. QED
      BY <3>1, <3>2, <2>2, <2>6, <1>4 DEF Uploading
  <2>9. CASE o \in Failing(q, "io", {q, grown(Torn)})
    <3>1. \A x \in {q, grown(Torn)} : FsInv(x) /\ x.disk.files = q.disk.files /\ x.ram = q.ram
      BY <2>5
    <3> HIDE DEF grown
    <3>2. o.res = "io" /\ FsInv(o.s)
          /\ \E x \in {q, grown(Torn)} : o.s.disk = x.disk /\ o.s.ram = x.ram
      BY <3>1, <2>9, <1>q, FailingKeeps
    <3>. QED
      BY <3>1, <3>2
  <2>. QED
    BY <2>7, <2>8, <2>9
<1>. QED
  BY <1>1, <1>2, <1>3, <1>4

-----------------------------------------------------------------------------
\* The files of q, or those files with what the upload of q announced.
Announced(q) == [q.disk.files EXCEPT ![q.ram.upload.target] = q.ram.upload.expected]

\* upload_commit: publishes the whole upload, or refuses.
LEMMA CommitKeeps ==
  ASSUME NEW q, FsInv(q), NEW id, NEW o \in UploadCommit(q, id)
  PROVE  /\ FsInv(o.s) /\ o.s.ram.next = q.ram.next
         /\ \/ /\ o.res = "ok" /\ Uploading(q) /\ q.ram.upload.id = id
               /\ o.s.ram.upload = None /\ o.s.disk.files = Announced(q)
            \/ /\ o.res \in {"invalid", "size", "io", "rejected"}
               /\ o.s = q
            \/ /\ o.res \in {"invalid", "size", "io", "rejected"}
               /\ Uploading(q) /\ q.ram.upload.id = id
               /\ Uploading(o.s) /\ SameTarget(q.ram.upload, o.s.ram.upload)
               /\ o.s.ram.upload.offset = q.ram.upload.offset
               /\ o.s.disk.files \in {q.disk.files, Announced(q)}
<1>q. q \in UserFsState
  BY DEF FsInv
<1>t. q.disk \in Disk /\ q.ram \in Ram
  BY <1>q, StateFields
<1>o. \A res, t : Outcome(res, t).res = res /\ Outcome(res, t).s = t
  BY DEF Outcome
<1>1. CASE ~Uploading(q) \/ q.ram.upload.id # id
  BY <1>1, <1>o DEF UploadCommit, Refused
<1>2. CASE Uploading(q) /\ q.ram.upload.id = id /\ q.ram.upload.offset # Len(q.ram.upload.expected)
  BY <1>2, <1>o DEF UploadCommit, Refused
<1>3. CASE Uploading(q) /\ q.ram.upload.id = id /\ q.ram.upload.offset = Len(q.ram.upload.expected)
  <2> DEFINE u == q.ram.upload
             u2 == [u EXCEPT !.open = FALSE]
             closed == [q EXCEPT !.ram.upload.open = FALSE]
             renamed == [closed EXCEPT !.disk = Published(q)]
             ended == [renamed EXCEPT !.ram.upload = None]
  <2>1. u \in Uploads /\ id \in Ids /\ u # None /\ u.id = id /\ u.target \in Names
        /\ u.expected \in Contents
    BY <1>3, UploadFields DEF Uploading
  <2>2. u2 \in Uploads /\ SameTarget(u, u2) /\ u2.offset = u.offset /\ u2 # None
    BY <2>1, HmpyAssumption DEF Uploads, SameTarget
  <2>3. q.ram.state = "mounted" /\ u.id <= q.ram.next
    BY <2>1, <1>3 DEF FsInv, UploadOf
  <2>4. /\ RamUpload(q.ram, u2) \in Ram /\ RamUpload(q.ram, u2).upload = u2
        /\ RamUpload(q.ram, u2).state = "mounted" /\ RamUpload(q.ram, u2).next = q.ram.next
        /\ RamUpload(q.ram, None) \in Ram /\ RamUpload(q.ram, None).upload = None
        /\ RamUpload(q.ram, None).next = q.ram.next
    BY <2>2, <2>3, <1>t, RamUploadType
  <2>5. FsInv(closed) /\ closed.disk = q.disk /\ closed.ram = RamUpload(q.ram, u2)
    <3>1. closed = [q EXCEPT !.ram = RamUpload(q.ram, u2)]
      BY <1>q, <1>t DEF RamUpload, UserFsState, Ram
    <3> HIDE DEF closed, u2
    <3>2. Is(closed, q, q.disk, RamUpload(q.ram, u2))
      BY <3>1, <2>4, <1>q, <1>t, ChangedState
    <3>3. UploadOf(closed)
      BY <3>2, <2>2, <2>3, <2>4, <1>3 DEF UploadOf, Is, SameTarget
    <3>. QED
      BY <3>2, <3>3 DEF FsInv, StartupOf, Is
  <2>6. ASSUME Verified(q)
        PROVE  /\ Published(q) \in Disk /\ Published(q).files = Announced(q)
               /\ Published(q).startup = q.disk.startup
    <3>1. q.disk.temps[u.id] = u.expected
      BY <2>6 DEF Verified
    <3>2. Announced(q) \in [Names -> Contents \cup {None}]
      BY <2>1, <1>t DEF Announced, Disk
    <3>3. [q.disk.temps EXCEPT ![id] = None] \in [Ids -> Seq(Chunks \cup {Torn}) \cup {None}]
      BY <2>1, <1>t DEF Disk
    <3>4. Published(q) = [q.disk EXCEPT !.files = Announced(q),
                                        !.temps = [q.disk.temps EXCEPT ![id] = None]]
      BY <3>1, <2>1, <1>t DEF Published, Announced, Disk
    <3>. QED
      BY <3>2, <3>3, <3>4, <1>t DEF Disk
  <2>7. ASSUME Verified(q)
        PROVE  /\ FsInv(renamed) /\ renamed.disk.files = Announced(q)
               /\ renamed.ram = RamUpload(q.ram, u2)
               /\ FsInv(ended) /\ ended.disk.files = Announced(q)
               /\ ended.ram = RamUpload(q.ram, None)
    <3>0. Announced(q)[q.disk.startup] # None \/ q.disk.startup = None \/ q.unread
      <4>1. q.disk.startup \in Names \cup {None} /\ q.disk.files \in [Names -> Contents \cup {None}]
        BY <1>t DEF Disk
      <4>2. q.disk.startup # None => q.disk.files[q.disk.startup] # None \/ q.unread
        BY DEF FsInv, StartupOf
      <4>3. u.expected # None
        BY <2>1, UserFsAssumption
      <4>. QED
        BY <4>1, <4>2, <4>3, <2>1 DEF Announced
    <3>1. renamed = [q EXCEPT !.disk = Published(q), !.ram = RamUpload(q.ram, u2)]
      BY <1>q, <1>t DEF RamUpload, UserFsState, Ram
    <3>2. ended = [q EXCEPT !.disk = Published(q), !.ram = RamUpload(q.ram, None)]
      BY <1>q, <1>t DEF RamUpload, UserFsState, Ram
    <3> HIDE DEF closed, renamed, ended, u2
    <3>3. Is(renamed, q, Published(q), RamUpload(q.ram, u2))
      BY <3>1, <2>4, <2>6, <2>7, <1>q, ChangedState
    <3>4. Is(ended, q, Published(q), RamUpload(q.ram, None))
      BY <3>2, <2>4, <2>6, <2>7, <1>q, ChangedState
    <3>5. UploadOf(renamed) /\ UploadOf(ended)
      BY <3>3, <3>4, <2>2, <2>3, <2>4, <1>3 DEF UploadOf, Is, SameTarget
    <3>6. StartupOf(renamed) /\ StartupOf(ended)
      BY <3>3, <3>4, <3>0, <2>6, <2>7 DEF StartupOf, Is
    <3>. QED
      BY <3>3, <3>4, <3>5, <3>6, <2>6, <2>7 DEF FsInv, Is
  <2>8. \/ o = Outcome("io", q)
        \/ Verified(q) /\ o = Outcome("ok", ended)
        \/ Verified(q) /\ o \in Failing(q, "io", {closed, renamed})
        \/ o = Outcome("rejected", closed)
        \/ o \in Failing(q, "io", {closed})
    BY <1>3 DEF UploadCommit, Refused
  <2>9. CASE o = Outcome("io", q)
    BY <2>9, <1>o
  <2>10. CASE Verified(q) /\ o = Outcome("ok", ended)
    <3>1. o.res = "ok" /\ o.s = ended
      BY <2>10, <1>o
    <3> HIDE DEF ended
    <3>. QED
      BY <3>1, <2>10, <2>7, <2>4, <1>3
  <2>11. CASE Verified(q) /\ o \in Failing(q, "io", {closed, renamed})
    <3>1. \A x \in {closed, renamed} : FsInv(x) /\ x.ram = RamUpload(q.ram, u2)
                                       /\ x.disk.files \in {q.disk.files, Announced(q)}
      BY <2>5, <2>7, <2>11
    <3> HIDE DEF closed, renamed, u2
    <3>2. o.res = "io" /\ FsInv(o.s)
          /\ \E x \in {closed, renamed} : o.s.disk = x.disk /\ o.s.ram = x.ram
      BY <3>1, <2>11, <1>q, FailingKeeps
    <3>. QED
      BY <3>1, <3>2, <2>2, <2>4, <1>3 DEF Uploading
  <2>12. CASE o = Outcome("rejected", closed)
    <3>1. o.res = "rejected" /\ o.s = closed
      BY <2>12, <1>o
    <3> HIDE DEF closed, u2
    <3>. QED
      BY <3>1, <2>5, <2>2, <2>4, <1>3 DEF Uploading
  <2>13. CASE o \in Failing(q, "io", {closed})
    <3> HIDE DEF closed, u2
    <3>2. o.res = "io" /\ FsInv(o.s) /\ o.s.disk = closed.disk /\ o.s.ram = closed.ram
      BY <2>5, <2>13, <1>q, FailingKeeps
    <3>. QED
      BY <3>2, <2>5, <2>2, <2>4, <1>3 DEF Uploading
  <2>. QED
    BY <2>8, <2>9, <2>10, <2>11, <2>12, <2>13
<1>. QED
  BY <1>1, <1>2, <1>3

-----------------------------------------------------------------------------
\* The flash d may take the place of the flash of q.
Replaces(q, d) ==
  /\ d \in Disk
  /\ d.startup # None => d.files[d.startup] # None \/ q.unread

\* A disk that may replace another leaves the filesystem consistent.
LEMMA OnlyDisk ==
  ASSUME NEW q, FsInv(q), q.ram.upload = None, NEW d, Replaces(q, d)
  PROVE  /\ FsInv([q EXCEPT !.disk = d])
         /\ [q EXCEPT !.disk = d].disk = d /\ [q EXCEPT !.disk = d].ram = q.ram
<1> DEFINE x == [q EXCEPT !.disk = d]
<1>1. q \in UserFsState /\ q.ram \in Ram /\ d \in Disk
  BY StateFields DEF FsInv, Replaces
<1>2. Is(x, q, d, q.ram)
  BY <1>1, ChangedState
<1> HIDE DEF x
<1>3. FsInv(x) /\ x.disk = d /\ x.ram = q.ram
  BY <1>2 DEF FsInv, UploadOf, StartupOf, Replaces, Is
<1>. QED
  BY <1>3 DEF x

\* A disk may replace itself.
LEMMA OwnDisk ==
  ASSUME NEW q, FsInv(q)
  PROVE  Replaces(q, q.disk)
  BY StateFields DEF FsInv, StartupOf, Replaces

\* Commits a failing call may cut short.
LEMMA CarriedKeeps ==
  ASSUME NEW q, FsInv(q), q.ram.upload = None, NEW steps, NEW D,
         ToSet(steps) \subseteq D, Last(steps) \in D,
         \A d \in D : Replaces(q, d), NEW o \in Carried(q, steps)
  PROVE  /\ FsInv(o.s) /\ o.s.ram = q.ram /\ o.s.disk \in {q.disk} \cup D
         /\ o.res \in {"ok", "io"}
<1> DEFINE x(d) == [q EXCEPT !.disk = d]
<1>q. q \in UserFsState
  BY DEF FsInv
<1>1. \A d \in {q.disk} \cup D : FsInv(x(d)) /\ x(d).disk = d /\ x(d).ram = q.ram
  BY OwnDisk, OnlyDisk
<1>2. \/ o = Outcome("ok", x(Last(steps)))
      \/ o \in Failing(q, "io", {x(d) : d \in {q.disk} \cup ToSet(steps)})
  BY DEF Carried
<1> HIDE DEF x
<1>3. CASE o = Outcome("ok", x(Last(steps)))
  BY <1>1, <1>3 DEF Outcome
<1>4. CASE o \in Failing(q, "io", {x(d) : d \in {q.disk} \cup ToSet(steps)})
  <2>1. \A y \in {x(d) : d \in {q.disk} \cup ToSet(steps)} :
           FsInv(y) /\ y.ram = q.ram /\ y.disk \in {q.disk} \cup D
    BY <1>1
  <2>2. o.res = "io" /\ FsInv(o.s)
        /\ \E y \in {x(d) : d \in {q.disk} \cup ToSet(steps)} : o.s.disk = y.disk /\ o.s.ram = y.ram
    BY <2>1, <1>4, <1>q, FailingKeeps
  <2>. QED
    BY <2>1, <2>2
<1>. QED
  BY <1>2, <1>3, <1>4

\* Removing the file name.
Without(files, name) == [files EXCEPT ![name] = None]
Unselected(d, name) == IF d.startup = name THEN [d EXCEPT !.startup = None] ELSE d
Gone(d, name) == [Unselected(d, name) EXCEPT !.files[name] = None]

\* The disks a removal passes through.
LEMMA RemoveDisks ==
  ASSUME NEW q, FsInv(q), NEW name \in Names
  PROVE  /\ Replaces(q, Unselected(q.disk, name)) /\ Unselected(q.disk, name).files = q.disk.files
         /\ Replaces(q, Gone(q.disk, name))
         /\ Gone(q.disk, name).files = Without(q.disk.files, name)
         /\ ToSet(RemoveSteps(q.disk, name)) = {Unselected(q.disk, name), Gone(q.disk, name)}
         /\ Last(RemoveSteps(q.disk, name)) = Gone(q.disk, name)
         /\ RemoveSteps(q.disk, name)[1] = Unselected(q.disk, name)
<1> DEFINE d == q.disk
           e == Unselected(d, name)
<1>1. d \in Disk /\ name # None /\ None \notin Names
  BY StateFields, UserFsAssumption DEF FsInv
<1>2. e \in Disk /\ e.files = d.files /\ e.startup # name
      /\ e.startup \in {d.startup, None}
  BY <1>1 DEF Unselected, Disk
<1>3. d.startup # None => d.files[d.startup] # None \/ q.unread
  BY DEF FsInv, StartupOf
<1>4. Replaces(q, e)
  BY <1>2, <1>3 DEF Replaces
<1>5. Replaces(q, Gone(d, name)) /\ Gone(d, name).files = Without(d.files, name)
  <2> HIDE DEF e
  <2>1. d.files \in [Names -> Contents \cup {None}] /\ d.startup \in Names \cup {None}
    BY <1>1 DEF Disk
  <2>2. Without(d.files, name) \in [Names -> Contents \cup {None}]
        /\ \A n \in Names \ {name} : Without(d.files, name)[n] = d.files[n]
    BY <2>1 DEF Without
  <2>3. Gone(d, name) = [e EXCEPT !.files = Without(d.files, name)]
    BY <1>2 DEF Gone, Without, e, Disk
  <2>4. Gone(d, name) \in Disk /\ Gone(d, name).files = Without(d.files, name)
        /\ Gone(d, name).startup = e.startup
    BY <2>2, <2>3, <1>2 DEF Disk
  <2>. QED
    BY <2>1, <2>2, <2>4, <1>2, <1>3 DEF Replaces
<1>6. RemoveSteps(d, name) = <<e, Gone(d, name)>>
  BY DEF RemoveSteps, Gone, Unselected
<1> HIDE DEF e
<1>7. /\ ToSet(RemoveSteps(d, name)) = {e, Gone(d, name)}
      /\ Last(RemoveSteps(d, name)) = Gone(d, name)
      /\ RemoveSteps(d, name)[1] = e
  BY <1>6 DEF ToSet, Last
<1>. QED
  BY <1>2, <1>4, <1>5, <1>7 DEF e

RemoveResults == {"ok", "io", "not_mounted", "busy", "not_found"}

\* remove: the file goes, or no file changes.
LEMMA RemoveKeeps ==
  ASSUME NEW q, FsInv(q), NEW name \in Names, NEW o \in RemoveFile(q, name)
  PROVE  /\ FsInv(o.s) /\ o.s.ram = q.ram /\ o.res \in RemoveResults
         /\ \/ o.s.disk.files = q.disk.files
            \/ q.ram.upload = None /\ o.s.disk.files = Without(q.disk.files, name)
<1> USE DEF RemoveResults
<1>q. q \in UserFsState
  BY DEF FsInv
<1>t. q.disk \in Disk /\ q.ram \in Ram /\ q.unread \in BOOLEAN
  BY <1>q, StateFields
<1>o. \A res, t : Outcome(res, t).res = res /\ Outcome(res, t).s = t
  BY DEF Outcome
<1>1. CASE ~Mounted(q) \/ Uploading(q)
  BY <1>1, <1>o DEF RemoveFile, Refused
<1>2. CASE Mounted(q) /\ ~Uploading(q)
  <2>1. q.ram.upload = None
    BY <1>2 DEF Uploading
  <2> DEFINE blind == [q EXCEPT !.disk.files[name] = None,
                                !.unread = @ \/ q.disk.startup = name]
  <2>2. \/ o \in Failing(q, "ok", {blind})
        \/ o = Outcome("not_found", [q EXCEPT !.disk = RemoveSteps(@, name)[1]])
        \/ o \in Carried(q, RemoveSteps(q.disk, name))
    BY <1>2 DEF RemoveFile, RemoveUnread
  <2>3. CASE o \in Failing(q, "ok", {blind})
    <3> DEFINE d == [q.disk EXCEPT !.files = Without(q.disk.files, name)]
               b == q.unread \/ q.disk.startup = name
    <3>1. q.disk.files \in [Names -> Contents \cup {None}] /\ q.disk.startup \in Names \cup {None}
      BY <1>t DEF Disk
    <3>2. Without(q.disk.files, name) \in [Names -> Contents \cup {None}]
          /\ \A n \in Names \ {name} : Without(q.disk.files, name)[n] = q.disk.files[n]
      BY <3>1 DEF Without
    <3>3. d \in Disk /\ d.files = Without(q.disk.files, name) /\ d.startup = q.disk.startup
      BY <1>t, <3>2 DEF Disk
    <3>4. blind = [q EXCEPT !.disk = d, !.unread = b]
      BY <1>q, <1>t DEF Without, UserFsState, Disk
    <3>5. b \in BOOLEAN /\ (~b => ~q.unread /\ q.disk.startup # name)
      BY <1>t, Zenon
    <3> HIDE DEF d, b, blind
    <3>6. blind \in UserFsState /\ blind.disk = d /\ blind.ram = q.ram /\ blind.unread = b
      BY <3>3, <3>4, <3>5, <1>q DEF UserFsState
    <3>7. q.disk.startup # None => q.disk.files[q.disk.startup] # None \/ q.unread
      BY DEF FsInv, StartupOf
    <3>8. StartupOf(blind)
      BY <3>1, <3>2, <3>3, <3>5, <3>6, <3>7 DEF StartupOf
    <3>9. FsInv(blind)
      BY <3>6, <3>8, <2>1 DEF FsInv, UploadOf
    <3>. QED
      BY <3>3, <3>6, <3>9, <2>1, <2>3, <1>q, FailingKeeps
  <2>4. CASE o = Outcome("not_found", [q EXCEPT !.disk = RemoveSteps(@, name)[1]])
    <3>1. o.res = "not_found" /\ o.s = [q EXCEPT !.disk = Unselected(q.disk, name)]
      BY <2>4, <1>o, RemoveDisks
    <3>. QED
      BY <3>1, <2>1, OnlyDisk, RemoveDisks
  <2>5. CASE o \in Carried(q, RemoveSteps(q.disk, name))
    <3> DEFINE D == {Unselected(q.disk, name), Gone(q.disk, name)}
    <3>1. /\ \A d \in D : Replaces(q, d)
          /\ \A d \in D : d.files \in {q.disk.files, Without(q.disk.files, name)}
          /\ ToSet(RemoveSteps(q.disk, name)) \subseteq D
          /\ Last(RemoveSteps(q.disk, name)) \in D
      BY RemoveDisks
    <3> HIDE DEF D
    <3>2. FsInv(o.s) /\ o.s.ram = q.ram /\ o.s.disk \in {q.disk} \cup D /\ o.res \in {"ok", "io"}
      BY <3>1, <2>1, <2>5, CarriedKeeps
    <3>. QED
      BY <3>1, <3>2, <2>1
  <2>. QED
    BY <2>2, <2>3, <2>4, <2>5
<1>. QED
  BY <1>1, <1>2

\* Selecting a startup passes through disks with the same files.
LEMMA SelectDisks ==
  ASSUME NEW q, FsInv(q), NEW name \in Names \cup {None},
         name # None => q.disk.files[name] # None,
         NEW d \in ToSet(SelectSteps(q.disk, name)) \cup {Last(SelectSteps(q.disk, name))}
  PROVE  Replaces(q, d) /\ d.files = q.disk.files
<1>1. q.disk \in Disk
  BY StateFields DEF FsInv
<1>2. q.disk.startup # None => q.disk.files[q.disk.startup] # None \/ q.unread
  BY DEF FsInv, StartupOf
<1>3. CASE name = None
  <2>1. d = [q.disk EXCEPT !.startup = None]
    BY <1>3 DEF SelectSteps, ToSet, Last
  <2>. QED
    BY <2>1, <1>1 DEF Replaces, Disk
<1>4. CASE name # None
  <2>1. \/ d = [q.disk EXCEPT !.meta = TRUE]
        \/ d = [q.disk EXCEPT !.meta = FALSE, !.startup = name]
    BY <1>4 DEF SelectSteps, ToSet, Last
  <2>2. CASE d = [q.disk EXCEPT !.meta = TRUE]
    <3>1. d \in Disk /\ d.files = q.disk.files /\ d.startup = q.disk.startup
      BY <2>2, <1>1 DEF Disk
    <3>. QED
      BY <3>1, <1>2 DEF Replaces
  <2>3. CASE d = [q.disk EXCEPT !.meta = FALSE, !.startup = name]
    <3>1. d \in Disk /\ d.files = q.disk.files /\ d.startup = name
      BY <2>3, <1>1 DEF Disk
    <3>. QED
      BY <3>1, <1>4 DEF Replaces
  <2>. QED
    BY <2>1, <2>2, <2>3
<1>. QED
  BY <1>3, <1>4

\* set_startup: no file changes.
LEMMA StartupKeeps ==
  ASSUME NEW q, FsInv(q), NEW name \in Names \cup {None}, NEW o \in SetStartup(q, name)
  PROVE  /\ FsInv(o.s) /\ o.s.ram = q.ram /\ o.s.disk.files = q.disk.files
         /\ o.res \in RemoveResults
<1> USE DEF RemoveResults
<1>o. \A res, t : Outcome(res, t).res = res /\ Outcome(res, t).s = t
  BY DEF Outcome
<1>1. CASE ~Mounted(q) \/ Uploading(q) \/ (name # None /\ q.disk.files[name] = None)
  BY <1>1, <1>o DEF SetStartup, Refused
<1>2. CASE Mounted(q) /\ ~Uploading(q) /\ (name # None => q.disk.files[name] # None)
  <2>1. o \in Carried(q, SelectSteps(q.disk, name)) /\ q.ram.upload = None
    BY <1>2 DEF SetStartup, Uploading
  <2> DEFINE D == ToSet(SelectSteps(q.disk, name)) \cup {Last(SelectSteps(q.disk, name))}
  <2>2. \A d \in D : Replaces(q, d) /\ d.files = q.disk.files
    BY <1>2, SelectDisks
  <2>3. ToSet(SelectSteps(q.disk, name)) \subseteq D /\ Last(SelectSteps(q.disk, name)) \in D
    OBVIOUS
  <2> HIDE DEF D
  <2>4. FsInv(o.s) /\ o.s.ram = q.ram /\ o.s.disk \in {q.disk} \cup D /\ o.res \in {"ok", "io"}
    BY <2>1, <2>2, <2>3, CarriedKeeps
  <2>. QED
    BY <2>2, <2>4
<1>. QED
  BY <1>1, <1>2

\* A power cut that leaves the flash d.
LEMMA CutKeeps ==
  ASSUME NEW q, FsInv(q), NEW D, \A d \in D : Replaces(q, d), NEW t \in PowerCut(q, D)
  PROVE  /\ FsInv(t) /\ t.disk \in D
         /\ t.ram.upload = None /\ t.ram.next = 0
<1>1. PICK d \in D : t = [q EXCEPT !.disk = d, !.ram = PoweredUp]
  BY DEF PowerCut
<1>2. q \in UserFsState /\ Replaces(q, d) /\ d \in Disk
  BY <1>1 DEF FsInv, Replaces
<1>3. Is(t, q, d, PoweredUp)
  BY <1>1, <1>2, PoweredUpType, ChangedState
<1>. QED
  BY <1>2, <1>3, PoweredUpType DEF FsInv, UploadOf, StartupOf, Replaces, Is

\* The filesystem starts consistent and without files.
LEMMA InitialKeeps ==
  ASSUME NEW q \in InitialStates
  PROVE  FsInv(q) /\ q.disk.files = NoFiles /\ q.ram.upload = None /\ q.ram.next = 0
<1>1. PICK d \in {Blank, Formatted} :
        q = [disk |-> d, ram |-> PoweredUp, faults |-> 0, unread |-> FALSE]
  BY DEF InitialStates
<1>2. d \in Disk /\ d.files = NoFiles /\ d.startup = None
  BY ConstantDisks
<1>3. q \in UserFsState
  BY <1>1, <1>2, PoweredUpType, UserFsAssumption DEF UserFsState
<1>. QED
  BY <1>1, <1>2, <1>3, PoweredUpType DEF FsInv, UploadOf, StartupOf

-----------------------------------------------------------------------------
(* The session, the line and the host                                      *)

Frames ==
  [op : {"begin"}, name : Names, content : Contents, stale : BOOLEAN]
    \cup [op : {"chunk"}, id : Ids, offset : Nat, data : Chunks, stale : BOOLEAN]
    \cup [op : {"commit", "abort"}, id : Ids, stale : BOOLEAN]
    \cup [op : {"delete", "read"}, name : Names, stale : BOOLEAN]
    \cup [op : {"startup"}, name : Names \cup {None}, stale : BOOLEAN]
    \cup [op : {"format", "nudge", "close"}, stale : BOOLEAN]

Results == {"ok", "io", "invalid", "busy", "not_mounted", "unformatted", "corrupt",
            "out_of_order", "size", "rejected", "not_found", "more"}

Answers == [op : Ops, res : Results, value : Nat]

Reads == [name : Names, offset : Nat, size : Nat, stale : BOOLEAN]

Sessions == [active : BOOLEAN, upload_id : 0 .. MaxUploads,
             last : [offset : Nat, data : Chunks] \cup {None},
             read : Reads \cup {None}]

HostUploads == [name : Names \cup {None}, content : Contents \cup {None},
                id : 0 .. MaxUploads, acked : Nat]

Hosts == [waiting : Ops \cup {None}, gone : BOOLEAN, upload : HostUploads,
          knows : [Names -> Contents \cup {None, Unknown}]]

\* What is uploaded, when it is anything.
Full(u) == u.name \in Names /\ u.content \in Contents /\ u.acked <= Len(u.content)

LineType ==
  /\ toDevice \in Seq(Frames) /\ Len(toDevice) <= LineMax
  /\ toHost \in Seq(Answers) /\ Len(toHost) <= LineMax
  /\ session \in Sessions
  /\ session.read # None => session.read.offset < session.read.size
  /\ host \in Hosts
  /\ cuts \in 0 .. MaxCuts
  /\ removed \subseteq Names

\* A session that is not open holds nothing; an open one holds the upload.
SessionOK ==
  /\ ~session.active => session = NoSession
  /\ UploadOwned
  /\ session.upload_id # 0 /\ session.last # None =>
       s.ram.upload.offset = session.last.offset + 1

\* One request is outstanding: of the frames to the board the last alone may
\* be current, and of those to the host all but the last are pieces of a file.
Heard == session.read # None /\ ~session.read.stale

OneRequest ==
  /\ \A i \in 1 .. Len(toDevice) : ~toDevice[i].stale =>
       i = Len(toDevice) /\ host.waiting = toDevice[i].op /\ ~Heard
  /\ toHost # <<>> => toDevice = <<>>
  /\ \A i \in 1 .. Len(toHost) :
       /\ host.waiting = toHost[i].op
       /\ i < Len(toHost) \/ Heard => toHost[i].op = "read" /\ toHost[i].res = "more"
  /\ Heard => host.waiting = "read" /\ toDevice = <<>>

\* What the host uploads, for the request it waits on.
HostOK ==
  LET u == host.upload IN
  /\ u.id # 0 => Full(u)
  /\ host.waiting = "begin" => Full(u) /\ u.id = 0
  /\ u.id = 0 => u.acked = 0
  /\ host.waiting \in {"chunk", "commit"} => u.id # 0
  /\ host.waiting = "chunk" => u.acked < Len(u.content)
  /\ host.gone => host.waiting = None
  /\ session.active => u.id <= s.ram.next

\* The board's upload is the one the host announced under that id.
Same(id, u) ==
  session.upload_id = id =>
    s.ram.upload.target = u.name /\ s.ram.upload.expected = u.content

\* It is as far as was acknowledged, or one chunk further.
InStep ==
  LET u == host.upload IN
  u.id # 0 =>
    /\ Same(u.id, u)
    /\ session.upload_id = u.id =>
         \/ s.ram.upload.offset = u.acked
         \/ /\ s.ram.upload.offset = u.acked + 1
            /\ u.acked < Len(u.content)
            /\ session.last = [offset |-> u.acked, data |-> u.content[u.acked + 1]]

\* A request changes only files the host takes to be unknown.
RequestOK(f) ==
  LET u == host.upload IN
  /\ f.op = "begin" /\ ~f.stale => f.name = u.name /\ f.content = u.content
  /\ f.op = "chunk" => /\ session.active => f.id <= s.ram.next
                       /\ f.id = u.id => /\ f.offset = u.acked /\ u.acked < Len(u.content)
                                         /\ f.data = u.content[u.acked + 1]
  /\ f.op \in {"chunk", "commit"} /\ ~f.stale => f.id = u.id
  /\ f.op = "commit" => /\ session.active => f.id <= s.ram.next
                        /\ f.id = session.upload_id =>
                             host.knows[s.ram.upload.target] = Unknown
  /\ f.op = "delete" => host.knows[f.name] = Unknown
  /\ f.op = "format" => \A n \in Names : host.knows[n] = Unknown

\* An answer tells the host what the board still holds.
AnswerOK(g) ==
  LET u == host.upload IN
  /\ g.op = "begin" /\ g.res = "ok" =>
       /\ g.value \in Ids /\ (session.active => g.value <= s.ram.next)
       /\ Same(g.value, u)
       /\ session.upload_id = g.value => s.ram.upload.offset = 0
  /\ g.op = "chunk" => g.res # "out_of_order"
  /\ g.op = "chunk" /\ g.res = "ok" =>
       /\ g.value = u.acked + 1
       /\ session.upload_id = u.id => s.ram.upload.offset = u.acked + 1
  /\ g.op = "commit" /\ g.res = "ok" =>
       s.disk.files[u.name] = IF u.name \in removed THEN None ELSE u.content

LineOK ==
  /\ \A i \in 1 .. Len(toDevice) : RequestOK(toDevice[i])
  /\ \A i \in 1 .. Len(toHost) : AnswerOK(toHost[i])

IInv == /\ FsInv(s) /\ LineType /\ SessionOK /\ OneRequest /\ HostOK /\ InStep /\ LineOK
        /\ AnsweredIsStored

-----------------------------------------------------------------------------
\* Sequences as the line uses them.
LEMMA TailOf ==
  ASSUME NEW S, NEW q \in Seq(S), q # <<>>
  PROVE  /\ Head(q) = q[1] /\ Head(q) \in S /\ Len(q) \in Nat \ {0}
         /\ Tail(q) \in Seq(S) /\ Len(Tail(q)) = Len(q) - 1
         /\ \A i \in 1 .. Len(Tail(q)) : i + 1 \in 1 .. Len(q) /\ Tail(q)[i] = q[i + 1]
  BY HeadTailProperties, EmptySeq, LenProperties

\* What an appended sequence is.
LEMMA AppendOf ==
  ASSUME NEW S, NEW q \in Seq(S), NEW e \in S
  PROVE  /\ Append(q, e) \in Seq(S) /\ Len(Append(q, e)) = Len(q) + 1 /\ Len(q) \in Nat
         /\ \A i \in 1 .. Len(q) : Append(q, e)[i] = q[i]
         /\ Append(q, e)[Len(q) + 1] = e
  BY AppendProperties, LenProperties

\* What the empty sequence is.
LEMMA NoElements == Len(<<>>) = 0 /\ \A S : <<>> \in Seq(S)
  BY EmptySeq

\* The parts of a frame have their types.
LEMMA FrameFields ==
  ASSUME NEW f \in Frames
  PROVE  /\ f.op \in Ops /\ f.stale \in BOOLEAN
         /\ f.op = "begin" => f.name \in Names /\ f.content \in Contents
         /\ f.op = "chunk" => f.id \in Ids /\ f.offset \in Nat /\ f.data \in Chunks
         /\ f.op \in {"commit", "abort"} => f.id \in Ids
         /\ f.op \in {"delete", "read"} => f.name \in Names
         /\ f.op = "startup" => f.name \in Names \cup {None}
  BY DEF Frames, Ops

\* A request the host no longer waits for.
Older(f, g) ==
  /\ g.op = f.op /\ g.stale
  /\ f.op = "chunk" => g.id = f.id /\ g.offset = f.offset /\ g.data = f.data
  /\ f.op \in {"commit", "abort"} => g.id = f.id
  /\ f.op = "delete" => g.name = f.name

\* A frame that grows old stays a frame.
LEMMA AgedFrame ==
  ASSUME NEW f \in Frames
  PROVE  [f EXCEPT !.stale = TRUE] \in Frames /\ Older(f, [f EXCEPT !.stale = TRUE])
<1> DEFINE g == [f EXCEPT !.stale = TRUE]
<1>1. CASE f \in [op : {"begin"}, name : Names, content : Contents, stale : BOOLEAN]
  <2>1. g \in [op : {"begin"}, name : Names, content : Contents, stale : BOOLEAN]
        /\ g.op = f.op /\ g.stale
    BY <1>1
  <2>. QED
    BY <2>1, <1>1 DEF Frames, Older
<1>2. CASE f \in [op : {"chunk"}, id : Ids, offset : Nat, data : Chunks, stale : BOOLEAN]
  <2>1. g \in [op : {"chunk"}, id : Ids, offset : Nat, data : Chunks, stale : BOOLEAN]
        /\ g.op = f.op /\ g.stale /\ g.id = f.id /\ g.offset = f.offset /\ g.data = f.data
    BY <1>2
  <2>. QED
    BY <2>1, <1>2 DEF Frames, Older
<1>3. CASE f \in [op : {"commit", "abort"}, id : Ids, stale : BOOLEAN]
  <2>1. g \in [op : {"commit", "abort"}, id : Ids, stale : BOOLEAN]
        /\ g.op = f.op /\ g.stale /\ g.id = f.id
    BY <1>3
  <2>. QED
    BY <2>1, <1>3 DEF Frames, Older
<1>4. CASE f \in [op : {"delete", "read"}, name : Names, stale : BOOLEAN]
  <2>1. g \in [op : {"delete", "read"}, name : Names, stale : BOOLEAN]
        /\ g.op = f.op /\ g.stale /\ g.name = f.name
    BY <1>4
  <2>. QED
    BY <2>1, <1>4 DEF Frames, Older
<1>5. CASE f \in [op : {"startup"}, name : Names \cup {None}, stale : BOOLEAN]
  <2>1. g \in [op : {"startup"}, name : Names \cup {None}, stale : BOOLEAN]
        /\ g.op = f.op /\ g.stale
    BY <1>5
  <2>. QED
    BY <2>1, <1>5 DEF Frames, Older
<1>6. CASE f \in [op : {"format", "nudge", "close"}, stale : BOOLEAN]
  <2>1. g \in [op : {"format", "nudge", "close"}, stale : BOOLEAN]
        /\ g.op = f.op /\ g.stale
    BY <1>6
  <2>. QED
    BY <2>1, <1>6 DEF Frames, Older
<1>. QED
  BY <1>1, <1>2, <1>3, <1>4, <1>5, <1>6 DEF Frames

-----------------------------------------------------------------------------
(* What the steps of the board have in common                              *)

\* While a request waits on the line nothing waits for the host.
LEMMA FirstFrame ==
  ASSUME IInv, toDevice # <<>>
  PROVE  /\ Head(toDevice) \in Frames /\ Head(toDevice) = toDevice[1]
         /\ toHost = <<>> /\ ~Heard
         /\ RequestOK(Head(toDevice))
         /\ ~Head(toDevice).stale => Len(toDevice) = 1 /\ host.waiting = Head(toDevice).op
         /\ Tail(toDevice) \in Seq(Frames) /\ Len(Tail(toDevice)) <= LineMax
         /\ \A i \in 1 .. Len(Tail(toDevice)) :
              i + 1 \in 1 .. Len(toDevice) /\ Tail(toDevice)[i] = toDevice[i + 1]
         /\ Len(Tail(toDevice)) = Len(toDevice) - 1 /\ Len(toDevice) \in Nat \ {0}
<1>1. toDevice \in Seq(Frames) /\ Len(toDevice) <= LineMax /\ LineMax \in Nat
  BY HmpyAssumption DEF IInv, LineType
<1>2. /\ Head(toDevice) = toDevice[1] /\ Head(toDevice) \in Frames /\ Len(toDevice) \in Nat \ {0}
      /\ Tail(toDevice) \in Seq(Frames) /\ Len(Tail(toDevice)) = Len(toDevice) - 1
      /\ \A i \in 1 .. Len(Tail(toDevice)) :
              i + 1 \in 1 .. Len(toDevice) /\ Tail(toDevice)[i] = toDevice[i + 1]
  BY <1>1, TailOf
<1>3. 1 \in 1 .. Len(toDevice)
  BY <1>2
<1>4. toHost = <<>> /\ ~Heard
  BY DEF IInv, OneRequest
<1>5. RequestOK(toDevice[1])
  BY <1>3 DEF IInv, LineOK
<1>6. ~toDevice[1].stale => 1 = Len(toDevice) /\ host.waiting = toDevice[1].op
  BY <1>3 DEF IInv, OneRequest
<1>7. Len(Tail(toDevice)) <= LineMax
  BY <1>1, <1>2
<1>. QED
  BY <1>2, <1>4, <1>5, <1>6, <1>7

\* The board keeps its upload, ends it, or starts one under the next id.
BoardStep ==
  /\ host' = host
  /\ session'.active => session.active /\ s.ram.next <= s'.ram.next
  /\ \/ session'.upload_id = 0
     \/ /\ session'.upload_id = session.upload_id
        /\ SameTarget(s.ram.upload, s'.ram.upload)
     \/ /\ session'.upload_id = s.ram.next + 1 /\ session.active

\* What is left as far as it was.
SameOffset ==
  session'.upload_id = session.upload_id /\ session.upload_id # 0 =>
    s'.ram.upload.offset = s.ram.upload.offset /\ session'.last = session.last

\* A step of the board leaves the requests on the line justified.
LEMMA BoardKeepsRequests ==
  ASSUME IInv, BoardStep, SessionOK', session' \in Sessions, FsInv(s'),
         NEW f \in Frames, RequestOK(f)
  PROVE  RequestOK(f)'
<1>1. f.op \in {"chunk", "commit"} => f.id \in Ids
  BY FrameFields
<1>2. s.ram.next \in Nat /\ s'.ram.next \in Nat
  BY StateFields, UserFsAssumption DEF IInv, FsInv, Ram
<1>3. f.id \in Ids => f.id \in Nat \ {0}
  BY UserFsAssumption DEF Ids
<1>4. session'.upload_id # 0 => session'.active
  BY DEF SessionOK, NoSession
<1>5. host' = host /\ (session'.active => session.active /\ s.ram.next <= s'.ram.next)
  BY DEF BoardStep
<1>6. f.op \in {"chunk", "commit"} => (session'.active => f.id <= s'.ram.next)
  BY <1>1, <1>2, <1>3, <1>5 DEF RequestOK
<1>7. f.op = "commit" /\ f.id = session'.upload_id => host.knows[s'.ram.upload.target] = Unknown
  <2>1. SUFFICES ASSUME f.op = "commit", f.id = session'.upload_id
                 PROVE  host.knows[s'.ram.upload.target] = Unknown
    OBVIOUS
  <2>2. f.id \in Nat \ {0} /\ session'.active /\ session.active /\ f.id <= s.ram.next
    BY <2>1, <1>1, <1>3, <1>4, <1>5 DEF RequestOK
  <2>3. session'.upload_id = session.upload_id /\ SameTarget(s.ram.upload, s'.ram.upload)
    BY <2>1, <2>2, <1>2 DEF BoardStep
  <2>. QED
    BY <2>1, <2>3 DEF SameTarget, RequestOK
<1>. QED
  BY <1>5, <1>6, <1>7 DEF RequestOK

\* A step of the board leaves what the host believes justified.
LEMMA BoardKeepsHost ==
  ASSUME IInv, BoardStep, SessionOK', session' \in Sessions, FsInv(s')
  PROVE  HostOK' /\ (host.upload.id # 0 => Same(host.upload.id, host.upload)')
         /\ (SameOffset => InStep')
<1>1. host' = host /\ (session'.active => session.active /\ s.ram.next <= s'.ram.next)
  BY DEF BoardStep
<1>2. s.ram.next \in Nat /\ s'.ram.next \in Nat
  BY StateFields, UserFsAssumption DEF IInv, FsInv, Ram
<1>3. host.upload.id \in Nat
  BY UserFsAssumption DEF IInv, LineType, Hosts, HostUploads
<1>4. HostOK'
  BY <1>1, <1>2, <1>3 DEF IInv, HostOK
<1>5. session'.upload_id # 0 => session'.active
  BY DEF SessionOK, NoSession
<1>6. ASSUME host.upload.id # 0, session'.upload_id = host.upload.id
      PROVE  session'.upload_id = session.upload_id /\ SameTarget(s.ram.upload, s'.ram.upload)
  <2>1. session.active /\ host.upload.id <= s.ram.next
    BY <1>6, <1>5, <1>1 DEF IInv, HostOK
  <2>. QED
    BY <2>1, <1>6, <1>2, <1>3 DEF BoardStep
<1>7. host.upload.id # 0 => Same(host.upload.id, host.upload)'
  BY <1>1, <1>6 DEF IInv, InStep, Same, SameTarget
<1>8. SameOffset => InStep'
  BY <1>1, <1>6, <1>7 DEF IInv, InStep, SameOffset
<1>. QED
  BY <1>4, <1>7, <1>8

\* Files change only where the host takes them to be unknown.
FilesKept ==
  \A n \in Names : host.knows[n] # Unknown => s'.disk.files[n] = s.disk.files[n]

\* A file published again was not removed since.
Republished == removed' = {n \in removed : s'.disk.files[n] = None}

\* What the board answers to the frame f.
Reply(f, res, v) == [op |-> f.op, res |-> res, value |-> v]

\* A frame has been taken off the line and answered.
LEMMA TakeKeeps ==
  ASSUME IInv, toDevice # <<>>, NEW f, f = Head(toDevice),
         NEW res \in Results \ {"more"}, NEW v \in Nat,
         toDevice' = Tail(toDevice), cuts' = cuts,
         toHost' \in {toHost, Answered(f, res, v)},
         session' \in Sessions,
         session'.read # None => session'.read.offset < session'.read.size,
         Heard' => ~f.stale /\ f.op = "read" /\ toHost' = toHost,
         FsInv(s'), SessionOK', BoardStep, InStep', FilesKept, Republished,
         ~f.stale => AnswerOK(Reply(f, res, v))'
  PROVE  IInv'
<1>1. /\ f \in Frames /\ toHost = <<>>
      /\ ~f.stale => Len(toDevice) = 1 /\ host.waiting = f.op
      /\ toDevice' \in Seq(Frames) /\ Len(toDevice') <= LineMax
      /\ \A i \in 1 .. Len(toDevice') :
           i + 1 \in 1 .. Len(toDevice) /\ toDevice'[i] = toDevice[i + 1]
      /\ Len(toDevice') = Len(toDevice) - 1 /\ Len(toDevice) \in Nat \ {0}
  BY FirstFrame
<1>2. host' = host
  BY DEF BoardStep
<1>3. \/ toHost' = <<>>
      \/ /\ toHost' = <<Reply(f, res, v)>> /\ ~f.stale /\ 1 <= LineMax
  <2>1. Len(<<>>) = 0 /\ LineMax \in Nat
    BY HmpyAssumption
  <2>2. Append(<<>>, Reply(f, res, v)) = <<Reply(f, res, v)>>
    OBVIOUS
  <2>. QED
    BY <2>1, <2>2, <1>1 DEF Answered, Reply
<1>4. Reply(f, res, v) \in Answers
  BY <1>1, FrameFields DEF Reply, Answers
<1>5. /\ toHost' \in Seq(Answers) /\ Len(toHost') <= LineMax
      /\ \A i \in 1 .. Len(toHost') : toHost'[i] = Reply(f, res, v) /\ i = Len(toHost') /\ ~f.stale
  <2>1. CASE toHost' = <<>>
    BY <2>1, NoElements, HmpyAssumption
  <2>2. CASE toHost' = <<Reply(f, res, v)>> /\ ~f.stale /\ 1 <= LineMax
    BY <2>2, <1>4
  <2>. QED
    BY <2>1, <2>2, <1>3
<1>6. LineType'
  BY <1>1, <1>2, <1>5 DEF IInv, LineType, Republished
<1>7. \A i \in 1 .. Len(toHost') : toHost' # toHost
  BY <1>1, <1>5, NoElements
<1>8. ~f.stale => toDevice' = <<>>
  BY <1>1, EmptySeq
<1>9. OneRequest'
  <2>1. \A i \in 1 .. Len(toDevice') : ~toDevice'[i].stale =>
           i = Len(toDevice') /\ host'.waiting = toDevice'[i].op /\ ~Heard'
    <3> TAKE i \in 1 .. Len(toDevice')
    <3>1. i + 1 \in 1 .. Len(toDevice) /\ toDevice'[i] = toDevice[i + 1]
      BY <1>1
    <3>2. ~toDevice[i + 1].stale => i + 1 = Len(toDevice) /\ host.waiting = toDevice[i + 1].op
      BY <3>1 DEF IInv, OneRequest
    <3>3. f.stale
      BY <1>1
    <3>. QED
      BY <3>1, <3>2, <3>3, <1>1, <1>2
  <2>2. toHost' # <<>> => toDevice' = <<>>
    BY <1>3, <1>8
  <2>3. \A i \in 1 .. Len(toHost') :
           /\ host'.waiting = toHost'[i].op
           /\ i < Len(toHost') \/ Heard' => toHost'[i].op = "read" /\ toHost'[i].res = "more"
    <3> TAKE i \in 1 .. Len(toHost')
    <3>1. toHost'[i] = Reply(f, res, v) /\ i = Len(toHost') /\ ~f.stale /\ toHost' # toHost
      BY <1>5, <1>7
    <3>2. toHost'[i].op = f.op /\ host.waiting = f.op /\ ~Heard'
      BY <3>1, <1>1 DEF Reply
    <3>. QED
      BY <3>1, <3>2, <1>2
  <2>4. Heard' => host'.waiting = "read" /\ toDevice' = <<>>
    BY <1>1, <1>2, <1>8
  <2>. QED
    BY <2>1, <2>2, <2>3, <2>4 DEF OneRequest
<1>10. HostOK'
  BY BoardKeepsHost
<1>11. LineOK'
  <2>1. ASSUME NEW i \in 1 .. Len(toDevice')
        PROVE  RequestOK(toDevice[i])'
    <3>1. i + 1 \in 1 .. Len(toDevice) /\ toDevice'[i] = toDevice[i + 1]
      BY <1>1
    <3>2. toDevice[i + 1] \in Frames /\ RequestOK(toDevice[i + 1])
      BY <3>1, ElementOfSeq DEF IInv, LineOK, LineType
    <3>3. PICK g \in Frames : g = toDevice[i + 1]
      BY <3>2
    <3>4. RequestOK(g)
      BY <3>2, <3>3
    <3>5. RequestOK(g)'
      BY <3>4, BoardKeepsRequests
    <3>6. g = toDevice'[i]
      BY <3>1, <3>3
    <3>. QED
      BY <3>5, <3>6
  <2>2. ASSUME NEW i \in 1 .. Len(toHost')
        PROVE  AnswerOK(toHost[i])'
    <3>1. toHost'[i] = Reply(f, res, v) /\ ~f.stale
      BY <1>5
    <3>. QED
      BY <3>1
  <2>. QED
    BY <2>1, <2>2 DEF LineOK
<1>12. AnsweredIsStored'
  BY <1>2 DEF IInv, AnsweredIsStored, FilesKept, Republished
<1>. QED
  BY <1>6, <1>9, <1>10, <1>11, <1>12 DEF IInv

-----------------------------------------------------------------------------
(* The requests the board takes                                            *)

\* What an action of the board finds.
LEMMA Found ==
  ASSUME IInv
  PROVE  /\ FsInv(s) /\ session \in Sessions /\ host \in Hosts
         /\ session.read # None => session.read.offset < session.read.size
         /\ s.ram.next \in 0 .. MaxUploads /\ s.ram.next \in Nat /\ MaxUploads \in Nat
         /\ session.upload_id \in 0 .. MaxUploads
         /\ Uploading(s) <=> session.upload_id # 0
         /\ Uploading(s) => session.active /\ session.upload_id = s.ram.upload.id
         /\ ~session.active => session = NoSession
  BY StateFields, UserFsAssumption DEF IInv, FsInv, Ram, LineType, Sessions, SessionOK, UploadOwned

\* A frame that leaves the session and its upload alone.
LEMMA QuietTake ==
  ASSUME IInv, toDevice # <<>>, NEW f \in Frames, f = Head(toDevice),
         NEW res \in Results \ {"more"}, NEW v \in Nat,
         toDevice' = Tail(toDevice), host' = host, cuts' = cuts,
         toHost' \in {toHost, Answered(f, res, v)},
         session' = session, FsInv(s'), FilesKept, Republished,
         s'.ram.upload = s.ram.upload, s.ram.next <= s'.ram.next,
         ~f.stale => AnswerOK(Reply(f, res, v))'
  PROVE  IInv'
<1>1. SessionOK'
  BY DEF IInv, SessionOK, UploadOwned, Uploading
<1>2. BoardStep
  BY DEF BoardStep, SameTarget
<1>3. InStep'
  BY <1>1, <1>2, Found, BoardKeepsHost DEF SameOffset
<1>4. ~Heard'
  BY FirstFrame DEF Heard
<1>. QED
  BY <1>1, <1>2, <1>3, <1>4, Found, TakeKeeps

\* The board handles UPLOAD_BEGIN.
LEMMA BeginStep ==
  ASSUME IInv, HandleUploadBegin, Republished
  PROVE  IInv'
<1>1. PICK f \in Frames : f = Head(toDevice)
  BY FirstFrame DEF HandleUploadBegin, Take
<1>2. /\ session.active /\ toDevice # <<>> /\ f.op = "begin"
      /\ toDevice' = Tail(toDevice) /\ host' = host /\ cuts' = cuts
      /\ s.ram.next < MaxUploads
  BY <1>1 DEF HandleUploadBegin, Take
<1>3. f.name \in Names /\ f.content \in Contents
  BY <1>2, FrameFields
<1>4. PICK o \in UploadBegin(s, f.name, f.content) :
        /\ s' = o.s
        /\ session' = IF o.res = "ok"
                      THEN [session EXCEPT !.upload_id = o.s.ram.upload.id, !.last = None]
                      ELSE session
        /\ toHost' = Answered(f, o.res, IF o.res = "ok" THEN o.s.ram.upload.id ELSE 0)
  BY <1>1 DEF HandleUploadBegin
<1>5. /\ FsInv(s') /\ s'.disk.files = s.disk.files
      /\ \/ /\ o.res = "ok" /\ ~Uploading(s)
            /\ s'.ram.upload = Begun(s, f.name, f.content)
            /\ s'.ram.next = s.ram.next + 1
         \/ /\ o.res \in {"not_mounted", "busy", "io"}
            /\ s'.ram.upload = s.ram.upload
            /\ s'.ram.next \in {s.ram.next, s.ram.next + 1}
  BY <1>2, <1>3, <1>4, Found, BeginKeeps
<1>6. FilesKept
  BY <1>5 DEF FilesKept
<1>7. CASE o.res = "ok"
  <2>0. PICK id \in Nat : id = s.ram.next + 1
    BY Found
  <2>1. /\ s'.ram.upload = Begun(s, f.name, f.content) /\ s'.ram.next = id
        /\ ~Uploading(s) /\ id \in Ids /\ id \in 0 .. MaxUploads /\ id \in Nat /\ id # 0
    BY <2>0, <1>2, <1>5, <1>7, Found DEF Ids
  <2>2. /\ s'.ram.upload.id = id /\ s'.ram.upload.target = f.name
        /\ s'.ram.upload.expected = f.content /\ s'.ram.upload.offset = 0
        /\ s'.ram.upload # None
    <3>1. /\ s'.ram.upload.id = id /\ s'.ram.upload.target = f.name
          /\ s'.ram.upload.expected = f.content /\ s'.ram.upload.offset = 0
      BY <2>0, <2>1 DEF Begun
    <3>2. s'.ram.upload \in Uploads
      BY <2>0, <2>1, <1>3 DEF Begun, Uploads
    <3>. QED
      BY <3>1, <3>2, HmpyAssumption
  <2>3. session' = [session EXCEPT !.upload_id = id, !.last = None]
    BY <1>4, <1>7, <2>2
  <2>4. /\ session' \in Sessions /\ session'.upload_id = id /\ session'.last = None
        /\ session'.active = session.active /\ session'.read = session.read
    BY <2>1, <2>3, Found DEF Sessions
  <2>5. SessionOK'
    BY <2>1, <2>2, <2>4, <1>2 DEF SessionOK, UploadOwned, Uploading
  <2>6. BoardStep
    BY <2>0, <2>1, <2>4, <1>2, Found DEF BoardStep
  <2>7. session'.upload_id # session.upload_id
    BY <2>1, <2>4, Found
  <2>8. InStep'
    BY <2>4, <2>5, <2>6, <2>7, <1>5, BoardKeepsHost DEF SameOffset
  <2>9. ~f.stale => AnswerOK(Reply(f, "ok", id))'
    <3> SUFFICES ASSUME ~f.stale PROVE AnswerOK(Reply(f, "ok", id))'
      OBVIOUS
    <3>1. f.name = host.upload.name /\ f.content = host.upload.content
      BY <1>1, <1>2, FirstFrame DEF RequestOK
    <3>. QED
      BY <3>1, <2>1, <2>2, <2>4, <1>2 DEF AnswerOK, Reply, Same
  <2>10. toHost' = Answered(f, "ok", id)
    BY <1>4, <1>7, <2>2
  <2>11. ~Heard'
    BY <1>2, <2>4, FirstFrame DEF Heard
  <2>. QED
    BY <1>1, <1>2, <1>5, <1>6, <2>1, <2>4, <2>5, <2>6, <2>8, <2>9, <2>10, <2>11,
       Found, TakeKeeps DEF Results
<1>8. CASE o.res # "ok"
  <2>1. session' = session /\ toHost' = Answered(f, o.res, 0)
    BY <1>4, <1>8
  <2>2. s'.ram.upload = s.ram.upload /\ s.ram.next <= s'.ram.next
        /\ o.res \in Results \ {"more", "ok"}
    BY <1>5, <1>8, Found DEF Results
  <2>3. AnswerOK(Reply(f, o.res, 0))'
    BY <1>2, <2>2 DEF AnswerOK, Reply
  <2>. QED
    BY <1>1, <1>2, <1>5, <1>6, <2>1, <2>2, <2>3, QuietTake
<1>. QED
  BY <1>7, <1>8

\* The board handles a chunk.
LEMMA ChunkStep ==
  ASSUME IInv, HandleUploadChunk, Republished
  PROVE  IInv'
<1>1. PICK f \in Frames : f = Head(toDevice)
  BY FirstFrame DEF HandleUploadChunk, Take
<1>2. /\ session.active /\ toDevice # <<>> /\ f.op = "chunk"
      /\ toDevice' = Tail(toDevice) /\ host' = host /\ cuts' = cuts
  BY <1>1 DEF HandleUploadChunk, Take
<1>3. f.id \in Ids /\ f.id # 0 /\ f.offset \in Nat /\ f.data \in Chunks
  BY <1>2, FrameFields, UserFsAssumption DEF Ids
<1>4. /\ f.id = host.upload.id =>
           /\ f.offset = host.upload.acked
           /\ host.upload.acked < Len(host.upload.content)
           /\ f.data = host.upload.content[host.upload.acked + 1]
      /\ ~f.stale => f.id = host.upload.id
  BY <1>1, <1>2, FirstFrame DEF RequestOK
\* What the board holds of the upload the frame is for.
<1>5. f.id = host.upload.id /\ f.id = session.upload_id =>
        \/ s.ram.upload.offset = f.offset
        \/ /\ s.ram.upload.offset = f.offset + 1
           /\ session.last = [offset |-> f.offset, data |-> f.data]
  BY <1>3, <1>4 DEF IInv, InStep
<1>6. CASE /\ f.id # session.upload_id
           /\ toHost' = Answered(f, "invalid", 0)
           /\ UNCHANGED <<s, session>>
  <2>1. AnswerOK(Reply(f, "invalid", 0))'
    BY <1>2 DEF AnswerOK, Reply
  <2>2. FilesKept
    BY <1>6 DEF FilesKept
  <2>. QED
    BY <1>1, <1>2, <1>6, <2>1, <2>2, Found, QuietTake DEF Results
<1>7. CASE /\ f.id = session.upload_id /\ Repeated(f)
           /\ toHost' = Answered(f, "ok", f.offset + 1)
           /\ UNCHANGED <<s, session>>
  <2>1. session.last = [offset |-> f.offset, data |-> f.data]
    BY <1>7 DEF Repeated
  <2>2. session.last # None /\ session.last.offset = f.offset
    BY <2>1, <1>3, HmpyAssumption
  <2>3. s.ram.upload.offset = f.offset + 1
    BY <2>2, <1>3, <1>7 DEF IInv, SessionOK
  <2>4. ~f.stale => AnswerOK(Reply(f, "ok", f.offset + 1))'
    BY <1>2, <1>4, <1>7, <2>3 DEF AnswerOK, Reply
  <2>5. FilesKept
    BY <1>7 DEF FilesKept
  <2>6. f.offset + 1 \in Nat
    BY <1>3
  <2>. QED
    BY <1>1, <1>2, <1>7, <2>4, <2>5, <2>6, Found, QuietTake DEF Results
<1>8. CASE /\ f.id = session.upload_id /\ ~Repeated(f)
           /\ \E o \in UploadWrite(s, f.id, f.offset, f.data) :
                /\ s' = o.s
                /\ session' = IF o.res = "ok"
                              THEN [session EXCEPT !.last = [offset |-> f.offset, data |-> f.data]]
                              ELSE session
                /\ toHost' = Answered(f, o.res, f.offset + 1)
  <2>1. PICK o \in UploadWrite(s, f.id, f.offset, f.data) :
          /\ s' = o.s
          /\ session' = IF o.res = "ok"
                        THEN [session EXCEPT !.last = [offset |-> f.offset, data |-> f.data]]
                        ELSE session
          /\ toHost' = Answered(f, o.res, f.offset + 1)
    BY <1>8
  <2>2. /\ FsInv(s') /\ s'.disk.files = s.disk.files /\ s'.ram.next = s.ram.next
        /\ \/ /\ o.res = "ok" /\ Uploading(s) /\ s.ram.upload.id = f.id
              /\ Uploading(s') /\ SameTarget(s.ram.upload, s'.ram.upload)
              /\ f.offset = s.ram.upload.offset
              /\ s'.ram.upload.offset = f.offset + 1
           \/ /\ o.res \in {"invalid", "out_of_order", "size", "io"}
              /\ s'.ram.upload = s.ram.upload
              /\ o.res = "out_of_order" =>
                   Uploading(s) /\ s.ram.upload.id = f.id /\ f.offset # s.ram.upload.offset
    BY <2>1, <1>3, Found, WriteKeeps
  <2>3. FilesKept
    BY <2>2 DEF FilesKept
  <2>4. f.offset + 1 \in Nat
    BY <1>3
  <2>5. CASE o.res # "ok"
    <3>1. /\ s'.ram.upload = s.ram.upload /\ session' = session
          /\ o.res \in Results \ {"more"}
      BY <2>1, <2>2, <2>5 DEF Results
    <3>2. ~f.stale => o.res # "out_of_order"
      BY <1>4, <1>5, <1>8, <2>2, <2>5 DEF Repeated
    <3>3. ~f.stale => AnswerOK(Reply(f, o.res, f.offset + 1))'
      BY <3>2, <1>2, <2>5 DEF AnswerOK, Reply
    <3>. QED
      BY <1>1, <1>2, <2>1, <2>2, <2>3, <2>4, <3>1, <3>3, Found, QuietTake
  <2>6. CASE o.res = "ok"
    <3>1. /\ Uploading(s) /\ Uploading(s') /\ SameTarget(s.ram.upload, s'.ram.upload)
          /\ s'.ram.upload.offset = f.offset + 1 /\ s.ram.upload.id = f.id
      BY <2>2, <2>6
    <3>2. session' = [session EXCEPT !.last = [offset |-> f.offset, data |-> f.data]]
      BY <2>1, <2>6
    <3>3. /\ session' \in Sessions /\ session'.last = [offset |-> f.offset, data |-> f.data]
          /\ session'.last.offset = f.offset
          /\ session'.active = session.active /\ session'.read = session.read
          /\ session'.upload_id = session.upload_id
      BY <3>2, <1>3, Found DEF Sessions
    <3>4. SessionOK'
      BY <3>1, <3>3, <1>2, Found DEF SessionOK, UploadOwned, SameTarget
    <3>5. BoardStep
      BY <3>1, <3>3, <1>2, <2>2, Found DEF BoardStep
    <3>6. InStep'
      <4>1. host.upload.id # 0 => Same(host.upload.id, host.upload)'
        BY <3>3, <3>4, <3>5, <2>2, BoardKeepsHost
      <4>2. session'.upload_id = host.upload.id => f.id = host.upload.id
        BY <3>3, <1>8
      <4>. QED
        BY <4>1, <4>2, <3>1, <3>3, <1>2, <1>4 DEF InStep
    <3>7. ~f.stale => AnswerOK(Reply(f, "ok", f.offset + 1))'
      BY <3>1, <1>2, <1>4 DEF AnswerOK, Reply
    <3>8. ~Heard'
      BY <1>2, <3>3, FirstFrame DEF Heard
    <3>. QED
      BY <1>1, <1>2, <2>1, <2>2, <2>3, <2>4, <2>6, <3>3, <3>4, <3>5, <3>6, <3>7, <3>8,
         Found, TakeKeeps DEF Results
  <2>. QED
    BY <2>5, <2>6
<1>. QED
  BY <1>1, <1>6, <1>7, <1>8 DEF HandleUploadChunk

\* Every name has a content or none.
LEMMA FilesType ==
  ASSUME NEW q, FsInv(q)
  PROVE  q.disk.files \in [Names -> Contents \cup {None}]
  BY StateFields DEF FsInv, Disk

\* Publishing the upload changes the file its target names.
LEMMA AnnouncedFiles ==
  ASSUME NEW q, FsInv(q), Uploading(q)
  PROVE  /\ q.ram.upload.target \in Names
         /\ Announced(q)[q.ram.upload.target] = q.ram.upload.expected
         /\ \A n \in Names \ {q.ram.upload.target} : Announced(q)[n] = q.disk.files[n]
  BY FilesType, UploadFields DEF Announced

\* The board handles UPLOAD_COMMIT and UPLOAD_ABORT.
LEMMA FinishStep ==
  ASSUME IInv, HandleUploadFinish, Republished
  PROVE  IInv'
<1>1. PICK op \in {"commit", "abort"} :
        /\ Take(op)
        /\ LET f == Head(toDevice) IN
           \/ /\ f.id # session.upload_id
              /\ toHost' = Answered(f, "invalid", 0)
              /\ UNCHANGED <<s, session>>
           \/ /\ f.id = session.upload_id
              /\ \E o \in IF op = "commit" THEN UploadCommit(s, f.id) ELSE UploadAbort(s, f.id) :
                   /\ s' = o.s
                   /\ session' = IF o.res = "ok"
                                 THEN [session EXCEPT !.upload_id = 0, !.last = None]
                                 ELSE session
                   /\ toHost' = Answered(f, o.res, 0)
  BY DEF HandleUploadFinish
<1>2. PICK f \in Frames : f = Head(toDevice)
  BY <1>1, FirstFrame DEF Take
<1>3. /\ session.active /\ toDevice # <<>> /\ f.op = op
      /\ toDevice' = Tail(toDevice) /\ host' = host /\ cuts' = cuts
  BY <1>1, <1>2 DEF Take
<1>4. f.id \in Ids /\ f.id # 0
  BY <1>1, <1>3, FrameFields, UserFsAssumption DEF Ids
<1>5. CASE /\ f.id # session.upload_id
           /\ toHost' = Answered(f, "invalid", 0)
           /\ UNCHANGED <<s, session>>
  <2>1. AnswerOK(Reply(f, "invalid", 0))'
    BY <1>1, <1>3 DEF AnswerOK, Reply
  <2>2. FilesKept
    BY <1>5 DEF FilesKept
  <2>. QED
    BY <1>2, <1>3, <1>5, <2>1, <2>2, Found, QuietTake DEF Results
<1>6. CASE f.id = session.upload_id
  <2>1. PICK o \in IF op = "commit" THEN UploadCommit(s, f.id) ELSE UploadAbort(s, f.id) :
          /\ s' = o.s
          /\ session' = IF o.res = "ok"
                        THEN [session EXCEPT !.upload_id = 0, !.last = None]
                        ELSE session
          /\ toHost' = Answered(f, o.res, 0)
    BY <1>1, <1>2, <1>6
  <2>2. Uploading(s) /\ s.ram.upload.id = f.id
    BY <1>4, <1>6, Found
  <2>3. /\ FsInv(s') /\ s'.ram.next = s.ram.next
        /\ \/ /\ o.res = "ok" /\ s'.ram.upload = None
              /\ op = "commit" => s'.disk.files = Announced(s)
              /\ op = "abort" => s'.disk.files = s.disk.files
           \/ /\ o.res \in {"invalid", "size", "io", "rejected"}
              /\ Uploading(s') /\ SameTarget(s.ram.upload, s'.ram.upload)
              /\ s'.ram.upload.offset = s.ram.upload.offset
              /\ \/ s'.disk.files = s.disk.files
                 \/ op = "commit" /\ s'.disk.files = Announced(s)
    <3>1. CASE op = "commit"
      BY <3>1, <2>1, <2>2, Found, CommitKeeps DEF SameTarget
    <3>2. CASE op = "abort"
      BY <3>2, <2>1, <2>2, Found, AbortKeeps DEF Dropped, SameTarget
    <3>. QED
      BY <1>1, <3>1, <3>2
  <2>4. FilesKept
    <3>1. CASE s'.disk.files = s.disk.files
      BY <3>1 DEF FilesKept
    <3>2. CASE op = "commit" /\ s'.disk.files = Announced(s)
      <4>1. host.knows[s.ram.upload.target] = Unknown
        BY <1>2, <1>3, <1>6, <3>2, FirstFrame DEF RequestOK
      <4>. QED
        BY <3>2, <4>1, <2>2, Found, AnnouncedFiles DEF FilesKept
    <3>. QED
      BY <1>1, <2>3, <3>1, <3>2
  <2>5. CASE o.res = "ok"
    <3>1. session' = [session EXCEPT !.upload_id = 0, !.last = None] /\ s'.ram.upload = None
      BY <2>1, <2>3, <2>5
    <3>2. /\ session' \in Sessions /\ session'.upload_id = 0 /\ session'.last = None
          /\ session'.active = session.active /\ session'.read = session.read
      <4>1. 0 \in 0 .. MaxUploads
        BY UserFsAssumption
      <4>. QED
        BY <3>1, <4>1, Found DEF Sessions
    <3>3. SessionOK'
      BY <3>1, <3>2, <1>3 DEF SessionOK, UploadOwned, Uploading
    <3>4. BoardStep
      BY <3>2, <1>3, <2>3, Found DEF BoardStep
    <3>5. session'.upload_id # session.upload_id
      BY <3>2, <1>4, <1>6
    <3>6. InStep'
      BY <3>2, <3>3, <3>4, <3>5, <2>3, BoardKeepsHost DEF SameOffset
    <3>7. ~f.stale => AnswerOK(Reply(f, "ok", 0))'
      <4> SUFFICES ASSUME ~f.stale PROVE AnswerOK(Reply(f, "ok", 0))'
        OBVIOUS
      <4>1. CASE op = "abort"
        BY <4>1, <1>3 DEF AnswerOK, Reply
      <4>2. CASE op = "commit"
        <5>1. f.id = host.upload.id
          BY <4>2, <1>2, <1>3, FirstFrame DEF RequestOK
        <5>2. /\ s.ram.upload.target = host.upload.name
              /\ s.ram.upload.expected = host.upload.content
          BY <5>1, <1>4, <1>6 DEF IInv, InStep, Same
        <5>3. s'.disk.files[host.upload.name] = host.upload.content
          BY <5>2, <4>2, <2>2, <2>3, <2>5, Found, AnnouncedFiles
        <5>4. host.upload.content # None
          BY <5>2, <2>2, Found, UploadFields, UserFsAssumption
        <5>5. host'.upload = host.upload /\ host.upload.name \notin removed'
          BY <5>3, <5>4, <1>3 DEF Republished
        <5>. QED
          BY <5>3, <5>5, <4>2, <1>3 DEF AnswerOK, Reply
      <4>. QED
        BY <1>1, <4>1, <4>2
    <3>8. ~Heard'
      BY <1>3, <3>2, FirstFrame DEF Heard
    <3>. QED
      BY <1>2, <1>3, <2>1, <2>3, <2>4, <2>5, <3>2, <3>3, <3>4, <3>6, <3>7, <3>8,
         Found, TakeKeeps DEF Results
  <2>6. CASE o.res # "ok"
    <3>1. /\ session' = session /\ o.res \in Results \ {"more"}
          /\ Uploading(s') /\ SameTarget(s.ram.upload, s'.ram.upload)
          /\ s'.ram.upload.offset = s.ram.upload.offset
      BY <2>1, <2>3, <2>6 DEF Results
    <3>2. SessionOK'
      BY <3>1, <2>2 DEF IInv, SessionOK, UploadOwned, SameTarget
    <3>3. BoardStep
      BY <3>1, <1>3, <2>3, Found DEF BoardStep
    <3>4. InStep'
      BY <3>1, <3>2, <3>3, <2>3, Found, BoardKeepsHost DEF SameOffset
    <3>5. AnswerOK(Reply(f, o.res, 0))'
      BY <1>1, <1>3, <2>6 DEF AnswerOK, Reply
    <3>6. ~Heard'
      BY <1>3, <3>1, FirstFrame DEF Heard
    <3>. QED
      BY <1>2, <1>3, <2>1, <2>3, <2>4, <3>1, <3>2, <3>3, <3>4, <3>5, <3>6, Found, TakeKeeps
  <2>. QED
    BY <2>5, <2>6
<1>. QED
  BY <1>1, <1>2, <1>5, <1>6

\* The requests that end in one answer and leave the session as it is.
LEMMA FilesStep ==
  ASSUME IInv, HandleDelete \/ HandleSetStartup \/ HandleFormat \/ HandleNudge, Republished
  PROVE  IInv'
<1>1. PICK f \in Frames : f = Head(toDevice)
  BY FirstFrame DEF HandleDelete, HandleSetStartup, HandleFormat, HandleNudge, Take
<1>2. /\ toDevice # <<>> /\ session' = session
      /\ toDevice' = Tail(toDevice) /\ host' = host /\ cuts' = cuts
      /\ f.op \in {"delete", "startup", "format", "nudge"}
  BY <1>1 DEF HandleDelete, HandleSetStartup, HandleFormat, HandleNudge, Take
<1>3. \A res, v : AnswerOK(Reply(f, res, v))'
  BY <1>2 DEF AnswerOK, Reply
<1>4. CASE HandleDelete
  <2>1. f.op = "delete" /\ f.name \in Names
    BY <1>1, <1>4, FrameFields DEF HandleDelete, Take
  <2>2. PICK o \in RemoveFile(s, f.name) : s' = o.s /\ toHost' = Answered(f, o.res, 0)
    BY <1>1, <1>4 DEF HandleDelete
  <2>3. /\ FsInv(s') /\ s'.ram = s.ram /\ o.res \in Results \ {"more"}
        /\ s'.disk.files \in {s.disk.files, Without(s.disk.files, f.name)}
    BY <2>1, <2>2, Found, RemoveKeeps DEF RemoveResults, Results
  <2>4. host.knows[f.name] = Unknown
    BY <1>1, <1>2, <2>1, FirstFrame DEF RequestOK
  <2>5. FilesKept
    BY <2>1, <2>3, <2>4, Found, FilesType DEF FilesKept, Without
  <2>. QED
    BY <1>1, <1>2, <1>3, <2>2, <2>3, <2>5, Found, QuietTake
<1>5. CASE HandleSetStartup
  <2>1. f.op = "startup" /\ f.name \in Names \cup {None}
    BY <1>1, <1>5, FrameFields DEF HandleSetStartup, Take
  <2>2. PICK o \in SetStartup(s, f.name) : s' = o.s /\ toHost' = Answered(f, o.res, 0)
    BY <1>1, <1>5 DEF HandleSetStartup
  <2>3. /\ FsInv(s') /\ s'.ram = s.ram /\ s'.disk.files = s.disk.files
        /\ o.res \in Results \ {"more"}
    BY <2>1, <2>2, Found, StartupKeeps DEF RemoveResults, Results
  <2>4. FilesKept
    BY <2>3 DEF FilesKept
  <2>. QED
    BY <1>1, <1>2, <1>3, <2>2, <2>3, <2>4, Found, QuietTake
<1>6. CASE HandleFormat
  <2>1. f.op = "format"
    BY <1>1, <1>6 DEF HandleFormat, Take
  <2>2. PICK o \in IF session.upload_id # 0 THEN Refused(s, "busy") ELSE Format(s) :
          s' = o.s /\ toHost' = Answered(f, o.res, 0)
    BY <1>1, <1>6 DEF HandleFormat
  <2>3. /\ FsInv(s') /\ s'.ram.upload = s.ram.upload /\ s'.ram.next = s.ram.next
        /\ o.res \in Results \ {"more"}
    <3>1. CASE session.upload_id # 0
      BY <3>1, <2>2, Found DEF Refused, Outcome, Results
    <3>2. CASE session.upload_id = 0
      BY <3>2, <2>2, Found, FormatKeeps DEF MountResults, Results, Uploading
    <3>. QED
      BY <3>1, <3>2
  <2>4. \A n \in Names : host.knows[n] = Unknown
    BY <1>1, <1>2, <2>1, FirstFrame DEF RequestOK
  <2>5. FilesKept
    BY <2>4 DEF FilesKept
  <2>. QED
    BY <1>1, <1>2, <1>3, <2>2, <2>3, <2>5, Found, QuietTake
<1>7. CASE HandleNudge
  <2>1. PICK o \in Mount(s) : s' = o.s
    BY <1>7 DEF HandleNudge
  <2>2. toHost' = Answered(f, "ok", 0)
    BY <1>1, <1>7 DEF HandleNudge
  <2>3. FsInv(s') /\ Quiet(s, s')
    BY <2>1, Found, MountKeeps
  <2>4. FilesKept
    BY <2>3 DEF FilesKept, Quiet
  <2>. QED
    BY <1>1, <1>2, <1>3, <2>2, <2>3, <2>4, Found, QuietTake DEF Quiet, Results
<1>. QED
  BY <1>4, <1>5, <1>6, <1>7

\* The end of a session takes its upload along.
LEMMA FinishKeeps ==
  ASSUME IInv, Finish
  PROVE  /\ FsInv(s') /\ Dropped(s, s') /\ session' = NoSession
         /\ NoSession \in Sessions /\ session'.upload_id = 0 /\ ~session'.active
         /\ session'.last = None /\ session'.read = None
         /\ SessionOK'
<1>1. FsInv(s') /\ Dropped(s, s')
  <2>1. CASE session.upload_id # 0
    <3>1. Uploading(s) /\ s.ram.upload.id = session.upload_id
      BY <2>1, Found
    <3>2. PICK o \in UploadAbort(s, session.upload_id) : s' = o.s
      BY <2>1 DEF Finish
    <3>. QED
      BY <3>1, <3>2, Found, AbortKeeps
  <2>2. CASE session.upload_id = 0
    BY <2>2, Found DEF Finish, Dropped, Uploading
  <2>. QED
    BY <2>1, <2>2
<1>2. session' = NoSession
  BY DEF Finish
<1>3. /\ NoSession \in Sessions /\ NoSession.upload_id = 0 /\ ~NoSession.active
      /\ NoSession.last = None /\ NoSession.read = None
  BY UserFsAssumption DEF NoSession, Sessions
<1>4. SessionOK'
  BY <1>1, <1>2, <1>3 DEF SessionOK, UploadOwned, Uploading, Dropped
<1>. QED
  BY <1>1, <1>2, <1>3, <1>4

\* The board handles the close of the session.
LEMMA CloseStep ==
  ASSUME IInv, HandleClose, Republished
  PROVE  IInv'
<1>1. PICK f \in Frames : f = Head(toDevice)
  BY FirstFrame DEF HandleClose, Take
<1>2. /\ toDevice # <<>> /\ f.op = "close" /\ Finish
      /\ toDevice' = Tail(toDevice) /\ host' = host /\ cuts' = cuts
      /\ toHost' = Answered(f, "ok", 0)
  BY <1>1 DEF HandleClose, Take
<1>3. AnswerOK(Reply(f, "ok", 0))'
  BY <1>2 DEF AnswerOK, Reply
<1>4. BoardStep
  BY <1>2, FinishKeeps DEF BoardStep
<1>5. InStep'
  BY <1>2, <1>4, FinishKeeps, BoardKeepsHost DEF SameOffset
<1>6. FilesKept /\ ~Heard'
  BY <1>2, FinishKeeps DEF FilesKept, Dropped, Heard
<1>. QED
  BY <1>1, <1>2, <1>3, <1>4, <1>5, <1>6, FinishKeeps, TakeKeeps DEF Results

\* A content is a sequence of chunks, and not empty.
LEMMA ContentsAreSequences ==
  ASSUME NEW c \in Contents
  PROVE  c \in Seq(Chunks) /\ Len(c) \in Nat \ {0} /\ c # None
  BY UserFsAssumption, LenProperties, EmptySeq

\* The board starts to send a file.
LEMMA ReadStep ==
  ASSUME IInv, HandleRead, Republished
  PROVE  IInv'
<1>1. PICK f \in Frames : f = Head(toDevice)
  BY FirstFrame DEF HandleRead, Take
<1>2. /\ toDevice # <<>> /\ f.op = "read" /\ s' = s
      /\ toDevice' = Tail(toDevice) /\ host' = host /\ cuts' = cuts
  BY <1>1 DEF HandleRead, Take
<1>3. f.name \in Names /\ f.stale \in BOOLEAN
  BY <1>2, FrameFields
<1>4. AnswerOK(Reply(f, "not_found", 0))'
  BY <1>2 DEF AnswerOK, Reply
<1>5. FilesKept
  BY <1>2 DEF FilesKept
<1> DEFINE found == Mounted(s) /\ s.disk.files[f.name] # None
           rec == [name |-> f.name, offset |-> 0, stale |-> f.stale,
                   size |-> Len(s.disk.files[f.name])]
<1>6. /\ session' = IF found THEN [session EXCEPT !.read = rec] ELSE session
      /\ toHost' = IF found THEN toHost ELSE Answered(f, "not_found", 0)
  BY <1>1 DEF HandleRead
<1>7. CASE ~found
  <2>1. session' = session /\ toHost' = Answered(f, "not_found", 0)
    BY <1>6, <1>7
  <2>. QED
    BY <1>1, <1>2, <1>4, <1>5, <2>1, Found, QuietTake DEF Results
<1>8. CASE found
  <2>1. s.disk.files[f.name] \in Contents
    BY <1>3, <1>8, Found, FilesType
  <2>2. rec \in Reads /\ rec.offset < rec.size /\ rec.stale = f.stale
    BY <2>1, <1>3, ContentsAreSequences DEF Reads
  <2>3. session' = [session EXCEPT !.read = rec] /\ toHost' = toHost
    BY <1>6, <1>8
  <2> HIDE DEF rec, found
  <2>4. /\ session' \in Sessions /\ session'.read = rec /\ session'.active = session.active
        /\ session'.upload_id = session.upload_id /\ session'.last = session.last
    BY <2>2, <2>3, Found DEF Sessions
  <2>5. session.active
    BY <1>1 DEF HandleRead, Take
  <2>6. SessionOK'
    BY <1>2, <2>4, <2>5 DEF IInv, SessionOK, UploadOwned
  <2>7. BoardStep
    BY <1>2, <2>4, <2>5, Found DEF BoardStep, SameTarget
  <2>8. InStep'
    BY <1>2, <2>4, <2>6, <2>7, Found, BoardKeepsHost DEF SameOffset
  <2>9. Heard' => ~f.stale
    BY <2>2, <2>4 DEF Heard
  <2>. QED
    BY <1>1, <1>2, <1>4, <1>5, <2>2, <2>3, <2>4, <2>6, <2>7, <2>8, <2>9, Found, TakeKeeps
       DEF Results
<1>. QED
  BY <1>7, <1>8

\* The board refuses a request during a read, or discards a frame.
LEMMA RefuseStep ==
  ASSUME IInv, RefuseInRead \/ Discard, Republished
  PROVE  IInv'
<1>1. PICK f \in Frames : f = Head(toDevice)
  BY FirstFrame DEF RefuseInRead, Discard
<1>2. /\ toDevice # <<>> /\ s' = s /\ session' = session
      /\ toDevice' = Tail(toDevice) /\ host' = host /\ cuts' = cuts
      /\ toHost' \in {toHost, Answered(f, "busy", 0)}
  BY <1>1 DEF RefuseInRead, Discard
<1>3. AnswerOK(Reply(f, "busy", 0))'
  BY DEF AnswerOK, Reply
<1>4. FilesKept
  BY <1>2 DEF FilesKept
<1>. QED
  BY <1>1, <1>2, <1>3, <1>4, Found, QuietTake DEF Results

\* A step of the board without a frame: the line to the board is as it was.
LEMMA OwnStep ==
  ASSUME IInv, toDevice' = toDevice, toHost' = toHost, cuts' = cuts,
         removed' = removed,
         session' \in Sessions, session'.read = None,
         FsInv(s'), SessionOK', BoardStep, SameOffset, FilesKept,
         toHost # <<>> => s'.disk.files = s.disk.files,
         session'.upload_id # 0 =>
           s'.ram.upload = s.ram.upload /\ session'.upload_id = session.upload_id
  PROVE  IInv'
<1>1. host' = host /\ (session'.active => session.active /\ s.ram.next <= s'.ram.next)
  BY DEF BoardStep
<1>2. ~Heard'
  BY DEF Heard
<1>3. LineType'
  BY <1>1 DEF IInv, LineType
<1>4. OneRequest'
  BY <1>1, <1>2 DEF IInv, OneRequest
<1>5. HostOK' /\ InStep'
  BY BoardKeepsHost
<1>6. AnsweredIsStored'
  BY <1>1 DEF IInv, AnsweredIsStored, FilesKept
<1>7. ASSUME NEW i \in 1 .. Len(toDevice)
      PROVE  RequestOK(toDevice[i])'
  <2>1. toDevice[i] \in Frames /\ RequestOK(toDevice[i])
    BY ElementOfSeq DEF IInv, LineOK, LineType
  <2>2. PICK g \in Frames : g = toDevice[i]
    BY <2>1
  <2>3. RequestOK(g)'
    BY <2>1, <2>2, BoardKeepsRequests
  <2>4. g = toDevice'[i]
    BY <2>2
  <2>. QED
    BY <2>3, <2>4
<1>8. ASSUME NEW i \in 1 .. Len(toHost)
      PROVE  AnswerOK(toHost[i])'
  <2>1. AnswerOK(toHost[i]) /\ host.waiting = toHost[i].op
    BY DEF IInv, LineOK, OneRequest
  <2>2. toHost # <<>>
    BY EmptySeq
  <2>3. s.ram.next \in Nat /\ s'.ram.next \in Nat
    BY StateFields, UserFsAssumption DEF IInv, FsInv, Ram
  <2>4. \A v \in Ids : v \in Nat \ {0}
    BY UserFsAssumption DEF Ids
  <2>5. toHost[i].op = "chunk" => host.upload.id # 0
    BY <2>1 DEF IInv, HostOK
  <2>. QED
    BY <2>1, <2>2, <2>3, <2>4, <2>5, <1>1 DEF AnswerOK, Same
<1>9. LineOK'
  BY <1>7, <1>8 DEF LineOK
<1>. QED
  BY <1>3, <1>4, <1>5, <1>6, <1>9 DEF IInv

\* The lease of the session expires.
LEMMA LeaseStep ==
  ASSUME IInv, LeaseExpires
  PROVE  IInv'
<1>1. Finish /\ toDevice' = toDevice /\ toHost' = toHost /\ host' = host /\ cuts' = cuts
      /\ removed' = removed
  BY DEF LeaseExpires
<1>2. BoardStep /\ SameOffset
  BY <1>1, FinishKeeps DEF BoardStep, SameOffset
<1>3. FilesKept
  BY <1>1, FinishKeeps DEF FilesKept, Dropped
<1>. QED
  BY <1>1, <1>2, <1>3, FinishKeeps, OwnStep DEF Dropped

\* Only the streaming of a read moves.
ReadMoves ==
  /\ s' = s /\ cuts' = cuts
  /\ removed' = removed \/ Republished
  /\ session' \in Sessions
  /\ session'.active = session.active /\ session'.upload_id = session.upload_id
  /\ session'.last = session.last
  /\ ~session.active => session' = session
  /\ session'.read # None => session'.read.offset < session'.read.size

\* A step that only moves the read leaves everything else true.
LEMMA ReadKeeps ==
  ASSUME IInv, ReadMoves
  PROVE  /\ FsInv(s') /\ SessionOK'
         /\ host' = host => HostOK' /\ InStep' /\ AnsweredIsStored'
<1>1. FsInv(s') /\ SessionOK'
  BY DEF IInv, ReadMoves, SessionOK, UploadOwned
<1>2. host' = host => HostOK' /\ InStep' /\ AnsweredIsStored'
  BY DEF IInv, ReadMoves, HostOK, InStep, Same, AnsweredIsStored, Republished
<1>. QED
  BY <1>1, <1>2

\* The board sends the next part of the file.
LEMMA PumpStep ==
  ASSUME IInv, PumpRead, Republished
  PROVE  IInv'
<1> DEFINE r == session.read
           why == ReadResult(s, r.name)
           res == IF why # "ok" THEN why ELSE IF r.offset + 1 < r.size THEN "more" ELSE "ok"
           g == [op |-> "read", res |-> res, value |-> r.offset]
<1>1. /\ session.active /\ r # None /\ toDevice = <<>> /\ toDevice' = toDevice
      /\ s' = s /\ host' = host /\ cuts' = cuts
      /\ session' = IF res = "more" THEN [session EXCEPT !.read.offset = @ + 1]
                    ELSE [session EXCEPT !.read = None]
      /\ toHost' = Answered([op |-> "read", stale |-> r.stale], res, r.offset)
  BY DEF PumpRead
<1>2. session \in Sessions /\ r \in Reads /\ r.offset < r.size
  BY <1>1, Found DEF Sessions
<1>3. why \in {"not_mounted", "busy", "not_found", "ok"}
  BY DEF ReadResult
<1>4. /\ res \in {"not_mounted", "busy", "not_found", "ok", "more"}
      /\ res = "more" => r.offset + 1 < r.size
  BY <1>3
<1>5. g \in Answers /\ g.op = "read" /\ (g.res = "more" <=> res = "more")
  BY <1>2, <1>4 DEF Answers, Ops, Results, Reads
<1>6. toHost' = IF r.stale \/ Len(toHost) = LineMax THEN toHost ELSE Append(toHost, g)
  BY <1>1 DEF Answered
<1> HIDE DEF res, why, g
<1>7. /\ ReadMoves
      /\ res = "more" => session'.read # None /\ session'.read.stale = r.stale
      /\ res # "more" => session'.read = None
  <2>1. CASE res = "more"
    <3> DEFINE r2 == [r EXCEPT !.offset = @ + 1]
    <3>1. r2 \in Reads /\ r2.offset < r2.size /\ r2.stale = r.stale
      BY <1>2, <1>4, <2>1 DEF Reads
    <3>2. session' = [session EXCEPT !.read = r2]
      BY <1>1, <1>2, <2>1 DEF Sessions
    <3>3. r2 # None
      BY <3>1, HmpyAssumption DEF Reads
    <3> HIDE DEF r2
    <3>4. /\ session' \in Sessions /\ session'.read = r2 /\ session'.active = session.active
          /\ session'.upload_id = session.upload_id /\ session'.last = session.last
      BY <3>1, <3>2, <1>2 DEF Sessions
    <3>. QED
      BY <3>1, <3>3, <3>4, <2>1, <1>1 DEF ReadMoves
  <2>2. CASE res # "more"
    <3>1. session' = [session EXCEPT !.read = None]
      BY <1>1, <2>2
    <3>2. /\ session' \in Sessions /\ session'.read = None /\ session'.active = session.active
          /\ session'.upload_id = session.upload_id /\ session'.last = session.last
      BY <3>1, <1>2 DEF Sessions
    <3>. QED
      BY <3>2, <2>2, <1>1 DEF ReadMoves
  <2>. QED
    BY <2>1, <2>2
<1>8. /\ toHost \in Seq(Answers) /\ Len(toHost) <= LineMax /\ LineMax \in Nat /\ Len(toHost) \in Nat
      /\ toDevice \in Seq(Frames)
  BY LenProperties, HmpyAssumption DEF IInv, LineType
<1>9. /\ toHost' \in Seq(Answers) /\ Len(toHost') <= LineMax /\ Len(toHost') \in Nat
      /\ Len(toHost') >= Len(toHost)
      /\ \A i \in 1 .. Len(toHost') :
           \/ i \in 1 .. Len(toHost) /\ toHost'[i] = toHost[i]
           \/ i = Len(toHost') /\ toHost'[i] = g /\ ~r.stale
  BY <1>5, <1>6, <1>8, AppendOf
<1>10. Heard <=> ~r.stale
  BY <1>1 DEF Heard
<1>11. Heard' => ~r.stale /\ res = "more"
  BY <1>7 DEF Heard
<1>12. LineType'
  BY <1>1, <1>7, <1>8, <1>9 DEF IInv, LineType, ReadMoves, Republished
<1>13. OneRequest'
  <2>1. \A i \in 1 .. Len(toDevice') : FALSE
    BY <1>1, NoElements
  <2>2. ~r.stale => host.waiting = "read"
    BY <1>10 DEF IInv, OneRequest
  <2>3. ASSUME NEW i \in 1 .. Len(toHost')
        PROVE  /\ host'.waiting = toHost'[i].op
               /\ i < Len(toHost') \/ Heard' => toHost'[i].op = "read" /\ toHost'[i].res = "more"
    <3>1. CASE i \in 1 .. Len(toHost) /\ toHost'[i] = toHost[i]
      <4>1. host.waiting = toHost[i].op
            /\ (i < Len(toHost) \/ ~r.stale => toHost[i].op = "read" /\ toHost[i].res = "more")
        BY <3>1, <1>10 DEF IInv, OneRequest
      <4>2. r.stale => toHost' = toHost
        BY <1>6
      <4>. QED
        BY <3>1, <4>1, <4>2, <1>1, <1>11
    <3>2. CASE i = Len(toHost') /\ toHost'[i] = g /\ ~r.stale
      BY <3>2, <2>2, <1>1, <1>5, <1>9, <1>11
    <3>. QED
      BY <3>1, <3>2, <1>9
  <2>. QED
    BY <2>1, <2>2, <2>3, <1>1, <1>11 DEF OneRequest
<1>14. LineOK'
  <2>1. \A i \in 1 .. Len(toDevice') : FALSE
    BY <1>1, NoElements
  <2>2. ASSUME NEW i \in 1 .. Len(toHost')
        PROVE  AnswerOK(toHost[i])'
    <3>1. CASE i \in 1 .. Len(toHost) /\ toHost'[i] = toHost[i]
      <4>1. AnswerOK(toHost[i])
        BY <3>1 DEF IInv, LineOK
      <4>. QED
        BY <3>1, <4>1, <1>1, <1>7 DEF AnswerOK, Same, ReadMoves, Republished
    <3>2. CASE toHost'[i] = g
      BY <3>2, <1>5 DEF AnswerOK
    <3>. QED
      BY <3>1, <3>2, <1>9
  <2>. QED
    BY <2>1, <2>2 DEF LineOK
<1>. QED
  BY <1>1, <1>7, <1>12, <1>13, <1>14, ReadKeeps DEF IInv

-----------------------------------------------------------------------------
(* Sessions that begin or are cut off                                      *)

\* A host that waits for nothing has nothing to hear.
LEMMA NothingHeard ==
  ASSUME IInv, host.waiting = None
  PROVE  /\ toHost = <<>> /\ ~Heard
         /\ \A i \in 1 .. Len(toDevice) : toDevice[i].stale
<1>1. toHost \in Seq(Answers) /\ toDevice \in Seq(Frames)
  BY DEF IInv, LineType
<1>2. toHost = <<>>
  <2>1. SUFFICES ASSUME toHost # <<>> PROVE FALSE
    OBVIOUS
  <2>2. 1 \in 1 .. Len(toHost) /\ toHost[1] \in Answers
    BY <1>1, <2>1, TailOf
  <2>3. toHost[1].op \in Ops /\ host.waiting = toHost[1].op
    BY <2>2 DEF IInv, OneRequest, Answers
  <2>. QED
    BY <2>3, HmpyAssumption
<1>3. ~Heard
  BY HmpyAssumption DEF IInv, OneRequest, Ops
<1>4. ASSUME NEW i \in 1 .. Len(toDevice)
      PROVE  toDevice[i].stale
  <2>1. toDevice[i] \in Frames
    BY <1>1, ElementOfSeq
  <2>2. toDevice[i].op \in Ops /\ toDevice[i].stale \in BOOLEAN
    BY <2>1, FrameFields
  <2>. QED
    BY <2>2, HmpyAssumption DEF IInv, OneRequest
<1>. QED
  BY <1>2, <1>3, <1>4

\* The absence of an upload at the host.
LEMMA NoUploadType ==
  /\ NoUpload \in HostUploads
  /\ NoUpload.id = 0 /\ NoUpload.acked = 0 /\ NoUpload.name = None /\ NoUpload.content = None
<1>1. 0 \in 0 .. MaxUploads
  BY UserFsAssumption
<1>. QED
  BY <1>1 DEF NoUpload, HostUploads

\* A session begins.
LEMMA BeginSession ==
  ASSUME IInv, SessionBegin
  PROVE  IInv'
<1>1. /\ ~session.active /\ toDevice = <<>> /\ host.waiting = None
      /\ session' = [NoSession EXCEPT !.active = TRUE]
      /\ host' = [host EXCEPT !.upload = NoUpload]
      /\ toDevice' = toDevice /\ toHost' = toHost /\ cuts' = cuts
      /\ removed' = removed
  BY DEF SessionBegin
<1>2. PICK o \in Mount(s) : s' = o.s
  BY DEF SessionBegin
<1>3. FsInv(s') /\ Quiet(s, s')
  BY <1>2, Found, MountKeeps
<1>4. toHost = <<>> /\ Len(<<>>) = 0
  BY <1>1, NothingHeard
<1>5. /\ session' \in Sessions /\ session'.active /\ session'.upload_id = 0
      /\ session'.last = None /\ session'.read = None
  <2>1. 0 \in 0 .. MaxUploads
    BY UserFsAssumption
  <2>. QED
    BY <1>1, <2>1 DEF NoSession, Sessions
<1>6. /\ host' \in Hosts /\ host'.upload = NoUpload /\ host'.waiting = host.waiting
      /\ host'.gone = host.gone /\ host'.knows = host.knows
  BY <1>1, Found, NoUploadType DEF Hosts
<1>7. session.upload_id = 0
  BY <1>1, Found DEF NoSession
<1>8. SessionOK'
  BY <1>3, <1>5, <1>7, Found DEF SessionOK, UploadOwned, Uploading, Quiet
<1>9. LineType'
  BY <1>1, <1>5, <1>6 DEF IInv, LineType
<1>10. OneRequest'
  BY <1>1, <1>4, <1>5 DEF OneRequest, Heard
<1>11. s'.ram.next \in Nat
  BY <1>3, Found DEF Quiet
<1>12. HostOK'
  BY <1>1, <1>6, <1>11, NoUploadType, HmpyAssumption DEF IInv, HostOK, Ops
<1>13. InStep'
  BY <1>6, NoUploadType DEF InStep
<1>14. LineOK'
  BY <1>1, <1>4 DEF LineOK
<1>15. AnsweredIsStored'
  BY <1>1, <1>3, <1>6 DEF IInv, AnsweredIsStored, Quiet
<1>. QED
  BY <1>3, <1>8, <1>9, <1>10, <1>12, <1>13, <1>14, <1>15 DEF IInv

\* lfs_format leaves a flash without files.
LEMMA FormatDisks ==
  ASSUME NEW q, NEW d \in ToSet(FormatSteps(q.disk))
  PROVE  Replaces(q, d) /\ d.files = NoFiles
<1>1. d \in {[Formatted EXCEPT !.medium = "corrupt"], Formatted}
  BY DEF FormatSteps, ToSet
<1>. QED
  BY <1>1, ConstantDisks DEF Replaces

\* What the power cut may leave of the files.
LEMMA HalfwayKeeps ==
  ASSUME IInv, NEW d \in Halfway
  PROVE  /\ Replaces(s, d) /\ toHost = <<>> /\ s.ram.upload = None
         /\ \A n \in Names : host.knows[n] # Unknown => d.files[n] = s.disk.files[n]
         /\ \/ d.files = s.disk.files
            \/ d.files = NoFiles
            \/ \E n \in Names : d.files = Without(s.disk.files, n)
<1>1. toDevice # <<>>
  BY DEF Halfway
<1>2. PICK f \in Frames : f = Head(toDevice)
  BY <1>1, FirstFrame
<1>3. toHost = <<>> /\ RequestOK(f)
  BY <1>1, <1>2, FirstFrame
<1> DEFINE idle == Mounted(s) /\ ~Uploading(s)
<1>4. d \in CASE f.op = "format" /\ session.upload_id = 0 -> ToSet(FormatSteps(s.disk))
              [] f.op = "delete" /\ idle -> ToSet(RemoveSteps(s.disk, f.name))
              [] f.op = "startup" /\ idle /\ (f.name # None => s.disk.files[f.name] # None)
                   -> ToSet(SelectSteps(s.disk, f.name))
              [] OTHER -> {}
  BY <1>2 DEF Halfway
<1>5. \/ f.op = "format" /\ session.upload_id = 0 /\ d \in ToSet(FormatSteps(s.disk))
      \/ f.op = "delete" /\ idle /\ d \in ToSet(RemoveSteps(s.disk, f.name))
      \/ /\ f.op = "startup" /\ idle /\ (f.name # None => s.disk.files[f.name] # None)
         /\ d \in ToSet(SelectSteps(s.disk, f.name))
  BY <1>4
<1>6. CASE f.op = "format" /\ session.upload_id = 0 /\ d \in ToSet(FormatSteps(s.disk))
  BY <1>3, <1>6, FormatDisks, Found DEF RequestOK, Uploading
<1>7. CASE f.op = "delete" /\ idle /\ d \in ToSet(RemoveSteps(s.disk, f.name))
  <2>1. f.name \in Names /\ host.knows[f.name] = Unknown
    BY <1>2, <1>3, <1>7, FrameFields DEF RequestOK
  <2>2. Replaces(s, d) /\ d.files \in {s.disk.files, Without(s.disk.files, f.name)}
    BY <2>1, <1>7, Found, RemoveDisks
  <2>3. \A n \in Names \ {f.name} : d.files[n] = s.disk.files[n]
    BY <2>1, <2>2, Found, FilesType DEF Without
  <2>. QED
    BY <1>3, <1>7, <2>1, <2>2, <2>3 DEF Uploading
<1>8. CASE /\ f.op = "startup" /\ idle /\ (f.name # None => s.disk.files[f.name] # None)
           /\ d \in ToSet(SelectSteps(s.disk, f.name))
  <2>1. f.name \in Names \cup {None}
    BY <1>2, <1>8, FrameFields
  <2>2. Replaces(s, d) /\ d.files = s.disk.files
    BY <2>1, <1>8, Found, SelectDisks
  <2>. QED
    BY <1>3, <1>8, <2>2 DEF Uploading
<1>. QED
  BY <1>5, <1>6, <1>7, <1>8

\* The file n is as it was, or the user removed it on the device.
Explained(n) ==
  \/ s'.disk.files[n] = s.disk.files[n] /\ (n \in removed' <=> n \in removed)
  \/ s'.disk.files[n] = None /\ n \in removed'

\* What the removals on the device leave of what the host was told.
LEMMA ExplainedKeeps ==
  ASSUME IInv, host' = host, \A n \in Names : host.knows[n] # Unknown => Explained(n)
  PROVE  AnsweredIsStored'
<1> SUFFICES ASSUME NEW n \in Names, host.knows[n] # Unknown
             PROVE  s'.disk.files[n] = IF n \in removed' THEN None ELSE host.knows[n]
  BY DEF AnsweredIsStored
<1>1. Explained(n)
  OBVIOUS
<1>2. s.disk.files[n] = IF n \in removed THEN None ELSE host.knows[n]
  BY DEF IInv, AnsweredIsStored
<1>. QED
  BY <1>1, <1>2 DEF Explained

\* The variables are lost, and the disk is one that takes the place of the
\* one before.
LEMMA PowerKeeps ==
  ASSUME IInv, cuts < MaxCuts, cuts' = cuts + 1,
         session' = NoSession, toDevice' = <<>>, toHost' = toHost, host' = host,
         FsInv(s'), s'.ram.upload = None, removed' \subseteq Names,
         \A n \in Names : host.knows[n] # Unknown \/ toHost # <<>> => Explained(n)
  PROVE  IInv'
<1>3. /\ NoSession \in Sessions /\ NoSession.upload_id = 0 /\ ~NoSession.active
      /\ NoSession.last = None /\ NoSession.read = None
  BY UserFsAssumption DEF NoSession, Sessions
<1>4. SessionOK'
  BY <1>3 DEF SessionOK, UploadOwned, Uploading
<1>5. LineType'
  BY <1>3, HmpyAssumption, NoElements DEF IInv, LineType
<1>6. OneRequest' /\ ~Heard'
  <2>1. ~Heard'
    BY <1>3 DEF Heard
  <2>2. Len(toDevice') = 0
    OBVIOUS
  <2>. QED
    BY <2>1, <2>2 DEF IInv, OneRequest
<1>7. HostOK' /\ InStep'
  BY <1>3 DEF IInv, HostOK, InStep, Same
<1>8. AnsweredIsStored'
  BY ExplainedKeeps
<1>9. LineOK'
  <2>1. \A i \in 1 .. Len(toDevice') : FALSE
    BY NoElements
  <2>2. ASSUME NEW i \in 1 .. Len(toHost')
        PROVE  AnswerOK(toHost[i])'
    <3>1. AnswerOK(toHost[i]) /\ host.waiting = toHost[i].op /\ toHost # <<>>
      BY NoElements DEF IInv, LineOK, OneRequest
    <3>2. \A v \in Ids : v # 0
      BY UserFsAssumption DEF Ids
    <3>3. toHost[i].op \in {"chunk", "commit"} => host.upload.id # 0 /\ host.upload.name \in Names
      BY <3>1 DEF IInv, HostOK, Full
    <3>. QED
      BY <1>3, <3>1, <3>2, <3>3 DEF AnswerOK, Same, Explained
  <2>. QED
    BY <2>1, <2>2 DEF LineOK
<1>. QED
  BY <1>4, <1>5, <1>6, <1>7, <1>8, <1>9 DEF IInv

\* The power is cut between two frames or inside the handler of one.
LEMMA CutStep ==
  ASSUME IInv, Cut
  PROVE  IInv'
<1>1. /\ cuts < MaxCuts /\ cuts' = cuts + 1 /\ s' \in PowerCut(s, {s.disk} \cup Halfway)
      /\ session' = NoSession /\ toDevice' = <<>> /\ toHost' = toHost /\ host' = host
      /\ removed' = removed
  BY DEF Cut
<1>2. FsInv(s') /\ s'.disk \in {s.disk} \cup Halfway /\ s'.ram.upload = None
  <2>1. \A d \in {s.disk} \cup Halfway : Replaces(s, d)
    BY Found, OwnDisk, HalfwayKeeps
  <2>. QED
    BY <1>1, <2>1, Found, CutKeeps
<1>3. \A n \in Names : host.knows[n] # Unknown \/ toHost # <<>> => Explained(n)
  BY <1>1, <1>2, HalfwayKeeps DEF Explained
<1>4. removed' \subseteq Names
  BY <1>1 DEF IInv, LineType
<1>. QED
  BY <1>1, <1>2, <1>3, <1>4, PowerKeeps

-----------------------------------------------------------------------------
(* The user of the device                                                  *)

\* Only files the user removes on the device vanish.
LEMMA VanishedExplained ==
  ASSUME IInv, removed' = removed \cup Vanished, NEW name \in Names,
         s'.disk.files \in {s.disk.files, Without(s.disk.files, name)}
  PROVE  removed' \subseteq Names /\ \A n \in Names : Explained(n)
<1>1. s.disk.files \in [Names -> Contents \cup {None}] /\ removed \subseteq Names
  BY Found, FilesType DEF IInv, LineType
<1>2. removed' \subseteq Names
  BY <1>1 DEF Vanished
<1>3. CASE s'.disk.files = s.disk.files
  <2>1. Vanished = {}
    BY <1>3 DEF Vanished
  <2>2. removed' = removed
    BY <2>1
  <2>. QED
    BY <1>2, <1>3, <2>2 DEF Explained
<1>4. CASE s'.disk.files = Without(s.disk.files, name)
  BY <1>1, <1>4 DEF Vanished, Explained, Without
<1>. QED
  BY <1>2, <1>3, <1>4

\* A step of the user leaves the session and its upload alone.
LEMMA OutsideKeeps ==
  ASSUME IInv, session' = session, toDevice' = toDevice, toHost' = toHost, host' = host,
         cuts' = cuts, FsInv(s'), s'.ram.upload = s.ram.upload, s'.ram.next = s.ram.next,
         removed' \subseteq Names, \A n \in Names : Explained(n)
  PROVE  IInv'
<1>1. LineType' /\ OneRequest'
  BY DEF IInv, LineType, OneRequest, Heard
<1>2. SessionOK' /\ HostOK' /\ InStep'
  BY DEF IInv, SessionOK, UploadOwned, Uploading, HostOK, InStep, Same
<1>3. AnsweredIsStored'
  BY ExplainedKeeps
<1>4. LineOK'
  <2>1. ASSUME NEW f, RequestOK(f)
        PROVE  RequestOK(f)'
    BY <2>1 DEF RequestOK
  <2>2. ASSUME NEW g, AnswerOK(g), host.waiting = g.op
        PROVE  AnswerOK(g)'
    <3>1. g.op = "commit" => host.upload.name \in Names
      BY <2>2 DEF IInv, HostOK, Full
    <3>. QED
      BY <2>2, <3>1 DEF AnswerOK, Same, Explained
  <2>3. ASSUME NEW i \in 1 .. Len(toDevice')
        PROVE  RequestOK(toDevice[i])'
    <3>1. PICK f : f = toDevice[i]
      OBVIOUS
    <3>2. RequestOK(f)' /\ f = toDevice'[i]
      BY <3>1, <2>1 DEF IInv, LineOK
    <3>. QED
      BY <3>2
  <2>4. ASSUME NEW i \in 1 .. Len(toHost')
        PROVE  AnswerOK(toHost[i])'
    <3>1. PICK g : g = toHost[i]
      OBVIOUS
    <3>2. AnswerOK(g)' /\ g = toHost'[i]
      BY <3>1, <2>2 DEF IInv, LineOK, OneRequest
    <3>. QED
      BY <3>2
  <2>. QED
    BY <2>3, <2>4 DEF LineOK
<1>. QED
  BY <1>1, <1>2, <1>3, <1>4 DEF IInv

\* The app mounts, selects or removes.
LEMMA DeviceStep ==
  ASSUME IInv, DeviceMounts \/ DeviceSelects \/ DeviceRemoves
  PROVE  IInv'
<1>1. /\ session' = session /\ toDevice' = toDevice /\ toHost' = toHost /\ host' = host
      /\ cuts' = cuts
  BY DEF DeviceMounts, DeviceSelects, DeviceRemoves
<1>2. removed \subseteq Names
  BY DEF IInv, LineType
<1>3. CASE DeviceMounts
  <2>1. PICK o \in Mount(s) : s' = o.s
    BY <1>3 DEF DeviceMounts
  <2>2. FsInv(s') /\ Quiet(s, s') /\ removed' = removed
    BY <1>3, <2>1, Found, MountKeeps DEF DeviceMounts
  <2>. QED
    BY <1>1, <1>2, <2>2, OutsideKeeps DEF Quiet, Explained
<1>4. CASE DeviceSelects
  <2>1. PICK n \in Names \cup {None} : \E o \in SetStartup(s, n) : s' = o.s
    BY <1>4 DEF DeviceSelects
  <2>2. /\ FsInv(s') /\ s'.ram = s.ram /\ s'.disk.files = s.disk.files /\ removed' = removed
    BY <1>4, <2>1, Found, StartupKeeps DEF DeviceSelects
  <2>. QED
    BY <1>1, <1>2, <2>2, OutsideKeeps DEF Explained
<1>5. CASE DeviceRemoves
  <2>1. PICK n \in Names : \E o \in RemoveFile(s, n) : s' = o.s
    BY <1>5 DEF DeviceRemoves
  <2>2. /\ FsInv(s') /\ s'.ram = s.ram
        /\ s'.disk.files \in {s.disk.files, Without(s.disk.files, n)}
    BY <2>1, Found, RemoveKeeps
  <2>3. removed' \subseteq Names /\ \A m \in Names : Explained(m)
    BY <1>5, <2>2, VanishedExplained DEF DeviceRemoves
  <2>. QED
    BY <1>1, <2>2, <2>3, OutsideKeeps
<1>. QED
  BY <1>3, <1>4, <1>5

\* The disks a power cut inside a removal or a selection of the app leaves.
LEMMA DeviceDisks ==
  ASSUME IInv, DeviceCut
  PROVE  /\ FsInv(s') /\ s'.ram.upload = None /\ s.ram.upload = None
         /\ \E n \in Names : s'.disk.files \in {s.disk.files, Without(s.disk.files, n)}
<1>1. s.ram.upload = None
  BY DEF DeviceCut, Uploading
<1>2. PICK n \in Names :
        s' \in PowerCut(s, ToSet(RemoveSteps(s.disk, n)) \cup
                           IF s.disk.files[n] = None THEN {} ELSE ToSet(SelectSteps(s.disk, n)))
  BY DEF DeviceCut
<1> DEFINE D == ToSet(RemoveSteps(s.disk, n)) \cup
                IF s.disk.files[n] = None THEN {} ELSE ToSet(SelectSteps(s.disk, n))
<1>3. \A d \in ToSet(RemoveSteps(s.disk, n)) :
        Replaces(s, d) /\ d.files \in {s.disk.files, Without(s.disk.files, n)}
  BY Found, RemoveDisks
<1>4. s.disk.files[n] # None => \A d \in ToSet(SelectSteps(s.disk, n)) :
        Replaces(s, d) /\ d.files = s.disk.files
  BY Found, SelectDisks
<1>5. \A d \in D : Replaces(s, d) /\ d.files \in {s.disk.files, Without(s.disk.files, n)}
  BY <1>3, <1>4
<1> HIDE DEF D
<1>6. FsInv(s') /\ s'.disk \in D /\ s'.ram.upload = None
  BY <1>2, <1>5, Found, CutKeeps DEF D
<1>. QED
  BY <1>1, <1>5, <1>6

\* The power is cut inside a removal or a selection of the app.
LEMMA DeviceCutStep ==
  ASSUME IInv, DeviceCut
  PROVE  IInv'
<1>1. /\ cuts < MaxCuts /\ cuts' = cuts + 1 /\ removed' = removed \cup Vanished
      /\ session' = NoSession /\ toDevice' = <<>> /\ toHost' = toHost /\ host' = host
  BY DEF DeviceCut
<1>2. removed' \subseteq Names /\ \A n \in Names : Explained(n)
  BY <1>1, DeviceDisks, VanishedExplained
<1>. QED
  BY <1>1, <1>2, DeviceDisks, PowerKeeps

\* The console line formats a filesystem without an upload.
LEMMA ConsoleDisks ==
  ASSUME IInv, ConsoleFormats
  PROVE  /\ FsInv(s') /\ s'.ram.upload = None /\ s.ram.upload = None
         /\ s'.disk.files \in {s.disk.files, NoFiles}
         /\ cuts' \in 0 .. MaxCuts
<1>1. s.ram.upload = None /\ ~Uploading(s)
  BY Found DEF ConsoleFormats, NoSession, Uploading
<1>2. cuts \in 0 .. MaxCuts /\ MaxCuts \in Nat
  BY HmpyAssumption DEF IInv, LineType
<1>3. CASE (\E o \in Format(s) : s' = o.s) /\ cuts' = cuts
  BY <1>1, <1>2, <1>3, Found, FormatKeeps DEF Wiped
<1>4. CASE /\ cuts < MaxCuts /\ cuts' = cuts + 1
           /\ s' \in PowerCut(s, ToSet(FormatSteps(s.disk)))
  <2> DEFINE D == ToSet(FormatSteps(s.disk))
  <2>1. \A d \in D : Replaces(s, d) /\ d.files = NoFiles
    BY FormatDisks
  <2>2. s' \in PowerCut(s, D)
    BY <1>4
  <2> HIDE DEF D
  <2>3. FsInv(s') /\ s'.disk \in D /\ s'.ram.upload = None
    BY <2>1, <2>2, Found, CutKeeps
  <2>4. cuts' \in 0 .. MaxCuts
    BY <1>2, <1>4
  <2>. QED
    BY <1>1, <2>1, <2>3, <2>4
<1>. QED
  BY <1>3, <1>4 DEF ConsoleFormats

\* The console line formats.
LEMMA ConsoleStep ==
  ASSUME IInv, ConsoleFormats
  PROVE  IInv'
<1>1. /\ ~session.active /\ toDevice = <<>> /\ host.waiting = None
      /\ host' = [host EXCEPT !.knows = [n \in Names |-> Unknown]]
      /\ session' = session /\ toDevice' = toDevice /\ toHost' = toHost /\ removed' = removed
  BY DEF ConsoleFormats
<1>2. toHost = <<>> /\ ~Heard
  BY <1>1, NothingHeard
<1>3. /\ host' \in Hosts /\ host'.waiting = None /\ host'.upload = host.upload
      /\ host'.gone = host.gone /\ \A n \in Names : host'.knows[n] = Unknown
  <2>1. [n \in Names |-> Unknown] \in [Names -> Contents \cup {None, Unknown}]
    OBVIOUS
  <2>. QED
    BY <1>1, <2>1, Found DEF Hosts
<1>4. session = NoSession /\ session.upload_id = 0
  BY <1>1, Found DEF NoSession
<1>5. FsInv(s') /\ SessionOK'
  BY <1>1, <1>4, ConsoleDisks DEF IInv, SessionOK, UploadOwned, Uploading
<1>6. LineType'
  BY <1>1, <1>3, ConsoleDisks DEF IInv, LineType
<1>7. OneRequest' /\ LineOK'
  <2>1. \A i \in 1 .. Len(<<>>) : FALSE
    BY NoElements
  <2>. QED
    BY <1>1, <1>2, <2>1 DEF OneRequest, LineOK, Heard
<1>8. HostOK' /\ InStep'
  BY <1>1, <1>3, <1>4, HmpyAssumption DEF IInv, HostOK, InStep, Same, Ops
<1>9. AnsweredIsStored'
  BY <1>3 DEF AnsweredIsStored
<1>. QED
  BY <1>5, <1>6, <1>7, <1>8, <1>9 DEF IInv

-----------------------------------------------------------------------------
(* The line loses a frame, the host stops waiting                          *)

\* The line loses a frame.
LEMMA LoseStep ==
  ASSUME IInv, LoseFrame
  PROVE  IInv'
<1>1. s' = s /\ session' = session /\ host' = host /\ cuts' = cuts /\ removed' = removed
  BY DEF LoseFrame
<1>2. /\ toDevice \in Seq(Frames) /\ toHost \in Seq(Answers) /\ LineMax \in Nat
      /\ Len(toDevice) <= LineMax /\ Len(toHost) <= LineMax
  BY HmpyAssumption DEF IInv, LineType
<1>3. /\ FsInv(s') /\ SessionOK' /\ HostOK' /\ InStep' /\ AnsweredIsStored'
      /\ (Heard' <=> Heard)
  BY <1>1 DEF IInv, SessionOK, UploadOwned, HostOK, InStep, Same, AnsweredIsStored, Heard
<1>4. ASSUME NEW f, RequestOK(f)
      PROVE  RequestOK(f)'
  BY <1>1, <1>4 DEF RequestOK
<1>5. ASSUME NEW g, AnswerOK(g)
      PROVE  AnswerOK(g)'
  BY <1>1, <1>5 DEF AnswerOK, Same
<1>6. CASE toDevice # <<>> /\ toDevice' = Tail(toDevice) /\ toHost' = toHost
  <2>1. /\ toDevice' \in Seq(Frames) /\ Len(toDevice') = Len(toDevice) - 1 /\ Len(toDevice) \in Nat
        /\ \A i \in 1 .. Len(toDevice') :
             i + 1 \in 1 .. Len(toDevice) /\ toDevice'[i] = toDevice[i + 1]
    BY <1>2, <1>6, TailOf
  <2>2. toHost = <<>> /\ ~Heard
    BY <1>6, FirstFrame
  <2>3. LineType'
    BY <1>1, <1>2, <1>6, <2>1 DEF IInv, LineType
  <2>4. ASSUME NEW i \in 1 .. Len(toDevice')
        PROVE  /\ ~toDevice'[i].stale =>
                    i = Len(toDevice') /\ host'.waiting = toDevice'[i].op /\ ~Heard'
               /\ RequestOK(toDevice[i])'
    <3>1. i + 1 \in 1 .. Len(toDevice) /\ toDevice'[i] = toDevice[i + 1]
      BY <2>1
    <3>2. /\ ~toDevice[i + 1].stale => i + 1 = Len(toDevice) /\ host.waiting = toDevice[i + 1].op
          /\ RequestOK(toDevice[i + 1])
      BY <3>1 DEF IInv, OneRequest, LineOK
    <3>3. PICK g : g = toDevice[i + 1]
      OBVIOUS
    <3>4. RequestOK(g)'
      BY <3>2, <3>3, <1>4
    <3>5. g = toDevice'[i]
      BY <3>1, <3>3
    <3>. QED
      BY <3>1, <3>2, <3>4, <3>5, <2>1, <2>2, <1>1, <1>3
  <2>5. \A i \in 1 .. Len(toHost') : FALSE
    BY <1>6, <2>2, NoElements
  <2>. QED
    BY <1>3, <1>6, <2>2, <2>3, <2>4, <2>5 DEF IInv, OneRequest, LineOK
<1>7. CASE toHost # <<>> /\ toHost' = Tail(toHost) /\ toDevice' = toDevice
  <2>1. /\ toHost' \in Seq(Answers) /\ Len(toHost') = Len(toHost) - 1 /\ Len(toHost) \in Nat
        /\ \A i \in 1 .. Len(toHost') : i + 1 \in 1 .. Len(toHost) /\ toHost'[i] = toHost[i + 1]
    BY <1>2, <1>7, TailOf
  <2>2. toDevice = <<>>
    BY <1>7 DEF IInv, OneRequest
  <2>3. LineType'
    BY <1>1, <1>2, <1>7, <2>1 DEF IInv, LineType
  <2>4. ASSUME NEW i \in 1 .. Len(toHost')
        PROVE  /\ host'.waiting = toHost'[i].op
               /\ i < Len(toHost') \/ Heard' => toHost'[i].op = "read" /\ toHost'[i].res = "more"
               /\ AnswerOK(toHost[i])'
    <3>1. i + 1 \in 1 .. Len(toHost) /\ toHost'[i] = toHost[i + 1]
      BY <2>1
    <3>2. /\ host.waiting = toHost[i + 1].op
          /\ i + 1 < Len(toHost) \/ Heard => toHost[i + 1].op = "read" /\ toHost[i + 1].res = "more"
          /\ AnswerOK(toHost[i + 1])
      BY <3>1 DEF IInv, OneRequest, LineOK
    <3>3. PICK g : g = toHost[i + 1]
      OBVIOUS
    <3>4. AnswerOK(g)'
      BY <3>2, <3>3, <1>5
    <3>5. g = toHost'[i]
      BY <3>1, <3>3
    <3>. QED
      BY <3>1, <3>2, <3>4, <3>5, <2>1, <1>1, <1>3
  <2>5. \A i \in 1 .. Len(toDevice') : FALSE
    BY <1>7, <2>2, NoElements
  <2>6. Heard' => host'.waiting = "read" /\ toDevice' = <<>>
    BY <1>1, <1>3, <1>7 DEF IInv, OneRequest
  <2>. QED
    BY <1>3, <1>7, <2>2, <2>3, <2>4, <2>5, <2>6 DEF IInv, OneRequest, LineOK
<1>. QED
  BY <1>6, <1>7 DEF LoseFrame

\* An answer that goes unheard only moves the read.
LEMMA UnheardMoves ==
  ASSUME IInv, session' = Unheard(session), s' = s, cuts' = cuts, removed' = removed
  PROVE  ReadMoves /\ ~Heard'
<1>1. session \in Sessions /\ (~session.active => session.read = None)
      /\ (session.read # None => session.read.offset < session.read.size)
  BY Found DEF NoSession
<1>2. CASE session.read = None
  BY <1>1, <1>2 DEF Unheard, ReadMoves, Heard
<1>3. CASE session.read # None
  <2> DEFINE r2 == [session.read EXCEPT !.stale = TRUE]
  <2>1. session.read \in Reads
    BY <1>1, <1>3 DEF Sessions
  <2>2. r2 \in Reads /\ r2.offset = session.read.offset /\ r2.size = session.read.size /\ r2.stale
    BY <2>1 DEF Reads
  <2>3. session' = [session EXCEPT !.read = r2]
    BY <1>1, <1>3 DEF Unheard, Sessions
  <2> HIDE DEF r2
  <2>4. /\ session' \in Sessions /\ session'.read = r2 /\ session'.active = session.active
        /\ session'.upload_id = session.upload_id /\ session'.last = session.last
    BY <2>2, <2>3, <1>1 DEF Sessions
  <2>. QED
    BY <2>2, <2>4, <1>1, <1>3 DEF ReadMoves, Heard
<1>. QED
  BY <1>2, <1>3

\* The host no longer waits: what is on the line is stale.
LEMMA SilenceKeeps ==
  ASSUME IInv, session' = Unheard(session), s' = s, cuts' = cuts, removed' = removed,
         toDevice' = Aged(toDevice), toHost' = <<>>,
         host' \in Hosts, host'.waiting = None,
         HostOK', InStep', AnsweredIsStored',
         \A f, g \in Frames : RequestOK(f) /\ Older(f, g) => RequestOK(g)'
  PROVE  IInv'
<1>1. ReadMoves /\ ~Heard' /\ FsInv(s') /\ SessionOK'
  BY UnheardMoves, ReadKeeps
<1>2. /\ toDevice \in Seq(Frames) /\ Len(toDevice) <= LineMax
      /\ Len(toDevice) \in Nat /\ LineMax \in Nat
  BY LenProperties, HmpyAssumption DEF IInv, LineType
<1>3. DOMAIN toDevice = 1 .. Len(toDevice)
  BY <1>2, LenProperties
<1>4. toDevice' = [i \in 1 .. Len(toDevice) |-> [toDevice[i] EXCEPT !.stale = TRUE]]
  BY <1>3 DEF Aged
<1>5. ASSUME NEW i \in 1 .. Len(toDevice)
      PROVE  toDevice'[i] \in Frames /\ Older(toDevice[i], toDevice'[i]) /\ toDevice[i] \in Frames
  <2>1. toDevice[i] \in Frames
    BY <1>2, ElementOfSeq
  <2>2. toDevice'[i] = [toDevice[i] EXCEPT !.stale = TRUE]
    BY <1>4
  <2>. QED
    BY <2>1, <2>2, AgedFrame
<1>6. toDevice' \in Seq(Frames) /\ Len(toDevice') = Len(toDevice)
  <2>1. toDevice' \in [1 .. Len(toDevice) -> Frames]
    BY <1>4, <1>5
  <2>. QED
    BY <2>1, <1>2, SeqDef, LenProperties, SMT
<1>7. LineType'
  BY <1>1, <1>2, <1>6, NoElements DEF IInv, LineType, ReadMoves
<1>8. OneRequest'
  <2>1. \A i \in 1 .. Len(toDevice') : toDevice'[i].stale
    BY <1>5, <1>6 DEF Older
  <2>2. \A i \in 1 .. Len(toHost') : FALSE
    BY NoElements
  <2>. QED
    BY <2>1, <2>2, <1>1 DEF OneRequest
<1>9. LineOK'
  <2>1. ASSUME NEW i \in 1 .. Len(toDevice')
        PROVE  RequestOK(toDevice[i])'
    <3>1. PICK f \in Frames : f = toDevice[i]
      BY <1>5, <1>6
    <3>2. PICK g \in Frames : g = [f EXCEPT !.stale = TRUE]
      BY AgedFrame
    <3>3. g = toDevice'[i] /\ Older(f, g)
      BY <3>1, <3>2, <1>4, <1>6, AgedFrame
    <3>4. RequestOK(f)
      BY <3>1, <1>6 DEF IInv, LineOK
    <3>5. RequestOK(g)'
      BY <3>3, <3>4
    <3>. QED
      BY <3>3, <3>5
  <2>2. \A i \in 1 .. Len(toHost') : FALSE
    BY NoElements
  <2>. QED
    BY <2>1, <2>2 DEF LineOK
<1>. QED
  BY <1>1, <1>7, <1>8, <1>9 DEF IInv

\* The host stops waiting for an answer.
LEMMA TimeoutStep ==
  ASSUME IInv, Timeout
  PROVE  IInv'
<1>1. /\ session' = Unheard(session) /\ s' = s /\ cuts' = cuts /\ removed' = removed
      /\ toDevice' = Aged(toDevice) /\ toHost' = <<>>
      /\ host' = [host EXCEPT !.waiting = None, !.upload = GaveUp(@)]
  BY DEF Timeout
<1>2. /\ host' \in Hosts /\ host'.waiting = None /\ host'.knows = host.knows
      /\ host'.gone = host.gone
      /\ host'.upload = IF host.upload.id = 0 THEN NoUpload ELSE host.upload
  BY <1>1, Found, NoUploadType DEF Hosts, GaveUp
<1>3. ReadMoves
  BY <1>1, UnheardMoves
<1>4. HostOK'
  BY <1>2, <1>3, NoUploadType, Found, HmpyAssumption DEF IInv, HostOK, ReadMoves, Ops
<1>5. InStep'
  BY <1>2, <1>3, NoUploadType DEF IInv, InStep, Same, ReadMoves
<1>6. AnsweredIsStored'
  BY <1>1, <1>2 DEF IInv, AnsweredIsStored
<1>7. ASSUME NEW f \in Frames, NEW g \in Frames, RequestOK(f), Older(f, g)
      PROVE  RequestOK(g)'
  <2>1. f.op \in {"chunk", "commit"} => g.id = f.id /\ f.id # 0
    BY <1>7, FrameFields, UserFsAssumption DEF Older, Ids
  <2>2. host'.upload.id = g.id /\ g.id # 0 => host'.upload = host.upload
    BY <1>2, NoUploadType
  <2>. QED
    BY <1>1, <1>2, <1>3, <1>7, <2>1, <2>2 DEF RequestOK, Older, ReadMoves
<1>. QED
  BY <1>1, <1>2, <1>4, <1>5, <1>6, <1>7, SilenceKeeps

\* The host leaves the session.
LEMMA LeaveStep ==
  ASSUME IInv, Leave
  PROVE  IInv'
<1>1. /\ session' = Unheard(session) /\ s' = s /\ cuts' = cuts /\ removed' = removed
      /\ toDevice' = Aged(toDevice) /\ toHost' = <<>>
      /\ host' = [Newcomer EXCEPT !.gone = TRUE]
  BY DEF Leave
<1>2. /\ host' \in Hosts /\ host'.waiting = None
      /\ host'.upload = NoUpload /\ \A n \in Names : host'.knows[n] = Unknown
  BY <1>1, NoUploadType DEF Hosts, Newcomer
<1>3. ReadMoves
  BY <1>1, UnheardMoves
<1>4. HostOK'
  BY <1>2, <1>3, NoUploadType, Found, HmpyAssumption DEF HostOK, ReadMoves, Ops
<1>5. InStep' /\ AnsweredIsStored'
  BY <1>2, NoUploadType DEF InStep, AnsweredIsStored
<1>6. ASSUME NEW f \in Frames, NEW g \in Frames, RequestOK(f), Older(f, g)
      PROVE  RequestOK(g)'
  <2>1. /\ f.op \in {"chunk", "commit"} => g.id = f.id /\ f.id # 0
        /\ f.op = "delete" => g.name \in Names
    BY <1>6, FrameFields, UserFsAssumption DEF Older, Ids
  <2>2. f.op = "commit" /\ f.id = session.upload_id => s.ram.upload.target \in Names
    BY <2>1, Found, UploadFields DEF Uploading
  <2>. QED
    BY <1>1, <1>2, <1>3, <1>6, <2>1, <2>2, NoUploadType DEF RequestOK, Older, ReadMoves
<1>. QED
  BY <1>1, <1>2, <1>4, <1>5, <1>6, SilenceKeeps

\* What a host takes a file to hold, it has been told.
LEMMA HostFields ==
  ASSUME IInv
  PROVE  /\ host.upload \in HostUploads /\ host.upload.id \in 0 .. MaxUploads
         /\ host.upload.acked \in Nat /\ host.knows \in [Names -> Contents \cup {None, Unknown}]
         /\ host.upload.id # 0 \/ host.waiting = "begin" =>
              /\ host.upload.name \in Names /\ host.upload.content \in Contents
              /\ Len(host.upload.content) \in Nat \ {0} /\ host.upload.content \in Seq(Chunks)
              /\ host.upload.acked <= Len(host.upload.content)
<1>1. host.upload \in HostUploads /\ host.knows \in [Names -> Contents \cup {None, Unknown}]
  BY Found DEF Hosts
<1>2. host.upload.id # 0 \/ host.waiting = "begin" => Full(host.upload)
  BY DEF IInv, HostOK
<1>. QED
  BY <1>1, <1>2, ContentsAreSequences DEF Full, HostUploads

\* The line is empty once the host has heard its answer.
LEMMA AnswerKeeps ==
  ASSUME IInv, s' = s, session' = session, cuts' = cuts, toDevice' = <<>>, toHost' = <<>>,
         removed' = removed, ~Heard, host' \in Hosts, HostOK', InStep', AnsweredIsStored'
  PROVE  IInv'
<1>1. \A i \in 1 .. Len(<<>>) : FALSE
  BY NoElements
<1>2. FsInv(s') /\ SessionOK' /\ ~Heard'
  BY DEF IInv, SessionOK, UploadOwned, Heard
<1>3. LineType'
  BY NoElements, HmpyAssumption DEF IInv, LineType
<1>4. OneRequest' /\ LineOK'
  BY <1>1, <1>2 DEF OneRequest, LineOK
<1>. QED
  BY <1>2, <1>3, <1>4 DEF IInv

\* The host hears an answer.
LEMMA HearStep ==
  ASSUME IInv, Hear
  PROVE  IInv'
<1>1. /\ ~host.gone /\ toHost # <<>> /\ toHost' = Tail(toHost)
      /\ s' = s /\ session' = session /\ toDevice' = toDevice /\ cuts' = cuts
      /\ removed' = removed
  BY DEF Hear
<1>2. /\ toHost \in Seq(Answers) /\ Head(toHost) = toHost[1] /\ Head(toHost) \in Answers
      /\ Len(toHost) \in Nat \ {0} /\ Len(toHost') = Len(toHost) - 1
      /\ toHost' \in Seq(Answers)
  BY <1>1, TailOf DEF IInv, LineType
<1>3. PICK f \in Answers : f = Head(toHost)
  BY <1>2
<1>4. 1 \in 1 .. Len(toHost)
  BY <1>2
<1>5. /\ host.waiting = f.op /\ AnswerOK(f) /\ toDevice = <<>>
      /\ 1 < Len(toHost) \/ Heard => f.op = "read" /\ f.res = "more"
  BY <1>1, <1>2, <1>3, <1>4 DEF IInv, OneRequest, LineOK
<1>6. CASE f.op = "read" /\ f.res = "more"
  <2>1. host' = host
    BY <1>3, <1>6 DEF Hear, Learned
  <2>2. LoseFrame
    BY <1>1, <2>1 DEF LoseFrame
  <2>. QED
    BY <2>2, LoseStep
<1>7. CASE ~(f.op = "read" /\ f.res = "more")
  <2>1. toHost' = <<>> /\ ~Heard
    BY <1>2, <1>5, <1>7, EmptySeq
  <2> DEFINE u == host.upload
             done == [host EXCEPT !.waiting = None]
  <2>2. host' = CASE f.op = "begin" /\ f.res = "ok" -> [done EXCEPT !.upload.id = f.value]
                  [] f.op = "chunk" /\ f.res = "ok" -> [done EXCEPT !.upload.acked = f.value]
                  [] f.op = "commit" /\ f.res = "ok" ->
                       [done EXCEPT !.upload = NoUpload, !.knows[u.name] = u.content]
                  [] OTHER -> [done EXCEPT !.upload = GaveUp(@)]
    BY <1>3, <1>7 DEF Hear, Learned
  <2>3. /\ done \in Hosts /\ done.waiting = None /\ done.gone = host.gone
        /\ done.upload = u /\ done.knows = host.knows
    BY Found DEF Hosts
  <2>4. CASE f.op = "begin" /\ f.res = "ok"
    <3> DEFINE u2 == [u EXCEPT !.id = f.value]
    <3>1. f.value \in Ids /\ (session.active => f.value <= s.ram.next)
          /\ Same(f.value, u) /\ (session.upload_id = f.value => s.ram.upload.offset = 0)
      BY <1>5, <2>4 DEF AnswerOK
    <3>2. u.id = 0 /\ Full(u) /\ u.acked = 0
      BY <1>5, <2>4 DEF IInv, HostOK
    <3>3. f.value \in 0 .. MaxUploads /\ f.value # 0
      BY <3>1, UserFsAssumption DEF Ids
    <3>4. /\ u2 \in HostUploads /\ u2.id = f.value /\ u2.name = u.name
          /\ u2.content = u.content /\ u2.acked = 0
      BY <3>2, <3>3, HostFields DEF HostUploads
    <3>5. host' = [done EXCEPT !.upload = u2]
      BY <2>2, <2>3, <2>4 DEF Hosts
    <3> HIDE DEF u2, done
    <3>6. /\ host' \in Hosts /\ host'.waiting = None /\ host'.gone = host.gone
          /\ host'.upload = u2 /\ host'.knows = host.knows
      BY <2>3, <3>4, <3>5 DEF Hosts
    <3>7. HostOK'
      BY <1>1, <3>1, <3>2, <3>3, <3>4, <3>6, HmpyAssumption DEF IInv, HostOK, Full, Ops
    <3>8. InStep'
      BY <1>1, <3>1, <3>4, <3>6 DEF InStep, Same
    <3>9. AnsweredIsStored'
      BY <1>1, <3>6 DEF IInv, AnsweredIsStored
    <3>. QED
      BY <1>1, <1>5, <2>1, <3>6, <3>7, <3>8, <3>9, AnswerKeeps
  <2>5. CASE f.op = "chunk" /\ f.res = "ok"
    <3> DEFINE u2 == [u EXCEPT !.acked = f.value]
    <3>1. f.value = u.acked + 1 /\ (session.upload_id = u.id => s.ram.upload.offset = u.acked + 1)
      BY <1>5, <2>5 DEF AnswerOK
    <3>2. u.id # 0 /\ Full(u) /\ u.acked < Len(u.content)
      BY <1>5, <2>5 DEF IInv, HostOK
    <3>3. u.acked + 1 \in Nat /\ u.acked + 1 <= Len(u.content)
      BY <3>2, HostFields
    <3>4. /\ u2 \in HostUploads /\ u2.id = u.id /\ u2.name = u.name
          /\ u2.content = u.content /\ u2.acked = u.acked + 1
      BY <3>1, <3>3, HostFields DEF HostUploads
    <3>5. host' = [done EXCEPT !.upload = u2]
      BY <2>2, <2>3, <2>5 DEF Hosts
    <3> HIDE DEF u2, done
    <3>6. /\ host' \in Hosts /\ host'.waiting = None /\ host'.gone = host.gone
          /\ host'.upload = u2 /\ host'.knows = host.knows
      BY <2>3, <3>4, <3>5 DEF Hosts
    <3>7. HostOK'
      BY <1>1, <3>2, <3>3, <3>4, <3>6, HmpyAssumption DEF IInv, HostOK, Full, Ops
    <3>8. InStep'
      BY <1>1, <3>1, <3>2, <3>4, <3>6 DEF IInv, InStep, Same
    <3>9. AnsweredIsStored'
      BY <1>1, <3>6 DEF IInv, AnsweredIsStored
    <3>. QED
      BY <1>1, <1>5, <2>1, <3>6, <3>7, <3>8, <3>9, AnswerKeeps
  <2>6. CASE f.op = "commit" /\ f.res = "ok"
    <3> DEFINE k == [host.knows EXCEPT ![u.name] = u.content]
    <3>1. s.disk.files[u.name] = IF u.name \in removed THEN None ELSE u.content
      BY <1>5, <2>6 DEF AnswerOK
    <3>2. u.id # 0
      BY <1>5, <2>6 DEF IInv, HostOK
    <3>3. /\ k \in [Names -> Contents \cup {None, Unknown}]
          /\ \A n \in Names : k[n] = IF n = u.name THEN u.content ELSE host.knows[n]
      BY <3>2, HostFields
    <3>4. host' = [done EXCEPT !.upload = NoUpload, !.knows = k]
      BY <2>2, <2>3, <2>6 DEF Hosts
    <3> HIDE DEF k, done
    <3>5. /\ host' \in Hosts /\ host'.waiting = None /\ host'.gone = host.gone
          /\ host'.upload = NoUpload /\ host'.knows = k
      BY <2>3, <3>3, <3>4, NoUploadType DEF Hosts
    <3>6. HostOK'
      BY <1>1, <3>5, NoUploadType, Found, HmpyAssumption DEF HostOK, Ops
    <3>7. InStep'
      BY <3>5, NoUploadType DEF InStep
    <3>8. AnsweredIsStored'
      BY <1>1, <3>1, <3>3, <3>5 DEF IInv, AnsweredIsStored
    <3>. QED
      BY <1>1, <1>5, <2>1, <3>5, <3>6, <3>7, <3>8, AnswerKeeps
  <2>7. CASE ~(f.op \in {"begin", "chunk", "commit"} /\ f.res = "ok")
    <3>1. host' = [done EXCEPT !.upload = GaveUp(@)]
      BY <2>2, <2>7
    <3>2. /\ host' \in Hosts /\ host'.waiting = None /\ host'.knows = host.knows
          /\ host'.gone = host.gone
          /\ host'.upload = IF u.id = 0 THEN NoUpload ELSE u
      BY <2>3, <3>1, NoUploadType DEF Hosts, GaveUp
    <3>3. HostOK'
      BY <1>1, <3>2, NoUploadType, Found, HmpyAssumption DEF IInv, HostOK, Ops
    <3>4. InStep'
      BY <1>1, <3>2, NoUploadType DEF IInv, InStep, Same
    <3>5. AnsweredIsStored'
      BY <1>1, <3>2 DEF IInv, AnsweredIsStored
    <3>. QED
      BY <1>1, <1>5, <2>1, <3>2, <3>3, <3>4, <3>5, AnswerKeeps
  <2>. QED
    BY <2>4, <2>5, <2>6, <2>7
<1>. QED
  BY <1>6, <1>7

-----------------------------------------------------------------------------
(* The host asks                                                           *)

\* A request forgets what the host took the files to hold, or its upload.
Forgets(h) ==
  /\ h \in Hosts /\ h.gone = host.gone
  /\ h.upload = host.upload \/ h.upload.id = 0
  /\ \A n \in Names : h.knows[n] \in {host.knows[n], Unknown}

\* A new request of the host, justified when it is sent, keeps the invariant.
LEMMA RequestKeeps ==
  ASSUME IInv, NEW g \in Frames, ~g.stale, NEW h, Forgets(h), Request(g, h),
         HostOK', RequestOK(g)'
  PROVE  IInv'
<1>1. /\ ~host.gone /\ host.waiting = None /\ Len(toDevice) < LineMax
      /\ toDevice' = Append(toDevice, g) /\ host' = [h EXCEPT !.waiting = g.op]
      /\ s' = s /\ session' = session /\ toHost' = toHost /\ cuts' = cuts
      /\ removed' = removed
  BY DEF Request
<1>2. /\ host' \in Hosts /\ host'.waiting = g.op /\ host'.upload = h.upload
      /\ host'.knows = h.knows /\ g.op \in Ops
  BY <1>1, FrameFields DEF Hosts, Forgets
<1>3. /\ toHost = <<>> /\ ~Heard /\ \A i \in 1 .. Len(toDevice) : toDevice[i].stale
  BY <1>1, NothingHeard
<1>4. /\ toDevice \in Seq(Frames) /\ Len(toDevice) \in Nat /\ LineMax \in Nat
      /\ toDevice' \in Seq(Frames) /\ Len(toDevice') = Len(toDevice) + 1
      /\ \A i \in 1 .. Len(toDevice) : toDevice'[i] = toDevice[i]
      /\ toDevice'[Len(toDevice')] = g
  BY <1>1, AppendOf, HmpyAssumption DEF IInv, LineType
<1>5. FsInv(s') /\ SessionOK' /\ ~Heard'
  BY <1>1, <1>3 DEF IInv, SessionOK, UploadOwned, Heard
<1>6. LineType'
  BY <1>1, <1>2, <1>4 DEF IInv, LineType
<1>7. \A i \in 1 .. Len(toHost') : FALSE
  BY <1>1, <1>3, NoElements
<1>8. OneRequest'
  <2>1. ASSUME NEW i \in 1 .. Len(toDevice'), ~toDevice'[i].stale
        PROVE  i = Len(toDevice') /\ host'.waiting = toDevice'[i].op
    BY <1>2, <1>3, <1>4, <2>1
  <2>. QED
    BY <2>1, <1>1, <1>3, <1>5, <1>7 DEF OneRequest
<1>9. InStep'
  BY <1>1, <1>2 DEF IInv, InStep, Same, Forgets
<1>10. AnsweredIsStored'
  BY <1>1, <1>2 DEF IInv, AnsweredIsStored, Forgets
<1>11. LineOK'
  <2>1. ASSUME NEW i \in 1 .. Len(toDevice')
        PROVE  RequestOK(toDevice[i])'
    <3>1. CASE i = Len(toDevice')
      BY <3>1, <1>4
    <3>2. CASE i # Len(toDevice')
      <4>1. i \in 1 .. Len(toDevice)
        BY <3>2, <1>4
      <4>2. toDevice[i] \in Frames /\ toDevice[i].stale /\ RequestOK(toDevice[i])
        BY <4>1, <1>3, <1>4, ElementOfSeq DEF IInv, LineOK
      <4>3. PICK f \in Frames : f = toDevice[i]
        BY <4>2
      <4>4. /\ f.op \in {"chunk", "commit"} => f.id # 0
            /\ f.op = "delete" => f.name \in Names
        BY FrameFields, UserFsAssumption DEF Ids
      <4>5. f.op = "commit" /\ f.id = session.upload_id => s.ram.upload.target \in Names
        BY <4>4, Found, UploadFields DEF Uploading
      <4>6. RequestOK(f)'
        BY <4>2, <4>3, <4>4, <4>5, <1>1, <1>2 DEF RequestOK, Forgets
      <4>7. f = toDevice'[i]
        BY <4>1, <4>3, <1>4
      <4>. QED
        BY <4>6, <4>7
    <3>. QED
      BY <3>1, <3>2
  <2>. QED
    BY <2>1, <1>7 DEF LineOK
<1>. QED
  BY <1>5, <1>6, <1>8, <1>9, <1>10, <1>11 DEF IInv

\* The host that asked: h with the request it now waits for.
LEMMA Asked ==
  ASSUME IInv, NEW g \in Frames, NEW h, Forgets(h), Request(g, h)
  PROVE  /\ host'.waiting = g.op /\ host'.upload = h.upload /\ host'.knows = h.knows
         /\ ~host'.gone /\ s' = s /\ session' = session
<1>. QED
  BY DEF Request, Forgets, Hosts

\* An upload the host keeps or forgets is still one it can speak of.
LEMMA KeptUpload ==
  ASSUME IInv, NEW g \in Frames, NEW h, Forgets(h), Request(g, h),
         h.upload = host.upload \/ h.upload = NoUpload,
         g.op # "begin",
         g.op \in {"chunk", "commit"} => h.upload.id # 0,
         g.op = "chunk" => h.upload.acked < Len(h.upload.content)
  PROVE  HostOK'
<1>1. /\ host'.waiting = g.op /\ host'.upload = h.upload
      /\ ~host'.gone /\ s' = s /\ session' = session
  BY Asked
<1>2. s.ram.next \in Nat
  BY Found
<1>. QED
  BY <1>1, <1>2, NoUploadType DEF IInv, HostOK

\* The host may forget what it knows.
LEMMA HostForgets ==
  ASSUME IInv
  PROVE  /\ Forgets(host)
         /\ Forgets([host EXCEPT !.upload = NoUpload])
         /\ [host EXCEPT !.upload = NoUpload].upload = NoUpload
         /\ \A n \in Names : /\ Forgets([host EXCEPT !.knows[n] = Unknown])
                             /\ [host EXCEPT !.knows[n] = Unknown].upload = host.upload
                             /\ [host EXCEPT !.knows[n] = Unknown].knows[n] = Unknown
         /\ Forgets([host EXCEPT !.knows = [n \in Names |-> Unknown]])
         /\ [host EXCEPT !.knows = [n \in Names |-> Unknown]].upload = host.upload
         /\ \A n \in Names : [host EXCEPT !.knows = [m \in Names |-> Unknown]].knows[n] = Unknown
<1>1. host \in Hosts /\ host.knows \in [Names -> Contents \cup {None, Unknown}]
  BY Found DEF Hosts
<1>2. Forgets(host)
  BY <1>1 DEF Forgets
<1>3. /\ Forgets([host EXCEPT !.upload = NoUpload])
      /\ [host EXCEPT !.upload = NoUpload].upload = NoUpload
  BY <1>1, NoUploadType DEF Forgets, Hosts
<1>4. ASSUME NEW k \in [Names -> Contents \cup {None, Unknown}],
             \A n \in Names : k[n] \in {host.knows[n], Unknown}
      PROVE  /\ Forgets([host EXCEPT !.knows = k])
             /\ [host EXCEPT !.knows = k].upload = host.upload
             /\ [host EXCEPT !.knows = k].knows = k
  BY <1>1, <1>4 DEF Forgets, Hosts
<1>5. ASSUME NEW n \in Names
      PROVE  /\ Forgets([host EXCEPT !.knows[n] = Unknown])
             /\ [host EXCEPT !.knows[n] = Unknown].upload = host.upload
             /\ [host EXCEPT !.knows[n] = Unknown].knows[n] = Unknown
  <2>1. PICK k : k = [host.knows EXCEPT ![n] = Unknown]
    OBVIOUS
  <2>2. /\ k \in [Names -> Contents \cup {None, Unknown}] /\ k[n] = Unknown
        /\ \A m \in Names : k[m] \in {host.knows[m], Unknown}
    BY <2>1, <1>1
  <2>3. [host EXCEPT !.knows[n] = Unknown] = [host EXCEPT !.knows = k]
    BY <2>1, <1>1 DEF Hosts
  <2>. QED
    BY <2>2, <2>3, <1>4
<1>6. /\ Forgets([host EXCEPT !.knows = [n \in Names |-> Unknown]])
      /\ [host EXCEPT !.knows = [n \in Names |-> Unknown]].upload = host.upload
      /\ [host EXCEPT !.knows = [n \in Names |-> Unknown]].knows = [n \in Names |-> Unknown]
  <2>1. /\ [n \in Names |-> Unknown] \in [Names -> Contents \cup {None, Unknown}]
        /\ \A n \in Names : [m \in Names |-> Unknown][n] \in {host.knows[n], Unknown}
    OBVIOUS
  <2>. QED
    BY <2>1, <1>4
<1>7. \A n \in Names : [host EXCEPT !.knows = [m \in Names |-> Unknown]].knows[n] = Unknown
  BY <1>6
<1>. QED
  BY <1>2, <1>3, <1>5, <1>6, <1>7

\* The host asks to begin an upload.
LEMMA AskBeginStep ==
  ASSUME IInv, AskBegin
  PROVE  IInv'
<1>1. PICK n \in Names, c \in Contents :
        /\ host.upload.id = 0
        /\ Request([op |-> "begin", name |-> n, content |-> c, stale |-> FALSE],
                   [host EXCEPT !.upload = [NoUpload EXCEPT !.name = n, !.content = c]])
  BY DEF AskBegin
<1>2. PICK g : g = [op |-> "begin", name |-> n, content |-> c, stale |-> FALSE]
  OBVIOUS
<1>3. g \in Frames /\ g.op = "begin" /\ g.name = n /\ g.content = c /\ ~g.stale
  BY <1>2 DEF Frames
<1>4. PICK u : u = [NoUpload EXCEPT !.name = n, !.content = c]
  OBVIOUS
<1>5. u \in HostUploads /\ u.id = 0 /\ u.acked = 0 /\ u.name = n /\ u.content = c
  <2>1. 0 \in 0 .. MaxUploads
    BY UserFsAssumption
  <2>. QED
    BY <1>4, <2>1 DEF NoUpload, HostUploads
<1>6. PICK h : h = [host EXCEPT !.upload = u]
  OBVIOUS
<1>7. Forgets(h) /\ h.upload = u
  BY <1>5, <1>6, Found DEF Forgets, Hosts
<1>8. Request(g, h)
  BY <1>1, <1>2, <1>4, <1>6
<1>9. /\ host'.waiting = "begin" /\ host'.upload = u /\ ~host'.gone
      /\ s' = s /\ session' = session
  BY <1>3, <1>7, <1>8, Asked
<1>10. HostOK'
  BY <1>5, <1>9, Found, ContentsAreSequences DEF HostOK, Full
<1>11. RequestOK(g)'
  BY <1>3, <1>5, <1>9 DEF RequestOK
<1>. QED
  BY <1>3, <1>7, <1>8, <1>10, <1>11, RequestKeeps

\* The host sends a chunk, again if need be.
LEMMA AskChunkStep ==
  ASSUME IInv, AskChunk
  PROVE  IInv'
<1> DEFINE u == host.upload
<1>1. /\ u.id # 0 /\ u.acked < Len(u.content)
      /\ Request([op |-> "chunk", id |-> u.id, offset |-> u.acked,
                  data |-> u.content[u.acked + 1], stale |-> FALSE], host)
  BY DEF AskChunk
<1>2. /\ u.id \in Ids /\ u.acked \in Nat /\ u.content[u.acked + 1] \in Chunks
  <2>1. u.content \in Seq(Chunks) /\ Len(u.content) \in Nat /\ u.acked \in Nat
    BY <1>1, HostFields
  <2>2. u.acked + 1 \in 1 .. Len(u.content)
    BY <1>1, <2>1
  <2>3. u.content[u.acked + 1] \in Chunks
    BY <2>1, <2>2, ElementOfSeq
  <2>. QED
    BY <1>1, <2>1, <2>3, HostFields, UserFsAssumption DEF Ids
<1>3. PICK g : g = [op |-> "chunk", id |-> u.id, offset |-> u.acked,
                    data |-> u.content[u.acked + 1], stale |-> FALSE]
  OBVIOUS
<1>4. /\ g \in Frames /\ g.op = "chunk" /\ ~g.stale
      /\ g.id = u.id /\ g.offset = u.acked /\ g.data = u.content[u.acked + 1]
  BY <1>2, <1>3 DEF Frames
<1>5. Request(g, host) /\ Forgets(host)
  BY <1>1, <1>3, HostForgets
<1>6. host'.upload = u /\ s' = s /\ session' = session
  BY <1>4, <1>5, Asked
<1>7. HostOK'
  BY <1>1, <1>4, <1>5, KeptUpload
<1>8. session.active => u.id <= s.ram.next
  BY DEF IInv, HostOK
<1>9. RequestOK(g)'
  BY <1>1, <1>4, <1>6, <1>8 DEF RequestOK
<1>. QED
  BY <1>4, <1>5, <1>7, <1>9, RequestKeeps

\* The host asks to commit.
LEMMA AskCommitStep ==
  ASSUME IInv, AskCommit
  PROVE  IInv'
<1> DEFINE u == host.upload
           h == [host EXCEPT !.knows[u.name] = Unknown]
<1>1. u.id # 0 /\ Request([op |-> "commit", id |-> u.id, stale |-> FALSE], h)
  BY DEF AskCommit
<1>2. u.id \in Ids /\ u.name \in Names
  BY <1>1, HostFields, UserFsAssumption DEF Ids
<1>3. PICK g : g = [op |-> "commit", id |-> u.id, stale |-> FALSE]
  OBVIOUS
<1>4. g \in Frames /\ g.op = "commit" /\ ~g.stale /\ g.id = u.id
  BY <1>2, <1>3 DEF Frames
<1>5. Forgets(h) /\ h.upload = u /\ h.knows[u.name] = Unknown
  BY <1>2, HostForgets
<1>6. Request(g, h)
  BY <1>1, <1>3
<1> HIDE DEF h
<1>7. host'.upload = u /\ host'.knows = h.knows /\ s' = s /\ session' = session
  BY <1>4, <1>5, <1>6, Asked
<1>8. HostOK'
  BY <1>1, <1>4, <1>5, <1>6, KeptUpload
<1>9. /\ session.active => u.id <= s.ram.next
      /\ session.upload_id = u.id => s.ram.upload.target = u.name
  BY <1>1 DEF IInv, HostOK, InStep, Same
<1>10. RequestOK(g)'
  BY <1>4, <1>5, <1>7, <1>9 DEF RequestOK
<1>. QED
  BY <1>4, <1>5, <1>6, <1>8, <1>10, RequestKeeps

\* The host asks to abort.
LEMMA AskAbortStep ==
  ASSUME IInv, AskAbort
  PROVE  IInv'
<1> DEFINE h == [host EXCEPT !.upload = NoUpload]
<1>1. /\ host.upload.id # 0
      /\ Request([op |-> "abort", id |-> host.upload.id, stale |-> FALSE], h)
  BY DEF AskAbort
<1>2. PICK g : g = [op |-> "abort", id |-> host.upload.id, stale |-> FALSE]
  OBVIOUS
<1>3. g \in Frames /\ g.op = "abort" /\ ~g.stale
  BY <1>1, <1>2, HostFields, UserFsAssumption DEF Frames, Ids
<1>4. Forgets(h) /\ h.upload = NoUpload /\ Request(g, h)
  BY <1>1, <1>2, HostForgets
<1> HIDE DEF h
<1>5. HostOK'
  BY <1>3, <1>4, KeptUpload
<1>6. RequestOK(g)'
  BY <1>3 DEF RequestOK
<1>. QED
  BY <1>3, <1>4, <1>5, <1>6, RequestKeeps

\* The host asks for what needs no upload.
LEMMA AskFilesStep ==
  ASSUME IInv, AskFiles \/ AskStartup \/ AskFormat \/ AskOther
  PROVE  IInv'
<1>1. ASSUME NEW g \in Frames, ~g.stale, NEW h, Forgets(h), h.upload = host.upload, Request(g, h),
             g.op \notin {"begin", "chunk", "commit"},
             g.op = "delete" => h.knows[g.name] = Unknown,
             g.op = "format" => \A n \in Names : h.knows[n] = Unknown
      PROVE  IInv'
  <2>1. HostOK'
    BY <1>1, KeptUpload
  <2>2. host'.knows = h.knows
    BY <1>1, Asked
  <2>3. RequestOK(g)'
    BY <1>1, <2>2 DEF RequestOK
  <2>. QED
    BY <1>1, <2>1, <2>3, RequestKeeps
<1>2. CASE AskFiles
  <2>1. PICK n \in Names :
          \/ Request([op |-> "delete", name |-> n, stale |-> FALSE],
                     [host EXCEPT !.knows[n] = Unknown])
          \/ Request([op |-> "read", name |-> n, stale |-> FALSE], host)
    BY <1>2 DEF AskFiles
  <2>2. CASE Request([op |-> "delete", name |-> n, stale |-> FALSE],
                     [host EXCEPT !.knows[n] = Unknown])
    <3>1. PICK g : g = [op |-> "delete", name |-> n, stale |-> FALSE]
      OBVIOUS
    <3>2. PICK h : h = [host EXCEPT !.knows[n] = Unknown]
      OBVIOUS
    <3>3. g \in Frames /\ g.op = "delete" /\ g.name = n /\ ~g.stale
      BY <3>1 DEF Frames
    <3>4. Forgets(h) /\ h.upload = host.upload /\ h.knows[n] = Unknown
      BY <3>2, HostForgets
    <3>5. Request(g, h)
      BY <2>2, <3>1, <3>2
    <3>. QED
      BY <1>1, <3>3, <3>4, <3>5
  <2>3. CASE Request([op |-> "read", name |-> n, stale |-> FALSE], host)
    <3>1. PICK g : g = [op |-> "read", name |-> n, stale |-> FALSE]
      OBVIOUS
    <3>2. g \in Frames /\ g.op = "read" /\ ~g.stale /\ Request(g, host)
      BY <2>3, <3>1 DEF Frames
    <3>. QED
      BY <1>1, <3>2, HostForgets
  <2>. QED
    BY <2>1, <2>2, <2>3
<1>3. CASE AskStartup
  <2>1. PICK n \in Names \cup {None} :
          Request([op |-> "startup", name |-> n, stale |-> FALSE], host)
    BY <1>3 DEF AskStartup
  <2>2. PICK g : g = [op |-> "startup", name |-> n, stale |-> FALSE]
    OBVIOUS
  <2>3. g \in Frames /\ g.op = "startup" /\ ~g.stale /\ Request(g, host)
    BY <2>1, <2>2 DEF Frames
  <2>. QED
    BY <1>1, <2>3, HostForgets
<1>4. CASE AskFormat
  <2>1. PICK g : g = [op |-> "format", stale |-> FALSE]
    OBVIOUS
  <2>2. PICK h : h = [host EXCEPT !.knows = [n \in Names |-> Unknown]]
    OBVIOUS
  <2>3. g \in Frames /\ g.op = "format" /\ ~g.stale
    BY <2>1 DEF Frames
  <2>4. Forgets(h) /\ h.upload = host.upload /\ \A n \in Names : h.knows[n] = Unknown
    BY <2>2, HostForgets
  <2>5. Request(g, h)
    BY <1>4, <2>1, <2>2 DEF AskFormat
  <2>. QED
    BY <1>1, <2>3, <2>4, <2>5
<1>5. CASE AskOther
  <2>1. PICK op \in {"nudge", "close"} : Request([op |-> op, stale |-> FALSE], host)
    BY <1>5 DEF AskOther
  <2>2. PICK g : g = [op |-> op, stale |-> FALSE]
    OBVIOUS
  <2>3. g \in Frames /\ g.op \in {"nudge", "close"} /\ ~g.stale /\ Request(g, host)
    BY <2>1, <2>2 DEF Frames
  <2>. QED
    BY <1>1, <2>3, HostForgets
<1>. QED
  BY <1>2, <1>3, <1>4, <1>5

-----------------------------------------------------------------------------
(* Every step                                                              *)

\* The board and the host start with no session.
LEMMA InitIInv == Init => IInv
<1> SUFFICES ASSUME Init PROVE IInv
  OBVIOUS
<1>1. /\ s \in InitialStates /\ session = NoSession /\ toDevice = <<>> /\ toHost = <<>>
      /\ host = Newcomer /\ cuts = 0 /\ removed = {}
  BY DEF Init
<1>2. FsInv(s) /\ s.ram.upload = None /\ s.ram.next = 0
  BY <1>1, InitialKeeps
<1>3. /\ NoSession \in Sessions /\ NoSession.upload_id = 0 /\ ~NoSession.active
      /\ NoSession.last = None /\ NoSession.read = None
  BY UserFsAssumption DEF NoSession, Sessions
<1>4. /\ host \in Hosts /\ host.waiting = None /\ ~host.gone /\ host.upload = NoUpload
      /\ \A n \in Names : host.knows[n] = Unknown
  BY <1>1, NoUploadType DEF Hosts, Newcomer
<1>5. \A i \in 1 .. Len(<<>>) : FALSE
  BY NoElements
<1>6. LineType
  BY <1>1, <1>3, <1>4, NoElements, HmpyAssumption DEF LineType
<1>7. SessionOK
  BY <1>1, <1>2, <1>3 DEF SessionOK, UploadOwned, Uploading
<1>8. OneRequest /\ LineOK
  BY <1>1, <1>3, <1>5 DEF OneRequest, LineOK, Heard
<1>9. HostOK
  BY <1>1, <1>2, <1>3, <1>4, NoUploadType, HmpyAssumption DEF HostOK, Ops
<1>10. InStep /\ AnsweredIsStored
  BY <1>4, NoUploadType DEF InStep, AnsweredIsStored
<1>. QED
  BY <1>2, <1>6, <1>7, <1>8, <1>9, <1>10 DEF IInv

\* A stuttering step keeps the invariant.
LEMMA StutterKeeps ==
  ASSUME IInv, UNCHANGED vars
  PROVE  IInv'
<1>1. /\ s' = s /\ session' = session /\ toDevice' = toDevice /\ toHost' = toHost
      /\ host' = host /\ cuts' = cuts /\ removed' = removed
  BY DEF vars
<1>2. ASSUME NEW f, RequestOK(f)
      PROVE  RequestOK(f)'
  BY <1>1, <1>2 DEF RequestOK
<1>3. ASSUME NEW g, AnswerOK(g)
      PROVE  AnswerOK(g)'
  BY <1>1, <1>3 DEF AnswerOK, Same
<1>4. LineOK'
  <2>1. ASSUME NEW i \in 1 .. Len(toDevice')
        PROVE  RequestOK(toDevice[i])'
    <3>1. PICK f : f = toDevice[i]
      OBVIOUS
    <3>2. RequestOK(f)' /\ f = toDevice'[i]
      BY <3>1, <1>1, <1>2 DEF IInv, LineOK
    <3>. QED
      BY <3>2
  <2>2. ASSUME NEW i \in 1 .. Len(toHost')
        PROVE  AnswerOK(toHost[i])'
    <3>1. PICK g : g = toHost[i]
      OBVIOUS
    <3>2. AnswerOK(g)' /\ g = toHost'[i]
      BY <3>1, <1>1, <1>3 DEF IInv, LineOK
    <3>. QED
      BY <3>2
  <2>. QED
    BY <2>1, <2>2 DEF LineOK
<1>5. LineType' /\ OneRequest'
  BY <1>1 DEF IInv, LineType, OneRequest, Heard
<1>. QED
  BY <1>1, <1>4, <1>5 DEF IInv, SessionOK, UploadOwned, HostOK, InStep, Same, AnsweredIsStored

\* Every step keeps the invariant.
LEMMA NextKeeps == IInv /\ [Next]_vars => IInv'
<1> SUFFICES ASSUME IInv, [Next]_vars PROVE IInv'
  OBVIOUS
<1>1. CASE SessionBegin
  BY <1>1, BeginSession
<1>2. CASE Tick
  BY <1>2, BeginStep, ChunkStep, FinishStep, FilesStep, CloseStep, ReadStep, RefuseStep, PumpStep
     DEF Tick, Republished
<1>3. CASE LeaseExpires \/ Cut
  BY <1>3, LeaseStep, CutStep
<1>4. CASE LoseFrame \/ Timeout \/ Hear \/ Leave
  BY <1>4, LoseStep, TimeoutStep, HearStep, LeaveStep
<1>5. CASE AskBegin \/ AskChunk \/ AskCommit \/ AskAbort
  BY <1>5, AskBeginStep, AskChunkStep, AskCommitStep, AskAbortStep
<1>6. CASE AskFiles \/ AskStartup \/ AskFormat \/ AskOther
  BY <1>6, AskFilesStep
<1>7. CASE UNCHANGED vars
  BY <1>7, StutterKeeps
<1>8. CASE DeviceMounts \/ DeviceSelects \/ DeviceRemoves \/ DeviceCut \/ ConsoleFormats
  BY <1>8, DeviceStep, DeviceCutStep, ConsoleStep
<1>. QED
  BY <1>1, <1>2, <1>3, <1>4, <1>5, <1>6, <1>7, <1>8 DEF Next

\* The inductive invariant holds in every reachable state.
LEMMA IInvHolds == Spec => []IInv
<1>1. IInv /\ [Next]_vars => IInv'
  BY NextKeeps
<1>. QED
  BY InitIInv, <1>1, PTL DEF Spec

-----------------------------------------------------------------------------
(***************************************************************************)
(* The filesystem, the session, the line and the host keep their types,    *)
(* and the line its bounds.                                                *)
(***************************************************************************)
THEOREM TypeCorrect == Spec => []TypeOK
<1>1. IInv => TypeOK
  <2> SUFFICES ASSUME IInv PROVE TypeOK
    OBVIOUS
  <2>1. s \in UserFsState
    BY Found DEF FsInv
  <2>2. toDevice \in Seq(Frames) /\ toHost \in Seq(Answers)
    BY DEF IInv, LineType
  <2>3. ASSUME NEW f \in ToSet(toDevice)
        PROVE  f.op \in Ops /\ f.stale \in BOOLEAN
    <3>1. PICK i \in 1 .. Len(toDevice) : f = toDevice[i]
      BY <2>2, LenProperties DEF ToSet
    <3>2. f \in Frames
      BY <2>2, <3>1, ElementOfSeq
    <3>. QED
      BY <3>2, FrameFields
  <2>4. ASSUME NEW g \in ToSet(toHost)
        PROVE  g.op \in Ops /\ g.value \in Nat
    <3>1. PICK i \in 1 .. Len(toHost) : g = toHost[i]
      BY <2>2, LenProperties DEF ToSet
    <3>2. g \in Answers
      BY <2>2, <3>1, ElementOfSeq
    <3>. QED
      BY <3>2 DEF Answers
  <2>. QED
    BY <2>1, <2>3, <2>4 DEF IInv, LineType, Sessions, Reads, Hosts, HostUploads, TypeOK
<1>. QED
  BY <1>1, IInvHolds, PTL

(***************************************************************************)
(* userfs_remove, userfs_set_startup and lfs_format leave no selection of  *)
(* a file that is gone, whatever fails or loses power between their flash  *)
(* writes, except where the selection itself could not be read.            *)
(***************************************************************************)
THEOREM StartupExistsHolds == Spec => []StartupExists
<1>1. IInv => StartupExists
  BY DEF IInv, FsInv, StartupOf, StartupExists
<1>. QED
  BY <1>1, IInvHolds, PTL

(***************************************************************************)
(* userfs.c has an upload under way exactly when the open session of       *)
(* hmpy_session.c holds its id: no failing call, lease or power cut leaves *)
(* one that would refuse every later request.                              *)
(***************************************************************************)
THEOREM UploadOwnedHolds == Spec => []UploadOwned
<1>1. IInv => UploadOwned
  BY DEF IInv, SessionOK
<1>. QED
  BY <1>1, IInvHolds, PTL

(***************************************************************************)
(* A commit the host has seen succeed stays stored until it asks for       *)
(* something else or the user of the device removes the file, over a line  *)
(* that loses frames, late requests, failing flash calls and power cuts.   *)
(***************************************************************************)
THEOREM AnsweredIsStoredHolds == Spec => []AnsweredIsStored
<1>1. IInv => AnsweredIsStored
  BY DEF IInv
<1>. QED
  BY <1>1, IInvHolds, PTL

(***************************************************************************)
(* hmpy_handle_upload_chunk never tells a host that repeats the chunk      *)
(* whose answer was lost that it is out of order.                          *)
(***************************************************************************)
THEOREM RepeatsAcceptedHolds == Spec => []RepeatsAccepted
<1>1. IInv => RepeatsAccepted
  <2> SUFFICES ASSUME IInv, NEW g \in ToSet(toHost), g.op = "chunk"
               PROVE  g.res # "out_of_order"
    BY DEF RepeatsAccepted
  <2>1. PICK i \in 1 .. Len(toHost) : g = toHost[i]
    BY LenProperties DEF IInv, LineType, ToSet
  <2>. QED
    BY <2>1 DEF IInv, LineOK, AnswerOK
<1>. QED
  BY <1>1, IInvHolds, PTL

-----------------------------------------------------------------------------
(* What a step does to the files                                           *)

\* One step of the filesystem as FileStore sees it: an upload is announced,
\* goes on, is published or is dropped; without one a file goes, or all do.
FileStep ==
  LET u == s.ram.upload
      v == s'.ram.upload
  IN \/ /\ s'.disk.files = s.disk.files
        /\ v = u \/ (u # None /\ v # None /\ SameTarget(u, v)) \/ v = None
     \/ /\ s'.disk.files = s.disk.files /\ u = None
        /\ v.target \in Names /\ v.expected \in Contents
     \/ /\ u # None /\ s'.disk.files = Announced(s)
        /\ v = None \/ SameTarget(u, v)
     \/ /\ u = None /\ v = None
        /\ s'.disk.files = NoFiles \/ \E n \in Names : s'.disk.files = Without(s.disk.files, n)

\* An upload changes files only by publishing what was announced.
LEMMA UploadFileStep ==
  ASSUME IInv, HandleUploadBegin \/ HandleUploadChunk \/ HandleUploadFinish
  PROVE  FileStep
<1>1. PICK f \in Frames : f = Head(toDevice)
  BY FirstFrame DEF HandleUploadBegin, HandleUploadChunk, HandleUploadFinish, Take
<1>2. CASE HandleUploadBegin
  <2>1. f.op = "begin" /\ s.ram.next < MaxUploads
    BY <1>1, <1>2 DEF HandleUploadBegin, Take
  <2>2. PICK o \in UploadBegin(s, f.name, f.content) : s' = o.s
    BY <1>1, <1>2 DEF HandleUploadBegin
  <2>3. f.name \in Names /\ f.content \in Contents
    BY <2>1, FrameFields
  <2>4. /\ s'.disk.files = s.disk.files
        /\ \/ ~Uploading(s) /\ s'.ram.upload = Begun(s, f.name, f.content)
           \/ s'.ram.upload = s.ram.upload
    BY <2>1, <2>2, <2>3, Found, BeginKeeps
  <2>. QED
    BY <2>3, <2>4 DEF FileStep, Begun, Uploading
<1>3. CASE HandleUploadChunk
  <2>1. f.op = "chunk"
    BY <1>1, <1>3 DEF HandleUploadChunk, Take
  <2>2. f.offset \in Nat /\ f.data \in Chunks
    BY <2>1, FrameFields
  <2>3. s' = s \/ \E o \in UploadWrite(s, f.id, f.offset, f.data) : s' = o.s
    BY <1>1, <1>3 DEF HandleUploadChunk
  <2>4. CASE s' = s
    BY <2>4 DEF FileStep
  <2>5. CASE \E o \in UploadWrite(s, f.id, f.offset, f.data) : s' = o.s
    BY <2>2, <2>5, Found, WriteKeeps DEF FileStep, Uploading
  <2>. QED
    BY <2>3, <2>4, <2>5
<1>4. CASE HandleUploadFinish
  <2>1. \/ s' = s
        \/ \E o \in UploadCommit(s, f.id) : s' = o.s
        \/ \E o \in UploadAbort(s, f.id) : s' = o.s
    BY <1>1, <1>4 DEF HandleUploadFinish
  <2>2. CASE s' = s
    BY <2>2 DEF FileStep
  <2>3. CASE \E o \in UploadCommit(s, f.id) : s' = o.s
    <3>1. PICK o \in UploadCommit(s, f.id) : s' = o.s
      BY <2>3
    <3>2. \/ s' = s
          \/ Uploading(s) /\ s'.ram.upload = None /\ s'.disk.files = Announced(s)
          \/ /\ Uploading(s) /\ Uploading(s') /\ SameTarget(s.ram.upload, s'.ram.upload)
             /\ s'.disk.files \in {s.disk.files, Announced(s)}
      BY <3>1, Found, CommitKeeps
    <3>. QED
      BY <3>2 DEF FileStep, Uploading
  <2>4. CASE \E o \in UploadAbort(s, f.id) : s' = o.s
    BY <2>4, Found, AbortKeeps DEF FileStep, Dropped
  <2>. QED
    BY <2>1, <2>2, <2>3, <2>4
<1>. QED
  BY <1>2, <1>3, <1>4

\* A file request changes files only by removing them.
LEMMA FilesFileStep ==
  ASSUME IInv, HandleDelete \/ HandleSetStartup \/ HandleFormat
  PROVE  FileStep
<1>1. PICK f \in Frames : f = Head(toDevice)
  BY FirstFrame DEF HandleDelete, HandleSetStartup, HandleFormat, Take
<1>2. CASE HandleDelete
  <2>1. f.name \in Names
    BY <1>1, <1>2, FrameFields DEF HandleDelete, Take
  <2>2. PICK o \in RemoveFile(s, f.name) : s' = o.s
    BY <1>1, <1>2 DEF HandleDelete
  <2>. QED
    BY <2>1, <2>2, Found, RemoveKeeps DEF FileStep
<1>3. CASE HandleSetStartup
  <2>1. f.name \in Names \cup {None}
    BY <1>1, <1>3, FrameFields DEF HandleSetStartup, Take
  <2>2. PICK o \in SetStartup(s, f.name) : s' = o.s
    BY <1>1, <1>3 DEF HandleSetStartup
  <2>. QED
    BY <2>1, <2>2, Found, StartupKeeps DEF FileStep
<1>4. CASE HandleFormat
  <2>1. PICK o \in IF session.upload_id # 0 THEN Refused(s, "busy") ELSE Format(s) : s' = o.s
    BY <1>4 DEF HandleFormat
  <2>2. CASE session.upload_id # 0
    BY <2>1, <2>2 DEF FileStep, Refused, Outcome
  <2>3. CASE session.upload_id = 0
    BY <2>1, <2>3, Found, FormatKeeps DEF FileStep, Wiped, Uploading
  <2>. QED
    BY <2>2, <2>3
<1>. QED
  BY <1>2, <1>3, <1>4

\* Whatever the step, the files change in one of the allowed ways.
LEMMA EveryFileStep ==
  ASSUME IInv, [Next]_vars
  PROVE  FileStep
<1>1. CASE s' = s
  BY <1>1 DEF FileStep
<1>2. CASE HandleUploadBegin \/ HandleUploadChunk \/ HandleUploadFinish
  BY <1>2, UploadFileStep
<1>3. CASE HandleDelete \/ HandleSetStartup \/ HandleFormat
  BY <1>3, FilesFileStep
<1>4. CASE HandleNudge \/ SessionBegin \/ DeviceMounts
  <2>1. PICK o \in Mount(s) : s' = o.s
    BY <1>4 DEF HandleNudge, SessionBegin, DeviceMounts
  <2>. QED
    BY <2>1, Found, MountKeeps DEF FileStep, Quiet
<1>5. CASE HandleClose \/ LeaseExpires
  BY <1>5, FinishKeeps DEF HandleClose, LeaseExpires, FileStep, Dropped
<1>6. CASE Cut
  <2>1. s' \in PowerCut(s, {s.disk} \cup Halfway)
    BY <1>6 DEF Cut
  <2>2. \A d \in {s.disk} \cup Halfway : Replaces(s, d)
    BY Found, OwnDisk, HalfwayKeeps
  <2>3. s'.disk \in {s.disk} \cup Halfway /\ s'.ram.upload = None
    BY <2>1, <2>2, Found, CutKeeps
  <2>4. CASE s'.disk = s.disk
    BY <2>3, <2>4 DEF FileStep
  <2>5. CASE s'.disk \in Halfway
    BY <2>3, <2>5, HalfwayKeeps DEF FileStep
  <2>. QED
    BY <2>3, <2>4, <2>5
<1>7. CASE DeviceSelects
  <2>1. PICK n \in Names \cup {None} : \E o \in SetStartup(s, n) : s' = o.s
    BY <1>7 DEF DeviceSelects
  <2>. QED
    BY <2>1, Found, StartupKeeps DEF FileStep
<1>8. CASE DeviceRemoves
  <2>1. PICK n \in Names : \E o \in RemoveFile(s, n) : s' = o.s
    BY <1>8 DEF DeviceRemoves
  <2>. QED
    BY <2>1, Found, RemoveKeeps DEF FileStep
<1>9. CASE DeviceCut
  BY <1>9, DeviceDisks DEF FileStep
<1>10. CASE ConsoleFormats
  BY <1>10, ConsoleDisks DEF FileStep
<1>. QED
  BY <1>1, <1>2, <1>3, <1>4, <1>5, <1>6, <1>7, <1>8, <1>9, <1>10
     DEF Next, Tick, HandleRead, RefuseInRead, PumpRead, Discard, LoseFrame, Timeout, Hear, Leave,
         AskBegin, AskChunk, AskCommit, AskAbort, AskFiles, AskStartup, AskFormat, AskOther,
         Request, vars

\* What FileStore sees of the upload u.
Pending(u) == IF u # None THEN [name |-> u.target, content |-> u.expected] ELSE None

\* Every step is a step of the file store, or none.
LEMMA StepRefines ==
  ASSUME IInv, [Next]_vars
  PROVE  [Store!StoreNext]_(Store!storeVars)
<1> DEFINE u == s.ram.upload
           v == s'.ram.upload
           p == Pending(u)
           q == Pending(v)
<1>1. FileStep /\ IInv'
  BY EveryFileStep, NextKeeps
<1>2. u # None => u.target \in Names /\ u.expected \in Contents
  BY Found, UploadFields DEF Uploading
<1>3. \A n \in Names, c \in Contents : [name |-> n, content |-> c] # None
  BY HmpyAssumption
<1>4. /\ u = None => p = None
      /\ u # None => p # None /\ p.name = u.target /\ p.content = u.expected
  BY <1>2, <1>3 DEF Pending
<1>5. /\ v = None => q = None
      /\ v # None => q = [name |-> v.target, content |-> v.expected]
  BY DEF Pending
<1>6. (u # None /\ v # None /\ SameTarget(u, v)) => q = p
  BY DEF SameTarget, Pending
<1>7. SUFFICES \/ s'.disk.files = s.disk.files /\ q = p
               \/ p = None /\ q \in Store!Upload /\ s'.disk.files = s.disk.files
               \/ /\ p # None /\ q \in {p, None}
                  /\ s'.disk.files = [s.disk.files EXCEPT ![p.name] = p.content]
               \/ p # None /\ q = None /\ s'.disk.files = s.disk.files
               \/ /\ p = None /\ q = None
                  /\ \E n \in Names : s'.disk.files = [s.disk.files EXCEPT ![n] = None]
               \/ p = None /\ q = None /\ s'.disk.files = Store!Empty
  BY DEF Store!StoreNext, Store!storeVars, Store!Announce, Store!Publish, Store!Forget,
         Store!Delete, Store!Wipe, Pending, Uploading
<1>8. Store!Empty = NoFiles
  BY DEF Store!Empty, NoFiles
<1>9. v = u => q = p
  OBVIOUS
<1> HIDE DEF p, q
<1>10. CASE /\ s'.disk.files = s.disk.files
            /\ v = u \/ (u # None /\ v # None /\ SameTarget(u, v)) \/ v = None
  BY <1>4, <1>5, <1>6, <1>9, <1>10
<1>11. CASE /\ s'.disk.files = s.disk.files /\ u = None
            /\ v.target \in Names /\ v.expected \in Contents
  <2>1. v # None => q \in Store!Upload
    BY <1>5, <1>11 DEF Store!Upload
  <2>. QED
    BY <2>1, <1>4, <1>5, <1>11
<1>12. CASE /\ u # None /\ s'.disk.files = Announced(s)
            /\ v = None \/ SameTarget(u, v)
  <2>1. s'.disk.files = [s.disk.files EXCEPT ![p.name] = p.content]
    BY <1>4, <1>12 DEF Announced
  <2>. QED
    BY <2>1, <1>4, <1>5, <1>6, <1>12
<1>13. CASE /\ u = None /\ v = None
            /\ s'.disk.files = NoFiles \/ \E n \in Names : s'.disk.files = Without(s.disk.files, n)
  BY <1>4, <1>5, <1>8, <1>13 DEF Without
<1>. QED
  BY <1>1, <1>10, <1>11, <1>12, <1>13 DEF FileStep

(***************************************************************************)
(* The HMPY session over userfs.c implements FileStore: files change only  *)
(* by publishing, whole, the content announced for the upload under way,   *)
(* by removal or by format, whatever fails or is lost on the way.          *)
(***************************************************************************)
THEOREM FileStoreImplemented == Spec => ImplementsFileStore
<1>1. Init => Store!StoreInit
  <2>1. Init => s.disk.files = NoFiles /\ s.ram.upload = None
    BY InitialKeeps DEF Init
  <2>. QED
    BY <2>1 DEF Store!StoreInit, Store!Empty, NoFiles, Uploading
<1>2. IInv /\ [Next]_vars => [Store!StoreNext]_(Store!storeVars)
  BY StepRefines
<1>. QED
  BY <1>1, <1>2, IInvHolds, PTL DEF Spec, ImplementsFileStore, Store!StoreSpec

(***************************************************************************)
(* While hmpy_pump_read streams a file no other request changes or removes *)
(* it: hmpy_handle_frame refuses them.  Only the user of the device may    *)
(* remove it (micropython_app.c:799).                                      *)
(***************************************************************************)
ReadStepKeeps ==
  session.read # None /\ session'.read # None
    => \/ s'.disk.files[session.read.name] = s.disk.files[session.read.name]
       \/ session.read.name \in removed'

THEOREM ReadsOneVersionHolds == Spec => ReadsOneVersion
<1>1. IInv /\ [Next]_vars => [ReadStepKeeps]_vars
  <2> SUFFICES ASSUME IInv, [Next]_vars, session.read # None, session'.read # None
               PROVE  \/ s'.disk.files[session.read.name] = s.disk.files[session.read.name]
                      \/ session.read.name \in removed'
    BY DEF ReadStepKeeps
  <2>1. session.active
    BY Found DEF NoSession
  <2>2. NoSession.read = None
    BY DEF NoSession
  <2>3. CASE s' = s
    BY <2>3
  <2>4. CASE HandleNudge \/ DeviceMounts
    <3>1. PICK o \in Mount(s) : s' = o.s
      BY <2>4 DEF HandleNudge, DeviceMounts
    <3>. QED
      BY <3>1, Found, MountKeeps DEF Quiet
  <2>5. CASE DeviceSelects
    <3>1. PICK n \in Names \cup {None} : \E o \in SetStartup(s, n) : s' = o.s
      BY <2>5 DEF DeviceSelects
    <3>. QED
      BY <3>1, Found, StartupKeeps
  <2>6. CASE DeviceRemoves
    <3>1. PICK n \in Names : \E o \in RemoveFile(s, n) : s' = o.s
      BY <2>6 DEF DeviceRemoves
    <3>2. s'.disk.files \in {s.disk.files, Without(s.disk.files, n)}
      BY <3>1, Found, RemoveKeeps
    <3>3. Explained(session.read.name)
      <4>1. session.read.name \in Names
        BY Found DEF Sessions, Reads
      <4>. QED
        BY <2>6, <3>2, <4>1, VanishedExplained DEF DeviceRemoves
    <3>. QED
      BY <3>3 DEF Explained
  <2>7. Tick /\ ~HandleNudge => s' = s
    BY <2>1, <2>2
       DEF Tick, Take, AllowedInRead, Finish, HandleUploadBegin, HandleUploadChunk,
           HandleUploadFinish, HandleDelete, HandleSetStartup, HandleFormat,
           HandleClose, HandleRead, RefuseInRead, PumpRead, Discard
  <2>. QED
    BY <2>1, <2>2, <2>3, <2>4, <2>5, <2>6, <2>7
       DEF Next, Finish, SessionBegin, LeaseExpires, Cut, DeviceCut, ConsoleFormats, LoseFrame,
           Timeout, Hear, Leave, AskBegin, AskChunk, AskCommit, AskAbort, AskFiles, AskStartup,
           AskFormat, AskOther, Request, vars
<1>. QED
  BY <1>1, IInvHolds, PTL DEF Spec, ReadsOneVersion, ReadStepKeeps
===============================================================================
