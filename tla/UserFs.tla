------------------------------- MODULE UserFs -------------------------------
(***************************************************************************)
(* The user filesystem (storage/userfs.c): uploads into a temporary file    *)
(* that is verified and renamed over its target, the startup selection, and *)
(* mount, unmount and format, over a littlefs whose calls may fail.         *)
(*                                                                         *)
(* A state s holds the flash (disk), the module's static variables (ram),   *)
(* and two facts about the past: how many littlefs calls have failed and    *)
(* whether a removal failed to read the startup selection.  An operation is *)
(* the set of its outcomes: its result and the state it leaves.  A file's   *)
(* content is a sequence of chunks; the announced size and CRC-32 are the   *)
(* announced content, a collision of the CRC being left out.  The main loop *)
(* runs each operation to its end; the ...Steps operators give the flash    *)
(* after each littlefs commit, which is what a power cut inside the         *)
(* operation, or a failing call, can leave.                                 *)
(***************************************************************************)
EXTENDS Naturals, Sequences, SequencesExt

CONSTANTS
  Names,       \* valid user file names
  Contents,    \* contents a host may upload, each a non-empty Seq(Chunks)
  Chunks,      \* what one UPLOAD_CHUNK carries
  None,        \* no file, no selection, no upload
  Torn,        \* the part of a chunk a failing write leaves
  MaxUploads,  \* bound on upload ids of one boot
  MaxFaults    \* bound on failing littlefs calls

ASSUME UserFsAssumption ==
  /\ None \notin Contents \cup Names
  /\ Torn \notin Chunks
  /\ Contents \subseteq Seq(Chunks) \ {<<>>}
  /\ MaxUploads \in Nat /\ MaxFaults \in Nat

Ids == 1..MaxUploads

Disk == [medium  : {"blank", "formatted", "corrupt"},
         files   : [Names -> Contents \cup {None}],
         startup : Names \cup {None},
         temps   : [Ids -> Seq(Chunks \cup {Torn}) \cup {None}],
         meta    : BOOLEAN]

Uploads == [id : Ids, target : Names, expected : Contents,
            offset : Nat, open : BOOLEAN]

Ram == [state  : {"uninitialized", "unformatted", "corrupt", "io_error", "mounted"},
        upload : Uploads \cup {None},
        next   : 0..MaxUploads]

UserFsState == [disk : Disk, ram : Ram, faults : 0..MaxFaults, unread : BOOLEAN]

NoFiles == [n \in Names |-> None]
NoTemps == [i \in Ids |-> None]
Formatted == [medium |-> "formatted", files |-> NoFiles, startup |-> None,
              temps |-> NoTemps, meta |-> FALSE]
Blank == [Formatted EXCEPT !.medium = "blank"]
PoweredUp == [state |-> "uninitialized", upload |-> None, next |-> 0]

InitialStates ==
  {[disk |-> d, ram |-> PoweredUp, faults |-> 0, unread |-> FALSE] :
      d \in {Blank, Formatted}}

-----------------------------------------------------------------------------
Outcome(res, s) == [res |-> res, s |-> s]
Refused(s, why) == {Outcome(why, s)}

\* One littlefs call failed and what it and the cleanup after it left is one
\* of states: the outcomes, while the bound allows another failure.
Failing(s, res, states) ==
  IF s.faults < MaxFaults
  THEN {Outcome(res, [t EXCEPT !.faults = s.faults + 1]) : t \in states}
  ELSE {}

\* A sequence of littlefs commits: all of them, or a failing one, which may
\* have taken effect, and none after it.
Carried(s, steps) ==
  {Outcome("ok", [s EXCEPT !.disk = Last(steps)])}
    \cup Failing(s, "io", {[s EXCEPT !.disk = d] : d \in {s.disk} \cup ToSet(steps)})

\* A power cut leaves the flash as one of disks.
PowerCut(s, disks) ==
  {[s EXCEPT !.disk = d, !.ram = PoweredUp] : d \in disks}

Mounted(s) == s.ram.state = "mounted"
Uploading(s) == s.ram.upload # None

-----------------------------------------------------------------------------
\* userfs_mount with userfs_cleanup_uploads, which stops at its first failure.
Cleaned(disk) == [disk EXCEPT !.temps = NoTemps, !.meta = FALSE]

Mount(s) ==
  LET up(d) == [s EXCEPT !.disk = d, !.ram.state = "mounted", !.ram.upload = None]
  IN IF Mounted(s) THEN Refused(s, "ok")
     ELSE Failing(s, "io", {[s EXCEPT !.ram.state = "io_error"]}) \cup
          CASE s.disk.medium = "formatted" ->
                 {Outcome("ok", up(Cleaned(s.disk)))} \cup Failing(s, "ok", {up(s.disk)})
            [] s.disk.medium = "blank" ->
                 {Outcome("unformatted", [s EXCEPT !.ram.state = "unformatted"])}
            [] s.disk.medium = "corrupt" ->
                 {Outcome("corrupt", [s EXCEPT !.ram.state = "corrupt"])}

UploadAbort(s, id) ==
  LET dropped(d) == [s EXCEPT !.disk = d, !.ram.upload = None]
  IN IF ~Uploading(s) \/ s.ram.upload.id # id THEN Refused(s, "invalid")
     ELSE {Outcome("ok", dropped([s.disk EXCEPT !.temps[id] = None]))}
            \cup Failing(s, "ok", {dropped(s.disk)})

\* userfs_unmount, whose own failure userfs_format_explicit ignores.
Unmounted(s) ==
  {[t EXCEPT !.ram.state = "uninitialized"] :
     t \in IF Uploading(s) THEN {o.s : o \in UploadAbort(s, s.ram.upload.id)} ELSE {s}}

\* lfs_format rewrites the superblock pair.
FormatSteps(disk) == <<[Formatted EXCEPT !.medium = "corrupt"], Formatted>>

Format(s) ==
  UNION {
    LET done == [t EXCEPT !.disk = Last(FormatSteps(t.disk)), !.ram.state = "uninitialized"]
        left == {t.disk} \cup ToSet(FormatSteps(t.disk))
    IN Mount(done) \cup
       Failing(t, "io", {[t EXCEPT !.disk = d, !.ram.state = "io_error"] : d \in left}) :
    t \in IF Mounted(s) THEN Unmounted(s) ELSE {s}}

-----------------------------------------------------------------------------
UploadBegin(s, name, content) ==
  LET id == s.ram.next + 1
      begun == [id |-> id, target |-> name, expected |-> content,
                offset |-> 0, open |-> TRUE]
      with(file, upload) == [s EXCEPT !.disk.temps[id] = file,
                                      !.ram.next = id, !.ram.upload = upload]
  IN IF ~Mounted(s) THEN Refused(s, "not_mounted")
     ELSE IF Uploading(s) THEN Refused(s, "busy")
     ELSE {Outcome("ok", with(<<>>, begun))} \cup
          Failing(s, "io", {with(f, None) : f \in {s.disk.temps[id], None, <<>>}})

UploadWrite(s, id, offset, chunk) ==
  LET upload == s.ram.upload
      grown(c) == [s EXCEPT !.disk.temps[id] = Append(@, c)]
  IN IF ~Uploading(s) \/ upload.id # id THEN Refused(s, "invalid")
     ELSE IF offset # upload.offset THEN Refused(s, "out_of_order")
     ELSE IF offset = Len(upload.expected) THEN Refused(s, "size")
     ELSE {Outcome("ok", [grown(chunk) EXCEPT !.ram.upload.offset = @ + 1])} \cup
          Failing(s, "io", {s, grown(Torn)})

\* mutant: the rename without reading back what was written.
Verified_Assumed(s) == s.disk.temps[s.ram.upload.id] # None

\* userfs_verify_upload: the temporary file read back has the announced size
\* and CRC.
Verified(s) == s.disk.temps[s.ram.upload.id] = s.ram.upload.expected

\* lfs_rename of the temporary file over its target.
Published(s) ==
  LET upload == s.ram.upload
  IN [s.disk EXCEPT !.files[upload.target] = s.disk.temps[upload.id],
                    !.temps[upload.id] = None]

\* A commit that fails after the close leaves the upload active with a closed
\* file, and what littlefs makes of closing it again is its own affair.
UploadCommit(s, id) ==
  LET closed == [s EXCEPT !.ram.upload.open = FALSE]
      renamed == [closed EXCEPT !.disk = Published(s)]
  IN IF ~Uploading(s) \/ s.ram.upload.id # id THEN Refused(s, "invalid")
     ELSE IF s.ram.upload.offset # Len(s.ram.upload.expected) THEN Refused(s, "size")
     ELSE (IF s.ram.upload.open THEN {} ELSE Refused(s, "io")) \cup
          (IF Verified(s)
           THEN {Outcome("ok", [renamed EXCEPT !.ram.upload = None])}
                  \cup Failing(s, "io", {closed, renamed})
           ELSE Refused(closed, "rejected") \cup Failing(s, "io", {closed}))

-----------------------------------------------------------------------------
\* mutant: the file first, then the selection.
RemoveSteps_FileFirst(disk, name) ==
  LET gone == [disk EXCEPT !.files[name] = None]
  IN <<gone, IF disk.startup = name THEN [gone EXCEPT !.startup = None] ELSE gone>>

\* userfs_remove clears a selection of the file before the file itself.
RemoveSteps(disk, name) ==
  LET unselected == IF disk.startup = name THEN [disk EXCEPT !.startup = None] ELSE disk
  IN <<unselected, [unselected EXCEPT !.files[name] = None]>>

\* userfs_get_startup failing, which userfs_remove takes for no selection.
RemoveUnread(s, name) ==
  Failing(s, "ok", {[s EXCEPT !.disk.files[name] = None,
                              !.unread = @ \/ s.disk.startup = name]})

RemoveFile(s, name) ==
  IF ~Mounted(s) THEN Refused(s, "not_mounted")
  ELSE IF Uploading(s) THEN Refused(s, "busy")
  ELSE RemoveUnread(s, name) \cup
       (IF s.disk.files[name] = None
        THEN {Outcome("not_found", [s EXCEPT !.disk = RemoveSteps(@, name)[1]])}
        ELSE Carried(s, RemoveSteps(s.disk, name)))

\* userfs_set_startup with userfs_atomic_metadata: a temporary file renamed
\* over the selection; no name removes the selection.
SelectSteps(disk, name) ==
  IF name = None THEN <<[disk EXCEPT !.startup = None]>>
  ELSE <<[disk EXCEPT !.meta = TRUE], [disk EXCEPT !.meta = FALSE, !.startup = name]>>

SetStartup(s, name) ==
  IF ~Mounted(s) THEN Refused(s, "not_mounted")
  ELSE IF Uploading(s) THEN Refused(s, "busy")
  ELSE IF name # None /\ s.disk.files[name] = None THEN Refused(s, "not_found")
  ELSE Carried(s, SelectSteps(s.disk, name))

\* userfs_read of one chunk.
ReadResult(s, name) ==
  IF ~Mounted(s) THEN "not_mounted"
  ELSE IF Uploading(s) THEN "busy"
  ELSE IF s.disk.files[name] = None THEN "not_found" ELSE "ok"
=============================================================================
