---------------------------- MODULE HmpySession ----------------------------
(***************************************************************************)
(* The HMPY file session (services/hmpy_session.c) over the user filesystem *)
(* of UserFs, a serial line that loses frames, a host that waits for each   *)
(* answer, gives up waiting when it pleases, and repeats its chunk or its   *)
(* commit, and the MicroPython app on the device, which mounts, selects and *)
(* removes files in the same main loop, with or without a session.          *)
(*                                                                         *)
(* The main loop handles one frame to its end, so an action is one frame,   *)
(* one step of the read pump, or the expiry of the session lease.  The only *)
(* thing that can happen inside a handler is a power cut.  A frame to a     *)
(* request the host no longer waits for is stale: its request id is not the *)
(* one the host expects.  Frames of the type RUN, STOP, STATUS, PING, STAT  *)
(* and LIST change nothing here but the lease; Nudge stands for them.       *)
(***************************************************************************)
EXTENDS UserFs

CONSTANTS
  Unknown,    \* what the host knows of a file whose request got no answer
  LineMax,    \* bound on frames on the line, each way
  MaxCuts     \* bound on power cuts

VARIABLES
  s,          \* the flash and the static variables of userfs.c
  session,    \* g_session
  toDevice,   \* frames on the line to the board
  toHost,     \* frames on the line to the host
  host,       \* the host
  cuts,       \* power cuts so far
  removed     \* history: files removed on the device and not published since

vars == <<s, session, toDevice, toHost, host, cuts, removed>>

NoSession == [active |-> FALSE, upload_id |-> 0, last |-> None, read |-> None]
NoUpload == [name |-> None, content |-> None, id |-> 0, acked |-> 0]

Newcomer == [waiting |-> None, gone |-> FALSE, upload |-> NoUpload,
             knows |-> [n \in Names |-> Unknown]]

\* waiting: the request type whose answer the host expects; upload: what it is
\* uploading and what was acknowledged; knows: what it takes each file to hold.
Ops == {"begin", "chunk", "commit", "abort", "delete", "startup", "format",
        "read", "nudge", "close"}

\* The markers None and Unknown are values of their own.
ASSUME HmpyAssumption ==
  /\ LineMax \in Nat /\ MaxCuts \in Nat
  /\ None \notin Ops /\ None \notin Uploads
  /\ None \notin [offset : Nat, data : Chunks]
  /\ None \notin [name : Names, offset : Nat, size : Nat, stale : BOOLEAN]
  /\ None \notin [name : Names, content : Contents]
  /\ Unknown \notin Contents \cup {None}

TypeOK ==
  /\ s \in UserFsState
  /\ session \in [active : BOOLEAN, upload_id : 0..MaxUploads,
                  last : [offset : Nat, data : Chunks] \cup {None},
                  read : [name : Names, offset : Nat, size : Nat, stale : BOOLEAN]
                         \cup {None}]
  /\ \A f \in ToSet(toDevice) : f.op \in Ops /\ f.stale \in BOOLEAN
  /\ \A f \in ToSet(toHost) : f.op \in Ops /\ f.value \in Nat
  /\ session.read # None => session.read.offset < session.read.size
  /\ Len(toDevice) <= LineMax /\ Len(toHost) <= LineMax
  /\ host \in [waiting : Ops \cup {None}, gone : BOOLEAN,
               upload : [name : Names \cup {None}, content : Contents \cup {None},
                         id : 0..MaxUploads, acked : Nat],
               knows : [Names -> Contents \cup {None, Unknown}]]
  /\ cuts \in 0..MaxCuts
  /\ removed \subseteq Names

Init ==
  /\ s \in InitialStates
  /\ session = NoSession
  /\ toDevice = <<>> /\ toHost = <<>>
  /\ host = Newcomer
  /\ cuts = 0
  /\ removed = {}

-----------------------------------------------------------------------------
\* The session and its frames.

\* hmpy_session_begin, asked for by a console line.
SessionBegin ==
  /\ ~session.active /\ toDevice = <<>>
  /\ ~host.gone /\ host.waiting = None
  /\ session' = [NoSession EXCEPT !.active = TRUE]
  /\ \E o \in Mount(s) : s' = o.s
  /\ host' = [host EXCEPT !.upload = NoUpload]
  /\ UNCHANGED <<toDevice, toHost, cuts, removed>>

\* mutant: the session ends and leaves its upload to the filesystem.
Finish_KeepsUpload == session' = NoSession /\ UNCHANGED s

\* hmpy_session_finish.
Finish ==
  /\ s' \in IF session.upload_id # 0
            THEN {o.s : o \in UploadAbort(s, session.upload_id)} ELSE {s}
  /\ session' = NoSession

\* The answer to frame f.  The host drops an answer whose request id it does
\* not expect, and the board never waits for it to read.
Answered(f, res, value) ==
  IF f.stale \/ Len(toHost) = LineMax THEN toHost
  ELSE Append(toHost, [op |-> f.op, res |-> res, value |-> value])

\* hmpy_handle_frame: while a read streams, only requests that leave the
\* files alone.
AllowedInRead == {"nudge", "close"}

Take(op) ==
  /\ session.active
  /\ toDevice # <<>> /\ Head(toDevice).op = op
  /\ session.read # None => op \in AllowedInRead
  /\ toDevice' = Tail(toDevice)
  /\ UNCHANGED <<host, cuts>>

RefuseInRead ==
  /\ session.active /\ session.read # None
  /\ toDevice # <<>> /\ Head(toDevice).op \notin AllowedInRead
  /\ toDevice' = Tail(toDevice)
  /\ toHost' = Answered(Head(toDevice), "busy", 0)
  /\ UNCHANGED <<s, session, host, cuts>>

HandleUploadBegin ==
  /\ Take("begin")
  /\ s.ram.next < MaxUploads
  /\ LET f == Head(toDevice) IN
     \E o \in UploadBegin(s, f.name, f.content) :
       /\ s' = o.s
       /\ session' = IF o.res = "ok"
                     THEN [session EXCEPT !.upload_id = o.s.ram.upload.id, !.last = None]
                     ELSE session
       /\ toHost' = Answered(f, o.res,
                               IF o.res = "ok" THEN o.s.ram.upload.id ELSE 0)

\* mutant: no memory of the chunk just taken.
Repeated_Forgotten(f) == FALSE

\* The chunk just taken, once more.
Repeated(f) == session.last = [offset |-> f.offset, data |-> f.data]

HandleUploadChunk ==
  /\ Take("chunk")
  /\ LET f == Head(toDevice) IN
     \/ /\ f.id # session.upload_id
        /\ toHost' = Answered(f, "invalid", 0)
        /\ UNCHANGED <<s, session>>
     \/ /\ f.id = session.upload_id /\ Repeated(f)
        /\ toHost' = Answered(f, "ok", f.offset + 1)
        /\ UNCHANGED <<s, session>>
     \/ /\ f.id = session.upload_id /\ ~Repeated(f)
        /\ \E o \in UploadWrite(s, f.id, f.offset, f.data) :
             /\ s' = o.s
             /\ session' = IF o.res = "ok"
                           THEN [session EXCEPT !.last = [offset |-> f.offset, data |-> f.data]]
                           ELSE session
             /\ toHost' = Answered(f, o.res, f.offset + 1)

HandleUploadFinish ==
  \E op \in {"commit", "abort"} :
    /\ Take(op)
    /\ LET f == Head(toDevice) IN
       \/ /\ f.id # session.upload_id
          /\ toHost' = Answered(f, "invalid", 0)
          /\ UNCHANGED <<s, session>>
       \/ /\ f.id = session.upload_id
          /\ \E o \in IF op = "commit" THEN UploadCommit(s, f.id) ELSE UploadAbort(s, f.id) :
               /\ s' = o.s
               /\ session' = IF o.res = "ok"
                             THEN [session EXCEPT !.upload_id = 0, !.last = None]
                             ELSE session
               /\ toHost' = Answered(f, o.res, 0)

HandleDelete ==
  /\ Take("delete")
  /\ \E o \in RemoveFile(s, Head(toDevice).name) :
       /\ s' = o.s
       /\ toHost' = Answered(Head(toDevice), o.res, 0)
  /\ UNCHANGED session

HandleSetStartup ==
  /\ Take("startup")
  /\ \E o \in SetStartup(s, Head(toDevice).name) :
       /\ s' = o.s
       /\ toHost' = Answered(Head(toDevice), o.res, 0)
  /\ UNCHANGED session

\* mutant: format ends the upload under way instead of being refused.
HandleFormat_EndsUpload ==
  /\ Take("format")
  /\ \E o \in Format(s) : s' = o.s /\ toHost' = Answered(Head(toDevice), o.res, 0)
  /\ session' = [session EXCEPT !.upload_id = 0]

HandleFormat ==
  /\ Take("format")
  /\ \E o \in IF session.upload_id # 0 THEN Refused(s, "busy") ELSE Format(s) :
       /\ s' = o.s
       /\ toHost' = Answered(Head(toDevice), o.res, 0)
  /\ UNCHANGED session

\* HELLO mounts; the others read.
HandleNudge ==
  /\ Take("nudge")
  /\ \E o \in Mount(s) : s' = o.s
  /\ toHost' = Answered(Head(toDevice), "ok", 0)
  /\ UNCHANGED session

HandleClose ==
  /\ Take("close")
  /\ Finish
  /\ toHost' = Answered(Head(toDevice), "ok", 0)

\* hmpy_handle_read asks for the size only; an upload does not stop it.
HandleRead ==
  /\ Take("read")
  /\ LET f == Head(toDevice)
         found == Mounted(s) /\ s.disk.files[f.name] # None
     IN /\ session' = IF found
                      THEN [session EXCEPT !.read =
                              [name |-> f.name, offset |-> 0, stale |-> f.stale,
                               size |-> Len(s.disk.files[f.name])]]
                      ELSE session
        /\ toHost' = IF found THEN toHost ELSE Answered(f, "not_found", 0)
  /\ UNCHANGED s

\* hmpy_pump_read, one chunk a tick once the line has been drained.
PumpRead ==
  /\ session.active /\ session.read # None /\ toDevice = <<>>
  /\ LET r == session.read
         res == IF ReadResult(s, r.name) # "ok" THEN ReadResult(s, r.name)
                ELSE IF r.offset + 1 < r.size THEN "more" ELSE "ok"
     IN /\ session' = IF res = "more" THEN [session EXCEPT !.read.offset = @ + 1]
                      ELSE [session EXCEPT !.read = None]
        /\ toHost' = Answered([op |-> "read", stale |-> r.stale], res, r.offset)
  /\ UNCHANGED <<s, toDevice, host, cuts>>

\* mutant: the lease is left to run while an upload is under way.
LeaseExpires_NotUploading ==
  /\ session.active /\ session.read = None /\ session.upload_id = 0
  /\ Finish
  /\ UNCHANGED <<toDevice, toHost, host, cuts, removed>>

\* Ten seconds without a frame; each chunk of a read counts as one.
LeaseExpires ==
  /\ session.active /\ session.read = None
  /\ Finish
  /\ UNCHANGED <<toDevice, toHost, host, cuts, removed>>

\* Without a session the console takes the frame for a line of text.
Discard ==
  /\ ~session.active /\ toDevice # <<>>
  /\ toDevice' = Tail(toDevice)
  /\ UNCHANGED <<s, session, toHost, host, cuts>>

\* What a power cut inside the handler of the next frame can leave.
Halfway ==
  IF toDevice = <<>> \/ ~session.active \/ session.read # None THEN {}
  ELSE LET f == Head(toDevice)
           idle == Mounted(s) /\ ~Uploading(s)
       IN CASE f.op = "format" /\ session.upload_id = 0 -> ToSet(FormatSteps(s.disk))
            [] f.op = "delete" /\ idle -> ToSet(RemoveSteps(s.disk, f.name))
            [] f.op = "startup" /\ idle /\ (f.name # None => s.disk.files[f.name] # None)
                 -> ToSet(SelectSteps(s.disk, f.name))
            [] OTHER -> {}

Cut ==
  /\ cuts < MaxCuts /\ cuts' = cuts + 1
  /\ s' \in PowerCut(s, {s.disk} \cup Halfway)
  /\ session' = NoSession
  /\ toDevice' = <<>>
  /\ UNCHANGED <<toHost, host, removed>>

-----------------------------------------------------------------------------
\* The device's own user, between two frames.  An upload under way makes
\* userfs refuse it; a session, or a file being read, does not.

Vanished == {n \in Names : s.disk.files[n] # None /\ s'.disk.files[n] = None}

\* micropython_enter, and micropython_program before it reads a script.
DeviceMounts ==
  /\ \E o \in Mount(s) : s' = o.s
  /\ UNCHANGED <<session, toDevice, toHost, host, cuts, removed>>

\* The startup row of the app: the selected file, or none.
DeviceSelects ==
  /\ \E n \in Names \cup {None} : \E o \in SetStartup(s, n) : s' = o.s
  /\ UNCHANGED <<session, toDevice, toHost, host, cuts, removed>>

DeviceRemoves ==
  /\ \E n \in Names : \E o \in RemoveFile(s, n) : s' = o.s
  /\ removed' = removed \cup Vanished
  /\ UNCHANGED <<session, toDevice, toHost, host, cuts>>

\* A power cut inside a removal or a selection of the app.
DeviceCut ==
  /\ cuts < MaxCuts /\ cuts' = cuts + 1
  /\ Mounted(s) /\ ~Uploading(s)
  /\ \E n \in Names :
       s' \in PowerCut(s, ToSet(RemoveSteps(s.disk, n)) \cup
                          IF s.disk.files[n] = None THEN {} ELSE ToSet(SelectSteps(s.disk, n)))
  /\ removed' = removed \cup Vanished
  /\ session' = NoSession
  /\ toDevice' = <<>>
  /\ UNCHANGED <<toHost, host>>

\* The console line HKMPFORMAT-CONFIRM, a request like any other to whoever
\* types it; the console hears no line while a session is open.
ConsoleFormats ==
  /\ ~session.active /\ toDevice = <<>> /\ host.waiting = None
  /\ host' = [host EXCEPT !.knows = [n \in Names |-> Unknown]]
  /\ \/ (\E o \in Format(s) : s' = o.s) /\ UNCHANGED cuts
     \/ /\ cuts < MaxCuts /\ cuts' = cuts + 1
        /\ s' \in PowerCut(s, ToSet(FormatSteps(s.disk)))
  /\ UNCHANGED <<session, toDevice, toHost, removed>>

-----------------------------------------------------------------------------
\* The line and the host.

Aged(frames) == [i \in DOMAIN frames |-> [frames[i] EXCEPT !.stale = TRUE]]

\* The rest of a read streams to nobody.
Unheard(ses) ==
  IF ses.read = None THEN ses ELSE [ses EXCEPT !.read.stale = TRUE]

\* An upload whose id never came is forgotten: only the lease can end it.
GaveUp(upload) == IF upload.id = 0 THEN NoUpload ELSE upload

LoseFrame ==
  /\ \/ toDevice # <<>> /\ toDevice' = Tail(toDevice) /\ UNCHANGED toHost
     \/ toHost # <<>> /\ toHost' = Tail(toHost) /\ UNCHANGED toDevice
  /\ UNCHANGED <<s, session, host, cuts, removed>>

Request(f, h) ==
  /\ ~host.gone /\ host.waiting = None /\ Len(toDevice) < LineMax
  /\ toDevice' = Append(toDevice, f)
  /\ host' = [h EXCEPT !.waiting = f.op]
  /\ UNCHANGED <<s, session, toHost, cuts, removed>>

AskBegin ==
  \E n \in Names, c \in Contents :
    /\ host.upload.id = 0
    /\ Request([op |-> "begin", name |-> n, content |-> c, stale |-> FALSE],
               [host EXCEPT !.upload = [NoUpload EXCEPT !.name = n, !.content = c]])

\* A first chunk, the next one, or the one whose answer did not come.
AskChunk ==
  LET u == host.upload IN
  /\ u.id # 0 /\ u.acked < Len(u.content)
  /\ Request([op |-> "chunk", id |-> u.id, offset |-> u.acked,
              data |-> u.content[u.acked + 1], stale |-> FALSE],
             host)

AskCommit ==
  LET u == host.upload IN
  /\ u.id # 0 /\ u.acked = Len(u.content)
  /\ Request([op |-> "commit", id |-> u.id, stale |-> FALSE],
             [host EXCEPT !.knows[u.name] = Unknown])

AskAbort ==
  /\ host.upload.id # 0
  /\ Request([op |-> "abort", id |-> host.upload.id, stale |-> FALSE],
             [host EXCEPT !.upload = NoUpload])

AskFiles ==
  \E n \in Names :
    \/ Request([op |-> "delete", name |-> n, stale |-> FALSE],
               [host EXCEPT !.knows[n] = Unknown])
    \/ Request([op |-> "read", name |-> n, stale |-> FALSE], host)

AskStartup ==
  \E n \in Names \cup {None} :
    Request([op |-> "startup", name |-> n, stale |-> FALSE], host)

AskFormat ==
  Request([op |-> "format", stale |-> FALSE],
          [host EXCEPT !.knows = [n \in Names |-> Unknown]])

AskOther ==
  \E op \in {"nudge", "close"} : Request([op |-> op, stale |-> FALSE], host)

\* The host stops waiting; whatever answers its request from now on is stale.
Timeout ==
  /\ host.waiting # None
  /\ host' = [host EXCEPT !.waiting = None, !.upload = GaveUp(@)]
  /\ toDevice' = Aged(toDevice) /\ toHost' = <<>>
  /\ session' = Unheard(session)
  /\ UNCHANGED <<s, cuts, removed>>

\* What the host makes of the answer f to the request it waits for.
Learned(f) ==
  LET u == host.upload
      done == [host EXCEPT !.waiting = None]
  IN CASE f.op = "read" /\ f.res = "more" -> host
       [] f.op = "begin" /\ f.res = "ok" -> [done EXCEPT !.upload.id = f.value]
       [] f.op = "chunk" /\ f.res = "ok" -> [done EXCEPT !.upload.acked = f.value]
       [] f.op = "commit" /\ f.res = "ok" ->
            [done EXCEPT !.upload = NoUpload, !.knows[u.name] = u.content]
       [] OTHER -> [done EXCEPT !.upload = GaveUp(@)]

Hear ==
  /\ ~host.gone /\ toHost # <<>>
  /\ toHost' = Tail(toHost)
  /\ host' = Learned(Head(toHost))
  /\ UNCHANGED <<s, session, toDevice, cuts, removed>>

Leave ==
  /\ ~host.gone
  /\ host' = [Newcomer EXCEPT !.gone = TRUE]
  /\ toDevice' = Aged(toDevice) /\ toHost' = <<>>
  /\ session' = Unheard(session)
  /\ UNCHANGED <<s, cuts, removed>>

-----------------------------------------------------------------------------
\* A tick of the main loop with a session.
Tick ==
  /\ \/ HandleUploadBegin \/ HandleUploadChunk \/ HandleUploadFinish
     \/ HandleDelete \/ HandleSetStartup \/ HandleFormat
     \/ HandleNudge \/ HandleClose \/ HandleRead
     \/ RefuseInRead \/ PumpRead \/ Discard
  /\ removed' = {n \in removed : s'.disk.files[n] = None}

Next ==
  \/ SessionBegin \/ Tick \/ LeaseExpires \/ Cut
  \/ DeviceMounts \/ DeviceSelects \/ DeviceRemoves \/ DeviceCut \/ ConsoleFormats
  \/ LoseFrame \/ Timeout \/ Hear \/ Leave
  \/ AskBegin \/ AskChunk \/ AskCommit \/ AskAbort \/ AskFiles
  \/ AskStartup \/ AskFormat \/ AskOther

\* The main loop keeps ticking, and the clock runs out on a silent host.
Fairness ==
  /\ WF_vars(Tick)
  /\ WF_vars(host.gone /\ LeaseExpires)

Spec == Init /\ [][Next]_vars /\ Fairness

-----------------------------------------------------------------------------
\* The selected startup file exists: it is deselected before it is removed,
\* whatever fails or loses power in between (userfs.c:464), except where the
\* selection itself could not be read.
StartupExists ==
  s.disk.startup # None => s.disk.files[s.disk.startup] # None \/ s.unread

\* The filesystem has an upload under way exactly when the open session holds
\* its id, through failing commits, formats, lost answers and expired leases:
\* an upload nobody holds would refuse every read, removal and new upload.
UploadOwned ==
  /\ Uploading(s) <=> session.upload_id # 0
  /\ Uploading(s) => session.active /\ session.upload_id = s.ram.upload.id

\* Once the host has been told that its commit succeeded the file holds what
\* it sent (HMPY_PROTOCOL.md:224), across power cuts and late answers to
\* requests it had given up, until it asks for something else or the user
\* removes the file on the device (micropython_app.c:799).
AnsweredIsStored ==
  \A n \in Names : host.knows[n] # Unknown =>
    s.disk.files[n] = IF n \in removed THEN None ELSE host.knows[n]

\* A host that sends its chunks in order and repeats the one whose answer was
\* lost is never told that it is out of order, whatever was uploaded before
\* (HMPY_PROTOCOL.md:220).
RepeatsAccepted ==
  \A f \in ToSet(toHost) : f.op = "chunk" => f.res # "out_of_order"

\* While a file is streamed to the host no other request changes or removes it
\* (hmpy_session.c:731); the user may remove it on the device.
ReadsOneVersion ==
  [][session.read # None /\ session'.read # None
       => \/ s'.disk.files[session.read.name] = s.disk.files[session.read.name]
          \/ session.read.name \in removed']_vars

\* Files change only by publishing the content announced for the upload under
\* way, whole, by removal or by format.
Store == INSTANCE FileStore WITH
  files <- s.disk.files,
  pending <- IF Uploading(s)
             THEN [name |-> s.ram.upload.target, content |-> s.ram.upload.expected]
             ELSE None
ImplementsFileStore == Store!StoreSpec

\* A host that disappears does not keep the filesystem: the lease ends the
\* session and its upload.
SilentHostReleases == host.gone ~> ~session.active /\ ~Uploading(s)
=============================================================================
