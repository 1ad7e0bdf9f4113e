----------------------------- MODULE FileStore -----------------------------
(***************************************************************************)
(* What the user filesystem promises whoever uploads through it: a file     *)
(* holds nothing, or the whole content one upload announced.  The content   *)
(* appears in one step, at the announced name, and only while that upload   *)
(* is the one under way; a power cut, a write error or a lost message       *)
(* leaves every file as it was.                                             *)
(***************************************************************************)
CONSTANTS
  Names,     \* names a host may give a file
  Contents,  \* contents a host may upload
  None       \* no file, no upload

VARIABLES
  files,     \* what each name holds
  pending    \* the upload under way: its name and announced content

storeVars == <<files, pending>>

Upload == [name : Names, content : Contents]

StoreTypeOK ==
  /\ files \in [Names -> Contents \cup {None}]
  /\ pending \in Upload \cup {None}

Empty == [n \in Names |-> None]

StoreInit == files = Empty /\ pending = None

Announce(u) == pending = None /\ pending' = u /\ UNCHANGED files

\* A failing report may follow a publication that took effect, so the upload
\* may stay pending after it.
Publish ==
  /\ pending # None
  /\ files' = [files EXCEPT ![pending.name] = pending.content]
  /\ pending' \in {pending, None}

Forget == pending # None /\ pending' = None /\ UNCHANGED files

Delete(n) ==
  /\ pending = None
  /\ files' = [files EXCEPT ![n] = None]
  /\ UNCHANGED pending

Wipe == pending = None /\ files' = Empty /\ UNCHANGED pending

StoreNext ==
  \/ \E u \in Upload : Announce(u)
  \/ Publish
  \/ Forget
  \/ \E n \in Names : Delete(n)
  \/ Wipe

StoreSpec == StoreInit /\ [][StoreNext]_storeVars
=============================================================================
