------------------------------ MODULE DisplayStage ------------------------------
(***************************************************************************)
(* The display adapter (platforms/k210/capabilities/display_adapter.c) with*)
(* its two clients on core 0: the native views, which draw in place in the *)
(* backing store of the BASE plane (ui/display_binding.c), and a running   *)
(* script, whose display calls stage commands for the OVERLAY plane        *)
(* (adapters/micropython/micropython_capability_bridge.c).                 *)
(*                                                                         *)
(* A picture gives each cell of the screen a colour, a rectangle is a set  *)
(* of cells, a command paints one colour on one rectangle, and a dirty     *)
(* list is a set of disjoint rectangles: those that overlap are replaced by*)
(* the least rectangle around them.  A transfer to the panel may stop after*)
(* any part of its cells: cancelled, too late, or failed.  It goes slice by*)
(* slice, and counts as begun when its first slice returned well.          *)
(***************************************************************************)
EXTENDS Naturals, Sequences, FiniteSets, SequencesExt, FiniteSetsExt

CONSTANTS
  Cells, Rects,       \* the screen and its rectangles
  Areas,              \* the rectangles that are drawn
  Slices,             \* what a transfer may write first, at most 64 pixels of a row
  Colours, ScriptColours,  \* what the native views and scripts paint
  MaxCommands, MaxDirty  \* K210_DISPLAY_MAX_COMMANDS and _MAX_DIRTY_RECTS

ASSUME DisplayAssumption ==
  /\ IsFiniteSet(Cells) /\ Cells # {}
  /\ Rects \subseteq (SUBSET Cells) \ {{}} /\ Cells \in Rects
  /\ \A around \in SUBSET Rects :
       LET common == {c \in Cells : \A r \in around : c \in r}
       IN  common # {} => common \in Rects
  /\ Areas \subseteq Rects
  /\ Slices \subseteq (SUBSET Cells) \ {{}}
  /\ \A r \in Rects : \E first \in Slices : first \subseteq r
  /\ MaxCommands \in Nat \ {0} /\ MaxDirty \in Nat \ {0}

VARIABLES
  panel,    \* what the LCD shows
  shadow,   \* the backing store of BASE
  stale,    \* cells drawn in the backing store and not transferred since
  repair,   \* the repair list of each plane
  unrecorded,  \* history: cells that a transfer cut off in its first slice
               \* changed, not transferred since
  frame,    \* s_frame_active: a view holds the surface over several calls
  overlay,  \* the committed overlay: commands and dirty
  script,   \* the script's hold on OVERLAY: none, open, lost, quarantined
  stage,    \* display_stage_t of the script's batch
  memory    \* who borrows the frame workspace: none, display, other

panelVars == <<panel, stale, repair, unrecorded>>
uiVars == <<shadow, frame>>
scriptVars == <<overlay, script, stage, memory>>
displayVars == <<panelVars, uiVars, scriptVars>>

Planes == {"BASE", "OVERLAY"}
None   == "none"
Black  == [c \in Cells |-> "black"]
Blank  == [area |-> {}, colour |-> "black"]

NoStage == [slots |-> [i \in 1..MaxCommands |-> Blank], count |-> 0,
            first |-> Blank, dirty |-> {}]

DisplayInit ==
  /\ panel = Black /\ shadow = Black /\ stale = {}
  /\ repair = [p \in Planes |-> {}] /\ unrecorded = {}
  /\ frame = FALSE
  /\ overlay = [commands |-> <<>>, dirty |-> {}]
  /\ script = None /\ stage = NoStage /\ memory = None

-----------------------------------------------------------------------------
(* Rectangles and pictures                                                 *)

\* rect_union repeated: the least rectangle around area that overlaps no dirty
\* rectangle it does not contain.
Around(dirty, area) ==
  {r \in Rects : area \subseteq r /\ \A d \in dirty : d \subseteq r \/ d \cap r = {}}
Joined(dirty, area) == {c \in Cells : \A r \in Around(dirty, area) : c \in r}

\* dirty_add, without its limit
DirtyAdd(dirty, area) ==
  {d \in dirty : d \cap Joined(dirty, area) = {}} \cup {Joined(dirty, area)}
DirtyAll(dirty, areas) ==
  FoldSet(LAMBDA area, d : DirtyAdd(d, area), dirty, areas)
Fits(dirty) == Cardinality(dirty) <= MaxDirty

\* dirty_add where the result is ignored
DirtyAddOr(dirty, area) ==
  IF Fits(DirtyAdd(dirty, area)) THEN DirtyAdd(dirty, area) ELSE dirty
DirtyAllOr(dirty, areas) ==
  FoldSet(LAMBDA area, d : DirtyAddOr(d, area), dirty, areas)

\* render_commands_span over the whole screen: each cell has the colour of the
\* last command that covers it.
Painted(picture, commands) ==
  [c \in Cells |->
     LET on == {i \in DOMAIN commands : c \in commands[i].area}
     IN  IF on = {} THEN picture[c] ELSE commands[Max(on)].colour]

Drawing == SubSeq(stage.slots, 1, stage.count)
Shown   == Painted(shadow, overlay.commands)

\* transfer_regions, as far as the cells it reached
Transferred(screen, picture, cells) ==
  [c \in Cells |-> IF c \in cells THEN picture[c] ELSE screen[c]]

\* transfer_rect sets *progress when a slice has been written and nothing said
\* stop by then (Counted); a first slice that is cut off, or cancelled as it
\* ends, may have changed cells without it (Uncounted).
FirstSlices(list) == {first \in Slices : \E r \in list : first \subseteq r}
Counted(cells, list) == \E first \in FirstSlices(list) : first \subseteq cells
Uncounted(cells, list) == \E first \in FirstSlices(list) : cells \subseteq first

-----------------------------------------------------------------------------
(***************************************************************************)
(* k210_display_present of a plane: the repair of what an earlier present  *)
(* left, with the picture that was committed, and then the transfer of the *)
(* affected rectangles.  An outcome says how far it came: the panel, the   *)
(* cells that were reached, the repair list it leaves, and the cells that  *)
(* show what is not committed with no repair recorded.                     *)
(***************************************************************************)
PresentOutcomes(plane, committed, picture, affected) ==
  LET torn     == UNION repair[plane]
      done     == UNION affected
      repaired == Transferred(panel, committed, torn)
      Outcome(ok, screen, cells, list, lost) ==
        [ok |-> ok, panel |-> screen, reached |-> cells, repair |-> list,
         unrecorded |-> lost]
      InRepair(cells) ==
        Outcome(FALSE, Transferred(panel, committed, cells), cells, repair[plane], {})
      InTransfer(cells) ==
        Outcome(FALSE, Transferred(repaired, picture, cells), torn \cup cells,
                affected, {})
      InFirstSlice(cells) ==
        Outcome(FALSE, Transferred(panel, picture, cells), cells, {},
                {c \in cells : picture[c] # committed[c]})
  IN  {InRepair(cells) : cells \in SUBSET torn}
      \cup IF ~Fits(affected) THEN {Outcome(FALSE, repaired, torn, {}, {})}
           ELSE {InTransfer(cells) : cells \in
                   {x \in SUBSET done : \/ torn # {} /\ affected # {}
                                       \/ Counted(x, affected)}}
             \cup {InFirstSlice(cells) : cells \in
                   {x \in SUBSET done : torn = {} /\ Uncounted(x, affected)}}
             \cup {Outcome(TRUE, Transferred(repaired, picture, done),
                           torn \cup done, {}, {})}

\* Mutant: what a failed transfer damaged is not recorded.
Ends_Unrecorded(plane, o, drawn) ==
  /\ panel' = o.panel
  /\ stale' = (stale \cup drawn) \ o.reached
  /\ unrecorded' = (unrecorded \ o.reached) \cup o.unrecorded
  /\ repair' = [repair EXCEPT ![plane] = {}]

Ends(plane, o, drawn) ==
  /\ panel' = o.panel
  /\ stale' = (stale \cup drawn) \ o.reached
  /\ unrecorded' = (unrecorded \ o.reached) \cup o.unrecorded
  /\ repair' = [repair EXCEPT ![plane] = o.repair]

-----------------------------------------------------------------------------
(***************************************************************************)
(* The native views.  What they draw changes the backing store at once; a  *)
(* present that fails is aborted, and the backing store stays as drawn.    *)
(***************************************************************************)
Usable == script # "quarantined"
Drawn(area, colour) == [c \in Cells |-> IF c \in area THEN colour ELSE shadow[c]]

\* surface_present_now and hk_ui_display_frame_present_regions
SurfacePresented(areas, store, drawn) ==
  LET picture == Painted(store, overlay.commands)
  IN  \E o \in PresentOutcomes("BASE", picture, picture, DirtyAll({}, areas)) :
        Ends("BASE", o, drawn)

\* hk_ui_display_fill_rect and the other calls that draw, outside a frame
UiDraws(area, colour) ==
  /\ ~frame /\ Usable
  /\ shadow' = Drawn(area, colour)
  /\ SurfacePresented({area}, shadow', area)
  /\ UNCHANGED <<frame, scriptVars>>

FrameAcquire ==
  /\ ~frame /\ Usable
  /\ frame' = TRUE
  /\ UNCHANGED <<panelVars, shadow, scriptVars>>

\* the same calls within a frame, and what a view writes to the surface
FrameDraws(area, colour) ==
  /\ frame
  /\ shadow' = Drawn(area, colour)
  /\ stale' = stale \cup area
  /\ UNCHANGED <<panel, repair, unrecorded, frame, scriptVars>>

FramePresent(areas) ==
  /\ frame /\ Usable
  /\ frame' = FALSE
  /\ IF Fits(DirtyAll({}, areas)) THEN SurfacePresented(areas, shadow, {})
     ELSE UNCHANGED panelVars
  /\ UNCHANGED <<shadow, scriptVars>>

FrameCancel ==
  /\ frame
  /\ frame' = FALSE
  /\ UNCHANGED <<panelVars, shadow, scriptVars>>

-----------------------------------------------------------------------------
(***************************************************************************)
(* The frame workspace holds what is staged and the committed overlay.     *)
(***************************************************************************)
\* workspace_release_if_idle, once no batch is staged
Released(committed, list) ==
  IF memory = "display" /\ committed.commands = <<>> /\ list = {}
  THEN None ELSE memory

OtherBorrows ==
  /\ memory = None /\ memory' = "other"
  /\ UNCHANGED <<panelVars, uiVars, overlay, script, stage>>

OtherReturns ==
  /\ memory = "other" /\ memory' = None
  /\ UNCHANGED <<panelVars, uiVars, overlay, script, stage>>

-----------------------------------------------------------------------------
(* The script's display calls.  One that fails, or that is cancelled before*)
(* its end, is undone: binding_display_transaction_finish.                 *)

\* micropython_capability_bridge_begin: acquire, open_plane, begin_batch
ScriptStarts ==
  /\ script = None /\ memory # "other"
  /\ script' = "open" /\ memory' = "display" /\ stage' = NoStage
  /\ UNCHANGED <<panelVars, uiVars, overlay>>

\* append_command
Append1(s, area, colour) ==
  [slots |-> [s.slots EXCEPT ![s.count + 1] = [area |-> area, colour |-> colour]],
   count |-> s.count + 1, first |-> s.first, dirty |-> DirtyAdd(s.dirty, area)]
HasRoom(s, area) == s.count < MaxCommands /\ Fits(DirtyAdd(s.dirty, area))

\* k210_display_checkpoint
Checked(s) == [s EXCEPT !.first = Blank]

\* Mutant: the first command, which clear wrote over, is not put back.
Restored_NewFirst(s, count) ==
  [s EXCEPT !.count = count,
            !.dirty = DirtyAll({}, {s.slots[i].area : i \in 1..count})]

\* k210_display_restore, with dirty_rebuild
Restored(s, count) ==
  LET first == IF count = 0 /\ s.count # 0 THEN s.slots[1] ELSE s.first
      slots == IF first # Blank /\ count # 0 THEN [s.slots EXCEPT ![1] = first]
               ELSE s.slots
  IN  [slots |-> slots, count |-> count, first |-> first,
       dirty |-> DirtyAll({}, {slots[i].area : i \in 1..count})]

ScriptCall(executed, undone) ==
  /\ script = "open"
  /\ stage' = IF undone THEN Restored(executed, stage.count) ELSE executed
  /\ UNCHANGED <<panelVars, uiVars, overlay, script, memory>>

\* MICROPYTHON_BINDING_OP_DISPLAY_CLEAR
ScriptClears(colour, undone) ==
  ScriptCall(Append1(Restored(Checked(stage), 0), Cells, colour), undone)

\* MICROPYTHON_BINDING_OP_DISPLAY_RECT
ScriptRect(area, colour, undone) ==
  LET s == Checked(stage)
  IN  IF HasRoom(s, area) THEN ScriptCall(Append1(s, area, colour), undone)
      ELSE undone /\ ScriptCall(s, undone)

\* MICROPYTHON_BINDING_OP_DISPLAY_TEXT: the background and the glyphs
ScriptText(area, colour, undone) ==
  LET s == Checked(stage)
      t == Append1(s, area, "black")
  IN  CASE ~HasRoom(s, area) -> undone /\ ScriptCall(s, undone)
        [] HasRoom(s, area) /\ ~HasRoom(t, area) ->
             undone /\ ScriptCall(t, undone)
        [] OTHER -> ScriptCall(Append1(t, area, colour), undone)

\* MICROPYTHON_BINDING_OP_DISPLAY_PRESENT: a successful present ends the
\* batch, and the next one starts with the same drawing.
ScriptPresents ==
  /\ script = "open"
  /\ \E o \in PresentOutcomes("OVERLAY", Shown, Painted(shadow, Drawing),
                              DirtyAll(stage.dirty, overlay.dirty)) :
       /\ Ends("OVERLAY", o, {})
       /\ overlay' = IF o.ok THEN [commands |-> Drawing, dirty |-> stage.dirty]
                     ELSE overlay
       /\ stage' = IF ~o.ok THEN Checked(stage)
                   ELSE Restored([stage EXCEPT !.count = 0, !.first = Blank,
                                               !.dirty = {}], stage.count)
  /\ UNCHANGED <<uiVars, script, memory>>

\* k210_display_close through hk_display_release, at the end of the run.  One
\* that fails without progress keeps the lease, which has no user any more;
\* one that fails after it quarantines the display.
ScriptEnds ==
  LET cleanup == DirtyAllOr(DirtyAllOr({}, repair["OVERLAY"]), overlay.dirty)
      Cleaned(cells, lost) == /\ panel' = Transferred(panel, shadow, cells)
                              /\ stale' = stale \ cells
                              /\ unrecorded' = (unrecorded \ cells) \cup lost
  IN  /\ script = "open"
      /\ stage' = NoStage
      /\ \/ /\ script' = None
            /\ Cleaned(UNION cleanup, {})
            /\ overlay' = [commands |-> <<>>, dirty |-> {}]
            /\ repair' = [repair EXCEPT !["OVERLAY"] = {}]
            /\ memory' = None
         \/ \E cells \in SUBSET UNION cleanup :
              /\ \/ /\ Uncounted(cells, cleanup)
                    /\ Cleaned(cells, {c \in cells : Shown[c] # shadow[c]})
                    /\ script' = "lost"
                 \/ /\ Counted(cells, cleanup)
                    /\ Cleaned(cells, {})
                    /\ script' = "quarantined"
              /\ memory' = Released(overlay, repair["OVERLAY"])
              /\ UNCHANGED <<overlay, repair>>
      /\ UNCHANGED uiVars

Restart ==
  /\ script \in {"lost", "quarantined"}
  /\ panel' = Black /\ shadow' = Black /\ stale' = {}
  /\ repair' = [p \in Planes |-> {}] /\ unrecorded' = {}
  /\ frame' = FALSE
  /\ overlay' = [commands |-> <<>>, dirty |-> {}]
  /\ script' = None /\ stage' = NoStage /\ memory' = None

-----------------------------------------------------------------------------
DisplayNext ==
  \/ \E a \in Areas, k \in Colours : UiDraws(a, k) \/ FrameDraws(a, k)
  \/ \E areas \in (SUBSET Areas) \ {{}} : FramePresent(areas)
  \/ FrameAcquire \/ FrameCancel
  \/ OtherBorrows \/ OtherReturns
  \/ ScriptStarts \/ ScriptPresents \/ ScriptEnds \/ Restart
  \/ \E k \in ScriptColours, undone \in BOOLEAN : ScriptClears(k, undone)
  \/ \E a \in Areas, k \in ScriptColours, undone \in BOOLEAN :
       ScriptRect(a, k, undone) \/ ScriptText(a, k, undone)

DisplaySpec == DisplayInit /\ [][DisplayNext]_displayVars

-----------------------------------------------------------------------------
(* Properties                                                              *)

(***************************************************************************)
(* After a present or a close that was cut off, "the provider records the  *)
(* affected damage" (docs/spec/capabilities/DISPLAY.md), and the next one  *)
(* repairs it.  Wherever no plane has a repair recorded, the panel shows   *)
(* the committed overlay on the backing store, or an older picture of cells*)
(* that a view has drawn and not presented.  Excepted are the cells that   *)
(* the first slice of a transfer changed before it was cut off.            *)
(***************************************************************************)
PanelShowsCommitted ==
  Usable => \A c \in Cells \ (stale \cup unrecorded \cup UNION (UNION Range(repair))) :
              panel[c] = Shown[c]

(***************************************************************************)
(* The same without that exception, as DISPLAY.md:162-164 has it: "failure *)
(* after any physical progress records the complete affected staged        *)
(* dirty-region list".  The code does not do so in the first slice         *)
(* (display_adapter.c:578), and MCDisplayFirstSlice.cfg shows it.          *)
(***************************************************************************)
AllDamageIsRecorded ==
  Usable => \A c \in Cells \ (stale \cup UNION (UNION Range(repair))) :
              panel[c] = Shown[c]

(***************************************************************************)
(* A display call that is refused for lack of room or cancelled while it   *)
(* runs leaves the script's drawing as it was, command for command, though *)
(* clear has begun a new one in the same storage; so does a present.       *)
(***************************************************************************)
UndoneCallsLeaveNoTrace ==
  [][Drawing' # Drawing =>
       ~ \/ \E k \in ScriptColours : ScriptClears(k, TRUE)
         \/ \E a \in Areas, k \in ScriptColours :
              ScriptRect(a, k, TRUE) \/ ScriptText(a, k, TRUE)
         \/ ScriptPresents]_stage
=============================================================================
