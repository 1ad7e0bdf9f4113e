\* What DISPLAY.md says of a transfer that is cut off; not true of its first slice.
CONSTANTS
  Cells = {1, 2}
  Rects = {{1}, {2}, {1, 2}}
  Areas = {{1}, {2}}
  Slices = {{1}, {2}}
  Colours = {"red"}
  ScriptColours = {"lime"}
  MaxCommands = 2
  MaxDirty = 1
SPECIFICATION DisplaySpec
INVARIANTS
  AllDamageIsRecorded
