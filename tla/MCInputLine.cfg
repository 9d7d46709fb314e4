SPECIFICATION FairInputSpec
CONSTANTS
  Line <- MCLine
  Empty = ""
  EndsAfter = TRUE
  Typed <- MCTyped
INVARIANTS InputTypeOK SlotInv NoTornLine LinesOnce
PROPERTIES LinesComeThrough
CHECK_DEADLOCK FALSE
