CONSTANTS
  d1 = d1
  d2 = d2
  d3 = d3
  manuals = manuals
  Blank = blank
  Doc = {d1, d2, d3}
  Category = {blank, manuals, photos}
  Settings <- SavesAndRows
SPECIFICATION Spec
\* The user may stop choosing, and the bound on saves may be reached.
CHECK_DEADLOCK FALSE
INVARIANTS
  TypeOK
  SavedIsHeld
  ShownIsSaved
PROPERTIES
  RevertsItsOwnDocument
