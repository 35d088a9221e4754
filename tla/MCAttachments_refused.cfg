CONSTANTS
  d1 = d1
  d2 = d2
  d3 = d3
  manuals = manuals
  Blank = blank
  Doc = {d1, d2}
  Category = {blank, manuals}
  Settings <- UploadsOnly
SPECIFICATION Spec
\* The user may stop choosing, and the bound on saves may be reached.
CHECK_DEADLOCK FALSE
INVARIANT ListIsHeld
