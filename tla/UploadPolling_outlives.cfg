\* A poll that the page can no longer abort.
\* The user may leave with nothing under way: the system may stop.
CONSTANTS
  Upload = {u1, u2}
  None = None
CHECK_DEADLOCK FALSE
SPECIFICATION Spec
INVARIANTS
  NoPollOutlivesPage
