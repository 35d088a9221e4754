\* Three uploads that may overlap.
\* The user may leave with nothing under way: the system may stop.
CONSTANTS
  Upload = {u1, u2, u3}
  None = None
CHECK_DEADLOCK FALSE
SPECIFICATION FairSpec
INVARIANTS
  TypeOK
  ShownProgressIsLive
PROPERTIES
  AbortedAsksNoMore
  AbortEndsPoll
  ProgressGoesAway
