\* The user may stay away from the dashboard: the system may stop.
CONSTANTS
  Tab = {drafts, requests}
  MaxPage = 2
  Narrow = {all}
  Text = {nothing, word}
  Org = {o1, o2}
  MaxLoads = 3
  None = None
CHECK_DEADLOCK FALSE
SPECIFICATION FairSpec
INVARIANTS
  TypeOK
  RowsOfTheTab
  ShowsWhatIsAsked
  LockFollowsDialogs
  DeletedStaysGone
PROPERTIES
  SettlesWhenLeftAlone
