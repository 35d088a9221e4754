CONSTANTS
  App = {a1, a2}
  MaxRuns = 3
  None = None
  View = {All, v1}
  All = All
  MaxWaits = 3
  Address = {d1, d2}
  Typed = {t1}
  Short = Short
  Empty = Empty
  Written = Written
  MaxRequests = 4
  Tab = {Drafts, Requests}
  Drafts = Drafts
  Narrow = {n1}
  Org = {o1, o2}
  MaxLoads = 3
  MaxPage = 2
  Service = {"rfq", "quote", "ta"}
  MaxVisits = 3
  MaxRenewals = 1
SPECIFICATION PagesSpec
\* The user may stay away: the system may stop.
CHECK_DEADLOCK FALSE
INVARIANTS
  PagesTypeOK
  ShownChainIsAlive
  PageIsOfTheAnswer
  ListIsOfTheFilters
  OneRunPerVisit
  OneDraftPerVisit
  LockIsOwned
PROPERTIES
  ChainsEndAfterLeaving
  BadgeCatchesUp
  SpinnersEnd
  SuggestionsAreLatest
  NoStrayNavigation
