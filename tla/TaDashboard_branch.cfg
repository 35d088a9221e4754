\* An account with two organisations: the page of the first list of the other.
CONSTANTS
  Tab = {Drafts, Requests}
  Drafts = Drafts
  Narrow = {n1}
  Org = {o1, o2}
  MaxLoads = 3
  MaxPage = 2
  None = None
SPECIFICATION FairSpec
\* The user may stay away: the system may stop.
CHECK_DEADLOCK FALSE
PROPERTY BranchStartsAtFirstPage
