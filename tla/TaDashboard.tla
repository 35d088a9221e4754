----------------------------- MODULE TaDashboard -----------------------------
(***************************************************************************)
(* The Pattern/type approval dashboard (routes/dashboard/dashboard-ta.tsx) *)
(* with its filter menu and the deletion of a draft (RequestList/          *)
(* paRequestItem).  Unlike the Testing & Calibration dashboard it neither  *)
(* aborts an overtaken load nor hides its tabs while a list loads, and it  *)
(* saves the choice of a tab after a pause, all else at once.              *)
(*                                                                         *)
(* The service is active, the terms of use are accepted, the user is       *)
(* signed in and MSAL is idle.  Year and status of the filter menu are one *)
(* value; the menu is open at any time.  The server answers with the page  *)
(* it was asked for.  The override of the saved tab in the session storage *)
(* is read once, in Open.                                                  *)
(***************************************************************************)
EXTENDS Integers, SequencesExt

CONSTANTS
  Tab,       \* Drafts and Requests
  Drafts,
  MaxPage,   \* bound: pages of a list
  Narrow,    \* what the filter menu may select
  Org,       \* organisations (CRM identifiers) the user may act for
  MaxLoads,  \* bound: loads under way
  None

VARIABLES
  mounted,   \* is the dashboard on the screen?
  org,       \* organisationCRMGuid of the account
  saved,     \* the filters in the profile of the account
  filters,   \* initialFilters and activeTab
  marked,    \* currentPage, the page the pagination marks
  pending,   \* the filters a tabSaveTimeoutRef timer will save
  lastOrg,   \* history: the organisation of the last load
  loads,     \* what the loads under way ask for, oldest first
  rows,      \* what the list shown was asked for
  loading,   \* isDataLoading
  deleting,  \* is a draft of this dashboard being deleted?
  overtaken, \* history: was an answer overtaken since the loads were quiet?
  refused    \* history: the last load to end was forbidden

vars == <<mounted, org, saved, filters, marked, pending, lastOrg, loads, rows,
          loading, deleting, overtaken, refused>>

Page == 1..MaxPage
Filters == [tab : Tab, page : Page, narrow : Narrow]
Question == [org : Org, filters : Filters]

\* What is assumed of the constants of an instance.
ListAssumption ==
  /\ MaxPage \in Nat \ {0}
  /\ MaxLoads \in Nat
  /\ None \notin Org \cup Filters \cup Question

Asks(o, f) == [org |-> o, filters |-> f]
HasRoom == Len(loads) < MaxLoads

Init ==
  /\ mounted = FALSE
  /\ org \in Org \cup {None}
  /\ saved \in Filters
  /\ filters = saved
  /\ marked = 1
  /\ pending = None
  /\ lastOrg = None
  /\ loads = << >>
  /\ rows = None
  /\ loading = FALSE
  /\ deleting = FALSE
  /\ overtaken = FALSE
  /\ refused = FALSE

-----------------------------------------------------------------------------
(* The load effect *)

\* n runs of the effect, each of which sets isDataLoading: also one that
\* ends at once for want of an organisation.
Run(o, f, n) ==
  /\ loads' = loads \o [i \in 1..(IF o = None THEN 0 ELSE n) |-> Asks(o, f)]
  /\ lastOrg' = IF o = None THEN lastOrg ELSE o
  /\ overtaken' = (overtaken /\ loads # << >>)
  /\ loading' = TRUE

-----------------------------------------------------------------------------
(* The user *)

\* The dashboard shows the saved filters, with the tab that the page after
\* an application was made asks for (ta/created), if it does.  The effect
\* runs before the filters are there and again with them.
Open(override) ==
  /\ ~mounted
  /\ HasRoom
  /\ mounted' = TRUE
  /\ filters' = IF override = None THEN saved ELSE [saved EXCEPT !.tab = override]
  /\ marked' = saved.page
  /\ Run(org, filters', 1)
  /\ UNCHANGED <<org, saved, pending, rows, deleting, refused>>

\* Mutant: The timer is not cleared.
Left_KeepsTimer ==
  /\ mounted' = FALSE
  /\ marked' = 1
  /\ loads' = << >>
  /\ rows' = None
  /\ loading' = FALSE
  /\ deleting' = FALSE
  /\ overtaken' = FALSE
  /\ refused' = FALSE
  /\ UNCHANGED <<saved, filters, pending, lastOrg>>

\* The state of the page is gone; no answer reaches it any more.
Left ==
  /\ mounted' = FALSE
  /\ marked' = 1
  /\ pending' = None
  /\ loads' = << >>
  /\ rows' = None
  /\ loading' = FALSE
  /\ deleting' = FALSE
  /\ overtaken' = FALSE
  /\ refused' = FALSE
  /\ UNCHANGED <<saved, filters, lastOrg>>

Leave ==
  /\ mounted
  /\ Left
  /\ UNCHANGED org

\* changeTab: the choice is saved after a pause, from the filters of now.
changeTab(tab) ==
  /\ mounted
  /\ HasRoom
  /\ filters' = [filters EXCEPT !.tab = tab, !.page = 1]
  /\ marked' = 1
  /\ rows' = None
  /\ pending' = filters'
  /\ Run(org, filters', 1)
  /\ UNCHANGED <<mounted, org, saved, deleting, refused>>

SaveTimerFires ==
  /\ pending # None
  /\ saved' = pending
  /\ pending' = None
  /\ UNCHANGED <<mounted, org, filters, marked, lastOrg, loads, rows, loading,
                 deleting, overtaken, refused>>

\* The pagination is hidden while the list loads.
changePage(page) ==
  /\ mounted
  /\ ~loading
  /\ HasRoom
  /\ filters' = [filters EXCEPT !.page = page]
  /\ marked' = page
  /\ saved' = filters'
  /\ Run(org, filters', 1)
  /\ UNCHANGED <<mounted, org, pending, rows, deleting, refused>>

\* Mutant: The filter menu does not run the load.
FilterMenu_NoLoad(narrow) ==
  /\ mounted
  /\ HasRoom
  /\ filters' = [filters EXCEPT !.narrow = narrow, !.page = 1]
  /\ marked' = 1
  /\ saved' = filters'
  /\ UNCHANGED <<lastOrg, loads, overtaken, loading>>
  /\ UNCHANGED <<mounted, org, pending, rows, deleting, refused>>

\* onSubmit and handleResetFilters of the filter menu.
FilterMenu(narrow) ==
  /\ mounted
  /\ HasRoom
  /\ filters' = [filters EXCEPT !.narrow = narrow, !.page = 1]
  /\ marked' = 1
  /\ saved' = filters'
  /\ Run(org, filters', 1)
  /\ UNCHANGED <<mounted, org, pending, rows, deleting, refused>>

\* Another organisation comes to the account: by the dialog over the page,
\* which goes home ("/") thereupon, or with the account's details.  The effect
\* that would put the page back to the first waits for a dialog mode in the
\* account's details, where nothing puts it any more: the mode moved to the
\* dialogs' own context.
OrganisationChanges(o) ==
  /\ o # org
  /\ org' = o
  /\ IF mounted /\ org = None
       THEN /\ HasRoom
            /\ Run(o, filters, 1)
            /\ UNCHANGED <<mounted, saved, filters, marked, pending, rows,
                           deleting, refused>>
       ELSE Left

\* The entry of a draft in the list.
DeleteDraft ==
  /\ mounted
  /\ ~loading
  /\ ~deleting
  /\ rows # None
  /\ rows.filters.tab = Drafts
  /\ deleting' = TRUE
  /\ UNCHANGED <<mounted, org, saved, filters, marked, pending, lastOrg, loads,
                 rows, loading, overtaken, refused>>

-----------------------------------------------------------------------------
(* The answers, in any order *)

\* deleteSuccess runs the effect, which resets it and so runs once more.
DeletionArrives ==
  /\ deleting
  /\ Len(loads) + 2 <= MaxLoads
  /\ deleting' = FALSE
  /\ Run(org, filters, 2)
  /\ UNCHANGED <<mounted, org, saved, filters, marked, pending, rows, refused>>

DeletionFails ==
  /\ deleting
  /\ deleting' = FALSE
  /\ UNCHANGED <<mounted, org, saved, filters, marked, pending, lastOrg, loads,
                 rows, loading, overtaken, refused>>

\* Load i ends, and whether it overtook an older one.
Ended(i) ==
  /\ loads' = RemoveAt(loads, i)
  /\ overtaken' = (overtaken \/ i > 1)

ListArrives(i) ==
  /\ rows' = loads[i]
  /\ marked' = loads[i].filters.page
  /\ loading' = FALSE
  /\ refused' = FALSE
  /\ Ended(i)
  /\ UNCHANGED <<mounted, org, saved, filters, pending, lastOrg, deleting>>

\* 403: a notification, and the list stays.
ListForbidden(i) ==
  /\ loading' = FALSE
  /\ refused' = TRUE
  /\ Ended(i)
  /\ UNCHANGED <<mounted, org, saved, filters, marked, pending, lastOrg, rows,
                 deleting>>

\* Any other failure, of an overtaken load too, goes to the error page.
ListFails(i) ==
  /\ Left
  /\ UNCHANGED org

-----------------------------------------------------------------------------
\* Only the oldest load is sure to be answered: the others become it.
ListAnswered(i) ==
  /\ i \in DOMAIN loads
  /\ \/ ListArrives(i)
     \/ ListForbidden(i)
     \/ ListFails(i)

DeletionAnswered == DeletionArrives \/ DeletionFails

Next ==
  \/ \E override \in Tab \cup {None} : Open(override)
  \/ Leave
  \/ \E tab \in Tab : changeTab(tab)
  \/ SaveTimerFires
  \/ \E page \in Page : changePage(page)
  \/ \E narrow \in Narrow : FilterMenu(narrow)
  \/ \E o \in Org : OrganisationChanges(o)
  \/ DeleteDraft
  \/ DeletionAnswered
  \/ \E i \in 1..MaxLoads : ListAnswered(i)

Spec == Init /\ [][Next]_vars

\* The server answers every load in the end.
FairSpec == Spec /\ WF_vars(ListAnswered(1))

-----------------------------------------------------------------------------
(* Correctness *)

TypeOK ==
  /\ mounted \in BOOLEAN
  /\ org \in Org \cup {None}
  /\ saved \in Filters
  /\ filters \in Filters
  /\ marked \in Page
  /\ pending \in Filters \cup {None}
  /\ lastOrg \in Org \cup {None}
  /\ loads \in Seq(Question)
  /\ Len(loads) <= MaxLoads
  /\ rows \in Question \cup {None}
  /\ {loading, deleting, overtaken, refused} \subseteq BOOLEAN
  /\ ~mounted => pending = None /\ loads = << >> /\ ~loading /\ ~deleting

AtRest == mounted /\ loads = << >> /\ org # None

\* If no answer overtook another, the list at rest is the one the filters
\* ask for, of the organisation the account is at: every operation that
\* changes the question runs the load.  (When answers overtake, it may not
\* be: nothing aborts a load or ignores its answer.)
ListIsOfTheFilters ==
  AtRest /\ ~overtaken /\ ~refused => rows = Asks(org, filters)

\* Even when answers overtake one another, the pagination marks the page of
\* the list above it.
PageIsOfTheList ==
  AtRest /\ ~refused => marked = rows.filters.page

\* The spinner of a dashboard that has an organisation goes away, whichever
\* of its loads ends and however.
SpinnerEnds == loading /\ org # None ~> ~loading

\* "Set to default userprofile page number when the branch is changed"
\* (dashboard-ta.tsx:333): the first list of another organisation is its
\* first page.
BranchStartsAtFirstPage ==
  [][lastOrg' # lastOrg /\ lastOrg # None =>
       Last(loads').filters.page = 1]_<<lastOrg>>

=============================================================================
