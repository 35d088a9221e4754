------------------------------ MODULE Dashboard ------------------------------
(***************************************************************************)
(* The Testing & Calibration dashboard (routes/dashboard/index.tsx) with   *)
(* its search box and filter menu, and the dialogs PreConditions opens     *)
(* over it.  One effect loads the list; it runs again whenever one of its  *)
(* dependencies changes, and its cleanup aborts the load of the run before *)
(* it.  The search text reaches the effect debounced.                      *)
(*                                                                         *)
(* Every operation writes initialFilters and, by setUserProfile, the       *)
(* profile of the account together: they are one variable here, and so are *)
(* activeTab and currentPage, which only repeat the two.  Year and status  *)
(* of the filter menu are one value.  The terms of use are accepted, MSAL  *)
(* is idle and the server answers with the page it was asked for.          *)
(*                                                                         *)
(* An aborted fetch rejects at some later moment.  Access tokens arrive in *)
(* the order they were asked for: MSAL answers identical silent requests   *)
(* from one promise.                                                       *)
(***************************************************************************)
EXTENDS Integers, SequencesExt

CONSTANTS
  Tab,       \* Drafts, Requests, Instruments
  MaxPage,   \* bound: pages of a list
  Narrow,    \* what the filter menu may select
  Text,      \* search texts, no text among them
  Org,       \* organisations (CRM identifiers) the user may act for
  MaxLoads,  \* bound: loads whose outcome has not been seen yet
  None       \* no tab, no organisation, no list

ASSUME NoneAssumption == None \notin Tab \union Org
ASSUME BoundAssumption == MaxPage \in Nat \ {0} /\ MaxLoads \in Nat \ {0, 1}

VARIABLES
  mounted,       \* is the dashboard on the screen?
  org,           \* organisationCRMGuid of the account
  filters,       \* initialFilters and the saved profile
  settled,       \* debouncedSearchText
  loads,         \* runs of the load effect that have not ended, oldest first
  rows,          \* requests: what they answer, and whether the draft was gone
  loading,       \* isDataLoading
  locked,        \* isModalOpen: the list is inert
  branchDialog,  \* showBranchSelector
  deleteDialog,  \* showRFQDeleteModal, always for the same draft
  deletion,      \* onContinueRFQDeleteModal of that draft: none, running, over
  gone,          \* has the server deleted the draft?
  homeward,      \* navigate('/') has been called
  refused,       \* history: the last load that ended was forbidden
  emptied        \* history: the tab on display was selected again

pageVars == <<settled, loads, rows, loading, locked, refused, emptied>>
dialogVars == <<branchDialog, deleteDialog>>
vars == <<mounted, org, filters, pageVars, dialogVars, deletion, gone, homeward>>

Page == 1 .. MaxPage
FirstPage == 1
Filters == [tab : Tab \union {None}, page : Page, narrow : Narrow, text : Text]

\* What the list is asked for: stableFilters and the organisation.
Asks(o, f, text) ==
  [org |-> o, tab |-> f.tab, page |-> f.page, narrow |-> f.narrow, text |-> text]
Query == Asks(org, filters, settled)
Questions == [org : Org \union {None}, tab : Tab \union {None}, page : Page,
              narrow : Narrow, text : Text]
Askable(q) == q.org # None /\ q.tab # None

\* An answer, and whether the draft was gone when the server read it.
List == [query : Questions, gone : BOOLEAN]
ASSUME NoListAssumption == None \notin List \union Questions

Dialogs == branchDialog \/ deleteDialog
Load ==
  [query : Questions \union {None}, lock : BOOLEAN, aborted : BOOLEAN,
   phase : {"token", "asked", "answered"}, gone : BOOLEAN]

-----------------------------------------------------------------------------
(* The load effect *)

\* Mutant: The effect has no cleanup.
Cleanup_None(ls) == ls

\* The question of an aborted load no longer matters.
Aborted(l) == [l EXCEPT !.aborted = TRUE, !.query = None]
Cleanup(ls) == [i \in 1 .. Len(ls) |-> Aborted(ls[i])]

\* One more run: it ends at once without an organisation or a tab.
Run(ls, q, lock) ==
  IF Askable(q)
  THEN Append(Cleanup(ls), [query |-> q, lock |-> lock, aborted |-> FALSE,
                            phase |-> "token", gone |-> FALSE])
  ELSE Cleanup(ls)

\* Mutant: The dialogs are not among the dependencies.
LoadEffect_NoDialogs ==
  loads' = IF Query' = Query THEN loads ELSE Run(loads, Query', Dialogs')

\* The effect runs when a dependency has another value.
LoadEffect ==
  loads' = IF Query' = Query /\ dialogVars' = dialogVars
           THEN loads ELSE Run(loads, Query', Dialogs')

\* An operation starts at most two runs.
HasRoom == Len(loads) + 2 <= MaxLoads

-----------------------------------------------------------------------------
(* Mounting *)

Init ==
  /\ mounted = FALSE
  /\ org \in Org \union {None}
  /\ filters \in Filters
  /\ settled = filters.text
  /\ loads = << >>
  /\ rows = None
  /\ loading = FALSE
  /\ locked = FALSE
  /\ branchDialog = FALSE
  /\ deleteDialog = FALSE
  /\ deletion = "none"
  /\ gone = FALSE
  /\ homeward = FALSE
  /\ refused = FALSE
  /\ emptied = FALSE

\* The first run of the branch effect finds its key unset and puts the page
\* back to the first: the load of the saved page is aborted at once.
Open ==
  /\ ~mounted
  /\ mounted' = TRUE
  /\ filters' = [filters EXCEPT !.page = FirstPage]
  /\ settled' = filters.text
  /\ LET saved == Asks(org, filters, filters.text)
         first == [saved EXCEPT !.page = FirstPage]
     IN loads' = IF saved = first THEN Run(<< >>, first, FALSE)
                 ELSE Run(Run(<< >>, saved, FALSE), first, FALSE)
  /\ UNCHANGED <<org, rows, loading, locked, refused, emptied, dialogVars,
                 deletion, gone, homeward>>

\* Mutant: What has been asked for is still awaited.
Unmounted_StillAsks ==
  /\ mounted' = FALSE
  /\ rows' = None
  /\ loading' = FALSE
  /\ locked' = FALSE
  /\ refused' = FALSE
  /\ emptied' = FALSE
  /\ branchDialog' = FALSE
  /\ deleteDialog' = FALSE
  /\ UNCHANGED <<loads, settled>>

\* The state of the page is gone; loads that are aborted reach nothing.
Unmounted ==
  /\ mounted' = FALSE
  /\ loads' = << >>
  /\ rows' = None
  /\ loading' = FALSE
  /\ locked' = FALSE
  /\ refused' = FALSE
  /\ emptied' = FALSE
  /\ branchDialog' = FALSE
  /\ deleteDialog' = FALSE
  /\ UNCHANGED settled

Leave ==
  /\ mounted
  /\ Unmounted
  /\ UNCHANGED <<org, filters, deletion, gone, homeward>>

\* navigate('/') of a dialog, wherever the user is by then.
GoHome ==
  /\ homeward
  /\ homeward' = FALSE
  /\ IF mounted THEN Unmounted ELSE UNCHANGED <<mounted, pageVars, dialogVars>>
  /\ UNCHANGED <<org, filters, deletion, gone>>

-----------------------------------------------------------------------------
(* The user: a dialog covers the page, the spinner or inert the list.      *)

PageIsFree == mounted /\ ~Dialogs /\ HasRoom
ListIsFree == PageIsFree /\ ~loading /\ ~locked

Filtered(f) ==
  /\ filters' = f
  /\ UNCHANGED <<mounted, org, settled, loading, locked, refused, dialogVars,
                 deletion, gone, homeward>>
  /\ LoadEffect

\* Mutant: The list of the old tab stays until the new one arrives.
changeTab_KeepsRows(tab) ==
  /\ PageIsFree
  /\ Filtered([filters EXCEPT !.tab = tab, !.page = FirstPage])
  /\ UNCHANGED <<rows, emptied>>

changeTab(tab) ==
  /\ PageIsFree
  /\ Filtered([filters EXCEPT !.tab = tab, !.page = FirstPage])
  /\ rows' = None
  /\ emptied' = (emptied \/ Query' = Query)

changePage(page) ==
  /\ ListIsFree
  /\ Filtered([filters EXCEPT !.page = page])
  /\ UNCHANGED <<rows, emptied>>

handleSearchSubmit(text) ==
  /\ PageIsFree
  /\ Filtered([filters EXCEPT !.text = text, !.page = FirstPage])
  /\ UNCHANGED <<rows, emptied>>

\* onSubmit and handleResetFilters of the filter menu.
FilterMenu(narrow) ==
  /\ PageIsFree
  /\ Filtered([filters EXCEPT !.narrow = narrow, !.page = FirstPage])
  /\ UNCHANGED <<rows, emptied>>

DebounceFires ==
  /\ mounted
  /\ HasRoom
  /\ settled # filters.text
  /\ settled' = filters.text
  /\ UNCHANGED <<mounted, org, filters, rows, loading, locked, refused, emptied,
                 dialogVars, deletion, gone, homeward>>
  /\ LoadEffect

-----------------------------------------------------------------------------
(* The dialogs *)

OpenBranchDialog ==
  /\ PageIsFree
  /\ branchDialog' = TRUE
  /\ UNCHANGED <<mounted, org, filters, settled, rows, loading, locked, refused,
                 emptied, deleteDialog, deletion, gone, homeward>>
  /\ LoadEffect

\* The answer to the choice, which an overlay waits for; the organisation stays
\* if it was refused.  Another one is a new key for the branch effect, which
\* resets the page in the render after the load has started.
ChooseBranch(o) ==
  /\ mounted
  /\ branchDialog
  /\ HasRoom
  /\ branchDialog' = FALSE
  /\ org' = o
  /\ filters' = IF o = org THEN filters ELSE [filters EXCEPT !.page = FirstPage]
  /\ homeward' = TRUE
  /\ UNCHANGED <<mounted, settled, rows, loading, locked, refused, emptied,
                 deleteDialog, deletion, gone>>
  /\ LET kept == Asks(o, filters, settled)
         first == Run(loads, kept, deleteDialog)
     IN loads' = IF Query' = kept THEN first ELSE Run(first, Query', deleteDialog)

CloseBranchDialog ==
  /\ mounted
  /\ branchDialog
  /\ HasRoom
  /\ branchDialog' = FALSE
  /\ UNCHANGED <<mounted, org, filters, settled, rows, loading, locked, refused,
                 emptied, deleteDialog, deletion, gone, homeward>>
  /\ LoadEffect

\* From the entry of a draft in the list.
OpenDeleteDialog ==
  /\ ListIsFree
  /\ rows # None
  /\ ~rows.gone
  /\ deleteDialog' = TRUE
  /\ UNCHANGED <<mounted, org, filters, settled, rows, loading, locked, refused,
                 emptied, branchDialog, deletion, gone, homeward>>
  /\ LoadEffect

\* handleClose: nothing stops the user from closing it with the deletion under
\* way.
CloseDeleteDialog ==
  /\ mounted
  /\ deleteDialog
  /\ HasRoom
  /\ deleteDialog' = FALSE
  /\ UNCHANGED <<mounted, org, filters, settled, rows, loading, locked, refused,
                 emptied, branchDialog, deletion, gone, homeward>>
  /\ LoadEffect

ConfirmDeletion ==
  /\ deleteDialog
  /\ deletion = "none"
  /\ deletion' = "running"
  /\ UNCHANGED <<mounted, org, filters, pageVars, dialogVars, gone, homeward>>

ServerDeletes ==
  /\ deletion = "running"
  /\ deletion' = "over"
  /\ gone' \in {gone, TRUE}
  /\ UNCHANGED <<mounted, org, filters, pageVars, dialogVars, homeward>>

\* Mutant: Closing the dialog is taken to be enough.
DeletionReturns_Stays ==
  /\ deletion = "over"
  /\ HasRoom
  /\ deletion' = "none"
  /\ deleteDialog' = FALSE
  /\ UNCHANGED <<mounted, org, filters, settled, rows, loading, locked, refused,
                 emptied, branchDialog, gone, homeward>>
  /\ LoadEffect

\* The finally block, whatever became of the deletion.
DeletionReturns ==
  /\ deletion = "over"
  /\ HasRoom
  /\ deletion' = "none"
  /\ deleteDialog' = FALSE
  /\ homeward' = TRUE
  /\ UNCHANGED <<mounted, org, filters, settled, rows, loading, locked, refused,
                 emptied, branchDialog, gone>>
  /\ LoadEffect

-----------------------------------------------------------------------------
(* The answers *)

FirstWaiting(i) ==
  loads[i].phase = "token" /\ \A j \in 1 .. i - 1 : loads[j].phase # "token"

\* The spinner and the lock are set, the latter as the run saw the dialogs;
\* a fetch with an aborted signal rejects without being sent.
TokenArrives(i) ==
  /\ FirstWaiting(i)
  /\ locked' = loads[i].lock
  /\ loading' = ~loads[i].aborted
  /\ loads' = IF loads[i].aborted THEN RemoveAt(loads, i)
              ELSE [loads EXCEPT ![i].phase = "asked"]
  /\ UNCHANGED <<mounted, org, filters, settled, rows, refused, emptied,
                 dialogVars, deletion, gone, homeward>>

\* Not an AbortError, also for an aborted load: the error page takes over.
TokenFails(i) ==
  /\ FirstWaiting(i)
  /\ Unmounted
  /\ UNCHANGED <<org, filters, deletion, gone, homeward>>

Ends(i) == loads' = RemoveAt(loads, i) /\ loading' = FALSE

AbortSettles(i) ==
  /\ loads[i].aborted
  /\ loads[i].phase # "token"
  /\ Ends(i)
  /\ UNCHANGED <<mounted, org, filters, settled, rows, locked, refused, emptied,
                 dialogVars, deletion, gone, homeward>>

ServerReads(i) ==
  /\ loads[i].phase = "asked"
  /\ ~loads[i].aborted
  /\ loads' = [loads EXCEPT ![i].phase = "answered", ![i].gone = gone]
  /\ UNCHANGED <<mounted, org, filters, settled, rows, loading, locked, refused,
                 emptied, dialogVars, deletion, gone, homeward>>

ListArrives(i) ==
  /\ loads[i].phase = "answered"
  /\ ~loads[i].aborted
  /\ rows' = [query |-> loads[i].query, gone |-> loads[i].gone]
  /\ Ends(i)
  /\ refused' = FALSE
  /\ emptied' = FALSE
  /\ UNCHANGED <<mounted, org, filters, settled, locked, dialogVars, deletion,
                 gone, homeward>>

\* Mutant: The spinner goes away with the list only.
Forbidden_Spins(i) ==
  /\ loads[i].phase = "asked"
  /\ ~loads[i].aborted
  /\ loads' = RemoveAt(loads, i)
  /\ refused' = TRUE
  /\ UNCHANGED <<mounted, org, filters, settled, rows, loading, locked, emptied,
                 dialogVars, deletion, gone, homeward>>

\* A notification is shown, above whatever list there was.
Forbidden(i) ==
  /\ loads[i].phase = "asked"
  /\ ~loads[i].aborted
  /\ Ends(i)
  /\ refused' = TRUE
  /\ UNCHANGED <<mounted, org, filters, settled, rows, locked, emptied,
                 dialogVars, deletion, gone, homeward>>

ListFails(i) ==
  /\ loads[i].phase = "asked"
  /\ ~loads[i].aborted
  /\ Unmounted
  /\ UNCHANGED <<org, filters, deletion, gone, homeward>>

-----------------------------------------------------------------------------
Visit == Open \/ Leave
Filtering ==
  \/ \E tab \in Tab : changeTab(tab)
  \/ \E page \in Page : changePage(page)
  \/ \E text \in Text : handleSearchSubmit(text)
  \/ \E narrow \in Narrow : FilterMenu(narrow)
Asking ==
  \/ OpenBranchDialog
  \/ CloseBranchDialog
  \/ \E o \in Org \union {org} : ChooseBranch(o)
  \/ OpenDeleteDialog
  \/ CloseDeleteDialog
  \/ ConfirmDeletion
User == Visit \/ Filtering \/ Asking

Tokens == \E i \in 1 .. Len(loads) : TokenArrives(i) \/ TokenFails(i)
Answers ==
  \E i \in 1 .. Len(loads) :
    AbortSettles(i) \/ ServerReads(i) \/ ListArrives(i) \/ Forbidden(i) \/ ListFails(i)
Deletion == ServerDeletes \/ DeletionReturns

Next == User \/ DebounceFires \/ GoHome \/ Tokens \/ Answers \/ Deletion

Spec == Init /\ [][Next]_vars

\* Timers fire, the identity provider and the server answer, the router
\* navigates.  The user need not do anything.
FairSpec ==
  /\ Spec
  /\ WF_vars(DebounceFires)
  /\ WF_vars(GoHome)
  /\ WF_vars(Tokens)
  /\ WF_vars(Answers)
  /\ WF_vars(Deletion)

-----------------------------------------------------------------------------
(* Properties *)

Live(i) == ~loads[i].aborted

\* At most one load is not aborted, the newest; an unmounted dashboard waits
\* for nothing and has no dialog.
TypeOK ==
  /\ mounted \in BOOLEAN
  /\ org \in Org \union {None}
  /\ filters \in Filters
  /\ settled \in Text
  /\ loads \in Seq(Load)
  /\ Len(loads) <= MaxLoads
  /\ \A i \in 1 .. Len(loads) : Live(i) => i = Len(loads)
  /\ loads # << >> \/ Dialogs => mounted
  /\ rows \in List \union {None}
  /\ loading \in BOOLEAN /\ locked \in BOOLEAN
  /\ refused \in BOOLEAN /\ emptied \in BOOLEAN
  /\ branchDialog \in BOOLEAN /\ deleteDialog \in BOOLEAN
  /\ gone \in BOOLEAN /\ homeward \in BOOLEAN
  /\ deletion \in {"none", "running", "over"}

\* The list on display is never another tab's, whatever loads are on their
\* way.
RowsOfTheTab == rows # None => rows.query.tab = filters.tab

\* Nothing is on its way, neither load nor search text nor navigation.
Settled ==
  /\ mounted
  /\ loads = << >>
  /\ settled = filters.text
  /\ ~homeward

\* Once settled, the list is the one asked for: by the organisation, tab, page,
\* filter and text on display.  Unless the last load was forbidden, or the tab
\* on display was selected again, which empties the list and loads nothing.
ShowsWhatIsAsked ==
  Settled /\ Askable(Query) => refused \/ emptied \/ (rows # None /\ rows.query = Query)

\* Once settled, the list can be used exactly when no dialog is open, although
\* every load sets the lock from the dialogs that were open when it started.
LockFollowsDialogs == Settled /\ Askable(Query) => (locked <=> Dialogs)

\* A draft the server has deleted is not listed any more once the deletion has
\* returned, also when its dialog was closed meanwhile.
DeletedStaysGone ==
  Settled /\ gone /\ deletion = "none" /\ rows # None => rows.gone

\* If the user lets it be, the dashboard settles and the spinner goes away.
SettlesWhenLeftAlone ==
  <>[][~User]_vars => []<>(~mounted \/ (Settled /\ ~loading))

=============================================================================
