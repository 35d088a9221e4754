------------------------------ MODULE MessageTab ------------------------------
(***************************************************************************)
(* The messages of an application (routes/ta/manage/appMessages.tsx): the  *)
(* list is loaded by an effect that runs whenever the filter, the page,    *)
(* the refresh counter or the accounts change, and nothing aborts or       *)
(* ignores an overtaken load.  An answer moves the page to the one it is   *)
(* for, which runs the effect again if the page was another by then.  One  *)
(* flag, isDataLoading, serves the loads and the messages being sent.      *)
(*                                                                         *)
(* The user is signed in and the server answers with the page it was asked *)
(* for.  Leaving the page is left out: no answer reaches a page that is    *)
(* gone.                                                                   *)
(***************************************************************************)
EXTENDS Naturals, FiniteSets

CONSTANTS
  View,     \* the filters; the first list is of all messages
  All,
  MaxPage,  \* bound: pages of a list
  MaxWaits, \* bound: loads and messages under way
  None

VARIABLES
  view,     \* messageView
  page,     \* currentPage
  loading,  \* isDataLoading
  loads,    \* the loads under way and what they ask for
  shown,    \* what the list shown was asked for
  sends,    \* the messages being sent
  failed    \* history: the last load to end failed

vars == <<view, page, loading, loads, shown, sends, failed>>

Page == 1..MaxPage
Wait == 1..MaxWaits
Question == [view : View, page : Page]

\* What is assumed of the constants of an instance.
TabAssumption ==
  /\ All \in View
  /\ MaxPage \in Nat \ {0}
  /\ MaxWaits \in Nat \ {0}
  /\ None \notin Question

Init ==
  /\ view = All
  /\ page = 1
  /\ loading = TRUE
  /\ loads = [i \in Wait |-> IF i = 1 THEN [view |-> All, page |-> 1] ELSE None]
  /\ shown = None
  /\ sends = [i \in Wait |-> "idle"]
  /\ failed = FALSE

Loading == {i \in Wait : loads[i] # None}
Sending == {i \in Wait : sends[i] # "idle"}

\* A message under way keeps a place for the load that follows it.
HasRoom == Cardinality(Loading) + Cardinality(Sending) < MaxWaits

OneOf(S) == CHOOSE i \in S : TRUE

\* A run of the effect, among the loads ls: it sets isDataLoading at once.
Load(ls, v, p) ==
  [ls EXCEPT ![OneOf({i \in Wait : ls[i] = None})] = [view |-> v, page |-> p]]

-----------------------------------------------------------------------------
(* The user *)

\* The select is disabled while the list loads; the refresh counter makes
\* the effect run on the first page, too.
ChangeView(v) ==
  /\ ~loading
  /\ HasRoom
  /\ v # view
  /\ view' = v
  /\ page' = 1
  /\ loads' = Load(loads, v, 1)
  /\ loading' = TRUE
  /\ UNCHANGED <<shown, sends, failed>>

\* The pagination is hidden while the list loads.
ChangePage(p) ==
  /\ ~loading
  /\ HasRoom
  /\ shown # None
  /\ p # page
  /\ page' = p
  /\ loads' = Load(loads, view, p)
  /\ loading' = TRUE
  /\ UNCHANGED <<view, shown, sends, failed>>

\* The access token is renewed, or another tab signs in.
AccountsChange ==
  /\ HasRoom
  /\ loads' = Load(loads, view, page)
  /\ loading' = TRUE
  /\ UNCHANGED <<view, page, shown, sends, failed>>

\* The editor can be submitted at any time, twice too.  Its code is loaded
\* before the flag is set.
Submit ==
  /\ HasRoom
  /\ sends' = [sends EXCEPT ![OneOf(Wait \ Sending)] = "importing"]
  /\ UNCHANGED <<view, page, loading, loads, shown, failed>>

-----------------------------------------------------------------------------
(* The answers *)

EditorArrives(i) ==
  /\ sends[i] = "importing"
  /\ sends' = [sends EXCEPT ![i] = "sending"]
  /\ loading' = TRUE
  /\ UNCHANGED <<view, page, loads, shown, failed>>

\* The page goes back to the first and the refresh counter runs the effect.
SendArrives(i) ==
  /\ sends[i] = "sending"
  /\ sends' = [sends EXCEPT ![i] = "idle"]
  /\ page' = 1
  /\ loads' = Load(loads, view, 1)
  /\ loading' = TRUE
  /\ UNCHANGED <<view, shown, failed>>

SendFails(i) ==
  /\ sends[i] = "sending"
  /\ sends' = [sends EXCEPT ![i] = "idle"]
  /\ loading' = FALSE
  /\ UNCHANGED <<view, page, loads, shown, failed>>

\* Mutant: The answer does not say which page it is for.
LoadArrives_NoPage(i) ==
  /\ loads[i] # None
  /\ shown' = loads[i]
  /\ loads' = [loads EXCEPT ![i] = None]
  /\ loading' = FALSE
  /\ failed' = FALSE
  /\ UNCHANGED <<view, page, sends>>

\* The flag is cleared, and set again by the effect if the page changes.
LoadArrives(i) ==
  LET q == loads[i]
      rest == [loads EXCEPT ![i] = None]
  IN /\ q # None
     /\ shown' = q
     /\ page' = q.page
     /\ loads' = IF q.page = page THEN rest ELSE Load(rest, view, q.page)
     /\ loading' = (q.page # page)
     /\ failed' = FALSE
     /\ UNCHANGED <<view, sends>>

LoadFails(i) ==
  /\ loads[i] # None
  /\ loads' = [loads EXCEPT ![i] = None]
  /\ loading' = FALSE
  /\ failed' = TRUE
  /\ UNCHANGED <<view, page, shown, sends>>

-----------------------------------------------------------------------------
LoadAnswered(i) == LoadArrives(i) \/ LoadFails(i)
SendAnswered(i) == EditorArrives(i) \/ SendArrives(i) \/ SendFails(i)

Next ==
  \/ \E v \in View : ChangeView(v)
  \/ \E p \in Page : ChangePage(p)
  \/ AccountsChange
  \/ Submit
  \/ \E i \in Wait : LoadAnswered(i)
  \/ \E i \in Wait : SendAnswered(i)

Spec == Init /\ [][Next]_vars

\* Every request is answered in the end.
FairSpec ==
  Spec /\ \A i \in Wait : WF_vars(LoadAnswered(i)) /\ WF_vars(SendAnswered(i))

-----------------------------------------------------------------------------
(* Correctness *)

TypeOK ==
  /\ view \in View
  /\ page \in Page
  /\ loading \in BOOLEAN
  /\ loads \in [Wait -> Question \cup {None}]
  /\ shown \in Question \cup {None}
  /\ sends \in [Wait -> {"idle", "importing", "sending"}]
  /\ Cardinality(Loading) + Cardinality(Sending) <= MaxWaits
  /\ failed \in BOOLEAN

\* However the loads overtook one another, once all is quiet the page that
\* the pagination marks is the page of the list above it, unless the last
\* load failed: this is what the answer's page is for (appMessages.tsx:77).
PageIsOfTheList ==
  Loading = {} /\ shown # None /\ ~failed => shown.page = page

\* The list comes back from every load, unless loads of different pages are
\* under way together: two such loads can keep each other going for ever,
\* since each answer turns the page and loads it again.
LoadsAgree ==
  \A i, j \in Loading : loads[i].page = loads[j].page

SpinnerEnds == loading ~> ~loading \/ ~LoadsAgree

=============================================================================
