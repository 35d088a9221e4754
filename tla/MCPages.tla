-------------------------------- MODULE MCPages --------------------------------
\* Five parts in which answers come late: the count and the messages of an
\* application, the address look-up of a form, the Pattern/type approval
\* dashboard and the pages in front of the wizards.  The portal shows one page
\* at a time, so part, chosen in the initial state, is the one the user is at.
EXTENDS EntryPages

CONSTANTS App, MaxRuns, None, View, All, MaxWaits, Address, Typed, Short,
          Empty, Written, MaxRequests, Tab, Drafts, Narrow, Org, MaxLoads,
          MaxPage

VARIABLES
  part,
  appOf, run, chain, load, timerRef, disposed, count,
  view, page, mLoading, mLoads, shown, sends, failed,
  term, newest, asks, controller, options, aLoading, lines, text, manual,
  mounted, org, saved, filters, marked, pending, lastOrg, dLoads, rows,
  dLoading, deleting, overtaken, refused

Counts == INSTANCE MessagePoll

Messages == INSTANCE MessageTab WITH loading <- mLoading, loads <- mLoads

Addresses == INSTANCE AddressSuggest WITH loading <- aLoading

TA == INSTANCE TaDashboard WITH loading <- dLoading, loads <- dLoads

ASSUME CountsAssumption == Counts!PollAssumption
ASSUME MessagesAssumption == Messages!TabAssumption
ASSUME AddressesAssumption == Addresses!TextsAssumption
ASSUME DashboardAssumption == TA!ListAssumption

countVars == <<appOf, run, chain, load, timerRef, disposed, count>>
messagesVars == <<view, page, mLoading, mLoads, shown, sends, failed>>
addressVars ==
  <<term, newest, asks, controller, options, aLoading, lines, text, manual>>
dashboardVars ==
  <<mounted, org, saved, filters, marked, pending, lastOrg, dLoads, rows,
    dLoading, deleting, overtaken, refused>>
pages == <<part, vars, countVars, messagesVars, addressVars, dashboardVars>>

InitPages ==
  /\ part \in {"count", "messages", "address", "dashboard", "entry"}
  /\ Init
  /\ Counts!Init
  /\ Messages!Init
  /\ Addresses!Init
  /\ TA!Init
  /\ part = "count" \/ Counts!Shown = CHOOSE app \in App : TRUE
  /\ \/ part = "dashboard"
     \/ org = None /\ saved = CHOOSE f \in TA!Filters : TRUE
  /\ \/ part = "entry"
     \/ /\ service = CHOOSE s \in Service : TRUE
        /\ strict /\ lossy /\ details

\* The parts the user is not at rest.
At(p) ==
  /\ part = p
  /\ UNCHANGED part
  /\ p = "entry" \/ UNCHANGED vars
  /\ p = "count" \/ UNCHANGED countVars
  /\ p = "messages" \/ UNCHANGED messagesVars
  /\ p = "address" \/ UNCHANGED addressVars
  /\ p = "dashboard" \/ UNCHANGED dashboardVars

NextPage ==
  \/ At("count") /\ Counts!Next
  \/ At("messages") /\ Messages!Next
  \/ At("address") /\ Addresses!Next
  \/ At("dashboard") /\ TA!Next
  \/ At("entry") /\ Next

PagesSpec ==
  /\ InitPages
  /\ [][NextPage]_pages
  /\ \A i \in 1..MaxRuns :
       /\ WF_pages(At("count") /\ Counts!CountAnswered(i))
       /\ WF_pages(At("count") /\ Counts!TimerFires(i))
  /\ \A i \in 1..MaxWaits :
       /\ WF_pages(At("messages") /\ Messages!LoadAnswered(i))
       /\ WF_pages(At("messages") /\ Messages!SendAnswered(i))
  /\ \A i \in 1..MaxRequests : WF_pages(At("address") /\ Addresses!Answered(i))
  /\ WF_pages(At("dashboard") /\ TA!ListAnswered(1))
  /\ \A v \in Visit, i \in Run :
       /\ WF_pages(At("entry") /\ TokenAnswered(v, i))
       /\ WF_pages(At("entry") /\ RequestAnswered(v, i))

-----------------------------------------------------------------------------
\* Every part keeps its types and what its refs and flags say of each other.
PagesTypeOK ==
  /\ TypeOK
  /\ Counts!TypeOK
  /\ Messages!TypeOK
  /\ Addresses!TypeOK
  /\ TA!TypeOK

\* The pagination marks the page of the list above it, of the messages and of
\* the Pattern/type approval dashboard.
PageIsOfTheAnswer == Messages!PageIsOfTheList /\ TA!PageIsOfTheList

\* Whatever spins, of the list of messages, the address look-up, the dashboard
\* and the loading of a wizard's statuses, does not spin for ever.
SpinnersEnd ==
  /\ part = "messages" => Messages!SpinnerEnds
  /\ Addresses!LoadingEnds
  /\ TA!SpinnerEnds
  /\ SpinnerEnds

\* The chain of the application on the screen stays alive, the others end, and
\* the badge comes back to it (MessagePoll).
ShownChainIsAlive == Counts!ShownChainIsAlive
ChainsEndAfterLeaving == Counts!ChainsEndAfterLeaving
BadgeCatchesUp == Counts!BadgeCatchesUp

\* The address look-up shows the suggestions of its last search
\* (AddressSuggest).
SuggestionsAreLatest == Addresses!SuggestionsAreLatest

\* The list of the dashboard is the one its filters ask for (TaDashboard).
ListIsOfTheFilters == TA!ListIsOfTheFilters

\* OneRunPerVisit, OneDraftPerVisit, LockIsOwned and NoStrayNavigation, of the
\* pages in front of the wizards, are those of EntryPages.

=============================================================================
