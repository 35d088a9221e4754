----------------------------- MODULE PagesProofs -----------------------------
(***************************************************************************)
(* What PartsProofs proves of the four pages with late answers, and        *)
(* EntryPagesProofs of the pages in front of the wizards, holds of the     *)
(* system the runs check, in which the user is at one of them.  The        *)
(* argument is a refinement: the steps of a part are steps of its own      *)
(* specification, and those of the others leave it as it is.               *)
(***************************************************************************)
EXTENDS PartsProofs, EntryPagesProofs

\* The system starts with every part in an initial state of its own.
LEMMA PartsStart ==
  ASSUME InitPages
  PROVE  /\ Init
         /\ Counts!Init
         /\ Messages!Init
         /\ Addresses!Init
         /\ TA!Init
BY DEF InitPages

LEMMA OthersRest ==
  ASSUME NEW p, At(p)
  PROVE  /\ p # "entry" => UNCHANGED vars
         /\ p # "count" => UNCHANGED Counts!vars
         /\ p # "messages" => UNCHANGED Messages!vars
         /\ p # "address" => UNCHANGED Addresses!vars
         /\ p # "dashboard" => UNCHANGED TA!vars
BY DEF At, countVars, messagesVars, addressVars, dashboardVars, Counts!vars,
   Messages!vars, Addresses!vars, TA!vars

\* Each step of the system is a step of one part, and leaves the others.
LEMMA PartsStep ==
  ASSUME [NextPage]_pages
  PROVE  /\ [Next]_vars
         /\ [Counts!Next]_(Counts!vars)
         /\ [Messages!Next]_(Messages!vars)
         /\ [Addresses!Next]_(Addresses!vars)
         /\ [TA!Next]_(TA!vars)
<1>1. CASE At("count") /\ Counts!Next
  BY <1>1, OthersRest
<1>2. CASE At("messages") /\ Messages!Next
  BY <1>2, OthersRest
<1>3. CASE At("address") /\ Addresses!Next
  BY <1>3, OthersRest
<1>4. CASE At("dashboard") /\ TA!Next
  BY <1>4, OthersRest
<1>5. CASE At("entry") /\ Next
  BY <1>5, OthersRest
<1>6. CASE UNCHANGED pages
  BY <1>6 DEF pages, countVars, messagesVars, addressVars, dashboardVars,
     Counts!vars, Messages!vars, Addresses!vars, TA!vars
<1> QED
  BY <1>1, <1>2, <1>3, <1>4, <1>5, <1>6 DEF NextPage

\* The system of the runs implements the specification of each of its parts.
THEOREM PagesImplementTheirParts ==
  PagesSpec => Spec /\ Counts!Spec /\ Messages!Spec /\ Addresses!Spec /\ TA!Spec
<1>1. InitPages => Init /\ Counts!Init /\ Messages!Init /\ Addresses!Init /\ TA!Init
  BY PartsStart
<1>2. [NextPage]_pages => /\ [Next]_vars
                          /\ [Counts!Next]_(Counts!vars)
                          /\ [Messages!Next]_(Messages!vars)
                          /\ [Addresses!Next]_(Addresses!vars)
                          /\ [TA!Next]_(TA!vars)
  BY PartsStep
<1> QED
  BY <1>1, <1>2, PTL DEF PagesSpec, Spec, Counts!Spec, Messages!Spec,
     Addresses!Spec, TA!Spec

-----------------------------------------------------------------------------
(* What holds of every part, holds of the system *)

\* The pages in front of the wizards keep the types of their state.
LEMMA EntryKeepsTypes == Spec => []TypeOK
<1>1. EntryInv => TypeOK
  BY DEF EntryInv
<1> QED
  BY <1>1, InitEntry, NextEntry, PTL DEF Spec

\* Every part keeps its types, and what its refs, flags and requests under way
\* say of one another.
THEOREM PagesKeepTypes == PagesSpec => []PagesTypeOK
<1>1. Counts!Spec => []Counts!TypeOK
  BY ShownChainStaysAlive, CountsAssumption, PTL
<1>2. Messages!Spec => []Messages!TypeOK
  BY TabMarksItsPage, MessagesAssumption, PTL
<1>3. Addresses!Spec => []Addresses!TypeOK
  BY LookUpKeepsItsTypes, AddressesAssumption
<1>4. TA!Spec => []TA!TypeOK
  BY DashboardShowsWhatItAsks, DashboardAssumption, PTL
<1> QED
  BY <1>1, <1>2, <1>3, <1>4, EntryKeepsTypes, PagesImplementTheirParts, PTL
     DEF PagesTypeOK

\* The chain that polls the count of the application on the screen stays
\* alive (appDetails.tsx:93 and 147).
THEOREM PagesKeepTheChain == PagesSpec => []ShownChainIsAlive
<1>1. Counts!Spec => []ShownChainIsAlive
  BY ShownChainStaysAlive, CountsAssumption, PTL DEF ShownChainIsAlive
<1> QED
  BY <1>1, PagesImplementTheirParts, PTL

\* A page left behind sends at most one more request for each of its chains:
\* the safety half of ChainsEndAfterLeaving (appDetails.tsx:134).
THEOREM PagesRunDown == PagesSpec => [][ChainsRunDown]_(Counts!vars)
BY ChainsRunDownAfterLeaving, CountsAssumption, PagesImplementTheirParts, PTL

\* The pagination marks the page of the list above it, of the messages
\* (appMessages.tsx:77) and of the Pattern/type approval dashboard, however
\* the loads overtook one another.
THEOREM PagesMarkTheirPage == PagesSpec => []PageIsOfTheAnswer
<1>1. Messages!Spec => []Messages!PageIsOfTheList
  BY TabMarksItsPage, MessagesAssumption, PTL
<1>2. TA!Spec => []TA!PageIsOfTheList
  BY DashboardShowsWhatItAsks, DashboardAssumption, PTL
<1> QED
  BY <1>1, <1>2, PagesImplementTheirParts, PTL DEF PageIsOfTheAnswer

\* The list of the Pattern/type approval dashboard is the one its filters ask
\* for once its loads are quiet, unless an answer overtook another
\* (dashboard-ta.tsx).
THEOREM PagesShowWhatTheyAsk == PagesSpec => []ListIsOfTheFilters
<1>1. TA!Spec => []ListIsOfTheFilters
  BY DashboardShowsWhatItAsks, DashboardAssumption, PTL DEF ListIsOfTheFilters
<1> QED
  BY <1>1, PagesImplementTheirParts, PTL

\* The suggestions of the address look-up only ever change to those of its
\* last search (AutoSuggest/index.tsx:44): it implements LatestAnswer.
THEOREM PagesSuggestTheLatest == PagesSpec => SuggestionsAreLatest
<1>1. Addresses!Spec => SuggestionsAreLatest
  BY LookUpShowsTheLatest, AddressesAssumption DEF SuggestionsAreLatest
<1> QED
  BY <1>1, PagesImplementTheirParts, PTL

\* Every spinner has a request behind it that takes it away, or, on a wizard's
\* page, a run that is over without a token.
SpinnersHaveWork ==
  /\ TabSpinnerHasWork
  /\ LookUpSpinsForNewest
  /\ DashboardSpinsForALoad
  /\ SpinnerHasARun

\* No part is left on its spinner with nothing under way: of SpinnersEnd only
\* the answers are left to fairness.
THEOREM PagesSpinForWork == PagesSpec => []SpinnersHaveWork
<1>1. Messages!Spec => []TabSpinnerHasWork
  BY TabSpinsForWork, MessagesAssumption
<1>2. Addresses!Spec => []LookUpSpinsForNewest
  BY LookUpSpinsForASearch, AddressesAssumption
<1>3. TA!Spec => []DashboardSpinsForALoad
  BY DashboardSpinsForLoads, DashboardAssumption
<1> QED
  BY <1>1, <1>2, <1>3, WizardsSpinForARun, PagesImplementTheirParts, PTL
     DEF SpinnersHaveWork

=============================================================================
