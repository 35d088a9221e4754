----------------------------- MODULE PartsProofs -----------------------------
(***************************************************************************)
(* What the late answers of four pages leave true, for any number of       *)
(* applications, pages, texts, organisations and requests under way: the   *)
(* chain of counts, the message tab, the address look-up and the           *)
(* Pattern/type approval dashboard, as MCPages instantiates them.  Each    *)
(* section proves the specification of its part correct by itself;         *)
(* PagesProofs puts them together.                                         *)
(***************************************************************************)
EXTENDS MCPages, Integers, Sequences, FiniteSets, FiniteSetTheorems, TLAPS

-----------------------------------------------------------------------------
(* The count of an application                                             *)
(*                                                                         *)
(* The newest run of the effect has a chain that is fetching or pausing,   *)
(* whatever the answers of the older ones do with the timer.               *)

ChainInv == Counts!TypeOK /\ Counts!ShownChainIsAlive

LEMMA InitChainInv ==
  ASSUME Counts!PollAssumption, Counts!Init
  PROVE  ChainInv
<1> USE DEF Counts!PollAssumption, Counts!Init
<1>1. run \in Counts!Run /\ run = 1
  BY DEF Counts!Run
<1>2. appOf \in [Counts!Run -> App \union {None}]
        /\ \A i \in Counts!Run : (appOf[i] = None) <=> (i > run)
  BY <1>1
<1>3. /\ chain \in [Counts!Run -> {"none", "fetching", "pausing", "ended"}]
      /\ chain[run] = "fetching"
  BY <1>1
<1>4. load \in [Counts!Run -> BOOLEAN]
  OBVIOUS
<1>5. ASSUME NEW i \in Counts!Run, i > run PROVE chain[i] = "none" /\ ~load[i]
  <2>1. i # 1
    BY <1>1, <1>5 DEF Counts!Run
  <2> QED
    BY <2>1
<1> QED
  BY <1>1, <1>2, <1>3, <1>4, <1>5 DEF ChainInv, Counts!TypeOK,
     Counts!ShownChainIsAlive, Counts!Alive

LEMMA TimerClearedType ==
  ASSUME Counts!TypeOK
  PROVE  Counts!TimerCleared \in
           [Counts!Run -> {"none", "fetching", "pausing", "ended"}]
BY DEF Counts!TypeOK, Counts!TimerCleared

LEMMA RescheduleStep ==
  ASSUME Counts!TypeOK, NEW i \in Counts!Run, Counts!Reschedule(i)
  PROVE  /\ chain' \in [Counts!Run -> {"none", "fetching", "pausing", "ended"}]
         /\ timerRef' \in Counts!Run \union {None}
         /\ ~disposed => chain'[i] = "pausing"
         /\ \A j \in Counts!Run \ {i} : chain'[j] = chain[j]
BY DEF Counts!TypeOK, Counts!Reschedule

LEMMA NextChainInv ==
  ASSUME Counts!PollAssumption, ChainInv, [Counts!Next]_(Counts!vars)
  PROVE  ChainInv'
<1> USE DEF Counts!PollAssumption, ChainInv
<1>1. ASSUME NEW app \in App, Counts!OpenApplication(app) PROVE ChainInv'
  <2>1. /\ run \in Counts!Run /\ run + 1 \in Counts!Run /\ run' = run + 1
        /\ ~disposed /\ disposed' = disposed
        /\ appOf' = [appOf EXCEPT ![run + 1] = app]
        /\ chain' = [Counts!TimerCleared EXCEPT ![run + 1] = "fetching"]
        /\ load' = [load EXCEPT ![run + 1] = TRUE]
        /\ timerRef' = None /\ count' = count
    BY <1>1 DEF Counts!OpenApplication, Counts!TypeOK, Counts!Run
  <2>2. chain' \in [Counts!Run -> {"none", "fetching", "pausing", "ended"}]
          /\ chain'[run'] = "fetching"
    BY <2>1, TimerClearedType
  <2>3. /\ \A i \in Counts!Run : (appOf'[i] = None) <=> (i > run')
        /\ \A i \in Counts!Run : i > run' => chain'[i] = "none" /\ ~load'[i]
    BY <2>1 DEF Counts!TypeOK, Counts!TimerCleared, Counts!Run
  <2> QED
    BY <2>1, <2>2, <2>3 DEF Counts!TypeOK, Counts!ShownChainIsAlive, Counts!Alive
<1>2. CASE Counts!LeavePage
  BY <1>2, TimerClearedType DEF Counts!LeavePage, Counts!TimerCleared,
     Counts!TypeOK, Counts!ShownChainIsAlive
<1>3. ASSUME NEW i \in Counts!Run, Counts!CountArrives(i) \/ Counts!CountFails(i)
             PROVE ChainInv'
  <2>1. /\ Counts!Reschedule(i) /\ UNCHANGED <<appOf, run, load, disposed>>
        /\ count' \in {count, appOf[i]} /\ chain[i] = "fetching"
    BY <1>3 DEF Counts!CountArrives, Counts!CountFails
  <2>2. ~(i > run) /\ appOf[i] \in App
    BY <2>1 DEF Counts!TypeOK
  <2> QED
    BY <2>1, <2>2, RescheduleStep DEF Counts!TypeOK, Counts!ShownChainIsAlive,
       Counts!Alive
<1>4. ASSUME NEW i \in Counts!Run, Counts!TimerFires(i) PROVE ChainInv'
  BY <1>4 DEF Counts!TimerFires, Counts!TypeOK, Counts!ShownChainIsAlive,
     Counts!Alive
<1>5. ASSUME NEW i \in Counts!Run, Counts!LoadArrives(i) \/ Counts!LoadFails(i)
             PROVE ChainInv'
  BY <1>5 DEF Counts!LoadArrives, Counts!LoadFails, Counts!TypeOK,
     Counts!ShownChainIsAlive, Counts!Alive
<1>6. CASE UNCHANGED Counts!vars
  BY <1>6 DEF Counts!vars, Counts!TypeOK, Counts!ShownChainIsAlive, Counts!Alive
<1> QED
  BY <1>1, <1>2, <1>3, <1>4, <1>5, <1>6 DEF Counts!Next, Counts!CountAnswered

\* While the page is there the chain of the application it shows is alive: a
\* cleanup ends a chain of an earlier run only, and a failed count is
\* swallowed (appDetails.tsx:93 and 147).
THEOREM ShownChainStaysAlive ==
  ASSUME Counts!PollAssumption
  PROVE  Counts!Spec => [](Counts!TypeOK /\ Counts!ShownChainIsAlive)
<1>1. Counts!Init => ChainInv
  BY InitChainInv
<1>2. ChainInv /\ [Counts!Next]_(Counts!vars) => ChainInv'
  BY NextChainInv
<1> QED
  BY <1>1, <1>2, PTL DEF Counts!Spec, ChainInv

\* How many steps a chain has left once the page is gone: a timer that could
\* not be cleared fires, and its request is answered.
StepsLeft(c) == IF c = "pausing" THEN 2 ELSE IF c = "fetching" THEN 1 ELSE 0

\* A page that is gone stays gone and keeps its badge, and a chain that moves
\* comes closer to its end.
ChainsRunDown ==
  disposed => /\ disposed'
              /\ count' = count
              /\ \A i \in Counts!Run :
                   chain'[i] = chain[i] \/ StepsLeft(chain'[i]) < StepsLeft(chain[i])

LEMMA NextRunsDown ==
  ASSUME Counts!TypeOK, [Counts!Next]_(Counts!vars)
  PROVE  ChainsRunDown
<1> SUFFICES ASSUME disposed PROVE ChainsRunDown
  BY DEF ChainsRunDown
<1>1. ASSUME NEW app \in App, Counts!OpenApplication(app) PROVE FALSE
  BY <1>1 DEF Counts!OpenApplication
<1>2. ASSUME Counts!LeavePage PROVE FALSE
  BY <1>2 DEF Counts!LeavePage
<1>3. ASSUME NEW i \in Counts!Run, Counts!CountArrives(i) \/ Counts!CountFails(i)
             PROVE ChainsRunDown
  <2>1. /\ chain[i] = "fetching" /\ chain' = [chain EXCEPT ![i] = "ended"]
        /\ disposed' = disposed /\ count' = count
    BY <1>3 DEF Counts!CountArrives, Counts!CountFails, Counts!Reschedule
  <2> QED
    BY <2>1 DEF ChainsRunDown, StepsLeft, Counts!TypeOK
<1>4. ASSUME NEW i \in Counts!Run, Counts!TimerFires(i) PROVE ChainsRunDown
  BY <1>4 DEF Counts!TimerFires, ChainsRunDown, StepsLeft, Counts!TypeOK
<1>5. ASSUME NEW i \in Counts!Run, Counts!LoadArrives(i) \/ Counts!LoadFails(i)
             PROVE ChainsRunDown
  BY <1>5 DEF Counts!LoadArrives, Counts!LoadFails, ChainsRunDown
<1>6. CASE UNCHANGED Counts!vars
  BY <1>6 DEF Counts!vars, ChainsRunDown
<1> QED
  BY <1>1, <1>2, <1>3, <1>4, <1>5, <1>6 DEF Counts!Next, Counts!CountAnswered

\* After the page is left no chain sends more than one request, none waits
\* again, and no answer reaches the badge (disposedRef, appDetails.tsx:134).
THEOREM ChainsRunDownAfterLeaving ==
  ASSUME Counts!PollAssumption
  PROVE  Counts!Spec => [][ChainsRunDown]_(Counts!vars)
<1>1. Counts!Spec => []Counts!TypeOK
  BY ShownChainStaysAlive, PTL
<1>2. Counts!TypeOK /\ [Counts!Next]_(Counts!vars) => [ChainsRunDown]_(Counts!vars)
  BY NextRunsDown
<1> QED
  BY <1>1, <1>2, PTL DEF Counts!Spec

-----------------------------------------------------------------------------
(* The messages of an application                                          *)
(*                                                                         *)
(* The list is the one of the last load to end, and that load moved the    *)
(* page to its own; a page that moves otherwise is loading.  The types     *)
(* need that a place is free for each load: the message under way keeps    *)
(* one for the load that follows it.                                       *)

Asking(ls) == {i \in Messages!Wait : ls[i] # None}
Unsent(ss) == {i \in Messages!Wait : ss[i] # "idle"}
Waits(ls, ss) == Cardinality(Asking(ls)) + Cardinality(Unsent(ss))

LoadsOf == [Messages!Wait -> Messages!Question \cup {None}]
SendsOf == [Messages!Wait -> {"idle", "importing", "sending"}]

TabInv == Messages!TypeOK /\ Messages!PageIsOfTheList

\* The instance's Cardinality is that of the theorems on finite sets.
LEMMA SameCardinality == \A S : Messages!Cardinality(S) = Cardinality(S)
BY DEF Messages!Cardinality, Cardinality

LEMMA TabTypes ==
  Messages!TypeOK <=> /\ view \in View /\ page \in Messages!Page
                      /\ mLoading \in BOOLEAN /\ failed \in BOOLEAN
                      /\ mLoads \in LoadsOf /\ sends \in SendsOf
                      /\ shown \in Messages!Question \cup {None}
                      /\ Waits(mLoads, sends) <= MaxWaits
<1>1. Messages!Loading = Asking(mLoads) /\ Messages!Sending = Unsent(sends)
  BY DEF Messages!Loading, Messages!Sending, Asking, Unsent
<1>2. Messages!Cardinality(Messages!Loading) + Messages!Cardinality(Messages!Sending)
        = Waits(mLoads, sends)
  BY <1>1, SameCardinality DEF Waits
<1> QED
  BY <1>2 DEF Messages!TypeOK, LoadsOf, SendsOf

LEMMA TabTypesNext ==
  Messages!TypeOK' <=> /\ view' \in View /\ page' \in Messages!Page
                       /\ mLoading' \in BOOLEAN /\ failed' \in BOOLEAN
                       /\ mLoads' \in LoadsOf /\ sends' \in SendsOf
                       /\ shown' \in Messages!Question \cup {None}
                       /\ Waits(mLoads', sends') <= MaxWaits
<1>1. Messages!Loading' = Asking(mLoads') /\ Messages!Sending' = Unsent(sends')
  BY DEF Messages!Loading, Messages!Sending, Asking, Unsent
<1>2. Messages!Cardinality(Messages!Loading') + Messages!Cardinality(Messages!Sending')
        = Waits(mLoads', sends')
  BY <1>1, SameCardinality DEF Waits
<1> QED
  BY <1>2 DEF Messages!TypeOK, LoadsOf, SendsOf

\* The places are finitely many, and so are those taken.
LEMMA PlacesAreFinite ==
  ASSUME Messages!TabAssumption, NEW S \in SUBSET Messages!Wait
  PROVE  /\ IsFiniteSet(S)
         /\ Cardinality(S) \in Nat
         /\ Cardinality(S) < MaxWaits => Messages!Wait \ S # {}
<1>1. IsFiniteSet(Messages!Wait) /\ Cardinality(Messages!Wait) = MaxWaits
  BY FS_Interval DEF Messages!TabAssumption, Messages!Wait
<1>2. IsFiniteSet(S) /\ Cardinality(S) \in Nat
  BY <1>1, FS_Subset, FS_CardinalityType
<1>3. CASE Messages!Wait \ S = {}
  <2>1. S = Messages!Wait
    BY <1>3
  <2> QED
    BY <2>1, <1>1, <1>2 DEF Messages!TabAssumption
<1> QED
  BY <1>2, <1>3

LEMMA OneOfThem ==
  ASSUME NEW S, S # {}
  PROVE  Messages!OneOf(S) \in S
BY DEF Messages!OneOf

\* A load takes one place more.
LEMMA LoadTakesAPlace ==
  ASSUME Messages!TabAssumption, NEW ls \in LoadsOf, NEW v \in View,
         NEW p \in Messages!Page, Cardinality(Asking(ls)) < MaxWaits
  PROVE  /\ Messages!Load(ls, v, p) \in LoadsOf
         /\ Asking(Messages!Load(ls, v, p)) # {}
         /\ Cardinality(Asking(Messages!Load(ls, v,
              p))) = Cardinality(Asking(ls)) + 1
<1> DEFINE free == {i \in Messages!Wait : ls[i] = None}
           k == Messages!OneOf(free)
           q == [view |-> v, page |-> p]
<1>1. Asking(ls) \in SUBSET Messages!Wait
  BY DEF Asking
<1>2. free # {}
  BY <1>1, PlacesAreFinite DEF Asking
<1>3. k \in Messages!Wait /\ k \notin Asking(ls)
  BY <1>2, OneOfThem DEF Asking
<1>4. q \in Messages!Question /\ q # None
  BY DEF Messages!Question, Messages!TabAssumption
<1>5. Messages!Load(ls, v, p) = [ls EXCEPT ![k] = q]
  BY DEF Messages!Load
<1> HIDE DEF k, q
<1>6. Asking(Messages!Load(ls, v, p)) = Asking(ls) \cup {k}
  BY <1>3, <1>4, <1>5 DEF Asking, LoadsOf
<1>7. Messages!Load(ls, v, p) \in LoadsOf
  BY <1>3, <1>4, <1>5 DEF LoadsOf
<1> QED
  BY <1>1, <1>3, <1>6, <1>7, PlacesAreFinite, FS_AddElement

\* A load that ends leaves its place.
LEMMA LoadLeavesItsPlace ==
  ASSUME Messages!TabAssumption, NEW ls \in LoadsOf, NEW i \in Messages!Wait,
         ls[i] # None
  PROVE  /\ [ls EXCEPT ![i] = None] \in LoadsOf
         /\ Cardinality(Asking([ls EXCEPT ![i] = None])) = Cardinality(Asking(ls)) - 1
<1>1. [ls EXCEPT ![i] = None] \in LoadsOf
  BY DEF LoadsOf
<1>2. Asking([ls EXCEPT ![i] = None]) = Asking(ls) \ {i}
  BY DEF Asking, LoadsOf
<1>3. i \in Asking(ls) /\ IsFiniteSet(Asking(ls))
  <2>1. Asking(ls) \in SUBSET Messages!Wait
    BY DEF Asking
  <2> QED
    BY <2>1, PlacesAreFinite DEF Asking
<1> QED
  BY <1>1, <1>2, <1>3, FS_RemoveElement

LEMMA TabStarts ==
  ASSUME Messages!TabAssumption, Messages!Init
  PROVE  TabInv
<1>1. /\ 1 \in Messages!Wait /\ 1 \in Messages!Page /\ MaxWaits \in Nat
        /\ MaxWaits > 0
      /\ [view |-> All, page |-> 1] \in Messages!Question
      /\ None \notin Messages!Question
  BY DEF Messages!TabAssumption, Messages!Question, Messages!Page, Messages!Wait
<1>2. mLoads \in LoadsOf /\ sends \in SendsOf
  BY <1>1 DEF Messages!Init, LoadsOf, SendsOf
<1>3. Asking(mLoads) = {1} /\ Unsent(sends) = {}
  <2>1. [view |-> All, page |-> 1] # None
    BY <1>1
  <2> QED
    BY <1>1, <2>1 DEF Messages!Init, Asking, Unsent
<1>4. Waits(mLoads, sends) <= MaxWaits
  <2>1. Cardinality({1}) = 1 /\ Cardinality({}) = 0
    BY FS_Singleton, FS_EmptySet
  <2> QED
    BY <1>1, <1>3, <2>1 DEF Waits
<1>5. Messages!TypeOK
  BY <1>1, <1>2, <1>4, TabTypes DEF Messages!Init, Messages!TabAssumption
<1> QED
  BY <1>5 DEF TabInv, Messages!PageIsOfTheList, Messages!Init

\* An action that ends in a new load: nothing is known of the list meanwhile.
LEMMA NewLoadKeepsTab ==
  ASSUME Messages!TabAssumption, Messages!TypeOK, NEW v \in View,
         NEW p \in Messages!Page, NEW ls \in LoadsOf,
         mLoads' = Messages!Load(ls, v, p), view' \in View, page' \in Messages!Page,
         mLoading' \in BOOLEAN, failed' \in BOOLEAN, sends' \in SendsOf,
         shown' \in Messages!Question \cup {None}, Waits(ls, sends') < MaxWaits
  PROVE  TabInv'
<1>1. Asking(ls) \in SUBSET Messages!Wait /\ Unsent(sends') \in SUBSET Messages!Wait
  BY DEF Asking, Unsent
<1>2. /\ Cardinality(Asking(ls)) \in Nat /\ Cardinality(Unsent(sends')) \in Nat
      /\ MaxWaits \in Nat
  BY <1>1, PlacesAreFinite DEF Messages!TabAssumption
<1>3. Cardinality(Asking(ls)) < MaxWaits
  BY <1>2 DEF Waits
<1>4. /\ mLoads' \in LoadsOf /\ Asking(mLoads') # {}
      /\ Cardinality(Asking(mLoads')) = Cardinality(Asking(ls)) + 1
  BY <1>3, LoadTakesAPlace
<1>5. Waits(mLoads', sends') <= MaxWaits
  BY <1>2, <1>4 DEF Waits
<1>6. Messages!TypeOK'
  BY <1>4, <1>5, TabTypesNext
<1>7. Messages!Loading' # {}
  BY <1>4 DEF Messages!Loading, Asking
<1> QED
  BY <1>6, <1>7 DEF TabInv, Messages!PageIsOfTheList

\* A message that is sent, or is not, takes or leaves one place.
LEMMA SendMoves ==
  ASSUME Messages!TabAssumption, NEW ss \in SendsOf, NEW i \in Messages!Wait,
         NEW phase \in {"idle", "importing", "sending"}
  PROVE  /\ [ss EXCEPT ![i] = phase] \in SendsOf
         /\ ss[i] = "idle" /\ phase # "idle" =>
              Cardinality(Unsent([ss EXCEPT ![i] = phase])) = Cardinality(Unsent(ss)) + 1
         /\ ss[i] # "idle" /\ phase = "idle" =>
              Cardinality(Unsent([ss EXCEPT ![i] = phase])) = Cardinality(Unsent(ss)) - 1
         /\ ss[i] # "idle" /\ phase # "idle" =>
              Unsent([ss EXCEPT ![i] = phase]) = Unsent(ss)
<1>1. [ss EXCEPT ![i] = phase] \in SendsOf
  BY DEF SendsOf
<1>2. Unsent(ss) \in SUBSET Messages!Wait
  BY DEF Unsent
<1>3. IsFiniteSet(Unsent(ss))
  BY <1>2, PlacesAreFinite
<1>4. CASE ss[i] = "idle" /\ phase # "idle"
  <2>1. Unsent([ss EXCEPT ![i] = phase]) = Unsent(ss) \cup {i}
          /\ i \notin Unsent(ss)
    BY <1>4 DEF Unsent, SendsOf
  <2> QED
    BY <1>1, <1>3, <1>4, <2>1, FS_AddElement
<1>5. CASE ss[i] # "idle" /\ phase = "idle"
  <2>1. Unsent([ss EXCEPT ![i] = phase]) = Unsent(ss) \ {i} /\ i \in Unsent(ss)
    BY <1>5 DEF Unsent, SendsOf
  <2> QED
    BY <1>1, <1>3, <1>5, <2>1, FS_RemoveElement
<1>6. CASE ss[i] # "idle" /\ phase # "idle"
  BY <1>1, <1>6 DEF Unsent, SendsOf
<1> QED
  BY <1>1, <1>4, <1>5, <1>6

\* What HasRoom leaves, and that the sums are of numbers.
LEMMA RoomIsAPlace ==
  ASSUME Messages!TabAssumption, NEW ls \in LoadsOf, NEW ss \in SendsOf
  PROVE  /\ Cardinality(Asking(ls)) \in Nat /\ Cardinality(Unsent(ss)) \in Nat
         /\ MaxWaits \in Nat /\ Waits(ls, ss) \in Nat
<1>1. Asking(ls) \in SUBSET Messages!Wait /\ Unsent(ss) \in SUBSET Messages!Wait
  BY DEF Asking, Unsent
<1> QED
  BY <1>1, PlacesAreFinite DEF Waits, Messages!TabAssumption

LEMMA HasRoomMeans ==
  ASSUME Messages!HasRoom
  PROVE  Waits(mLoads, sends) < MaxWaits
<1>1. Messages!Loading = Asking(mLoads) /\ Messages!Sending = Unsent(sends)
  BY DEF Messages!Loading, Messages!Sending, Asking, Unsent
<1> QED
  BY <1>1, SameCardinality DEF Messages!HasRoom, Waits

\* A message takes a place that was free.
LEMMA SubmitTakesAPlace ==
  ASSUME Messages!TabAssumption, Messages!TypeOK, Messages!Submit
  PROVE  \E k \in Messages!Wait :
           sends[k] = "idle" /\ sends' = [sends EXCEPT ![k] = "importing"]
<1> DEFINE k == Messages!OneOf(Messages!Wait \ Messages!Sending)
<1>1. mLoads \in LoadsOf /\ sends \in SendsOf
  BY TabTypes
<1>2. Waits(mLoads, sends) < MaxWaits
  BY HasRoomMeans DEF Messages!Submit
<1>3. Unsent(sends) \in SUBSET Messages!Wait /\ Messages!Sending = Unsent(sends)
  BY DEF Messages!Sending, Unsent
<1>4. Cardinality(Unsent(sends)) < MaxWaits
  BY <1>1, <1>2, RoomIsAPlace DEF Waits
<1>5. Messages!Wait \ Unsent(sends) # {}
  BY <1>3, <1>4, PlacesAreFinite
<1>6. k \in Messages!Wait /\ sends[k] = "idle"
  BY <1>3, <1>5, OneOfThem DEF Unsent
<1> QED
  BY <1>6 DEF Messages!Submit

LEMMA NextTabInv ==
  ASSUME Messages!TabAssumption, TabInv, [Messages!Next]_(Messages!vars)
  PROVE  TabInv'
<1> USE DEF TabInv
<1>1. /\ view \in View /\ page \in Messages!Page /\ mLoading \in BOOLEAN
      /\ failed \in BOOLEAN /\ mLoads \in LoadsOf /\ sends \in SendsOf
      /\ shown \in Messages!Question \cup {None}
      /\ Waits(mLoads, sends) <= MaxWaits
  BY TabTypes
<1>2. 1 \in Messages!Page /\ None \notin Messages!Question /\ MaxWaits \in Nat
  BY DEF Messages!Page, Messages!TabAssumption
<1>3. ASSUME NEW v \in View, Messages!ChangeView(v) PROVE TabInv'
  <2>1. Waits(mLoads, sends) < MaxWaits
    BY <1>3, HasRoomMeans DEF Messages!ChangeView
  <2> QED
    BY <1>1, <1>2, <1>3, <2>1, NewLoadKeepsTab DEF Messages!ChangeView
<1>4. ASSUME NEW p \in Messages!Page, Messages!ChangePage(p) PROVE TabInv'
  <2>1. Waits(mLoads, sends) < MaxWaits
    BY <1>4, HasRoomMeans DEF Messages!ChangePage
  <2> QED
    BY <1>1, <1>4, <2>1, NewLoadKeepsTab DEF Messages!ChangePage
<1>5. CASE Messages!AccountsChange
  <2>1. Waits(mLoads, sends) < MaxWaits
    BY <1>5, HasRoomMeans DEF Messages!AccountsChange
  <2> QED
    BY <1>1, <1>5, <2>1, NewLoadKeepsTab DEF Messages!AccountsChange
<1>6. CASE Messages!Submit
  <2>1. Waits(mLoads, sends) < MaxWaits
    BY <1>6, HasRoomMeans DEF Messages!Submit
  <2>2. PICK k \in Messages!Wait :
               sends[k] = "idle" /\ sends' = [sends EXCEPT ![k] = "importing"]
    BY <1>6, SubmitTakesAPlace
  <2>3. /\ sends' \in SendsOf
        /\ Cardinality(Unsent(sends')) = Cardinality(Unsent(sends)) + 1
    BY <1>1, <2>2, SendMoves
  <2>4. UNCHANGED <<view, page, mLoading, mLoads, shown, failed>>
    BY <1>6 DEF Messages!Submit
  <2>5. Waits(mLoads', sends') <= MaxWaits
    BY <1>1, <2>1, <2>3, <2>4, RoomIsAPlace DEF Waits
  <2> QED
    BY <1>1, <2>3, <2>4, <2>5, TabTypesNext
       DEF Messages!PageIsOfTheList, Messages!Loading
<1>7. ASSUME NEW i \in Messages!Wait, Messages!EditorArrives(i) PROVE TabInv'
  <2>1. sends[i] = "importing" /\ sends' = [sends EXCEPT ![i] = "sending"]
    BY <1>7 DEF Messages!EditorArrives
  <2>2. sends' \in SendsOf /\ Unsent(sends') = Unsent(sends)
    BY <1>1, <2>1, SendMoves
  <2>3. UNCHANGED <<view, page, mLoads, shown, failed>> /\ mLoading' = TRUE
    BY <1>7 DEF Messages!EditorArrives
  <2>4. Waits(mLoads', sends') <= MaxWaits
    BY <1>1, <2>2, <2>3 DEF Waits
  <2> QED
    BY <1>1, <2>2, <2>3, <2>4, TabTypesNext
       DEF Messages!PageIsOfTheList, Messages!Loading
<1>8. ASSUME NEW i \in Messages!Wait, Messages!SendArrives(i) PROVE TabInv'
  <2>1. /\ sends[i] = "sending" /\ sends' = [sends EXCEPT ![i] = "idle"]
        /\ mLoads' = Messages!Load(mLoads, view, 1)
        /\ page' = 1 /\ mLoading' = TRUE /\ UNCHANGED <<view, shown, failed>>
    BY <1>8 DEF Messages!SendArrives
  <2>2. /\ sends' \in SendsOf
        /\ Cardinality(Unsent(sends')) = Cardinality(Unsent(sends)) - 1
    BY <1>1, <2>1, SendMoves
  <2>3. Waits(mLoads, sends') < MaxWaits
    BY <1>1, <2>2, RoomIsAPlace DEF Waits
  <2> QED
    BY <1>1, <1>2, <2>1, <2>2, <2>3, NewLoadKeepsTab
<1>9. ASSUME NEW i \in Messages!Wait, Messages!SendFails(i) PROVE TabInv'
  <2>1. sends[i] = "sending" /\ sends' = [sends EXCEPT ![i] = "idle"]
    BY <1>9 DEF Messages!SendFails
  <2>2. /\ sends' \in SendsOf
        /\ Cardinality(Unsent(sends')) = Cardinality(Unsent(sends)) - 1
    BY <1>1, <2>1, SendMoves
  <2>3. UNCHANGED <<view, page, mLoads, shown, failed>> /\ mLoading' = FALSE
    BY <1>9 DEF Messages!SendFails
  <2>4. Waits(mLoads', sends') <= MaxWaits
    BY <1>1, <2>2, <2>3, RoomIsAPlace DEF Waits
  <2> QED
    BY <1>1, <2>2, <2>3, <2>4, TabTypesNext
       DEF Messages!PageIsOfTheList, Messages!Loading
<1>10. ASSUME NEW i \in Messages!Wait, Messages!LoadArrives(i)
              \/ Messages!LoadFails(i)
       PROVE  TabInv'
  <2> DEFINE rest == [mLoads EXCEPT ![i] = None]
  <2>1. mLoads[i] # None /\ sends' = sends
    BY <1>10 DEF Messages!LoadArrives, Messages!LoadFails
  <2>2. mLoads[i] \in Messages!Question /\ mLoads[i].page \in Messages!Page
    BY <1>1, <2>1 DEF LoadsOf, Messages!Question
  <2>3. /\ rest \in LoadsOf
        /\ Cardinality(Asking(rest)) = Cardinality(Asking(mLoads)) - 1
    BY <1>1, <2>1, LoadLeavesItsPlace
  <2>4. Waits(rest, sends') < MaxWaits /\ Waits(rest, sends') <= MaxWaits
    BY <1>1, <2>1, <2>3, RoomIsAPlace DEF Waits
  <2> HIDE DEF rest
  <2>5. CASE Messages!LoadArrives(i) /\ mLoads[i].page = page
    <3>1. /\ mLoads' = rest /\ shown' = mLoads[i] /\ page' = mLoads[i].page
          /\ mLoading' = FALSE /\ failed' = FALSE /\ view' = view
      BY <2>5 DEF Messages!LoadArrives, rest
    <3>2. Messages!TypeOK'
      BY <1>1, <1>2, <2>1, <2>2, <2>3, <2>4, <3>1, TabTypesNext
    <3> QED
      BY <3>1, <3>2 DEF Messages!PageIsOfTheList
  <2>6. CASE Messages!LoadArrives(i) /\ mLoads[i].page # page
    <3>1. /\ mLoads' = Messages!Load(rest, view, mLoads[i].page)
          /\ shown' = mLoads[i] /\ page' = mLoads[i].page
          /\ mLoading' = TRUE /\ failed' = FALSE /\ view' = view
      BY <2>6 DEF Messages!LoadArrives, rest
    <3> QED
      BY <1>1, <2>1, <2>2, <2>3, <2>4, <3>1, NewLoadKeepsTab
  <2>7. CASE Messages!LoadFails(i)
    <3>1. /\ mLoads' = rest /\ mLoading' = FALSE /\ failed' = TRUE
          /\ UNCHANGED <<view, page, shown>>
      BY <2>7 DEF Messages!LoadFails, rest
    <3>2. Messages!TypeOK'
      BY <1>1, <1>2, <2>1, <2>3, <2>4, <3>1, TabTypesNext
    <3> QED
      BY <3>1, <3>2 DEF Messages!PageIsOfTheList
  <2> QED
    BY <1>10, <2>5, <2>6, <2>7
<1>11. CASE UNCHANGED Messages!vars
  <2>1. UNCHANGED <<view, page, mLoading, mLoads, shown, sends, failed>>
    BY <1>11 DEF Messages!vars
  <2> QED
    BY <1>1, <2>1, TabTypesNext DEF Messages!PageIsOfTheList, Messages!Loading
<1> QED
  BY <1>3, <1>4, <1>5, <1>6, <1>7, <1>8, <1>9, <1>10, <1>11
     DEF Messages!Next, Messages!LoadAnswered, Messages!SendAnswered

\* Once the loads are quiet the pagination marks the page of the list above
\* it, however the loads overtook one another (appMessages.tsx:77).
THEOREM TabMarksItsPage ==
  ASSUME Messages!TabAssumption
  PROVE  Messages!Spec => [](Messages!TypeOK /\ Messages!PageIsOfTheList)
<1>1. Messages!Init => TabInv
  BY TabStarts
<1>2. TabInv /\ [Messages!Next]_(Messages!vars) => TabInv'
  BY NextTabInv
<1> QED
  BY <1>1, <1>2, PTL DEF Messages!Spec, TabInv

\* The list is hidden only while something is under way that brings it back.
TabSpinnerHasWork ==
  mLoading => Asking(mLoads) # {} \/ \E i \in Messages!Wait : sends[i] = "sending"

LEMMA LoadIsUnderWay ==
  ASSUME Messages!TabAssumption, NEW ls \in LoadsOf, NEW v \in View,
         NEW p \in Messages!Page
  PROVE  Asking(Messages!Load(ls, v, p)) # {}
<1> DEFINE free == {i \in Messages!Wait : ls[i] = None}
           k == Messages!OneOf(free)
           q == [view |-> v, page |-> p]
<1>1. 1 \in Messages!Wait
  BY DEF Messages!TabAssumption, Messages!Wait
<1>2. q # None
  BY DEF Messages!Question, Messages!TabAssumption
<1>3. Messages!Load(ls, v, p) = [ls EXCEPT ![k] = q]
  BY DEF Messages!Load
<1>4. k \in Messages!Wait \/ ls[1] # None
  BY <1>1, OneOfThem
<1> HIDE DEF k, q
<1> QED
  BY <1>1, <1>2, <1>3, <1>4 DEF Asking, LoadsOf

LEMMA NextTabSpins ==
  ASSUME Messages!TabAssumption, Messages!TypeOK, TabSpinnerHasWork,
         [Messages!Next]_(Messages!vars)
  PROVE  TabSpinnerHasWork'
<1>1. /\ view \in View /\ page \in Messages!Page /\ 1 \in Messages!Page
      /\ mLoads \in LoadsOf /\ sends \in SendsOf
  BY TabTypes DEF Messages!TabAssumption, Messages!Page
<1>2. ASSUME NEW v \in View, Messages!ChangeView(v) PROVE TabSpinnerHasWork'
  BY <1>1, <1>2, LoadIsUnderWay DEF Messages!ChangeView, TabSpinnerHasWork
<1>3. ASSUME NEW p \in Messages!Page, Messages!ChangePage(p) PROVE TabSpinnerHasWork'
  BY <1>1, <1>3, LoadIsUnderWay DEF Messages!ChangePage, TabSpinnerHasWork
<1>4. CASE Messages!AccountsChange
  BY <1>1, <1>4, LoadIsUnderWay DEF Messages!AccountsChange, TabSpinnerHasWork
<1>5. CASE Messages!Submit
  <2>1. PICK k \in Messages!Wait :
               sends[k] = "idle" /\ sends' = [sends EXCEPT ![k] = "importing"]
    BY <1>5, SubmitTakesAPlace
  <2>2. UNCHANGED <<mLoads, mLoading>>
    BY <1>5 DEF Messages!Submit
  <2> QED
    BY <1>1, <2>1, <2>2 DEF TabSpinnerHasWork, SendsOf
<1>6. ASSUME NEW i \in Messages!Wait, Messages!EditorArrives(i)
      PROVE  TabSpinnerHasWork'
  <2>1. sends'[i] = "sending"
    BY <1>1, <1>6 DEF Messages!EditorArrives, SendsOf
  <2> QED
    BY <2>1 DEF TabSpinnerHasWork
<1>7. ASSUME NEW i \in Messages!Wait, Messages!SendArrives(i)
      PROVE  TabSpinnerHasWork'
  BY <1>1, <1>7, LoadIsUnderWay DEF Messages!SendArrives, TabSpinnerHasWork
<1>8. ASSUME NEW i \in Messages!Wait, Messages!SendFails(i) \/ Messages!LoadFails(i)
      PROVE  TabSpinnerHasWork'
  BY <1>8 DEF Messages!SendFails, Messages!LoadFails, TabSpinnerHasWork
<1>9. ASSUME NEW i \in Messages!Wait, Messages!LoadArrives(i)
      PROVE  TabSpinnerHasWork'
  <2> DEFINE rest == [mLoads EXCEPT ![i] = None]
  <2>1. mLoads[i] # None /\ mLoads[i].page \in Messages!Page
    BY <1>1, <1>9 DEF Messages!LoadArrives, LoadsOf, Messages!Question
  <2>2. rest \in LoadsOf
    BY <1>1, <2>1, LoadLeavesItsPlace
  <2>3. mLoading' => mLoads' = Messages!Load(rest, view, mLoads[i].page)
    BY <1>9 DEF Messages!LoadArrives
  <2> HIDE DEF rest
  <2> QED
    BY <1>1, <2>1, <2>2, <2>3, LoadIsUnderWay DEF TabSpinnerHasWork
<1>10. CASE UNCHANGED Messages!vars
  BY <1>10 DEF Messages!vars, TabSpinnerHasWork, Asking
<1> QED
  BY <1>2, <1>3, <1>4, <1>5, <1>6, <1>7, <1>8, <1>9, <1>10
     DEF Messages!Next, Messages!LoadAnswered, Messages!SendAnswered

\* The spinner over the messages has a load, or a message being sent, behind it,
\* though loads and messages share the one flag (appMessages.tsx:134).
THEOREM TabSpinsForWork ==
  ASSUME Messages!TabAssumption
  PROVE  Messages!Spec => []TabSpinnerHasWork
<1>1. Messages!Init => TabSpinnerHasWork
  <2>1. [view |-> All, page |-> 1] # None /\ 1 \in Messages!Wait
    BY DEF Messages!TabAssumption, Messages!Question, Messages!Page, Messages!Wait
  <2> QED
    BY <2>1 DEF Messages!Init, TabSpinnerHasWork, Asking
<1>2. Messages!TypeOK /\ TabSpinnerHasWork /\ [Messages!Next]_(Messages!vars)
        => TabSpinnerHasWork'
  BY NextTabSpins
<1>3. Messages!Spec => []Messages!TypeOK
  BY TabMarksItsPage, PTL
<1> QED
  BY <1>1, <1>2, <1>3, PTL DEF Messages!Spec

-----------------------------------------------------------------------------
(* The address look-up                                                     *)
(*                                                                         *)
(* The search of the newest request id is the question asked, so a new id  *)
(* asks or withdraws; an answer is shown only for that id.                 *)

Records == [term : Addresses!Long \cup {None},
            state : {"none", "asking", "aborted", "done"}]

\* The part of TypeOK the refinement needs.
IdsOK ==
  /\ newest \in 0..MaxRequests
  /\ asks \in [0..MaxRequests -> Records]
  /\ controller \in 0..newest
  /\ text \in Address \cup {None}

\* Ids above the newest are unused, and a search under way has a term.
NoneAbove == \A i \in 0..MaxRequests : i > newest => asks[i] = Addresses!NoAsk
AskedHasTerm ==
  \A i \in 0..MaxRequests : asks[i].state \in {"asking", "aborted"} =>
                              asks[i].term \in Addresses!Long
ControllerHasTerm == controller > 0 => asks[controller].term \in Addresses!Long

\* The operations that take a new id and ask nothing.
Withdrawing ==
  \/ Addresses!Clear
  \/ Addresses!TypeShort
  \/ Addresses!Cancel
  \/ Addresses!PickManual
  \/ Addresses!EnterManually

IdsInv == IdsOK /\ NoneAbove /\ AskedHasTerm /\ ControllerHasTerm

LEMMA InitIds == Addresses!TextsAssumption /\ Addresses!Init => IdsInv
BY DEF Addresses!TextsAssumption, Addresses!Init, IdsInv, IdsOK, NoneAbove,
   AskedHasTerm,
   ControllerHasTerm, Records,
   Addresses!NoAsk

-----------------------------------------------------------------------------
(* What the steps do to the question asked and to the question shown *)

\* A new id without a search withdraws the question.
LEMMA WithdrawsStep ==
  ASSUME Addresses!TextsAssumption, IdsInv, newest < MaxRequests,
         Addresses!Withdraws,
         text' \in Address \cup {None}
  PROVE  IdsInv' /\ Addresses!Suggestions!Withdraw
<1> USE DEF Addresses!TextsAssumption, IdsInv, IdsOK, NoneAbove, AskedHasTerm,
        ControllerHasTerm
<1>1. newest' = newest + 1 /\ newest' \in 0..MaxRequests /\ asks' = asks
  BY DEF Addresses!Withdraws
<1>2. IdsInv'
  BY <1>1 DEF Addresses!Withdraws
<1>3. asks'[newest'].term = None
  BY <1>1 DEF Addresses!NoAsk
<1>4. options'.term = None
  BY DEF Addresses!Withdraws, Addresses!NoOptions
<1> QED
  BY <1>2, <1>3, <1>4 DEF Addresses!Suggestions!Withdraw

\* What a new search leaves in the place of every request id.
LEMMA AskedStep ==
  ASSUME Addresses!TextsAssumption, IdsInv, newest < MaxRequests,
         NEW t \in Addresses!Long
  PROVE  /\ Addresses!Asked(t) \in [0..MaxRequests -> Records]
         /\ Addresses!Asked(t)[newest + 1] = [term |-> t, state |-> "asking"]
         /\ \A i \in 0..MaxRequests :
              i # newest + 1 =>
                /\ Addresses!Asked(t)[i].term = asks[i].term
                /\ Addresses!Asked(t)[i] = asks[i] \/ (i = controller /\ i > 0)
<1> USE DEF Addresses!TextsAssumption, IdsInv, IdsOK
<1>1. Addresses!Aborted \in [0..MaxRequests -> Records]
  BY DEF Addresses!Aborted, Records
<1>2. \A i \in 0..MaxRequests :
        /\ Addresses!Aborted[i].term = asks[i].term
        /\ Addresses!Aborted[i] = asks[i] \/ (i = controller /\ i > 0)
  BY DEF Addresses!Aborted, Records
<1>3. newest + 1 \in 0..MaxRequests /\ [term |-> t, state |-> "asking"] \in Records
  BY DEF Records
<1> QED
  BY <1>1, <1>2, <1>3 DEF Addresses!Asked

\* A new search is the next question; the answer shown stays or goes.
LEMMA SearchStep ==
  ASSUME Addresses!TextsAssumption, IdsInv, newest < MaxRequests,
         NEW t \in Addresses!Long,
         newest' = newest + 1, asks' = Addresses!Asked(t), controller' = newest + 1,
         UNCHANGED options, text' \in Address \cup {None}
  PROVE  IdsInv' /\ Addresses!Suggestions!Ask
<1> USE DEF Addresses!TextsAssumption, IdsInv, IdsOK
<1>1. newest' \in 0..MaxRequests /\ controller' \in 0..newest'
  OBVIOUS
<1>2. /\ asks' \in [0..MaxRequests -> Records]
      /\ asks'[newest + 1] = [term |-> t, state |-> "asking"]
      /\ \A i \in 0..MaxRequests :
           i # newest + 1 =>
             /\ asks'[i].term = asks[i].term
             /\ asks'[i] = asks[i] \/ (i = controller /\ i > 0)
  <2> HIDE DEF Addresses!TextsAssumption, IdsInv
  <2> QED
    BY AskedStep, Zenon
<1>3. NoneAbove'
  <2> SUFFICES ASSUME NEW i \in 0..MaxRequests, i > newest + 1
               PROVE  asks'[i] = Addresses!NoAsk
    BY DEF NoneAbove
  <2>1. i # controller /\ i # newest + 1 /\ i > newest
    OBVIOUS
  <2> QED
    BY <1>2, <2>1 DEF NoneAbove
<1>4. asks'[newest + 1].term = t
  BY <1>2
<1>5. AskedHasTerm'
  <2> SUFFICES ASSUME NEW i \in 0..MaxRequests,
                      asks'[i].state \in {"asking", "aborted"}
               PROVE  asks'[i].term \in Addresses!Long
    BY DEF AskedHasTerm
  <2>1. CASE i = newest + 1
    BY <2>1, <1>4
  <2>2. CASE i # newest + 1 /\ asks'[i] = asks[i]
    BY <2>2 DEF AskedHasTerm
  <2>3. CASE i # newest + 1 /\ i = controller /\ i > 0
    BY <2>3, <1>2 DEF ControllerHasTerm
  <2> QED
    BY <2>1, <2>2, <2>3, <1>2
<1>6. ControllerHasTerm'
  BY <1>4 DEF ControllerHasTerm
<1> QED
  BY <1>1, <1>2, <1>3, <1>4, <1>5, <1>6 DEF Addresses!Suggestions!Ask

\* An answer is shown if it is the newest search's, and changes no question.
LEMMA AnswerStep ==
  ASSUME Addresses!TextsAssumption, IdsInv, NEW i \in Addresses!Request,
         NEW kind \in Addresses!Kind, Addresses!Answer(i, kind)
  PROVE  IdsInv' /\ [Addresses!Suggestions!Answer]_<<asks[newest].term,
         options.term>>
<1> USE DEF Addresses!TextsAssumption, IdsInv, IdsOK
<1>1. /\ asks' = [asks EXCEPT ![i].state = "done"]
      /\ asks[i].state \in {"asking", "aborted"}
      /\ controller' = 0 /\ UNCHANGED <<newest, text>>
      /\ i = newest => options' = [term |-> asks[i].term, kind |-> kind]
      /\ i # newest => UNCHANGED options
  BY DEF Addresses!Answer
<1>2. i \in 0..MaxRequests /\ asks[i].term \in Addresses!Long
  BY <1>1 DEF Addresses!Request, AskedHasTerm
<1>3. asks' \in [0..MaxRequests -> Records]
  BY <1>1, <1>2 DEF Records
<1>4. \A j \in 0..MaxRequests : asks'[j].term = asks[j].term
  BY <1>1, <1>2 DEF Records
<1>5. \A j \in 0..MaxRequests : j # i => asks'[j] = asks[j]
  BY <1>1, <1>2
<1>6. asks'[i].state = "done"
  BY <1>1, <1>2 DEF Records
<1>7. i <= newest
  BY <1>1, <1>2 DEF NoneAbove, Addresses!NoAsk
<1>8. IdsInv'
  BY <1>1, <1>2, <1>3, <1>4, <1>5, <1>6, <1>7
     DEF NoneAbove, AskedHasTerm, ControllerHasTerm
<1>9. asks'[newest'].term = asks[newest].term
  BY <1>1, <1>4
<1>10. CASE i = newest
  BY <1>10, <1>1, <1>2, <1>8, <1>9 DEF Addresses!Suggestions!Answer
<1>11. CASE i # newest
  BY <1>11, <1>1, <1>8, <1>9
<1> QED
  BY <1>10, <1>11

-----------------------------------------------------------------------------
(* The specification *)

\* Every step asks, withdraws, shows an answer or changes neither.
LEMMA NextIds ==
  ASSUME Addresses!TextsAssumption, IdsInv, [Addresses!Next]_(Addresses!vars)
  PROVE  IdsInv' /\ [Addresses!Suggestions!Next]_(Addresses!Suggestions!vars)
<1> USE DEF Addresses!TextsAssumption, Addresses!Suggestions!Next,
      Addresses!Suggestions!vars
<1>1. CASE Withdrawing
  <2>1. Addresses!Withdraws /\ newest < MaxRequests
    BY <1>1 DEF Withdrawing, Addresses!Clear, Addresses!TypeShort,
       Addresses!Cancel, Addresses!PickManual, Addresses!EnterManually,
          Addresses!Unmounts, Addresses!MayAsk
  <2>2. text' \in Address \cup {None}
    BY <1>1 DEF Withdrawing, Addresses!Clear, Addresses!TypeShort,
       Addresses!Cancel, Addresses!PickManual, Addresses!EnterManually, IdsInv,
          IdsOK
  <2> QED
    BY <2>1, <2>2, WithdrawsStep
<1>2. ASSUME NEW t \in Typed, Addresses!Type(t) PROVE IdsInv'
             /\ Addresses!Suggestions!Ask
  BY <1>2, SearchStep DEF Addresses!Type, Addresses!Searches, Addresses!MayAsk,
     Addresses!Long, IdsInv, IdsOK
<1>3. ASSUME NEW i \in Addresses!Request, Addresses!Answered(i)
      PROVE  IdsInv' /\ [Addresses!Suggestions!Answer]_<<asks[newest].term,
             options.term>>
  BY <1>3, AnswerStep DEF Addresses!Answered
<1>4. ASSUME NEW a \in Address, Addresses!Pick(a)
      PROVE  IdsInv' /\ (Addresses!Suggestions!Ask \/ UNCHANGED <<newest, asks,
             options>>)
  <2>1. newest < MaxRequests /\ text' \in Address \cup {None} /\ UNCHANGED options
    BY <1>4 DEF Addresses!Pick
  <2>2. CASE newest' = newest + 1 /\ asks' = Addresses!Asked(a)
             /\ controller' = newest + 1
    BY <2>1, <2>2, SearchStep DEF Addresses!Long
  <2>3. CASE UNCHANGED <<newest, asks, controller>>
    BY <2>1, <2>3 DEF IdsInv, IdsOK, NoneAbove, AskedHasTerm, ControllerHasTerm
  <2> QED
    BY <2>2, <2>3, <1>4 DEF Addresses!Pick
<1>5. CASE Addresses!Write \/ Addresses!SearchAgain \/ UNCHANGED Addresses!vars
  <2>1. UNCHANGED <<newest, asks, controller, options, text>>
    BY <1>5 DEF Addresses!Write, Addresses!SearchAgain, Addresses!vars
  <2> QED
    BY <2>1 DEF IdsInv, IdsOK, NoneAbove, AskedHasTerm, ControllerHasTerm
<1> QED
  BY <1>1, <1>2, <1>3, <1>4, <1>5 DEF Withdrawing, Addresses!Next

\* The suggestions shown only ever change to those of the last search: the
\* request id keeps out what AddressLookup's controller could not abort
\* (AutoSuggest/index.tsx:44, AddressLookup/index.tsx:161).
THEOREM LookUpShowsTheLatest ==
  ASSUME Addresses!TextsAssumption
  PROVE  Addresses!Spec => Addresses!SuggestionsAreLatest
<1>1. Addresses!Init => IdsInv /\ Addresses!Suggestions!Init
  BY InitIds DEF Addresses!Init, Addresses!Suggestions!Init, Addresses!NoAsk,
     Addresses!NoOptions, Addresses!TextsAssumption
<1>2. IdsInv /\ [Addresses!Next]_(Addresses!vars) => IdsInv'
        /\ [Addresses!Suggestions!Next]_(Addresses!Suggestions!vars)
  BY NextIds
<1> QED
  BY <1>1, <1>2, PTL DEF Addresses!Spec, Addresses!SuggestionsAreLatest,
     Addresses!Suggestions!Safe

\* The types of the look-up's state, with those of the request ids.
LookUpTypes ==
  /\ term \in Addresses!Term
  /\ options \in [term : Addresses!Long \cup {None}, kind : Addresses!Kind]
  /\ aLoading \in BOOLEAN
  /\ lines \in Address \cup {Written, None}
  /\ manual \in BOOLEAN

LEMMA LookUpTypeOK == IdsInv /\ LookUpTypes => Addresses!TypeOK
BY DEF IdsInv, IdsOK, Records, LookUpTypes, Addresses!TypeOK

LEMMA NextLookUpTypes ==
  ASSUME Addresses!TextsAssumption, IdsInv, LookUpTypes,
         [Addresses!Next]_(Addresses!vars)
  PROVE  LookUpTypes'
<1> USE DEF LookUpTypes
<1>1. /\ Empty \in Addresses!Term /\ Short \in Addresses!Term
      /\ Typed \subseteq Addresses!Term /\ Address \subseteq Addresses!Term
      /\ Addresses!TextOf(text) \in Addresses!Term
  BY DEF Addresses!Term, Addresses!Long, Addresses!TextOf, IdsInv, IdsOK
<1>2. Addresses!NoOptions \in [term : Addresses!Long \cup {None},
        kind : Addresses!Kind]
  BY DEF Addresses!NoOptions, Addresses!Kind
<1>3. CASE Withdrawing
  <2>1. options' = Addresses!NoOptions /\ aLoading' = FALSE /\ manual' \in BOOLEAN
    BY <1>3 DEF Withdrawing, Addresses!Clear, Addresses!TypeShort,
       Addresses!Cancel, Addresses!PickManual, Addresses!EnterManually,
          Addresses!Unmounts, Addresses!Withdraws
  <2>2. term' \in Addresses!Term /\ lines' \in Address \cup {Written, None}
    BY <1>1, <1>3 DEF Withdrawing, Addresses!Clear, Addresses!TypeShort,
       Addresses!Cancel, Addresses!PickManual, Addresses!EnterManually,
          Addresses!Unmounts
  <2> QED
    BY <1>2, <2>1, <2>2
<1>4. ASSUME NEW t \in Typed, Addresses!Type(t) PROVE LookUpTypes'
  BY <1>1, <1>4 DEF Addresses!Type, Addresses!Searches
<1>5. ASSUME NEW i \in Addresses!Request, Addresses!Answered(i) PROVE LookUpTypes'
  <2>1. PICK kind \in Addresses!Kind : Addresses!Answer(i, kind)
    BY <1>5 DEF Addresses!Answered
  <2>2. asks[i].term \in Addresses!Long \cup {None}
    BY DEF Addresses!Request, IdsInv, IdsOK, Records, Addresses!TextsAssumption
  <2>3. aLoading' \in BOOLEAN /\ manual' \in BOOLEAN
    BY <2>1, Zenon DEF Addresses!Answer
  <2>4. options' \in [term : Addresses!Long \cup {None}, kind : Addresses!Kind]
    BY <2>1, <2>2 DEF Addresses!Answer
  <2> QED
    BY <2>1, <2>3, <2>4 DEF Addresses!Answer
<1>6. ASSUME NEW a \in Address, Addresses!Pick(a) PROVE LookUpTypes'
  BY <1>1, <1>6 DEF Addresses!Pick
<1>7. CASE Addresses!Write \/ Addresses!SearchAgain \/ UNCHANGED Addresses!vars
  BY <1>1, <1>7 DEF Addresses!Write, Addresses!SearchAgain, Addresses!vars
<1> QED
  BY <1>3, <1>4, <1>5, <1>6, <1>7 DEF Withdrawing, Addresses!Next

\* The state of the address look-up keeps its types, and a controller is never
\* of a request newer than the newest.
THEOREM LookUpKeepsItsTypes ==
  ASSUME Addresses!TextsAssumption
  PROVE  Addresses!Spec => []Addresses!TypeOK
<1>1. Addresses!Init => IdsInv /\ LookUpTypes
  <2> SUFFICES ASSUME Addresses!Init PROVE IdsInv /\ LookUpTypes
    OBVIOUS
  <2>1. aLoading \in BOOLEAN /\ manual \in BOOLEAN
    BY Zenon DEF Addresses!Init
  <2> QED
    BY <2>1, InitIds DEF Addresses!Init, LookUpTypes, Addresses!Term,
       Addresses!NoOptions, Addresses!Kind
<1>2. IdsInv /\ LookUpTypes /\ [Addresses!Next]_(Addresses!vars) => IdsInv'
        /\ LookUpTypes'
  BY NextIds, NextLookUpTypes
<1> QED
  BY <1>1, <1>2, LookUpTypeOK, PTL DEF Addresses!Spec

\* The search the spinner waits for is the newest, and not yet aborted.
LookUpSpinsForNewest ==
  aLoading => newest > 0 /\ asks[newest].state = "asking"

LEMMA NextLookUpSpins ==
  ASSUME Addresses!TextsAssumption, IdsInv, LookUpSpinsForNewest,
         [Addresses!Next]_(Addresses!vars)
  PROVE  LookUpSpinsForNewest'
<1>1. newest \in 0..MaxRequests /\ asks \in [0..MaxRequests -> Records]
  BY DEF IdsInv, IdsOK
<1>2. ASSUME NEW t \in Addresses!Long, newest < MaxRequests,
             newest' = newest + 1, asks' = Addresses!Asked(t)
      PROVE  LookUpSpinsForNewest'
  <2>1. asks'[newest'] = [term |-> t, state |-> "asking"]
    BY <1>2, AskedStep
  <2>2. newest' > 0
    BY <1>1, <1>2
  <2> QED
    BY <2>1, <2>2 DEF LookUpSpinsForNewest
<1>3. CASE Withdrawing
  BY <1>3 DEF Withdrawing, Addresses!Clear, Addresses!TypeShort,
     Addresses!Cancel, Addresses!PickManual, Addresses!EnterManually,
     Addresses!Unmounts, Addresses!Withdraws, LookUpSpinsForNewest
<1>4. ASSUME NEW t \in Typed, Addresses!Type(t) PROVE LookUpSpinsForNewest'
  <2>1. /\ t \in Addresses!Long /\ newest < MaxRequests
        /\ newest' = newest + 1 /\ asks' = Addresses!Asked(t)
    BY <1>4 DEF Addresses!Type, Addresses!Searches, Addresses!MayAsk, Addresses!Long
  <2> QED
    BY <1>2, <2>1
<1>5. ASSUME NEW i \in Addresses!Request, Addresses!Answered(i)
      PROVE  LookUpSpinsForNewest'
  <2>1. PICK kind \in Addresses!Kind : Addresses!Answer(i, kind)
    BY <1>5 DEF Addresses!Answered
  <2>2. CASE i = newest
    BY <2>1, <2>2 DEF Addresses!Answer, LookUpSpinsForNewest
  <2>3. CASE i # newest
    <3>1. UNCHANGED <<newest, aLoading>> /\ asks' = [asks EXCEPT ![i].state = "done"]
      BY <2>1, <2>3 DEF Addresses!Answer
    <3>2. asks'[newest] = asks[newest]
      BY <1>1, <2>3, <3>1
    <3> QED
      BY <3>1, <3>2 DEF LookUpSpinsForNewest
  <2> QED
    BY <2>2, <2>3
<1>6. ASSUME NEW a \in Address, Addresses!Pick(a) PROVE LookUpSpinsForNewest'
  <2>1. CASE aLoading' = FALSE
    BY <2>1 DEF LookUpSpinsForNewest
  <2>2. CASE newest' = newest + 1 /\ asks' = Addresses!Asked(a)
    <3>1. a \in Addresses!Long /\ newest < MaxRequests
      BY <1>6 DEF Addresses!Pick, Addresses!Long
    <3> QED
      BY <1>2, <2>2, <3>1
  <2> QED
    BY <1>6, <2>1, <2>2 DEF Addresses!Pick
<1>7. CASE Addresses!Write \/ Addresses!SearchAgain \/ UNCHANGED Addresses!vars
  BY <1>7 DEF Addresses!Write, Addresses!SearchAgain, Addresses!vars,
     LookUpSpinsForNewest
<1> QED
  BY <1>3, <1>4, <1>5, <1>6, <1>7 DEF Withdrawing, Addresses!Next

\* The spinner of the look-up waits for the newest search, which nothing has
\* aborted: a search that ends never leaves the spinner to another one that
\* was overtaken (AutoSuggest/index.tsx:44, AddressLookup/index.tsx:130).
THEOREM LookUpSpinsForASearch ==
  ASSUME Addresses!TextsAssumption
  PROVE  Addresses!Spec => []LookUpSpinsForNewest
<1>1. Addresses!Init => IdsInv /\ LookUpSpinsForNewest
  BY InitIds DEF Addresses!Init, LookUpSpinsForNewest
<1>2. IdsInv /\ LookUpSpinsForNewest /\ [Addresses!Next]_(Addresses!vars)
        => IdsInv' /\ LookUpSpinsForNewest'
  BY NextIds, NextLookUpSpins
<1> QED
  BY <1>1, <1>2, PTL DEF Addresses!Spec

-----------------------------------------------------------------------------
(* The Pattern/type approval dashboard                                     *)
(*                                                                         *)
(* Every operation that changes the question runs the load, so the newest  *)
(* load asks what the filters ask; unless an answer overtook another, the  *)
(* newest load is the last to end.                                         *)

NewestAsks ==
  mounted /\ org # None /\ ~overtaken /\ dLoads # << >> =>
    TA!Last(dLoads) = TA!Asks(org, filters)

\* At rest there is a list, and it is the one asked for if nothing overtook.
ListInv ==
  TA!AtRest /\ ~refused =>
    /\ rows # None
    /\ marked = rows.filters.page
    /\ ~overtaken => rows = TA!Asks(org, filters)

DashboardInv == TA!TypeOK /\ NewestAsks /\ ListInv

LEMMA DashboardStarts ==
  ASSUME TA!ListAssumption, TA!Init
  PROVE  DashboardInv
<1>1. << >> \in Seq(TA!Question) /\ Len(<< >>) = 0
  OBVIOUS
<1>2. MaxLoads \in Nat /\ 1 \in TA!Page
  BY DEF TA!ListAssumption, TA!Page
<1>3. TA!TypeOK
  <2>1. {dLoading, deleting, overtaken, refused} \subseteq BOOLEAN
    BY Zenon DEF TA!Init
  <2>2. /\ mounted \in BOOLEAN
        /\ ~mounted => pending = None /\ dLoads = << >> /\ ~dLoading /\ ~deleting
    BY Zenon DEF TA!Init
  <2>3. /\ dLoads \in Seq(TA!Question) /\ Len(dLoads) <= MaxLoads
    BY <1>1, <1>2 DEF TA!Init
  <2>4. /\ org \in Org \cup {None} /\ saved \in TA!Filters /\ filters \in TA!Filters
        /\ marked \in TA!Page /\ pending \in TA!Filters \cup {None}
        /\ lastOrg \in Org \cup {None} /\ rows \in TA!Question \cup {None}
    BY <1>2 DEF TA!Init
  <2> QED
    BY <2>1, <2>2, <2>3, <2>4, Zenon DEF TA!TypeOK
<1> QED
  BY <1>3 DEF TA!Init, DashboardInv, NewestAsks, ListInv, TA!AtRest

\* The runs of the effect are its loads, the newest of which asks what it was
\* run for.
LEMMA RunAsks ==
  ASSUME NEW o \in Org, NEW f \in TA!Filters, NEW n \in {1, 2},
         dLoads \in Seq(TA!Question), TA!Run(o, f, n), o # None
  PROVE  /\ dLoads' \in Seq(TA!Question)
         /\ Len(dLoads') = Len(dLoads) + n
         /\ TA!Last(dLoads') = TA!Asks(o, f)
         /\ lastOrg' = o
<1> DEFINE new == [i \in 1 .. n |-> TA!Asks(o, f)]
<1>1. TA!Asks(o, f) \in TA!Question
  BY DEF TA!Asks, TA!Question
<1>2. dLoads' = dLoads \o new /\ lastOrg' = o
  BY DEF TA!Run
<1>3. new \in Seq(TA!Question) /\ Len(new) = n
  BY <1>1
<1>4. new[n] = TA!Asks(o, f)
  OBVIOUS
<1> HIDE DEF new
<1>5. dLoads' \in Seq(TA!Question) /\ Len(dLoads') = Len(dLoads) + n
  BY <1>2, <1>3
<1>6. dLoads'[Len(dLoads) + n] = new[n]
  BY <1>2, <1>3
<1> QED
  BY <1>2, <1>4, <1>5, <1>6 DEF TA!Last

\* Without an organisation the effect runs to no end.
LEMMA RunAsksNothing ==
  ASSUME NEW f, NEW n, dLoads \in Seq(TA!Question), TA!Run(None, f, n)
  PROVE  dLoads' = dLoads /\ lastOrg' = lastOrg
<1>1. [i \in 1 .. 0 |-> TA!Asks(None, f)] = << >>
  OBVIOUS
<1>2. dLoads' = dLoads \o << >> /\ lastOrg' = lastOrg
  BY <1>1 DEF TA!Run
<1> QED
  BY <1>2

\* What an answer leaves of the loads: the newest stays the newest, unless it
\* is the one answered.
LEMMA EndedLeaves ==
  ASSUME dLoads \in Seq(TA!Question), NEW i \in 1 .. Len(dLoads), TA!Ended(i)
  PROVE  /\ dLoads' \in Seq(TA!Question)
         /\ Len(dLoads') = Len(dLoads) - 1
         /\ dLoads[i] \in TA!Question
         /\ i < Len(dLoads) => TA!Last(dLoads') = TA!Last(dLoads)
         /\ ~overtaken' => i = 1 /\ ~overtaken
         /\ i = 1 /\ dLoads' = << >> => dLoads[i] = TA!Last(dLoads)
<1> DEFINE front == SubSeq(dLoads, 1, i - 1)
           back == SubSeq(dLoads, i + 1, Len(dLoads))
<1>1. front \in Seq(TA!Question) /\ Len(front) = i - 1
  OBVIOUS
<1>2. /\ back \in Seq(TA!Question) /\ Len(back) = Len(dLoads) - i
      /\ \A j \in 1 .. Len(dLoads) - i : back[j] = dLoads[i + j]
  OBVIOUS
<1>3. dLoads' = front \o back
  BY DEF TA!Ended, TA!RemoveAt
<1> HIDE DEF front, back
<1>4. dLoads' \in Seq(TA!Question) /\ Len(dLoads') = Len(dLoads) - 1
  BY <1>1, <1>2, <1>3
<1>5. ASSUME i < Len(dLoads) PROVE TA!Last(dLoads') = TA!Last(dLoads)
  <2>1. back[Len(dLoads) - i] = dLoads[Len(dLoads)]
    BY <1>2, <1>5
  <2>2. (front \o back)[Len(dLoads) - 1] = back[Len(dLoads) - i]
    BY <1>1, <1>2, <1>5
  <2> QED
    BY <1>3, <1>4, <2>1, <2>2 DEF TA!Last
<1>6. ~overtaken' => i = 1 /\ ~overtaken
  <2>1. ~(i > 1) => i = 1
    OBVIOUS
  <2> QED
    BY <2>1, Zenon DEF TA!Ended
<1>7. ASSUME i = 1, dLoads' = << >> PROVE dLoads[i] = TA!Last(dLoads)
  <2>1. Len(dLoads) = 1
    BY <1>4, <1>7
  <2> QED
    BY <1>7, <2>1 DEF TA!Last
<1> QED
  BY <1>4, <1>5, <1>6, <1>7

\* The last load to end, if none overtook it, was the newest.
LEMMA FlagsAreTyped ==
  TA!TypeOK => /\ dLoading \in BOOLEAN /\ deleting \in BOOLEAN
               /\ overtaken \in BOOLEAN /\ refused \in BOOLEAN
BY DEF TA!TypeOK

\* An operation that runs the effect for what the filters then ask.
LEMMA RunKeepsDashboard ==
  ASSUME TA!ListAssumption, TA!TypeOK, NEW n \in {1, 2},
         Len(dLoads) + n <= MaxLoads, TA!Run(org', filters', n),
         mounted', org' \in Org \cup {None}, saved' \in TA!Filters,
         filters' \in TA!Filters, marked' \in TA!Page,
         pending' \in TA!Filters \cup {None}, rows' \in TA!Question \cup {None},
         deleting' \in BOOLEAN, refused' \in BOOLEAN
  PROVE  DashboardInv'
<1>1. /\ dLoads \in Seq(TA!Question) /\ lastOrg \in Org \cup {None}
      /\ MaxLoads \in Nat /\ Len(dLoads) <= MaxLoads
  BY DEF TA!TypeOK, TA!ListAssumption
<1>2. dLoading' = TRUE /\ overtaken' \in BOOLEAN
  BY FlagsAreTyped DEF TA!Run
<1>3. CASE org' = None
  <2>1. dLoads' = dLoads /\ lastOrg' = lastOrg
    BY <1>1, <1>3, RunAsksNothing
  <2>2. TA!TypeOK'
    BY <1>1, <1>2, <2>1 DEF TA!TypeOK
  <2> QED
    BY <1>3, <2>2 DEF DashboardInv, NewestAsks, ListInv, TA!AtRest
<1>4. CASE org' # None
  <2>1. org' \in Org
    BY <1>4
  <2>2. /\ dLoads' \in Seq(TA!Question) /\ Len(dLoads') = Len(dLoads) + n
        /\ TA!Last(dLoads') = TA!Asks(org', filters') /\ lastOrg' = org'
    BY <1>1, <1>4, <2>1, RunAsks
  <2>3. TA!TypeOK'
    BY <1>1, <1>2, <2>1, <2>2 DEF TA!TypeOK
  <2>4. dLoads' # << >>
    BY <1>1, <2>2
  <2> QED
    BY <2>2, <2>3, <2>4 DEF DashboardInv, NewestAsks, ListInv, TA!AtRest
<1> QED
  BY <1>3, <1>4

LEMMA LeftKeepsDashboard ==
  ASSUME TA!ListAssumption, TA!TypeOK, TA!Left, org' \in Org \cup {None}
  PROVE  DashboardInv'
<1>1. << >> \in Seq(TA!Question) /\ Len(<< >>) = 0
  OBVIOUS
<1>2. MaxLoads \in Nat /\ 1 \in TA!Page
  BY DEF TA!ListAssumption, TA!Page
<1>3. TA!TypeOK'
  <2>1. ({dLoading, deleting, overtaken, refused} \subseteq BOOLEAN)'
    BY Zenon DEF TA!Left
  <2>2. /\ mounted' \in BOOLEAN
        /\ ~mounted' =>
             pending' = None /\ dLoads' = << >> /\ ~dLoading' /\ ~deleting'
    BY Zenon DEF TA!Left
  <2>3. /\ dLoads' \in Seq(TA!Question) /\ Len(dLoads') <= MaxLoads
    BY <1>1, <1>2 DEF TA!Left
  <2>4. /\ org' \in Org \cup {None} /\ saved' \in TA!Filters
        /\ filters' \in TA!Filters /\ marked' \in TA!Page
        /\ pending' \in TA!Filters \cup {None} /\ lastOrg' \in Org \cup {None}
        /\ rows' \in TA!Question \cup {None}
    BY <1>2 DEF TA!Left, TA!TypeOK
  <2> QED
    BY <2>1, <2>2, <2>3, <2>4, Zenon DEF TA!TypeOK
<1> QED
  BY <1>3 DEF TA!Left, DashboardInv, NewestAsks, ListInv, TA!AtRest

LEMMA FiltersChange ==
  ASSUME NEW f \in TA!Filters
  PROVE  /\ f.tab \in Tab /\ f.page \in TA!Page /\ f.narrow \in Narrow
         /\ \A t \in Tab : [f EXCEPT !.tab = t] \in TA!Filters
         /\ \A p \in TA!Page : [f EXCEPT !.page = p] \in TA!Filters
         /\ \A n \in Narrow : [f EXCEPT !.narrow = n] \in TA!Filters
BY DEF TA!Filters

LEMMA NextDashboardInv ==
  ASSUME TA!ListAssumption, DashboardInv, [TA!Next]_(TA!vars)
  PROVE  DashboardInv'
<1>1. TA!TypeOK
  BY DEF DashboardInv
<1>2. /\ org \in Org \cup {None} /\ saved \in TA!Filters /\ filters \in TA!Filters
      /\ marked \in TA!Page /\ pending \in TA!Filters \cup {None}
      /\ lastOrg \in Org \cup {None} /\ dLoads \in Seq(TA!Question)
      /\ Len(dLoads) \in Nat /\ Len(dLoads) <= MaxLoads /\ MaxLoads \in Nat
      /\ rows \in TA!Question \cup {None}
      /\ 1 \in TA!Page /\ None \notin Org \cup TA!Filters \cup TA!Question
  BY <1>1 DEF TA!TypeOK, TA!ListAssumption, TA!Page
<1>3. /\ mounted \in BOOLEAN /\ dLoading \in BOOLEAN /\ deleting \in BOOLEAN
      /\ overtaken \in BOOLEAN /\ refused \in BOOLEAN
  BY <1>1, FlagsAreTyped DEF TA!TypeOK
<1>4. TA!HasRoom => Len(dLoads) + 1 <= MaxLoads
  BY <1>2 DEF TA!HasRoom
<1>5. ASSUME NEW override \in Tab \cup {None}, TA!Open(override) PROVE DashboardInv'
  <2>1. filters' \in TA!Filters /\ marked' \in TA!Page
    BY <1>2, <1>5, FiltersChange DEF TA!Open
  <2>2. TA!Run(org', filters', 1)
    BY <1>5 DEF TA!Open
  <2> QED
    BY <1>1, <1>2, <1>3, <1>4, <1>5, <2>1, <2>2, RunKeepsDashboard DEF TA!Open
<1>6. ASSUME NEW tab \in Tab, TA!changeTab(tab) PROVE DashboardInv'
  <2>1. filters' = [[filters EXCEPT !.tab = tab] EXCEPT !.page = 1]
    BY <1>6 DEF TA!changeTab
  <2>2. filters' \in TA!Filters
    BY <1>2, <2>1, FiltersChange
  <2>3. TA!Run(org', filters', 1)
    BY <1>6 DEF TA!changeTab
  <2> QED
    BY <1>1, <1>2, <1>3, <1>4, <1>6, <2>2, <2>3, RunKeepsDashboard DEF TA!changeTab
<1>7. ASSUME NEW p \in TA!Page, TA!changePage(p) PROVE DashboardInv'
  <2>1. filters' \in TA!Filters
    BY <1>2, <1>7, FiltersChange DEF TA!changePage
  <2>2. TA!Run(org', filters', 1)
    BY <1>7 DEF TA!changePage
  <2> QED
    BY <1>1, <1>2, <1>3, <1>4, <1>7, <2>1, <2>2, RunKeepsDashboard DEF TA!changePage
<1>8. ASSUME NEW narrow \in Narrow, TA!FilterMenu(narrow) PROVE DashboardInv'
  <2>1. filters' = [[filters EXCEPT !.narrow = narrow] EXCEPT !.page = 1]
    BY <1>8 DEF TA!FilterMenu
  <2>2. filters' \in TA!Filters
    BY <1>2, <2>1, FiltersChange
  <2>3. TA!Run(org', filters', 1)
    BY <1>8 DEF TA!FilterMenu
  <2> QED
    BY <1>1, <1>2, <1>3, <1>4, <1>8, <2>2, <2>3, RunKeepsDashboard DEF TA!FilterMenu
<1>9. ASSUME NEW o \in Org, TA!OrganisationChanges(o) PROVE DashboardInv'
  <2>1. CASE mounted /\ org = None
    <3>1. /\ TA!HasRoom /\ TA!Run(org', filters', 1)
          /\ UNCHANGED <<mounted, saved, filters, marked, pending, rows, deleting,
                        refused>>
      BY <1>9, <2>1 DEF TA!OrganisationChanges
    <3>2. org' \in Org \cup {None}
      BY <1>9 DEF TA!OrganisationChanges
    <3> QED
      BY <1>1, <1>2, <1>3, <1>4, <2>1, <3>1, <3>2, RunKeepsDashboard
  <2>2. CASE ~(mounted /\ org = None)
    <3>1. TA!Left /\ org' \in Org \cup {None}
      BY <1>9, <2>2 DEF TA!OrganisationChanges
    <3> QED
      BY <1>1, <3>1, LeftKeepsDashboard
  <2> QED
    BY <2>1, <2>2
<1>10. CASE TA!Leave
  BY <1>1, <1>2, <1>10, LeftKeepsDashboard DEF TA!Leave
<1>11. CASE TA!DeletionArrives
  <2>1. TA!Run(org', filters', 2) /\ Len(dLoads) + 2 <= MaxLoads
    BY <1>11 DEF TA!DeletionArrives
  <2>2. mounted
    BY <1>1, <1>11 DEF TA!DeletionArrives, TA!TypeOK
  <2> QED
    BY <1>1, <1>2, <1>3, <1>11, <2>1, <2>2, RunKeepsDashboard DEF TA!DeletionArrives
<1>12. CASE TA!SaveTimerFires
  <2>1. /\ saved' = pending /\ pending' = None /\ pending # None
        /\ UNCHANGED <<mounted, org, filters, marked, lastOrg, dLoads, rows,
             dLoading,
                      deleting, overtaken, refused>>
    BY <1>12 DEF TA!SaveTimerFires
  <2>2. TA!TypeOK'
    BY <1>1, <1>2, <1>3, <2>1 DEF TA!TypeOK
  <2> QED
    BY <2>1, <2>2 DEF DashboardInv, NewestAsks, ListInv, TA!AtRest
<1>13. CASE TA!DeleteDraft \/ TA!DeletionFails
  <2>1. /\ deleting' \in BOOLEAN /\ mounted
        /\ UNCHANGED <<mounted, org, saved, filters, marked, pending, lastOrg,
             dLoads,
                      rows, dLoading, overtaken, refused>>
    BY <1>1, <1>13 DEF TA!DeleteDraft, TA!DeletionFails, TA!TypeOK
  <2>2. TA!TypeOK'
    BY <1>1, <1>2, <1>3, <2>1 DEF TA!TypeOK
  <2> QED
    BY <2>1, <2>2 DEF DashboardInv, NewestAsks, ListInv, TA!AtRest
<1>14. ASSUME NEW i \in 1 .. MaxLoads, TA!ListAnswered(i) PROVE DashboardInv'
  <2>1. i \in 1 .. Len(dLoads)
    BY <1>2, <1>14 DEF TA!ListAnswered
  <2>2. mounted
    BY <1>1, <2>1 DEF TA!TypeOK
  <2>3. CASE TA!ListFails(i)
    BY <1>1, <1>2, <2>3, LeftKeepsDashboard DEF TA!ListFails
  <2>4. CASE TA!ListArrives(i) \/ TA!ListForbidden(i)
    <3>1. TA!Ended(i) /\ dLoading' = FALSE /\ refused' \in BOOLEAN
          /\ UNCHANGED <<mounted, org, saved, filters, pending, lastOrg, deleting>>
      BY <2>4, Zenon DEF TA!ListArrives, TA!ListForbidden
    <3>2. /\ dLoads' \in Seq(TA!Question)
          /\ Len(dLoads') = Len(dLoads) - 1
          /\ dLoads[i] \in TA!Question
          /\ i < Len(dLoads) => TA!Last(dLoads') = TA!Last(dLoads)
          /\ ~overtaken' => i = 1 /\ ~overtaken
          /\ i = 1 /\ dLoads' = << >> => dLoads[i] = TA!Last(dLoads)
      BY <1>2, <2>1, <3>1, EndedLeaves
    <3>3. overtaken' \in BOOLEAN
      BY <1>3, <3>1, Zenon DEF TA!Ended
    <3>4. rows' \in TA!Question \cup {None} /\ marked' \in TA!Page
      BY <1>2, <2>4, <3>2 DEF TA!ListArrives, TA!ListForbidden, TA!Question,
         TA!Filters
    <3>5. TA!TypeOK'
      <4>1. ({dLoading, deleting, overtaken, refused} \subseteq BOOLEAN)'
        BY <1>3, <3>1, <3>3, Zenon
      <4> QED
        BY <1>2, <2>2, <3>1, <3>2, <3>4, <4>1 DEF TA!TypeOK
    <3>6. NewestAsks'
      <4> SUFFICES ASSUME org # None, ~overtaken', dLoads' # << >>
                   PROVE  TA!Last(dLoads') = TA!Asks(org, filters)
        BY <3>1 DEF NewestAsks
      <4>1. Len(dLoads') # 0
        BY <3>2
      <4>2. i = 1 /\ ~overtaken /\ i < Len(dLoads) /\ dLoads # << >>
        BY <1>2, <2>1, <3>2, <4>1
      <4> QED
        BY <2>2, <3>2, <4>2 DEF DashboardInv, NewestAsks
    <3>7. ListInv'
      <4> SUFFICES ASSUME org # None, dLoads' = << >>, ~refused'
                   PROVE  /\ rows' # None
                          /\ marked' = rows'.filters.page
                          /\ ~overtaken' => rows' = TA!Asks(org, filters)
        BY <3>1 DEF ListInv, TA!AtRest
      <4>1. rows' = dLoads[i] /\ marked' = dLoads[i].filters.page
        BY <2>4 DEF TA!ListArrives, TA!ListForbidden
      <4>2. ~overtaken' => rows' = TA!Asks(org, filters)
        BY <2>1, <2>2, <3>2, <4>1 DEF DashboardInv, NewestAsks
      <4> QED
        BY <1>2, <3>2, <4>1, <4>2
    <3> QED
      BY <3>5, <3>6, <3>7 DEF DashboardInv
  <2> QED
    BY <1>14, <2>3, <2>4 DEF TA!ListAnswered
<1>15. CASE UNCHANGED TA!vars
  <2>1. UNCHANGED <<mounted, org, saved, filters, marked, pending, lastOrg, dLoads,
                    rows, dLoading, deleting, overtaken, refused>>
    BY <1>15 DEF TA!vars
  <2>2. TA!TypeOK'
    BY <1>1, <2>1 DEF TA!TypeOK
  <2> QED
    BY <2>1, <2>2 DEF DashboardInv, NewestAsks, ListInv, TA!AtRest
<1> QED
  BY <1>5, <1>6, <1>7, <1>8, <1>9, <1>10, <1>11, <1>12, <1>13, <1>14, <1>15
     DEF TA!Next, TA!DeletionAnswered

\* At rest the list of the Pattern/type approval dashboard is the one its
\* filters ask for, of the organisation the account is at, unless an answer
\* overtook another; and it is the list of the page marked in any case
\* (dashboard-ta.tsx).
THEOREM DashboardShowsWhatItAsks ==
  ASSUME TA!ListAssumption
  PROVE  TA!Spec => [](TA!TypeOK /\ TA!ListIsOfTheFilters /\ TA!PageIsOfTheList)
<1>1. TA!Init => DashboardInv
  BY DashboardStarts
<1>2. DashboardInv /\ [TA!Next]_(TA!vars) => DashboardInv'
  BY NextDashboardInv
<1>3. DashboardInv => TA!TypeOK /\ TA!ListIsOfTheFilters /\ TA!PageIsOfTheList
  BY DEF DashboardInv, ListInv, TA!ListIsOfTheFilters, TA!PageIsOfTheList
<1> QED
  BY <1>1, <1>2, <1>3, PTL DEF TA!Spec

\* Without an organisation the effect ends at once and asks nothing.
DashboardSpinsForALoad == dLoading /\ org # None => mounted /\ dLoads # << >>

LEMMA NextDashboardSpins ==
  ASSUME TA!ListAssumption, DashboardInv, DashboardInv', DashboardSpinsForALoad,
         [TA!Next]_(TA!vars)
  PROVE  DashboardSpinsForALoad'
<1>1. /\ org \in Org \cup {None} /\ org' \in Org \cup {None}
      /\ filters \in TA!Filters /\ filters' \in TA!Filters
      /\ dLoads \in Seq(TA!Question) /\ Len(dLoads) \in Nat
  BY DEF DashboardInv, TA!TypeOK
<1>2. ASSUME NEW n \in {1, 2}, TA!Run(org', filters', n), mounted'
      PROVE  DashboardSpinsForALoad'
  <2>1. CASE org' = None
    BY <2>1 DEF DashboardSpinsForALoad
  <2>2. CASE org' # None
    <3>1. Len(dLoads') = Len(dLoads) + n
      BY <1>1, <1>2, <2>2, RunAsks
    <3>2. dLoads' # << >>
      BY <1>1, <3>1
    <3> QED
      BY <1>2, <3>2 DEF DashboardSpinsForALoad
  <2> QED
    BY <2>1, <2>2
<1>3. ASSUME NEW override \in Tab \cup {None}, TA!Open(override)
      PROVE  DashboardSpinsForALoad'
  BY <1>2, <1>3 DEF TA!Open
<1>4. ASSUME NEW tab \in Tab, TA!changeTab(tab) PROVE DashboardSpinsForALoad'
  BY <1>2, <1>4 DEF TA!changeTab
<1>5. ASSUME NEW p \in TA!Page, TA!changePage(p) PROVE DashboardSpinsForALoad'
  BY <1>2, <1>5 DEF TA!changePage
<1>6. ASSUME NEW narrow \in Narrow, TA!FilterMenu(narrow)
      PROVE  DashboardSpinsForALoad'
  BY <1>2, <1>6 DEF TA!FilterMenu
<1>7. ASSUME NEW o \in Org, TA!OrganisationChanges(o) PROVE DashboardSpinsForALoad'
  <2>1. CASE mounted /\ org = None
    <3>1. TA!Run(org', filters', 1) /\ mounted'
      BY <1>7, <2>1 DEF TA!OrganisationChanges
    <3> QED
      BY <1>2, <3>1
  <2>2. CASE ~(mounted /\ org = None)
    BY <1>7, <2>2 DEF TA!OrganisationChanges, TA!Left, DashboardSpinsForALoad
  <2> QED
    BY <2>1, <2>2
<1>8. CASE TA!DeletionArrives
  <2>1. mounted
    BY <1>8 DEF TA!DeletionArrives, DashboardInv, TA!TypeOK
  <2>2. TA!Run(org', filters', 2) /\ mounted'
    BY <1>8, <2>1 DEF TA!DeletionArrives
  <2> QED
    BY <1>2, <2>2
<1>9. CASE TA!Leave
  BY <1>9 DEF TA!Leave, TA!Left, DashboardSpinsForALoad
<1>10. CASE TA!SaveTimerFires \/ TA!DeleteDraft \/ TA!DeletionFails
  BY <1>10 DEF TA!SaveTimerFires, TA!DeleteDraft, TA!DeletionFails,
     DashboardSpinsForALoad
<1>11. ASSUME NEW i \in 1 .. MaxLoads, TA!ListAnswered(i)
       PROVE  DashboardSpinsForALoad'
  BY <1>11 DEF TA!ListAnswered, TA!ListArrives, TA!ListForbidden, TA!ListFails,
     TA!Left, DashboardSpinsForALoad
<1>12. CASE UNCHANGED TA!vars
  BY <1>12 DEF TA!vars, DashboardSpinsForALoad
<1> QED
  BY <1>3, <1>4, <1>5, <1>6, <1>7, <1>8, <1>9, <1>10, <1>11, <1>12
     DEF TA!Next, TA!DeletionAnswered

\* The spinner of a dashboard that has an organisation has a load behind it,
\* whichever answers came first and whatever was deleted meanwhile
\* (dashboard-ta.tsx:424).
THEOREM DashboardSpinsForLoads ==
  ASSUME TA!ListAssumption
  PROVE  TA!Spec => []DashboardSpinsForALoad
<1>1. TA!Init => DashboardInv /\ DashboardSpinsForALoad
  BY DashboardStarts DEF TA!Init, DashboardSpinsForALoad
<1>2. DashboardInv /\ DashboardSpinsForALoad /\ [TA!Next]_(TA!vars)
        => DashboardInv' /\ DashboardSpinsForALoad'
  BY NextDashboardInv, NextDashboardSpins
<1> QED
  BY <1>1, <1>2, PTL DEF TA!Spec

=============================================================================
