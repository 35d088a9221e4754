--------------------------- MODULE DashboardProofs ---------------------------
(***************************************************************************)
(* The list on display is the one asked for (Dashboard), for any number of *)
(* tabs, pages, texts, organisations and overlapping loads.                *)
(*                                                                         *)
(* The argument: a load that is not aborted is the newest, and asks what   *)
(* the page asks now.  As long as the page may ask, and neither a refusal  *)
(* nor the emptied list stands in for an answer, there is such a load or   *)
(* the answer is on display already.  That load is also the only one which *)
(* can bring a list, so the dashboard keeps the promise of LatestAnswer.   *)
(***************************************************************************)
EXTENDS Dashboard, TLAPS

\* Taking one element out keeps the others, those behind it one place earlier.
LEMMA Removal ==
  ASSUME NEW S, NEW s \in Seq(S), NEW i \in 1 .. Len(s)
  PROVE  /\ RemoveAt(s, i) \in Seq(S)
         /\ Len(RemoveAt(s, i)) = Len(s) - 1
         /\ \A j \in 1 .. Len(s) - 1 :
              RemoveAt(s, i)[j] = IF j < i THEN s[j] ELSE s[j + 1]
<1> DEFINE front == SubSeq(s, 1, i - 1)
           back == SubSeq(s, i + 1, Len(s))
<1>1. front \in Seq(S) /\ Len(front) = i - 1
        /\ \A j \in 1 .. i - 1 : front[j] = s[j]
  OBVIOUS
<1>2. back \in Seq(S) /\ Len(back) = Len(s) - i
        /\ \A j \in 1 .. Len(s) - i : back[j] = s[i + j]
  OBVIOUS
<1>3. RemoveAt(s, i) = front \o back
  BY DEF RemoveAt
<1> HIDE DEF front, back
<1>4. /\ front \o back \in Seq(S)
      /\ Len(front \o back) = Len(s) - 1
  BY <1>1, <1>2
<1>5. ASSUME NEW j \in 1 .. Len(s) - 1
      PROVE  RemoveAt(s, i)[j] = IF j < i THEN s[j] ELSE s[j + 1]
  <2>1. CASE j < i
    <3>1. j \in 1 .. Len(front)
      BY <2>1, <1>1
    <3>2. (front \o back)[j] = front[j]
      BY <3>1, <1>1, <1>2
    <3> QED BY <2>1, <3>1, <3>2, <1>1, <1>3
  <2>2. CASE ~(j < i)
    <3>1. j - i + 1 \in 1 .. Len(s) - i /\ i + (j - i + 1) = j + 1
      BY <2>2
    <3>2. back[j - i + 1] = s[i + (j - i + 1)]
      BY <3>1, <1>2
    <3>3. j \in Len(front) + 1 .. Len(front) + Len(back)
      BY <2>2, <1>1, <1>2
    <3>4. (front \o back)[j] = back[j - Len(front)]
      BY <3>3, <1>1, <1>2
    <3>5. j - Len(front) = j - i + 1
      BY <1>1
    <3>6. (front \o back)[j] = s[j + 1]
      BY <3>1, <3>2, <3>4, <3>5
    <3> QED BY <2>2, <3>6, <1>3
  <2> QED BY <2>1, <2>2
<1> QED BY <1>3, <1>4, <1>5

\* The cleanup aborts every load and loses none.
LEMMA CleanedUp ==
  ASSUME NEW ls \in Seq(Load)
  PROVE  /\ Cleanup(ls) \in Seq(Load)
         /\ Len(Cleanup(ls)) = Len(ls)
         /\ \A i \in 1 .. Len(ls) : Cleanup(ls)[i].aborted
<1>1. ASSUME NEW l \in Load
      PROVE  Aborted(l) \in Load /\ Aborted(l).aborted
  BY DEF Aborted, Load
<1>2. Cleanup(ls) \in [1 .. Len(ls) -> Load]
  BY <1>1 DEF Cleanup
<1>3. Len(ls) \in Nat
  OBVIOUS
<1>4. Cleanup(ls) \in Seq(Load) /\ Len(Cleanup(ls)) = Len(ls)
  BY <1>2, <1>3
<1>5. ASSUME NEW i \in 1 .. Len(ls) PROVE Cleanup(ls)[i].aborted
  BY <1>1 DEF Cleanup
<1> QED BY <1>4, <1>5

\* After a run the one load that may not be aborted is its own.
LEMMA Ran ==
  ASSUME NEW ls \in Seq(Load), NEW q \in Questions, NEW lock \in BOOLEAN
  PROVE  /\ Run(ls, q, lock) \in Seq(Load)
         /\ Len(Run(ls, q, lock)) \in {Len(ls), Len(ls) + 1}
         /\ \A i \in 1 .. Len(Run(ls, q, lock)) :
              ~Run(ls, q, lock)[i].aborted =>
                i = Len(Run(ls, q, lock)) /\ Run(ls, q, lock)[i].query = q
         /\ Askable(q) => /\ Run(ls, q, lock) # << >>
                          /\ ~Run(ls, q, lock)[Len(Run(ls, q, lock))].aborted
<1> DEFINE new == [query |-> q, lock |-> lock, aborted |-> FALSE,
                   phase |-> "token", gone |-> FALSE]
           cs == Cleanup(ls)
<1>1. cs \in Seq(Load) /\ Len(cs) = Len(ls) /\ \A i \in 1 .. Len(ls) : cs[i].aborted
  BY CleanedUp
<1>2. new \in Load /\ ~new.aborted /\ new.query = q
  BY DEF Load
<1>3. Run(ls, q, lock) = IF Askable(q) THEN Append(cs, new) ELSE cs
  BY DEF Run
<1>4. Len(ls) \in Nat
  OBVIOUS
<1> HIDE DEF new, cs
<1>5. CASE ~Askable(q)
  BY <1>1, <1>3, <1>4, <1>5
<1>6. CASE Askable(q)
  <2>1. Run(ls, q, lock) = Append(cs, new)
    BY <1>3, <1>6
  <2>2. /\ Append(cs, new) \in Seq(Load)
        /\ Len(Append(cs, new)) = Len(ls) + 1
        /\ Append(cs, new)[Len(ls) + 1] = new
        /\ \A i \in 1 .. Len(ls) : Append(cs, new)[i] = cs[i]
    BY <1>1, <1>2, <1>4
  <2>3. Append(cs, new) # << >>
    <3>1. Len(Append(cs, new)) # 0
      BY <2>2, <1>4
    <3>2. Len(<< >>) = 0
      OBVIOUS
    <3> QED BY <3>1, <3>2
  <2>4. ASSUME NEW i \in 1 .. Len(ls) + 1, ~Append(cs, new)[i].aborted
        PROVE  i = Len(ls) + 1 /\ Append(cs, new)[i].query = q
    <3>1. ~(i \in 1 .. Len(ls))
      BY <2>2, <2>4, <1>1
    <3>2. i = Len(ls) + 1
      BY <3>1, <1>4
    <3> QED BY <3>2, <2>2, <1>2
  <2>5. ~Append(cs, new)[Len(ls) + 1].aborted
    BY <2>2, <1>2
  <2> QED BY <2>1, <2>2, <2>3, <2>4, <2>5
<1> QED BY <1>5, <1>6

-----------------------------------------------------------------------------
(* The invariant *)

AsksThePresent ==
  \A i \in 1 .. Len(loads) : Live(i) => i = Len(loads) /\ loads[i].query = Query

Awaited == loads # << >> /\ Live(Len(loads))
OnDisplay == rows # None /\ rows.query = Query
Answered ==
  mounted /\ Askable(Query) /\ ~refused /\ ~emptied => Awaited \/ OnDisplay

IInv == TypeOK /\ AsksThePresent /\ RowsOfTheTab /\ Answered

LEMMA QuestionType ==
  ASSUME NEW o \in Org \union {None}, NEW f \in Filters, NEW text \in Text
  PROVE  Asks(o, f, text) \in Questions
BY DEF Asks, Questions, Filters

LEMMA QueryType == TypeOK => Query \in Questions
BY QuestionType DEF TypeOK, Query

\* What an action that ends in the load effect leaves behind.
LEMMA EffectKeeps ==
  ASSUME TypeOK, AsksThePresent, HasRoom, LoadEffect,
         Query' \in Questions, Dialogs' \in BOOLEAN
  PROVE  /\ loads' \in Seq(Load)
         /\ Len(loads') <= MaxLoads
         /\ AsksThePresent'
         /\ \/ Query' = Query /\ loads' = loads
            \/ Askable(Query') => Awaited'
<1>1. loads \in Seq(Load) /\ Len(loads) \in Nat /\ Len(loads) + 2 <= MaxLoads
        /\ MaxLoads \in Nat
  BY BoundAssumption DEF TypeOK, HasRoom
<1>2. CASE Query' = Query /\ loads' = loads
  BY <1>1, <1>2 DEF AsksThePresent, Live
<1>3. CASE loads' = Run(loads, Query', Dialogs')
  <2>1. /\ loads' \in Seq(Load)
        /\ Len(loads') \in {Len(loads), Len(loads) + 1}
        /\ \A i \in 1 .. Len(loads') :
             ~loads'[i].aborted => i = Len(loads') /\ loads'[i].query = Query'
        /\ Askable(Query') => loads' # << >> /\ ~loads'[Len(loads')].aborted
    BY <1>1, <1>3, Ran
  <2> QED BY <1>1, <2>1 DEF AsksThePresent, Awaited, Live
<1> QED BY <1>2, <1>3 DEF LoadEffect

\* Such an action answers for the list as long as it keeps the list, or says
\* that it emptied it.
LEMMA EffectAnswers ==
  ASSUME Answered, mounted' = mounted, refused' = refused,
         \/ Query' = Query /\ loads' = loads
         \/ Askable(Query') => Awaited',
         \/ UNCHANGED <<rows, emptied>>
         \/ emptied' = (emptied \/ Query' = Query)
  PROVE  Answered'
<1>1. CASE Askable(Query') => Awaited'
  BY <1>1 DEF Answered
<1>2. CASE Query' = Query /\ loads' = loads /\ UNCHANGED <<rows, emptied>>
  <2>1. Awaited' = Awaited /\ OnDisplay' = OnDisplay /\ Askable(Query') = Askable(Query)
    BY <1>2 DEF Awaited, OnDisplay, Live
  <2> QED BY <1>2, <2>1 DEF Answered
<1>3. CASE Query' = Query /\ emptied' = (emptied \/ Query' = Query)
  BY <1>3 DEF Answered
<1> QED BY <1>1, <1>2, <1>3

LEMMA Starts == Init => IInv
<1> SUFFICES ASSUME Init PROVE IInv
  OBVIOUS
<1>1. loads = << >> /\ Len(loads) = 0 /\ loads \in Seq(Load)
  BY DEF Init
<1>2. filters \in Filters /\ settled \in Text
  BY DEF Init, Filters
<1>3. Len(loads) <= MaxLoads /\ \A i \in 1 .. Len(loads) : Live(i) => i = Len(loads)
  BY <1>1, BoundAssumption
<1>4. TypeOK
  BY <1>1, <1>2, <1>3 DEF Init, TypeOK, Dialogs
<1> QED BY <1>1, <1>4 DEF Init, IInv, AsksThePresent, RowsOfTheTab, Answered

\* Off the screen nothing is awaited and nothing shown.
LEMMA UnmountedKeeps ==
  ASSUME TypeOK, Unmounted, UNCHANGED <<org, filters>>,
         deletion' \in {"none", "running", "over"}, gone' \in BOOLEAN,
         homeward' \in BOOLEAN
  PROVE  IInv'
<1>1. loads' = << >> /\ Len(loads') = 0 /\ loads' \in Seq(Load)
  BY DEF Unmounted
<1>2. Len(loads') <= MaxLoads
        /\ \A i \in 1 .. Len(loads') : Live(i)' => i = Len(loads')
  BY <1>1, BoundAssumption
<1>3. TypeOK'
  BY <1>1, <1>2 DEF Unmounted, TypeOK, Dialogs
<1> QED BY <1>1, <1>3 DEF Unmounted, IInv, AsksThePresent, RowsOfTheTab, Answered

\* The page is as it was.
LEMMA StillKeeps ==
  ASSUME IInv, UNCHANGED <<mounted, org, filters, pageVars, dialogVars>>,
         deletion' \in {"none", "running", "over"}, gone' \in BOOLEAN,
         homeward' \in BOOLEAN
  PROVE  IInv'
<1>1. Query' = Query /\ loads' = loads
  BY DEF Query, pageVars
<1>2. \A i \in 1 .. Len(loads') : Live(i)' = Live(i)
  BY <1>1 DEF Live
<1>3. TypeOK'
  BY <1>1, <1>2 DEF IInv, TypeOK, Dialogs, pageVars, dialogVars
<1>4. AsksThePresent'
  BY <1>1, <1>2 DEF IInv, AsksThePresent
<1>5. Awaited' = Awaited
  BY <1>1 DEF Awaited, Live
<1>6. RowsOfTheTab' /\ Answered'
  BY <1>1, <1>5 DEF IInv, RowsOfTheTab, Answered, OnDisplay, pageVars
<1> QED BY <1>3, <1>4, <1>6 DEF IInv

-----------------------------------------------------------------------------
(* The actions that end in the load effect *)

\* Enough for an action that keeps what the answers have brought.
LEMMA EffectStep ==
  ASSUME IInv, HasRoom, LoadEffect, mounted, mounted' = mounted,
         org' = org, filters' \in Filters, settled' \in Text,
         UNCHANGED <<loading, locked, refused>>,
         \/ UNCHANGED <<rows, emptied>> /\ filters'.tab = filters.tab
         \/ rows' = None /\ emptied' = (emptied \/ Query' = Query),
         branchDialog' \in BOOLEAN, deleteDialog' \in BOOLEAN,
         deletion' \in {"none", "running", "over"}, gone' = gone,
         homeward' \in BOOLEAN
  PROVE  IInv'
<1>1. Query' \in Questions
  BY QuestionType DEF IInv, TypeOK, Query
<1>2. Dialogs' \in BOOLEAN
  BY DEF Dialogs
<1>3. /\ loads' \in Seq(Load)
      /\ Len(loads') <= MaxLoads
      /\ AsksThePresent'
      /\ \/ Query' = Query /\ loads' = loads
         \/ Askable(Query') => Awaited'
  BY <1>1, <1>2, EffectKeeps DEF IInv
<1>4. TypeOK'
  <2>1. \A i \in 1 .. Len(loads') : Live(i)' => i = Len(loads')
    BY <1>3 DEF AsksThePresent
  <2>2. rows' \in List \union {None} /\ emptied' \in BOOLEAN
    BY DEF IInv, TypeOK
  <2> QED BY <1>3, <2>1, <2>2 DEF IInv, TypeOK, Dialogs
<1>5. RowsOfTheTab'
  BY DEF IInv, RowsOfTheTab
<1>6. Answered'
  BY <1>3, EffectAnswers DEF IInv
<1> QED BY <1>3, <1>4, <1>5, <1>6 DEF IInv

LEMMA FilteringKeeps == IInv /\ Filtering => IInv'
<1> SUFFICES ASSUME IInv, Filtering PROVE IInv'
  OBVIOUS
<1>0. filters \in Filters /\ FirstPage \in Page
  BY BoundAssumption DEF IInv, TypeOK, Page, FirstPage
<1>1. ASSUME NEW f \in Filters, Filtered(f), PageIsFree,
             \/ UNCHANGED <<rows, emptied>> /\ f.tab = filters.tab
             \/ rows' = None /\ emptied' = (emptied \/ Query' = Query)
      PROVE  IInv'
  <2>1. settled \in Text /\ branchDialog \in BOOLEAN /\ deleteDialog \in BOOLEAN
          /\ deletion \in {"none", "running", "over"} /\ homeward \in BOOLEAN
    BY DEF IInv, TypeOK
  <2> QED BY <1>1, <2>1, EffectStep DEF Filtered, PageIsFree, dialogVars
<1>2. ASSUME NEW tab \in Tab, changeTab(tab) PROVE IInv'
  <2>1. [filters EXCEPT !.tab = tab, !.page = FirstPage] \in Filters
    BY <1>0 DEF Filters
  <2> QED BY <1>1, <1>2, <2>1 DEF changeTab
<1>3. ASSUME NEW page \in Page, changePage(page) PROVE IInv'
  <2> DEFINE f == [filters EXCEPT !.page = page]
  <2>1. f \in Filters /\ f.tab = filters.tab
    BY <1>0 DEF Filters
  <2>2. Filtered(f) /\ PageIsFree /\ UNCHANGED <<rows, emptied>>
    BY <1>3 DEF changePage, ListIsFree
  <2> QED BY <1>1, <2>1, <2>2
<1>4. ASSUME NEW text \in Text, handleSearchSubmit(text) PROVE IInv'
  <2> DEFINE f == [filters EXCEPT !.text = text, !.page = FirstPage]
  <2>1. f \in Filters /\ f.tab = filters.tab
    BY <1>0 DEF Filters
  <2>2. Filtered(f) /\ PageIsFree /\ UNCHANGED <<rows, emptied>>
    BY <1>4 DEF handleSearchSubmit
  <2> QED BY <1>1, <2>1, <2>2
<1>5. ASSUME NEW narrow \in Narrow, FilterMenu(narrow) PROVE IInv'
  <2> DEFINE f == [filters EXCEPT !.narrow = narrow, !.page = FirstPage]
  <2>1. f \in Filters /\ f.tab = filters.tab
    BY <1>0 DEF Filters
  <2>2. Filtered(f) /\ PageIsFree /\ UNCHANGED <<rows, emptied>>
    BY <1>5 DEF FilterMenu
  <2> QED BY <1>1, <2>1, <2>2
<1> QED BY <1>2, <1>3, <1>4, <1>5 DEF Filtering

LEMMA DebounceKeeps == IInv /\ DebounceFires => IInv'
<1> SUFFICES ASSUME IInv, DebounceFires PROVE IInv'
  OBVIOUS
<1>1. filters \in Filters /\ filters.text \in Text
  BY DEF IInv, TypeOK, Filters
<1>2. branchDialog \in BOOLEAN /\ deleteDialog \in BOOLEAN
        /\ deletion \in {"none", "running", "over"} /\ homeward \in BOOLEAN
  BY DEF IInv, TypeOK
<1> QED BY <1>1, <1>2, EffectStep DEF DebounceFires, dialogVars

-----------------------------------------------------------------------------
(* The dialogs *)

LEMMA ChooseKeeps ==
  ASSUME IInv, NEW o \in Org \union {org}, ChooseBranch(o)
  PROVE  IInv'
<1> DEFINE kept == Asks(o, filters, settled)
           first == Run(loads, kept, deleteDialog)
<1>1. /\ loads \in Seq(Load) /\ filters \in Filters /\ settled \in Text
      /\ deleteDialog \in BOOLEAN /\ Len(loads) \in Nat /\ o \in Org \union {None}
      /\ Len(loads) + 2 <= MaxLoads /\ MaxLoads \in Nat
  BY BoundAssumption DEF IInv, TypeOK, ChooseBranch, HasRoom
<1>2. filters' \in Filters /\ filters'.tab = filters.tab
  <2>1. FirstPage \in Page
    BY BoundAssumption DEF Page, FirstPage
  <2>2. /\ [filters EXCEPT !.page = FirstPage] \in Filters
        /\ [filters EXCEPT !.page = FirstPage].tab = filters.tab
    BY <1>1, <2>1 DEF Filters
  <2> QED BY <1>1, <2>2 DEF ChooseBranch
<1>3. kept \in Questions /\ Query' \in Questions
  BY <1>1, <1>2, QuestionType DEF Query, ChooseBranch
<1>4. first \in Seq(Load) /\ Len(first) \in {Len(loads), Len(loads) + 1}
  BY <1>1, <1>3, Ran
<1>5. /\ loads' \in Seq(Load)
      /\ Len(loads') \in {Len(loads), Len(loads) + 1, Len(loads) + 2}
      /\ \A i \in 1 .. Len(loads') :
           ~loads'[i].aborted => i = Len(loads') /\ loads'[i].query = Query'
      /\ Askable(Query') => loads' # << >> /\ ~loads'[Len(loads')].aborted
  <2> DEFINE Good(ls, s) ==
        /\ s \in Seq(Load)
        /\ Len(s) \in {Len(ls), Len(ls) + 1}
        /\ \A i \in 1 .. Len(s) :
             ~s[i].aborted => i = Len(s) /\ s[i].query = Query'
        /\ Askable(Query') => s # << >> /\ ~s[Len(s)].aborted
  <2>1. ASSUME NEW ls \in Seq(Load) PROVE Good(ls, Run(ls, Query', deleteDialog))
    <3> HIDE DEF kept, first
    <3>1. Query' \in Questions /\ deleteDialog \in BOOLEAN
      BY <1>1, <1>3
    <3> QED BY <2>1, <3>1, Ran
  <2>2. loads' \in {Run(loads, Query', deleteDialog), Run(first, Query', deleteDialog)}
    BY DEF ChooseBranch
  <2> HIDE DEF kept, first, Good
  <2>3. Good(loads, loads') \/ Good(first, loads')
    BY <1>1, <1>4, <2>1, <2>2
  <2> QED BY <2>3, <1>1, <1>4 DEF Good
<1> HIDE DEF kept, first
<1>6. TypeOK'
  <2>1. \A i \in 1 .. Len(loads') : Live(i)' => i = Len(loads')
    BY <1>5 DEF Live
  <2>2. Len(loads') <= MaxLoads
    BY <1>1, <1>5
  <2> QED BY <1>2, <1>5, <2>1, <2>2 DEF IInv, TypeOK, ChooseBranch, Dialogs
<1>7. AsksThePresent' /\ (Askable(Query') => Awaited')
  BY <1>5 DEF AsksThePresent, Awaited, Live
<1>8. RowsOfTheTab'
  BY <1>2 DEF IInv, RowsOfTheTab, ChooseBranch
<1> QED BY <1>6, <1>7, <1>8 DEF IInv, Answered

LEMMA AskingKeeps == IInv /\ Asking => IInv'
<1> SUFFICES ASSUME IInv, Asking PROVE IInv'
  OBVIOUS
<1>1. /\ filters \in Filters /\ settled \in Text
      /\ branchDialog \in BOOLEAN /\ deleteDialog \in BOOLEAN
      /\ deletion \in {"none", "running", "over"} /\ homeward \in BOOLEAN
  BY DEF IInv, TypeOK
<1>2. CASE OpenBranchDialog
  BY <1>1, <1>2, EffectStep DEF OpenBranchDialog, PageIsFree
<1>3. CASE CloseBranchDialog
  BY <1>1, <1>3, EffectStep DEF CloseBranchDialog
<1>4. CASE OpenDeleteDialog
  BY <1>1, <1>4, EffectStep DEF OpenDeleteDialog, ListIsFree, PageIsFree
<1>5. CASE CloseDeleteDialog
  BY <1>1, <1>5, EffectStep DEF CloseDeleteDialog
<1>6. CASE ConfirmDeletion
  BY <1>6, StillKeeps DEF ConfirmDeletion, IInv, TypeOK
<1> QED BY <1>2, <1>3, <1>4, <1>5, <1>6, ChooseKeeps DEF Asking

LEMMA DeletionKeeps == IInv /\ Deletion => IInv'
<1> SUFFICES ASSUME IInv, Deletion PROVE IInv'
  OBVIOUS
<1>1. CASE ServerDeletes
  <2>1. gone' \in BOOLEAN /\ homeward' \in BOOLEAN
    BY <1>1 DEF ServerDeletes, IInv, TypeOK
  <2> QED BY <1>1, <2>1, StillKeeps DEF ServerDeletes
<1>2. CASE DeletionReturns /\ mounted
  <2>1. /\ filters \in Filters /\ settled \in Text /\ branchDialog \in BOOLEAN
        /\ homeward' = TRUE /\ deletion' = "none"
    BY <1>2 DEF DeletionReturns, IInv, TypeOK
  <2> QED BY <1>2, <2>1, EffectStep DEF DeletionReturns
<1>3. CASE DeletionReturns /\ ~mounted
  <2>1. ~branchDialog /\ ~deleteDialog
    BY <1>3 DEF IInv, TypeOK, Dialogs
  <2>2. deleteDialog' = deleteDialog /\ branchDialog' = branchDialog /\ Query' = Query
    BY <1>3, <2>1 DEF DeletionReturns, IInv, TypeOK, Query
  <2>3. UNCHANGED <<mounted, org, filters, pageVars, dialogVars>>
    BY <1>3, <2>2 DEF DeletionReturns, LoadEffect, pageVars, dialogVars
  <2> QED BY <1>3, <2>3, StillKeeps DEF DeletionReturns, IInv, TypeOK
<1> QED BY <1>1, <1>2, <1>3 DEF Deletion

-----------------------------------------------------------------------------
(* The answers *)

\* One load less, or one load further: those that are left ask what they
\* asked, and the live one is still the newest.
LEMMA LoadEnds ==
  ASSUME TypeOK, AsksThePresent, NEW i \in 1 .. Len(loads),
         loads' = RemoveAt(loads, i), Query' = Query
  PROVE  /\ loads' \in Seq(Load)
         /\ Len(loads') <= MaxLoads
         /\ loads' # << >> => loads # << >>
         /\ AsksThePresent'
         /\ ~Live(i) /\ Awaited => Awaited'
<1>1. loads \in Seq(Load) /\ Len(loads) \in Nat /\ Len(loads) <= MaxLoads
        /\ MaxLoads \in Nat
  BY BoundAssumption DEF TypeOK
<1>2. /\ loads' \in Seq(Load)
      /\ Len(loads') = Len(loads) - 1
      /\ \A j \in 1 .. Len(loads) - 1 :
           loads'[j] = IF j < i THEN loads[j] ELSE loads[j + 1]
  BY <1>1, Removal
<1>3. ASSUME NEW j \in 1 .. Len(loads'), ~loads'[j].aborted
      PROVE  j = Len(loads') /\ loads'[j].query = Query'
  <2>1. j \in 1 .. Len(loads) - 1
    BY <1>1, <1>2
  <2>2. PICK k \in 1 .. Len(loads) : loads'[j] = loads[k] /\ k = IF j < i THEN j ELSE j + 1
    <3>1. CASE j < i
      BY <3>1, <2>1, <1>1, <1>2
    <3>2. CASE ~(j < i)
      BY <3>2, <2>1, <1>1, <1>2
    <3> QED BY <3>1, <3>2
  <2>3. k = Len(loads) /\ loads[k].query = Query
    BY <2>2, <1>3 DEF AsksThePresent, Live
  <2>4. j = Len(loads) - 1
    BY <2>1, <2>2, <2>3, <1>1
  <2> QED BY <2>2, <2>3, <2>4, <1>2
<1>4. AsksThePresent'
  BY <1>3 DEF AsksThePresent, Live
<1>5. ASSUME ~Live(i), Awaited PROVE Awaited'
  <2>1. i # Len(loads) /\ Len(loads) - 1 \in 1 .. Len(loads) - 1
    BY <1>1, <1>5 DEF Awaited
  <2>2. loads'[Len(loads) - 1] = loads[Len(loads)]
    BY <2>1, <1>1, <1>2
  <2>3. loads' # << >>
    <3>1. Len(loads') # 0 /\ Len(<< >>) = 0
      BY <2>1, <1>1, <1>2
    <3> QED BY <3>1
  <2> QED BY <2>2, <2>3, <1>2, <1>5 DEF Awaited, Live
<1>6. loads # << >>
  BY <1>1
<1> QED BY <1>1, <1>2, <1>4, <1>5, <1>6

LEMMA LoadMoves ==
  ASSUME TypeOK, AsksThePresent, NEW i \in 1 .. Len(loads), NEW l \in Load,
         l.query = loads[i].query, l.aborted = loads[i].aborted,
         loads' = [loads EXCEPT ![i] = l], Query' = Query
  PROVE  /\ loads' \in Seq(Load)
         /\ Len(loads') <= MaxLoads
         /\ loads # << >>
         /\ AsksThePresent'
         /\ Awaited => Awaited'
<1>1. loads \in Seq(Load) /\ Len(loads) \in Nat /\ Len(loads) <= MaxLoads
  BY DEF TypeOK
<1>2. /\ loads' \in Seq(Load)
      /\ Len(loads') = Len(loads)
      /\ \A j \in 1 .. Len(loads) : loads'[j] = IF j = i THEN l ELSE loads[j]
  BY <1>1
<1>3. \A j \in 1 .. Len(loads) :
        loads'[j].aborted = loads[j].aborted /\ loads'[j].query = loads[j].query
  BY <1>2
<1>4. AsksThePresent'
  BY <1>2, <1>3 DEF AsksThePresent, Live
<1>5. loads # << >> /\ loads' # << >>
  BY <1>1, <1>2
<1>6. Awaited => Awaited'
  <2>1. Len(loads) \in 1 .. Len(loads)
    BY <1>1
  <2> QED BY <2>1, <1>2, <1>3, <1>5 DEF Awaited, Live
<1> QED BY <1>1, <1>2, <1>4, <1>5, <1>6

\* Enough for an answer that leaves the question as it is.
LEMMA AnswerStep ==
  ASSUME IInv, UNCHANGED <<mounted, org, filters, settled, dialogVars,
                           deletion, gone, homeward>>,
         loads' \in Seq(Load), Len(loads') <= MaxLoads,
         loads' # << >> => loads # << >>, AsksThePresent',
         loading' \in BOOLEAN, locked' \in BOOLEAN,
         \/ /\ UNCHANGED <<rows, emptied>>
            /\ \/ refused' = TRUE
               \/ refused' = refused /\ (Awaited => Awaited')
         \/ /\ rows' \in List /\ rows'.query = Query
            /\ refused' = FALSE /\ emptied' = FALSE
  PROVE  IInv'
<1>1. Query' = Query
  BY DEF Query
<1>2. TypeOK'
  <2>1. \A i \in 1 .. Len(loads') : Live(i)' => i = Len(loads')
    BY DEF AsksThePresent
  <2>2. rows' \in List \union {None} /\ emptied' \in BOOLEAN /\ refused' \in BOOLEAN
    BY DEF IInv, TypeOK
  <2>3. loads' # << >> \/ Dialogs' => mounted'
    BY DEF IInv, TypeOK, Dialogs, dialogVars
  <2> QED BY <2>1, <2>2, <2>3 DEF IInv, TypeOK, dialogVars
<1>3. CASE /\ UNCHANGED <<rows, emptied>>
           /\ refused' = TRUE \/ (refused' = refused /\ (Awaited => Awaited'))
  <2>1. RowsOfTheTab'
    BY <1>3 DEF IInv, RowsOfTheTab
  <2>2. OnDisplay' = OnDisplay
    BY <1>1, <1>3 DEF OnDisplay
  <2>3. Answered'
    <3>1. CASE refused' = TRUE
      BY <3>1 DEF Answered
    <3>2. CASE refused' = refused /\ (Awaited => Awaited')
      BY <3>2, <1>1, <1>3, <2>2 DEF IInv, Answered
    <3> QED BY <3>1, <3>2, <1>3
  <2> QED BY <1>2, <2>1, <2>3 DEF IInv
<1>4. CASE rows' \in List /\ rows'.query = Query
  <2>1. Query.tab = filters.tab
    BY DEF Query, Asks
  <2>2. RowsOfTheTab'
    BY <1>4, <2>1 DEF RowsOfTheTab
  <2>3. OnDisplay'
    BY <1>1, <1>4, NoListAssumption DEF OnDisplay
  <2> QED BY <1>2, <2>2, <2>3 DEF IInv, Answered
<1> QED BY <1>3, <1>4

\* Nothing is awaited before; the load of the first page is the one that stays.
LEMMA OpenKeeps == IInv /\ Open => IInv'
<1> SUFFICES ASSUME IInv, Open PROVE IInv'
  OBVIOUS
<1> DEFINE saved == Asks(org, filters, filters.text)
           first == [saved EXCEPT !.page = FirstPage]
           none == << >>
<1>1. filters \in Filters /\ filters.text \in Text /\ FirstPage \in Page
        /\ org \in Org \union {None}
  BY BoundAssumption DEF IInv, TypeOK, Filters, Page, FirstPage
<1>2. filters' \in Filters /\ filters'.tab = filters.tab
  BY <1>1 DEF Open, Filters
<1>3. saved \in Questions /\ first \in Questions
  BY <1>1, QuestionType DEF Questions
<1>4. Query' = first
  BY <1>1 DEF Open, Query, Asks, Filters
<1>5. none \in Seq(Load) /\ Len(none) = 0
  OBVIOUS
<1> DEFINE early == Run(none, saved, FALSE)
           Good(ls, q, s) ==
             /\ s \in Seq(Load)
             /\ Len(s) \in {Len(ls), Len(ls) + 1}
             /\ \A i \in 1 .. Len(s) :
                  ~s[i].aborted => i = Len(s) /\ s[i].query = q
             /\ Askable(q) => s # << >> /\ ~s[Len(s)].aborted
<1>6. ASSUME NEW ls \in Seq(Load), NEW q \in Questions
      PROVE  Good(ls, q, Run(ls, q, FALSE))
  <2>1. FALSE \in BOOLEAN
    OBVIOUS
  <2> QED BY <2>1, Ran
<1>7. loads' = Run(none, first, FALSE) \/ loads' = Run(early, first, FALSE)
  BY Zenon DEF Open
<1>8. /\ loads' \in Seq(Load)
      /\ Len(loads') \in 0 .. 2
      /\ \A i \in 1 .. Len(loads') :
           ~loads'[i].aborted => i = Len(loads') /\ loads'[i].query = Query'
      /\ Askable(Query') => loads' # << >> /\ ~loads'[Len(loads')].aborted
  <2> HIDE DEF saved, first, none, early, Good
  <2>1. Good(none, saved, early)
    BY <1>3, <1>5, <1>6 DEF early
  <2>2. early \in Seq(Load) /\ Len(early) \in {0, 1}
    BY <1>5, <2>1 DEF Good
  <2>3. Good(none, first, loads') \/ Good(early, first, loads')
    BY <1>3, <1>5, <1>6, <1>7, <2>2
  <2>4. /\ loads' \in Seq(Load)
        /\ Len(loads') \in {Len(none), Len(none) + 1, Len(early), Len(early) + 1}
        /\ \A i \in 1 .. Len(loads') :
             ~loads'[i].aborted => i = Len(loads') /\ loads'[i].query = first
        /\ Askable(first) => loads' # << >> /\ ~loads'[Len(loads')].aborted
    BY <2>3 DEF Good
  <2>5. Len(loads') \in 0 .. 2
    <3>1. Len(loads') \in {Len(none), Len(none) + 1, Len(early), Len(early) + 1}
      BY <2>4
    <3>2. CASE Len(early) = 0
      BY <3>1, <3>2, <1>5
    <3>3. CASE Len(early) = 1
      BY <3>1, <3>3, <1>5
    <3> QED BY <3>2, <3>3, <2>2
  <2>6. Askable(Query') = Askable(first)
    BY <1>4
  <2> QED BY <1>4, <2>4, <2>5, <2>6
<1> HIDE DEF saved, first, none, early
<1>9. TypeOK'
  <2>1. \A i \in 1 .. Len(loads') : Live(i)' => i = Len(loads')
    BY <1>8 DEF Live
  <2>2. Len(loads') <= MaxLoads
    BY <1>8, BoundAssumption
  <2> QED BY <1>1, <1>2, <1>8, <2>1, <2>2
          DEF IInv, TypeOK, Open, Dialogs, dialogVars
<1>10. AsksThePresent' /\ (Askable(Query') => Awaited')
  BY <1>8 DEF AsksThePresent, Awaited, Live
<1>11. RowsOfTheTab'
  BY <1>2 DEF IInv, RowsOfTheTab, Open
<1> QED BY <1>9, <1>10, <1>11 DEF IInv, Answered

LEMMA TokensKeep == IInv /\ Tokens => IInv'
<1> SUFFICES ASSUME IInv, NEW i \in 1 .. Len(loads),
                    TokenArrives(i) \/ TokenFails(i)
             PROVE  IInv'
  BY DEF Tokens
<1>1. CASE TokenFails(i)
  BY <1>1, UnmountedKeeps DEF TokenFails, IInv, TypeOK
<1>2. CASE TokenArrives(i)
  <2>1. Query' = Query
    BY <1>2 DEF TokenArrives, Query
  <2>2. PICK l \in Load : l = loads[i]
    BY DEF IInv, TypeOK
  <2>3. locked' \in BOOLEAN /\ loading' \in BOOLEAN
    BY <1>2, <2>2 DEF TokenArrives, Load
  <2>4. CASE loads[i].aborted
    <3>1. loads' = RemoveAt(loads, i) /\ ~Live(i)
      BY <1>2, <2>4 DEF TokenArrives, Live
    <3>2. /\ loads' \in Seq(Load) /\ Len(loads') <= MaxLoads
          /\ loads' # << >> => loads # << >>
          /\ AsksThePresent' /\ (Awaited => Awaited')
      BY <2>1, <3>1, LoadEnds DEF IInv
    <3> QED BY <1>2, <2>3, <3>2, AnswerStep DEF TokenArrives
  <2>5. CASE ~loads[i].aborted
    <3> DEFINE asked == [l EXCEPT !.phase = "asked"]
    <3>1. asked \in Load /\ asked.query = l.query /\ asked.aborted = l.aborted
      BY DEF Load
    <3>2. loads' = [loads EXCEPT ![i] = asked]
      BY <1>2, <2>2, <2>5, Zenon DEF TokenArrives
    <3> HIDE DEF asked
    <3>3. /\ loads' \in Seq(Load) /\ Len(loads') <= MaxLoads /\ loads # << >>
          /\ AsksThePresent' /\ (Awaited => Awaited')
      BY <2>1, <2>2, <3>1, <3>2, LoadMoves DEF IInv
    <3> QED BY <1>2, <2>3, <3>3, AnswerStep DEF TokenArrives
  <2> QED BY <2>4, <2>5
<1> QED BY <1>1, <1>2

LEMMA AnswersKeep == IInv /\ Answers => IInv'
<1> SUFFICES ASSUME IInv, NEW i \in 1 .. Len(loads),
                    \/ AbortSettles(i) \/ ServerReads(i) \/ ListArrives(i)
                    \/ Forbidden(i) \/ ListFails(i)
             PROVE  IInv'
  BY DEF Answers
<1>1. CASE ListFails(i)
  BY <1>1, UnmountedKeeps DEF ListFails, IInv, TypeOK
<1>2. PICK l \in Load : l = loads[i]
  BY DEF IInv, TypeOK
<1>3. locked \in BOOLEAN /\ loading \in BOOLEAN /\ gone \in BOOLEAN
  BY DEF IInv, TypeOK
<1>4. CASE ServerReads(i)
  <2> DEFINE read == [l EXCEPT !.phase = "answered", !.gone = gone]
  <2>1. read \in Load /\ read.query = l.query /\ read.aborted = l.aborted
    BY <1>3 DEF Load
  <2>2. loads' = [loads EXCEPT ![i] = read]
    BY <1>2, <1>4, Zenon DEF ServerReads
  <2>3. Query' = Query
    BY <1>4 DEF ServerReads, Query
  <2> HIDE DEF read
  <2>4. /\ loads' \in Seq(Load) /\ Len(loads') <= MaxLoads /\ loads # << >>
        /\ AsksThePresent' /\ (Awaited => Awaited')
    BY <1>2, <2>1, <2>2, <2>3, LoadMoves DEF IInv
  <2> QED BY <1>3, <1>4, <2>4, AnswerStep DEF ServerReads
<1>5. ASSUME Ends(i), Query' = Query
      PROVE  /\ loads' \in Seq(Load) /\ Len(loads') <= MaxLoads
             /\ loads' # << >> => loads # << >>
             /\ AsksThePresent' /\ (~Live(i) /\ Awaited => Awaited')
             /\ loading' \in BOOLEAN
  BY <1>5, LoadEnds DEF IInv, Ends
<1>6. CASE AbortSettles(i)
  <2>1. Query' = Query /\ Ends(i) /\ ~Live(i)
    BY <1>6 DEF AbortSettles, Query, Live
  <2> QED BY <1>3, <1>5, <1>6, <2>1, AnswerStep DEF AbortSettles
<1>7. CASE Forbidden(i)
  <2>1. Query' = Query /\ Ends(i)
    BY <1>7 DEF Forbidden, Query
  <2> QED BY <1>3, <1>5, <1>7, <2>1, AnswerStep DEF Forbidden
<1>8. CASE ListArrives(i)
  <2>1. Query' = Query /\ Ends(i) /\ Live(i)
    BY <1>8 DEF ListArrives, Query, Live
  <2>2. l.query = Query
    BY <1>2, <2>1 DEF IInv, AsksThePresent
  <2>3. rows' = [query |-> Query, gone |-> l.gone] /\ l.gone \in BOOLEAN
    BY <1>2, <1>8, <2>2 DEF ListArrives, Load
  <2>4. rows' \in List /\ rows'.query = Query
    BY <2>3, QueryType DEF List, IInv
  <2> QED BY <1>3, <1>5, <1>8, <2>1, <2>4, AnswerStep DEF ListArrives
<1> QED BY <1>1, <1>4, <1>6, <1>7, <1>8

LEMMA VisitKeeps == IInv /\ (Visit \/ GoHome) => IInv'
<1> SUFFICES ASSUME IInv, Visit \/ GoHome PROVE IInv'
  OBVIOUS
<1>1. CASE Leave
  BY <1>1, UnmountedKeeps DEF Leave, IInv, TypeOK
<1>2. CASE GoHome /\ mounted
  BY <1>2, UnmountedKeeps DEF GoHome, IInv, TypeOK
<1>3. CASE GoHome /\ ~mounted
  BY <1>3, StillKeeps DEF GoHome, IInv, TypeOK
<1>4. CASE Open
  BY <1>4, OpenKeeps
<1> QED BY <1>1, <1>2, <1>3, <1>4 DEF Visit

-----------------------------------------------------------------------------
(* The lock and the deleted draft                                          *)
(*                                                                         *)
(* Tokens arrive in the order they were asked for, so the loads that wait  *)
(* for one are the newest, and the lock set last is that of the newest     *)
(* load: the one the latest change of a dialog started.  Once a deletion   *)
(* is over and the way home taken, the page was unmounted, and every       *)
(* answer it can still get was read after the draft was gone.              *)

Waits(i) == loads[i].phase = "token"
TokensInOrder ==
  \A i, j \in 1 .. Len(loads) : i < j /\ Waits(i) => Waits(j)
LockComes == loads # << >> /\ Waits(Len(loads))
LockIsRight ==
  mounted /\ Askable(Query) =>
    /\ LockComes => loads[Len(loads)].lock = Dialogs
    /\ ~LockComes => locked = Dialogs

Over == gone /\ deletion = "none" /\ ~homeward
Knows(i) == Live(i) /\ loads[i].phase = "answered" => loads[i].gone
KnowsTheDeletion ==
  Over => (\A i \in 1 .. Len(loads) : Knows(i)) /\ (rows # None => rows.gone)
NothingOffScreen == ~mounted => rows = None

RestInv == TokensInOrder /\ LockIsRight /\ KnowsTheDeletion /\ NothingOffScreen

\* The cleanup changes no phase.
LEMMA CleanupKeepsPhases ==
  ASSUME NEW ls \in Seq(Load)
  PROVE  \A i \in 1 .. Len(ls) : Cleanup(ls)[i].phase = ls[i].phase
<1>1. ASSUME NEW l \in Load PROVE Aborted(l).phase = l.phase
  BY DEF Aborted, Load
<1>2. ASSUME NEW i \in 1 .. Len(ls) PROVE Cleanup(ls)[i].phase = ls[i].phase
  <2>1. ls[i] \in Load /\ Cleanup(ls)[i] = Aborted(ls[i])
    BY DEF Cleanup
  <2> QED BY <1>1, <2>1
<1> QED BY <1>2

\* A run keeps the order of the tokens, and what it adds waits for one with
\* the lock the dialogs called for.
LEMMA RunWaits ==
  ASSUME NEW ls \in Seq(Load), NEW q \in Questions, NEW lock \in BOOLEAN,
         \A i, j \in 1 .. Len(ls) :
           i < j /\ ls[i].phase = "token" => ls[j].phase = "token"
  PROVE  LET new == Run(ls, q, lock)
         IN /\ \A i, j \in 1 .. Len(new) :
                 i < j /\ new[i].phase = "token" => new[j].phase = "token"
            /\ \A i \in 1 .. Len(new) : ~new[i].aborted => new[i].phase = "token"
            /\ Askable(q) => /\ new # << >>
                             /\ new[Len(new)].phase = "token"
                             /\ new[Len(new)].lock = lock
<1> DEFINE new == [query |-> q, lock |-> lock, aborted |-> FALSE,
                   phase |-> "token", gone |-> FALSE]
           cs == Cleanup(ls)
<1>1. /\ cs \in Seq(Load) /\ Len(cs) = Len(ls) /\ Len(ls) \in Nat
      /\ \A i \in 1 .. Len(ls) : cs[i].aborted /\ cs[i].phase = ls[i].phase
  BY CleanedUp, CleanupKeepsPhases
<1>2. new \in Load /\ new.phase = "token" /\ new.lock = lock
  BY DEF Load
<1>3. Run(ls, q, lock) = IF Askable(q) THEN Append(cs, new) ELSE cs
  BY DEF Run
<1> HIDE DEF new, cs
<1>4. CASE ~Askable(q)
  <2>1. Run(ls, q, lock) = cs
    BY <1>3, <1>4
  <2> QED BY <1>1, <1>4, <2>1
<1>5. CASE Askable(q)
  <2>1. Run(ls, q, lock) = Append(cs, new)
    BY <1>3, <1>5
  <2>2. /\ Len(Append(cs, new)) = Len(ls) + 1
        /\ Append(cs, new)[Len(ls) + 1] = new
        /\ \A i \in 1 .. Len(ls) : Append(cs, new)[i] = cs[i]
    BY <1>1, <1>2
  <2>3. Append(cs, new) # << >>
    <3>1. Len(Append(cs, new)) # 0 /\ Len(<< >>) = 0
      BY <2>2, <1>1
    <3> QED BY <3>1
  <2>4. ASSUME NEW i \in 1 .. Len(ls) + 1, NEW j \in 1 .. Len(ls) + 1,
               i < j, Append(cs, new)[i].phase = "token"
        PROVE  Append(cs, new)[j].phase = "token"
    <3>1. CASE j = Len(ls) + 1
      BY <3>1, <2>2, <1>2
    <3>2. CASE j # Len(ls) + 1
      <4>1. i \in 1 .. Len(ls) /\ j \in 1 .. Len(ls)
        BY <3>2, <2>4, <1>1
      <4> QED BY <4>1, <2>2, <2>4, <1>1
    <3> QED BY <3>1, <3>2
  <2>5. ASSUME NEW i \in 1 .. Len(ls) + 1, ~Append(cs, new)[i].aborted
        PROVE  Append(cs, new)[i].phase = "token"
    <3>1. ~(i \in 1 .. Len(ls))
      BY <2>2, <2>5, <1>1
    <3>2. i = Len(ls) + 1
      BY <3>1, <1>1
    <3> QED BY <3>2, <2>2, <1>2
  <2> QED BY <2>1, <2>2, <2>3, <2>4, <2>5, <1>2
<1> QED BY <1>4, <1>5

\* Off the screen nothing is left to be right or wrong.
LEMMA RestOffScreen ==
  ASSUME ~mounted', loads' = << >>, rows' = None
  PROVE  RestInv'
<1>1. Len(loads') = 0
  OBVIOUS
<1> QED BY <1>1 DEF RestInv, TokensInOrder, LockIsRight, KnowsTheDeletion,
               NothingOffScreen

\* What the loads, the lock, the dialogs and the list are is as it was.
LEMMA RestStays ==
  ASSUME RestInv, UNCHANGED <<mounted, org, filters, pageVars, dialogVars>>,
         Over' => Over
  PROVE  RestInv'
<1>1. Query' = Query /\ Dialogs' = Dialogs /\ UNCHANGED <<loads, rows, locked>>
  BY DEF Query, Dialogs, pageVars, dialogVars
<1>2. \A i \in 1 .. Len(loads) : Waits(i)' = Waits(i) /\ Knows(i)' = Knows(i)
  BY <1>1 DEF Waits, Knows, Live
<1>3. LockComes' = LockComes
  BY <1>1 DEF LockComes, Waits
<1>4. TokensInOrder'
  BY <1>1, <1>2 DEF RestInv, TokensInOrder
<1>5. LockIsRight'
  BY <1>1, <1>3 DEF RestInv, LockIsRight
<1>6. KnowsTheDeletion'
  BY <1>1, <1>2 DEF RestInv, KnowsTheDeletion
<1> QED BY <1>1, <1>4, <1>5, <1>6 DEF RestInv, NothingOffScreen

\* A run puts the lock right, and awaits an answer that is read later.
LEMMA RestAfterRun ==
  ASSUME TypeOK, RestInv, mounted', NEW ls \in Seq(Load),
         \A i, j \in 1 .. Len(ls) :
           i < j /\ ls[i].phase = "token" => ls[j].phase = "token",
         Query' \in Questions, Dialogs' \in BOOLEAN,
         loads' = Run(ls, Query', Dialogs'),
         Over' => Over, rows' \in {rows, None}
  PROVE  RestInv'
<1>1. /\ \A i, j \in 1 .. Len(loads') :
           i < j /\ loads'[i].phase = "token" => loads'[j].phase = "token"
      /\ \A i \in 1 .. Len(loads') : ~loads'[i].aborted => loads'[i].phase = "token"
      /\ Askable(Query') => /\ loads' # << >>
                            /\ loads'[Len(loads')].phase = "token"
                            /\ loads'[Len(loads')].lock = Dialogs'
  BY RunWaits
<1>2. TokensInOrder'
  BY <1>1 DEF TokensInOrder, Waits
<1>3. LockIsRight'
  BY <1>1 DEF LockIsRight, LockComes, Waits
<1>4. \A i \in 1 .. Len(loads') : Knows(i)'
  BY <1>1 DEF Knows, Live
<1>5. KnowsTheDeletion'
  BY <1>4 DEF RestInv, KnowsTheDeletion
<1> QED BY <1>2, <1>3, <1>5 DEF RestInv, NothingOffScreen

\* Enough for an action that ends in the load effect.
LEMMA RestEffect ==
  ASSUME IInv, RestInv, LoadEffect, mounted, mounted' = mounted, org' = org,
         filters' \in Filters, settled' \in Text, locked' = locked,
         rows' \in {rows, None}, branchDialog' \in BOOLEAN,
         deleteDialog' \in BOOLEAN, Over' => Over
  PROVE  RestInv'
<1>1. Query' \in Questions /\ Dialogs' \in BOOLEAN
  BY QuestionType DEF IInv, TypeOK, Query, Dialogs
<1>2. loads \in Seq(Load) /\ \A i, j \in 1 .. Len(loads) :
        i < j /\ loads[i].phase = "token" => loads[j].phase = "token"
  BY DEF IInv, TypeOK, RestInv, TokensInOrder, Waits
<1>3. CASE loads' = Run(loads, Query', Dialogs')
  BY <1>1, <1>2, <1>3, RestAfterRun DEF IInv
<1>4. CASE Query' = Query /\ dialogVars' = dialogVars /\ loads' = loads
  <2>1. Dialogs' = Dialogs
    BY <1>4 DEF Dialogs, dialogVars
  <2>2. \A i \in 1 .. Len(loads) : Waits(i)' = Waits(i) /\ Knows(i)' = Knows(i)
    BY <1>4 DEF Waits, Knows, Live
  <2>3. LockComes' = LockComes
    BY <1>4 DEF LockComes, Waits
  <2>4. TokensInOrder'
    BY <1>4, <2>2 DEF RestInv, TokensInOrder
  <2>5. LockIsRight'
    BY <1>4, <2>1, <2>3 DEF RestInv, LockIsRight
  <2>6. KnowsTheDeletion'
    BY <1>4, <2>2 DEF RestInv, KnowsTheDeletion
  <2> QED BY <2>4, <2>5, <2>6 DEF RestInv, NothingOffScreen
<1> QED BY <1>3, <1>4 DEF LoadEffect

-----------------------------------------------------------------------------
(* An answer that takes the place of, or moves, one load                   *)

IsFirst(i) == Waits(i) => \A j \in 1 .. i - 1 : ~Waits(j)

LEMMA RestEnds ==
  ASSUME IInv, RestInv, NEW i \in 1 .. Len(loads), IsFirst(i),
         loads' = RemoveAt(loads, i),
         UNCHANGED <<mounted, org, filters, settled, dialogVars, deletion, gone,
                     homeward>>,
         mounted,
         locked' = IF Waits(i) THEN loads[i].lock ELSE locked,
         rows' = rows \/ (Over => rows'.gone)
  PROVE  RestInv'
<1>1. loads \in Seq(Load) /\ Len(loads) \in Nat
  BY DEF IInv, TypeOK
<1>2. /\ loads' \in Seq(Load)
      /\ Len(loads') = Len(loads) - 1
      /\ \A j \in 1 .. Len(loads) - 1 :
           loads'[j] = IF j < i THEN loads[j] ELSE loads[j + 1]
  BY <1>1, Removal
<1>3. Query' = Query /\ Dialogs' = Dialogs /\ Over' = Over
  BY DEF Query, Dialogs, dialogVars, Over
<1> DEFINE was(j) == IF j < i THEN j ELSE j + 1
<1>4. ASSUME NEW j \in 1 .. Len(loads')
      PROVE  was(j) \in 1 .. Len(loads) /\ was(j) # i /\ loads'[j] = loads[was(j)]
  <2>1. j \in 1 .. Len(loads) - 1
    BY <1>1, <1>2
  <2>2. CASE j < i
    BY <2>1, <2>2, <1>1, <1>2
  <2>3. CASE ~(j < i)
    BY <2>1, <2>3, <1>1, <1>2
  <2> QED BY <2>2, <2>3
<1>5. \A j, k \in 1 .. Len(loads') : j < k => was(j) < was(k)
  BY <1>1, <1>2
<1> HIDE DEF was
<1>6. TokensInOrder'
  <2> SUFFICES ASSUME NEW j \in 1 .. Len(loads'), NEW k \in 1 .. Len(loads'),
                      j < k, loads'[j].phase = "token"
               PROVE  loads'[k].phase = "token"
    BY DEF TokensInOrder, Waits
  <2>1. was(j) < was(k) /\ loads'[j] = loads[was(j)] /\ loads'[k] = loads[was(k)]
          /\ was(j) \in 1 .. Len(loads) /\ was(k) \in 1 .. Len(loads)
    BY <1>4, <1>5
  <2> QED BY <2>1 DEF RestInv, TokensInOrder, Waits
<1>7. KnowsTheDeletion'
  <2>1. ASSUME Over PROVE \A j \in 1 .. Len(loads') : Knows(j)'
    BY <1>4, <2>1 DEF RestInv, KnowsTheDeletion, Knows, Live
  <2>2. Over' => (rows' # None => rows'.gone)
    BY <1>3 DEF RestInv, KnowsTheDeletion
  <2> QED BY <1>3, <2>1, <2>2 DEF KnowsTheDeletion
<1>8. LockIsRight'
  <2> SUFFICES ASSUME Askable(Query)
               PROVE  /\ LockComes' => loads'[Len(loads')].lock = Dialogs
                      /\ ~LockComes' => locked' = Dialogs
    BY <1>3 DEF LockIsRight
  <2>1. /\ LockComes => loads[Len(loads)].lock = Dialogs
        /\ ~LockComes => locked = Dialogs
    BY DEF RestInv, LockIsRight
  <2>2. loads # << >>
    BY <1>1
  <2>3. CASE i = Len(loads)
    <3>1. \A j \in 1 .. Len(loads) - 1 : ~Waits(j)
      <4>1. CASE Waits(i)
        BY <2>3, <4>1 DEF IsFirst
      <4>2. CASE ~Waits(i)
        <5>1. ASSUME NEW j \in 1 .. Len(loads) - 1 PROVE ~Waits(j)
          <6>1. j \in 1 .. Len(loads) /\ j < i
            BY <1>1, <2>3
          <6> QED BY <4>2, <6>1 DEF RestInv, TokensInOrder
        <5> QED BY <5>1
      <4> QED BY <4>1, <4>2
    <3>2. ~LockComes'
      <4> SUFFICES ASSUME loads' # << >>, loads'[Len(loads')].phase = "token"
                   PROVE  FALSE
        BY DEF LockComes, Waits
      <4>1. Len(loads') # 0
        BY <1>2
      <4>2. Len(loads') \in 1 .. Len(loads') /\ Len(loads') < i
        BY <1>1, <1>2, <2>3, <4>1
      <4>3. loads'[Len(loads')] = loads[Len(loads')]
        BY <1>1, <1>2, <4>2
      <4> QED BY <1>1, <1>2, <3>1, <4>2, <4>3 DEF Waits
    <3>3. locked' = Dialogs
      BY <2>1, <2>2, <2>3 DEF LockComes
    <3> QED BY <3>2, <3>3
  <2>4. CASE i # Len(loads)
    <3>1. Len(loads) - 1 \in 1 .. Len(loads) - 1 /\ ~(Len(loads) - 1 < i)
      BY <1>1, <2>4
    <3>2. loads'[Len(loads')] = loads[Len(loads)]
      <4>1. loads'[Len(loads) - 1] = loads[Len(loads) - 1 + 1]
        BY <1>2, <3>1
      <4> QED BY <4>1, <1>1, <1>2
    <3>3. loads' # << >>
      <4>1. Len(loads') # 0 /\ Len(<< >>) = 0
        BY <1>1, <1>2, <3>1
      <4> QED BY <4>1
    <3>4. LockComes' = LockComes
      BY <2>2, <3>2, <3>3 DEF LockComes, Waits
    <3>5. Waits(i) => LockComes
      <4>1. Len(loads) \in 1 .. Len(loads) /\ i < Len(loads)
        BY <1>1, <2>4
      <4> QED BY <2>2, <4>1 DEF RestInv, TokensInOrder, LockComes
    <3> QED BY <2>1, <3>2, <3>4, <3>5
  <2> QED BY <2>3, <2>4
<1> QED BY <1>6, <1>7, <1>8 DEF RestInv, NothingOffScreen

LEMMA RestMoves ==
  ASSUME IInv, RestInv, NEW i \in 1 .. Len(loads), IsFirst(i), NEW l \in Load,
         loads' = [loads EXCEPT ![i] = l], l.phase # "token",
         ~l.aborted /\ l.phase = "answered" /\ Over => l.gone,
         UNCHANGED <<mounted, org, filters, settled, dialogVars, deletion, gone,
                     homeward, rows>>,
         mounted,
         locked' = IF Waits(i) THEN loads[i].lock ELSE locked
  PROVE  RestInv'
<1>1. loads \in Seq(Load) /\ Len(loads) \in Nat
  BY DEF IInv, TypeOK
<1>2. /\ Len(loads') = Len(loads)
      /\ \A j \in 1 .. Len(loads) : loads'[j] = IF j = i THEN l ELSE loads[j]
  BY <1>1
<1>3. Query' = Query /\ Dialogs' = Dialogs /\ Over' = Over
  BY DEF Query, Dialogs, dialogVars, Over
<1>4. loads # << >> /\ Len(loads) \in 1 .. Len(loads)
  BY <1>1
<1>5. loads' # << >>
  <2>1. Len(loads') # 0 /\ Len(<< >>) = 0
    BY <1>1, <1>2
  <2> QED BY <2>1
<1>6. TokensInOrder'
  <2> SUFFICES ASSUME NEW j \in 1 .. Len(loads), NEW k \in 1 .. Len(loads),
                      j < k, loads'[j].phase = "token"
               PROVE  loads'[k].phase = "token"
    BY <1>2 DEF TokensInOrder, Waits
  <2>1. j # i /\ Waits(j)
    BY <1>2 DEF Waits
  <2>2. Waits(k)
    BY <2>1 DEF RestInv, TokensInOrder
  <2>3. k # i
    BY <1>1, <2>1, <2>2 DEF IsFirst
  <2> QED BY <1>2, <2>2, <2>3 DEF Waits
<1>7. KnowsTheDeletion'
  <2>1. ASSUME Over PROVE \A j \in 1 .. Len(loads') : Knows(j)'
    BY <1>2, <2>1 DEF RestInv, KnowsTheDeletion, Knows, Live
  <2> QED BY <1>3, <2>1 DEF RestInv, KnowsTheDeletion
<1>8. LockIsRight'
  <2> SUFFICES ASSUME Askable(Query)
               PROVE  /\ LockComes' => loads'[Len(loads')].lock = Dialogs
                      /\ ~LockComes' => locked' = Dialogs
    BY <1>3 DEF LockIsRight
  <2>1. /\ LockComes => loads[Len(loads)].lock = Dialogs
        /\ ~LockComes => locked = Dialogs
    BY DEF RestInv, LockIsRight
  <2>2. CASE i = Len(loads)
    <3>1. ~LockComes'
      BY <1>2, <1>4, <2>2 DEF LockComes, Waits
    <3>2. locked' = Dialogs
      BY <2>1, <2>2, <1>4 DEF LockComes
    <3> QED BY <3>1, <3>2
  <2>3. CASE i # Len(loads)
    <3>1. loads'[Len(loads')] = loads[Len(loads)]
      BY <1>2, <1>4, <2>3
    <3>2. LockComes' = LockComes
      BY <1>4, <1>5, <3>1 DEF LockComes, Waits
    <3>3. Waits(i) => LockComes
      BY <1>1, <1>4, <2>3 DEF RestInv, TokensInOrder, LockComes
    <3> QED BY <2>1, <3>1, <3>2, <3>3
  <2> QED BY <2>2, <2>3
<1> QED BY <1>6, <1>7, <1>8 DEF RestInv, NothingOffScreen

-----------------------------------------------------------------------------
(* The actions                                                             *)

LEMMA RestFiltering == IInv /\ RestInv /\ (Filtering \/ DebounceFires) => RestInv'
<1> SUFFICES ASSUME IInv, RestInv, Filtering \/ DebounceFires PROVE RestInv'
  OBVIOUS
<1>0. /\ filters \in Filters /\ filters.text \in Text /\ FirstPage \in Page
      /\ settled \in Text /\ branchDialog \in BOOLEAN /\ deleteDialog \in BOOLEAN
  BY BoundAssumption DEF IInv, TypeOK, Filters, Page, FirstPage
<1>1. ASSUME NEW f \in Filters, Filtered(f), mounted, rows' \in {rows, None}
      PROVE  RestInv'
  <2>1. Over' => Over
    BY <1>1 DEF Filtered, Over
  <2> QED BY <1>0, <1>1, <2>1, RestEffect DEF Filtered, dialogVars
<1>2. ASSUME NEW tab \in Tab, changeTab(tab) PROVE RestInv'
  <2>1. [filters EXCEPT !.tab = tab, !.page = FirstPage] \in Filters
    BY <1>0 DEF Filters
  <2> QED BY <1>1, <1>2, <2>1 DEF changeTab, PageIsFree
<1>3. ASSUME NEW page \in Page, changePage(page) PROVE RestInv'
  <2>1. [filters EXCEPT !.page = page] \in Filters
    BY <1>0 DEF Filters
  <2> QED BY <1>1, <1>3, <2>1 DEF changePage, ListIsFree, PageIsFree
<1>4. ASSUME NEW text \in Text, handleSearchSubmit(text) PROVE RestInv'
  <2>1. [filters EXCEPT !.text = text, !.page = FirstPage] \in Filters
    BY <1>0 DEF Filters
  <2> QED BY <1>1, <1>4, <2>1 DEF handleSearchSubmit, PageIsFree
<1>5. ASSUME NEW narrow \in Narrow, FilterMenu(narrow) PROVE RestInv'
  <2>1. [filters EXCEPT !.narrow = narrow, !.page = FirstPage] \in Filters
    BY <1>0 DEF Filters
  <2> QED BY <1>1, <1>5, <2>1 DEF FilterMenu, PageIsFree
<1>6. CASE DebounceFires
  <2>1. Over' => Over
    BY <1>6 DEF DebounceFires, Over
  <2> QED BY <1>0, <1>6, <2>1, RestEffect DEF DebounceFires, dialogVars
<1> QED BY <1>2, <1>3, <1>4, <1>5, <1>6 DEF Filtering

\* The choice of a branch is the one that runs the effect twice.
LEMMA RestChoose ==
  ASSUME IInv, RestInv, NEW o \in Org \union {org}, ChooseBranch(o)
  PROVE  RestInv'
<1> DEFINE kept == Asks(o, filters, settled)
           first == Run(loads, kept, deleteDialog)
<1>1. /\ loads \in Seq(Load) /\ filters \in Filters /\ settled \in Text
      /\ deleteDialog \in BOOLEAN /\ o \in Org \union {None}
  BY DEF IInv, TypeOK
<1>2. filters' \in Filters
  <2>1. FirstPage \in Page
    BY BoundAssumption DEF Page, FirstPage
  <2>2. [filters EXCEPT !.page = FirstPage] \in Filters
    BY <1>1, <2>1 DEF Filters
  <2> QED BY <1>1, <2>2 DEF ChooseBranch
<1>3. kept \in Questions /\ Query' \in Questions
  BY <1>1, <1>2, QuestionType DEF Query, ChooseBranch
<1>4. Dialogs' = deleteDialog /\ Dialogs' \in BOOLEAN
  BY <1>1 DEF ChooseBranch, Dialogs
<1>5. \A i, j \in 1 .. Len(loads) :
        i < j /\ loads[i].phase = "token" => loads[j].phase = "token"
  BY DEF RestInv, TokensInOrder, Waits
<1>6. /\ first \in Seq(Load)
      /\ \A i, j \in 1 .. Len(first) :
           i < j /\ first[i].phase = "token" => first[j].phase = "token"
  <2> HIDE DEF kept
  <2>1. kept \in Questions
    BY <1>3
  <2>2. Run(loads, kept, deleteDialog) \in Seq(Load)
    BY <1>1, <2>1, Ran
  <2>3. \A i, j \in 1 .. Len(Run(loads, kept, deleteDialog)) :
          i < j /\ Run(loads, kept, deleteDialog)[i].phase = "token"
            => Run(loads, kept, deleteDialog)[j].phase = "token"
    BY <1>1, <1>5, <2>1, RunWaits
  <2> QED BY <2>2, <2>3
<1>7. mounted' /\ rows' \in {rows, None} /\ (Over' => Over)
  BY DEF ChooseBranch, Over
<1>8. \/ loads' = Run(loads, Query', Dialogs')
      \/ loads' = Run(first, Query', Dialogs')
  BY <1>4, Zenon DEF ChooseBranch
<1> HIDE DEF kept, first
<1>9. CASE loads' = Run(loads, Query', Dialogs')
  BY <1>1, <1>3, <1>4, <1>5, <1>7, <1>9, RestAfterRun DEF IInv
<1>10. CASE loads' = Run(first, Query', Dialogs')
  BY <1>3, <1>4, <1>6, <1>7, <1>10, RestAfterRun DEF IInv
<1> QED BY <1>8, <1>9, <1>10

LEMMA RestAsking == IInv /\ RestInv /\ Asking => RestInv'
<1> SUFFICES ASSUME IInv, RestInv, Asking PROVE RestInv'
  OBVIOUS
<1>1. /\ filters \in Filters /\ settled \in Text
      /\ branchDialog \in BOOLEAN /\ deleteDialog \in BOOLEAN
  BY DEF IInv, TypeOK
<1>2. ASSUME LoadEffect, mounted,
             UNCHANGED <<mounted, org, filters, settled, locked, rows, deletion,
                         gone, homeward>>,
             branchDialog' \in BOOLEAN, deleteDialog' \in BOOLEAN
      PROVE  RestInv'
  <2>1. (Over' => Over) /\ rows' \in {rows, None}
    BY <1>2 DEF Over
  <2> QED BY <1>1, <1>2, <2>1, RestEffect
<1>4. CASE OpenBranchDialog
  BY <1>1, <1>2, <1>4 DEF OpenBranchDialog, PageIsFree
<1>5. CASE CloseBranchDialog
  BY <1>1, <1>2, <1>5 DEF CloseBranchDialog
<1>6. CASE OpenDeleteDialog
  BY <1>1, <1>2, <1>6 DEF OpenDeleteDialog, ListIsFree, PageIsFree
<1>7. CASE CloseDeleteDialog
  BY <1>1, <1>2, <1>7 DEF CloseDeleteDialog
<1>3. CASE ConfirmDeletion
  <2>1. Over' => Over
    BY <1>3 DEF ConfirmDeletion, Over
  <2> QED BY <1>3, <2>1, RestStays DEF ConfirmDeletion
<1> QED BY <1>3, <1>4, <1>5, <1>6, <1>7, RestChoose DEF Asking

LEMMA RestDeletion == IInv /\ RestInv /\ Deletion => RestInv'
<1> SUFFICES ASSUME IInv, RestInv, Deletion PROVE RestInv'
  OBVIOUS
<1>1. ~Over'
  BY DEF Deletion, ServerDeletes, DeletionReturns, Over
<1>2. CASE ServerDeletes
  BY <1>1, <1>2, RestStays DEF ServerDeletes
<1>3. CASE DeletionReturns /\ mounted
  <2>1. filters \in Filters /\ settled \in Text /\ branchDialog \in BOOLEAN
    BY DEF IInv, TypeOK
  <2> QED BY <1>1, <1>3, <2>1, RestEffect DEF DeletionReturns
<1>4. CASE DeletionReturns /\ ~mounted
  <2>1. ~branchDialog /\ ~deleteDialog
    BY <1>4 DEF IInv, TypeOK, Dialogs
  <2>2. deleteDialog' = deleteDialog /\ branchDialog' = branchDialog /\ Query' = Query
    BY <1>4, <2>1 DEF DeletionReturns, IInv, TypeOK, Query
  <2>3. UNCHANGED <<mounted, org, filters, pageVars, dialogVars>>
    BY <1>4, <2>2 DEF DeletionReturns, LoadEffect, pageVars, dialogVars
  <2> QED BY <1>1, <2>3, RestStays
<1> QED BY <1>2, <1>3, <1>4 DEF Deletion

LEMMA RestTokens == IInv /\ RestInv /\ Tokens => RestInv'
<1> SUFFICES ASSUME IInv, RestInv, NEW i \in 1 .. Len(loads),
                    TokenArrives(i) \/ TokenFails(i)
             PROVE  RestInv'
  BY DEF Tokens
<1>1. CASE TokenFails(i)
  BY <1>1, RestOffScreen DEF TokenFails, Unmounted
<1>2. CASE TokenArrives(i)
  <2>1. IsFirst(i) /\ Waits(i) /\ locked' = loads[i].lock
    BY <1>2 DEF TokenArrives, FirstWaiting, IsFirst, Waits
  <2>2. PICK l \in Load : l = loads[i]
    BY DEF IInv, TypeOK
  <2>3. mounted
    BY DEF IInv, TypeOK
  <2>4. CASE loads[i].aborted
    <3>1. loads' = RemoveAt(loads, i)
      BY <1>2, <2>4 DEF TokenArrives
    <3> QED BY <1>2, <2>1, <2>3, <3>1, RestEnds DEF TokenArrives
  <2>5. CASE ~loads[i].aborted
    <3> DEFINE asked == [l EXCEPT !.phase = "asked"]
    <3>1. asked \in Load /\ asked.phase = "asked"
      BY DEF Load
    <3>2. loads' = [loads EXCEPT ![i] = asked]
      BY <1>2, <2>2, <2>5, Zenon DEF TokenArrives
    <3> HIDE DEF asked
    <3>3. asked.phase # "token" /\ asked.phase # "answered"
      BY <3>1
    <3> QED BY <1>2, <2>1, <2>3, <3>1, <3>2, <3>3, RestMoves DEF TokenArrives
  <2> QED BY <2>4, <2>5
<1> QED BY <1>1, <1>2

LEMMA RestAnswers == IInv /\ RestInv /\ Answers => RestInv'
<1> SUFFICES ASSUME IInv, RestInv, NEW i \in 1 .. Len(loads),
                    \/ AbortSettles(i) \/ ServerReads(i) \/ ListArrives(i)
                    \/ Forbidden(i) \/ ListFails(i)
             PROVE  RestInv'
  BY DEF Answers
<1>1. CASE ListFails(i)
  BY <1>1, RestOffScreen DEF ListFails, Unmounted
<1>2. PICK l \in Load : l = loads[i]
  BY DEF IInv, TypeOK
<1>3. mounted /\ gone \in BOOLEAN
  BY DEF IInv, TypeOK
<1>4. CASE ServerReads(i)
  <2> DEFINE read == [l EXCEPT !.phase = "answered", !.gone = gone]
  <2>1. read \in Load /\ read.phase = "answered" /\ read.gone = gone
    BY <1>3 DEF Load
  <2>2. loads' = [loads EXCEPT ![i] = read]
    BY <1>2, <1>4, Zenon DEF ServerReads
  <2>3. ~Waits(i)
    BY <1>4 DEF ServerReads, Waits
  <2> HIDE DEF read
  <2>4. read.phase # "token" /\ (Over => read.gone) /\ IsFirst(i)
    BY <2>1, <2>3 DEF Over, IsFirst
  <2> QED BY <1>3, <1>4, <2>1, <2>2, <2>3, <2>4, RestMoves DEF ServerReads
<1>5. CASE AbortSettles(i) \/ Forbidden(i)
  <2>1. ~Waits(i) /\ IsFirst(i)
    BY <1>5 DEF AbortSettles, Forbidden, Waits, IsFirst
  <2> QED BY <1>3, <1>5, <2>1, RestEnds DEF AbortSettles, Forbidden, Ends
<1>6. CASE ListArrives(i)
  <2>1. ~Waits(i) /\ IsFirst(i)
    BY <1>6 DEF ListArrives, Waits, IsFirst
  <2>2. rows'.gone = loads[i].gone
    BY <1>6 DEF ListArrives
  <2>3. Over => rows'.gone
    BY <1>6, <2>2 DEF ListArrives, RestInv, KnowsTheDeletion, Knows, Live
  <2> QED BY <1>3, <1>6, <2>1, <2>3, RestEnds DEF ListArrives, Ends
<1> QED BY <1>1, <1>4, <1>5, <1>6

\* No dialog is open when the dashboard appears, and the lock of its first
\* loads says so.
LEMMA RestOpen == IInv /\ RestInv /\ Open => RestInv'
<1> SUFFICES ASSUME IInv, RestInv, Open PROVE RestInv'
  OBVIOUS
<1> DEFINE saved == Asks(org, filters, filters.text)
           first == [saved EXCEPT !.page = FirstPage]
           none == << >>
           early == Run(none, saved, FALSE)
<1>1. filters \in Filters /\ filters.text \in Text /\ FirstPage \in Page
        /\ org \in Org \union {None}
  BY BoundAssumption DEF IInv, TypeOK, Filters, Page, FirstPage
<1>2. saved \in Questions /\ first \in Questions
  BY <1>1, QuestionType DEF Questions
<1>3. Query' = first
  BY <1>1 DEF Open, Query, Asks, Filters
<1>4. Dialogs' = FALSE /\ Dialogs' \in BOOLEAN
  BY DEF Open, dialogVars, Dialogs, IInv, TypeOK
<1>5. none \in Seq(Load) /\ \A i, j \in 1 .. Len(none) :
        i < j /\ none[i].phase = "token" => none[j].phase = "token"
  OBVIOUS
<1>6. /\ early \in Seq(Load)
      /\ \A i, j \in 1 .. Len(early) :
           i < j /\ early[i].phase = "token" => early[j].phase = "token"
  <2>1. FALSE \in BOOLEAN
    OBVIOUS
  <2> HIDE DEF saved, first, none
  <2> QED BY <1>2, <1>5, <2>1, Ran, RunWaits
<1>7. loads' = Run(none, first, FALSE) \/ loads' = Run(early, first, FALSE)
  BY Zenon DEF Open
<1>8. mounted' /\ rows' = rows /\ (Over' => Over)
  BY DEF Open, Over
<1> HIDE DEF saved, first, none, early
<1>9. PICK ls \in {none, early} : loads' = Run(ls, Query', Dialogs')
  BY <1>3, <1>4, <1>7
<1>10. /\ ls \in Seq(Load)
       /\ \A i, j \in 1 .. Len(ls) :
            i < j /\ ls[i].phase = "token" => ls[j].phase = "token"
  BY <1>5, <1>6
<1>11. Query' \in Questions
  BY <1>2, <1>3
<1> QED BY <1>4, <1>8, <1>9, <1>10, <1>11, RestAfterRun DEF IInv

LEMMA RestVisit == IInv /\ RestInv /\ (Visit \/ GoHome) => RestInv'
<1> SUFFICES ASSUME IInv, RestInv, Visit \/ GoHome PROVE RestInv'
  OBVIOUS
<1>1. CASE Leave \/ (GoHome /\ mounted)
  BY <1>1, RestOffScreen DEF Leave, GoHome, Unmounted
<1>2. CASE GoHome /\ ~mounted
  <2>1. loads' = << >> /\ rows' = None /\ ~mounted'
    BY <1>2 DEF GoHome, pageVars, RestInv, NothingOffScreen, IInv, TypeOK
  <2> QED BY <2>1, RestOffScreen
<1> QED BY <1>1, <1>2, RestOpen DEF Visit

LEMMA RestStarts == Init => RestInv
<1> SUFFICES ASSUME Init PROVE RestInv
  OBVIOUS
<1>1. Len(loads) = 0
  BY DEF Init
<1> QED BY <1>1 DEF Init, RestInv, TokensInOrder, LockIsRight, KnowsTheDeletion,
               NothingOffScreen

-----------------------------------------------------------------------------
(* The list as the answer to a question                                    *)

\* LatestAnswer, for the dashboard: the question is what the page asks, as soon
\* as there is an organisation and a tab.  A tab selected again asks the same
\* once more.
Promise == INSTANCE LatestAnswer WITH
  Question <- {q \in Questions : Askable(q)},
  asked <- IF mounted /\ Askable(Query) THEN Query ELSE None,
  shown <- IF rows = None THEN None ELSE rows.query

\* No load that is still wanted went out without an organisation or a tab.
OnlyAskable == \A i \in 1 .. Len(loads) : Live(i) => Askable(loads[i].query)

LEMMA RunAsks ==
  ASSUME NEW ls \in Seq(Load), NEW q \in Questions, NEW lock \in BOOLEAN,
         loads' = Run(ls, q, lock)
  PROVE  OnlyAskable'
<1>1. CASE Askable(q)
  <2>1. \A i \in 1 .. Len(loads') : ~loads'[i].aborted => loads'[i].query = q
    BY Ran
  <2> QED BY <1>1, <2>1 DEF OnlyAskable, Live
<1>2. CASE ~Askable(q)
  <2>1. loads' = Cleanup(ls)
    BY <1>2 DEF Run
  <2> QED BY <2>1, CleanedUp DEF OnlyAskable, Live
<1> QED BY <1>1, <1>2

LEMMA EffectAsks ==
  ASSUME TypeOK, TypeOK', OnlyAskable, LoadEffect
  PROVE  OnlyAskable'
<1>1. CASE loads' = loads
  BY <1>1 DEF OnlyAskable, Live
<1>2. CASE loads' = Run(loads, Query', Dialogs')
  <2>1. Query' \in Questions
    BY QuestionType DEF TypeOK, Query
  <2>2. Dialogs' \in BOOLEAN
    BY DEF Dialogs
  <2> QED BY <1>2, <2>1, <2>2, RunAsks DEF TypeOK
<1> QED BY <1>1, <1>2 DEF LoadEffect

LEMMA OpenAsks == TypeOK /\ Open => OnlyAskable'
<1> SUFFICES ASSUME TypeOK, Open PROVE OnlyAskable'
  OBVIOUS
<1> DEFINE saved == Asks(org, filters, filters.text)
           first == [saved EXCEPT !.page = FirstPage]
           none == << >>
           early == Run(none, saved, FALSE)
<1>1. filters \in Filters /\ filters.text \in Text /\ FirstPage \in Page
        /\ org \in Org \union {None}
  BY BoundAssumption DEF TypeOK, Filters, Page, FirstPage
<1>2. saved \in Questions /\ first \in Questions
  BY <1>1, QuestionType DEF Questions
<1>3. none \in Seq(Load) /\ FALSE \in BOOLEAN
  OBVIOUS
<1>4. loads' = Run(none, first, FALSE) \/ loads' = Run(early, first, FALSE)
  BY Zenon DEF Open
<1> HIDE DEF saved, first, none
<1>5. early \in Seq(Load)
  BY <1>2, <1>3, Ran
<1> HIDE DEF early
<1> QED BY <1>2, <1>3, <1>4, <1>5, RunAsks

LEMMA ChooseAsks ==
  ASSUME TypeOK, TypeOK', NEW o \in Org \union {org}, ChooseBranch(o)
  PROVE  OnlyAskable'
<1> DEFINE kept == Asks(o, filters, settled)
           first == Run(loads, kept, deleteDialog)
<1>1. /\ loads \in Seq(Load) /\ deleteDialog \in BOOLEAN
      /\ o \in Org \union {None} /\ filters \in Filters /\ settled \in Text
  BY DEF TypeOK
<1>2. kept \in Questions
  BY <1>1, QuestionType
<1>3. Query' \in Questions
  BY QuestionType DEF TypeOK, Query
<1>4. \/ loads' = Run(loads, Query', deleteDialog)
      \/ loads' = Run(first, Query', deleteDialog)
  BY Zenon DEF ChooseBranch
<1> HIDE DEF kept
<1>5. first \in Seq(Load)
  BY <1>1, <1>2, Ran
<1> HIDE DEF first
<1> QED BY <1>1, <1>3, <1>4, <1>5, RunAsks

\* A load that ends, or goes on, leaves the questions as they are.
LEMMA AnswerAsks ==
  ASSUME TypeOK, OnlyAskable, NEW i \in 1 .. Len(loads),
         TokenArrives(i) \/ AbortSettles(i) \/ ServerReads(i) \/ ListArrives(i)
           \/ Forbidden(i)
  PROVE  OnlyAskable'
<1>1. loads \in Seq(Load) /\ Len(loads) \in Nat /\ gone \in BOOLEAN
  BY DEF TypeOK
<1>2. CASE loads' = RemoveAt(loads, i)
  <2>1. /\ Len(loads') = Len(loads) - 1
        /\ \A j \in 1 .. Len(loads) - 1 :
             loads'[j] = IF j < i THEN loads[j] ELSE loads[j + 1]
    BY <1>1, <1>2, Removal
  <2>2. \A j \in 1 .. Len(loads') :
          \E k \in 1 .. Len(loads) : loads'[j] = loads[k]
    BY <1>1, <2>1
  <2> QED BY <2>2 DEF OnlyAskable, Live
<1>3. ASSUME NEW l \in Load, loads' = [loads EXCEPT ![i] = l],
             l.query = loads[i].query, l.aborted = loads[i].aborted
      PROVE  OnlyAskable'
  <2>1. Len(loads') = Len(loads) /\ \A j \in 1 .. Len(loads) :
          loads'[j].query = loads[j].query /\ loads'[j].aborted = loads[j].aborted
    BY <1>1, <1>3
  <2> QED BY <2>1 DEF OnlyAskable, Live
<1>4. PICK l \in Load : l = loads[i]
  BY <1>1
<1>5. CASE loads' = [loads EXCEPT ![i].phase = "asked"]
  <2> DEFINE new == [l EXCEPT !.phase = "asked"]
  <2>1. new \in Load /\ new.query = l.query /\ new.aborted = l.aborted
    BY DEF Load
  <2>2. loads' = [loads EXCEPT ![i] = new]
    BY <1>4, <1>5, Zenon
  <2> HIDE DEF new
  <2> QED BY <1>3, <1>4, <2>1, <2>2
<1>6. CASE ServerReads(i)
  <2> DEFINE new == [l EXCEPT !.phase = "answered", !.gone = gone]
  <2>1. new \in Load /\ new.query = l.query /\ new.aborted = l.aborted
    BY <1>1 DEF Load
  <2>2. loads' = [loads EXCEPT ![i] = new]
    BY <1>4, <1>6, Zenon DEF ServerReads
  <2> HIDE DEF new
  <2> QED BY <1>3, <1>4, <2>1, <2>2
<1> QED
  BY <1>2, <1>5, <1>6, Zenon
  DEF TokenArrives, AbortSettles, ListArrives, Forbidden, Ends

LEMMA NextAsks ==
  ASSUME TypeOK, TypeOK', OnlyAskable, [Next]_vars
  PROVE  OnlyAskable'
<1>1. CASE loads' = << >>
  BY <1>1 DEF OnlyAskable
<1>2. CASE loads' = loads
  BY <1>2 DEF OnlyAskable, Live
<1>3. CASE LoadEffect
  BY <1>3, EffectAsks
<1>4. CASE Visit \/ GoHome
  BY <1>1, <1>2, <1>4, OpenAsks DEF Visit, Leave, GoHome, Unmounted, pageVars
<1>5. CASE Filtering \/ DebounceFires
  BY <1>3, <1>5 DEF Filtering, DebounceFires, changeTab, changePage,
     handleSearchSubmit, FilterMenu, Filtered
<1>6. CASE Asking
  BY <1>2, <1>3, <1>6, ChooseAsks DEF Asking, OpenBranchDialog,
     CloseBranchDialog, OpenDeleteDialog, CloseDeleteDialog, ConfirmDeletion,
     pageVars
<1>7. CASE Deletion
  BY <1>2, <1>3, <1>7 DEF Deletion, ServerDeletes, DeletionReturns, pageVars
<1>8. CASE Tokens \/ Answers
  BY <1>1, <1>8, AnswerAsks DEF Tokens, Answers, TokenFails, ListFails, Unmounted
<1> QED
  BY <1>2, <1>4, <1>5, <1>6, <1>7, <1>8 DEF Next, User, vars, pageVars

\* Once the page can ask it does not lose what it takes to.
LEMMA StaysAskable ==
  ASSUME TypeOK, [Next]_vars, mounted, mounted', Askable(Query)
  PROVE  Askable(Query')
<1>1. /\ filters \in Filters
      /\ org \in Org /\ org # None /\ filters.tab # None
  BY DEF TypeOK, Askable, Query, Asks
<1>2. org' # None
  <2>1. org' \in Org \union {org}
    BY DEF Next, User, Visit, Open, Leave, GoHome, Filtering, changeTab,
       changePage, handleSearchSubmit, FilterMenu, Filtered, DebounceFires,
       Asking, OpenBranchDialog, CloseBranchDialog, ChooseBranch,
       OpenDeleteDialog, CloseDeleteDialog, ConfirmDeletion, Tokens,
       TokenArrives, TokenFails, Answers, AbortSettles, ServerReads,
       ListArrives, Forbidden, ListFails, Deletion, ServerDeletes,
       DeletionReturns, vars
  <2> QED BY <1>1, <2>1, NoneAssumption
<1>3. filters'.tab # None
  <2>2. CASE filters' = filters
    BY <1>1, <2>2
  <2>3. CASE filters' = [filters EXCEPT !.page = FirstPage]
    BY <1>1, <2>3 DEF Filters
  <2>4. CASE Filtering
    <3>1. CASE \E tab \in Tab : changeTab(tab)
      <4>1. PICK tab \in Tab :
              filters' = [filters EXCEPT !.tab = tab, !.page = FirstPage]
        BY <3>1 DEF changeTab, Filtered
      <4> QED BY <1>1, <4>1, NoneAssumption DEF Filters
    <3>2. CASE \E page \in Page : changePage(page)
      <4>1. PICK page \in Page : filters' = [filters EXCEPT !.page = page]
        BY <3>2 DEF changePage, Filtered
      <4> QED BY <1>1, <4>1 DEF Filters
    <3>3. CASE \E text \in Text : handleSearchSubmit(text)
      <4>1. PICK text \in Text :
              filters' = [filters EXCEPT !.text = text, !.page = FirstPage]
        BY <3>3 DEF handleSearchSubmit, Filtered
      <4> QED BY <1>1, <4>1 DEF Filters
    <3>4. CASE \E narrow \in Narrow : FilterMenu(narrow)
      <4>1. PICK narrow \in Narrow :
              filters' = [filters EXCEPT !.narrow = narrow, !.page = FirstPage]
        BY <3>4 DEF FilterMenu, Filtered
      <4> QED BY <1>1, <4>1 DEF Filters
    <3> QED BY <2>4, <3>1, <3>2, <3>3, <3>4 DEF Filtering
  <2> QED
    BY <2>2, <2>3, <2>4
    DEF Next, User, Visit, Open, Leave, GoHome, DebounceFires, Asking,
        OpenBranchDialog, CloseBranchDialog, ChooseBranch, OpenDeleteDialog,
        CloseDeleteDialog, ConfirmDeletion, Tokens, TokenArrives, TokenFails,
        Answers, AbortSettles, ServerReads, ListArrives, Forbidden, ListFails,
        Deletion, ServerDeletes, DeletionReturns, vars
<1> QED BY <1>2, <1>3 DEF Askable, Query, Asks

\* A step either leaves the screen empty, or keeps or drops the list, or brings
\* the answer to the one question that is open.
LEMMA KindsOfStep ==
  ASSUME IInv, OnlyAskable, [Next]_vars
  PROVE  \/ ~mounted' /\ rows' = None
         \/ ~mounted /\ ~mounted' /\ rows' = rows
         \/ mounted' /\ rows' \in {rows, None}
         \/ /\ mounted /\ mounted' /\ Askable(Query) /\ Query' = Query
            /\ rows' # None /\ rows'.query = Query
<1> DEFINE Kind ==
         \/ ~mounted' /\ rows' = None
         \/ ~mounted /\ ~mounted' /\ rows' = rows
         \/ mounted' /\ rows' \in {rows, None}
         \/ /\ mounted /\ mounted' /\ Askable(Query) /\ Query' = Query
            /\ rows' # None /\ rows'.query = Query
<1> SUFFICES Kind
  OBVIOUS
<1>1. mounted \in BOOLEAN
  BY DEF IInv, TypeOK
<1>2. CASE mounted' = mounted /\ rows' = rows
  BY <1>1, <1>2
<1>3. CASE Unmounted
  BY <1>3 DEF Unmounted
<1>4. CASE Visit \/ GoHome
  BY <1>2, <1>3, <1>4 DEF Visit, Open, Leave, GoHome, pageVars
<1>5. CASE Filtering
  BY <1>1, <1>5 DEF Filtering, changeTab, changePage, ListIsFree, PageIsFree,
     handleSearchSubmit, FilterMenu, Filtered
<1>6. CASE Answers
  <2>1. PICK i \in 1 .. Len(loads) :
          \/ AbortSettles(i) \/ ServerReads(i) \/ Forbidden(i)
          \/ ListFails(i) \/ ListArrives(i)
    BY <1>6 DEF Answers
  <2>2. CASE ListArrives(i)
    <3>1. loads # << >> /\ mounted
      BY DEF IInv, TypeOK
    <3>2. loads[i].query = Query /\ Askable(loads[i].query)
      BY <2>2 DEF IInv, AsksThePresent, OnlyAskable, ListArrives, Live
    <3>3. rows' = [query |-> loads[i].query, gone |-> loads[i].gone]
            /\ mounted' = mounted /\ Query' = Query
      BY <2>2 DEF ListArrives, Query
    <3>4. rows' \in List
      <4>1. Query \in Questions
        BY QueryType DEF IInv
      <4>2. loads[i].gone \in BOOLEAN
        <5>1. PICK l \in Load : l = loads[i]
          BY DEF IInv, TypeOK
        <5> QED BY <5>1 DEF Load
      <4> QED BY <3>2, <3>3, <4>1, <4>2 DEF List
    <3> QED BY <3>1, <3>2, <3>3, <3>4, NoListAssumption
  <2> QED
    BY <1>2, <1>3, <2>1, <2>2 DEF AbortSettles, ServerReads, Forbidden, ListFails
<1> QED
  BY <1>2, <1>3, <1>4, <1>5, <1>6
  DEF Next, User, DebounceFires, Asking, OpenBranchDialog, CloseBranchDialog,
      ChooseBranch, OpenDeleteDialog, CloseDeleteDialog, ConfirmDeletion, Tokens,
      TokenArrives, TokenFails, Deletion, ServerDeletes, DeletionReturns, vars,
      pageVars

\* Every such step is one of the promise's.
LEMMA StepKeepsPromise ==
  ASSUME IInv, IInv', OnlyAskable, [Next]_vars
  PROVE  [Promise!Next]_(Promise!vars)
<1> DEFINE asked == IF mounted /\ Askable(Query) THEN Query ELSE None
           shown == IF rows = None THEN None ELSE rows.query
           Step == \/ asked' \in {q \in Questions : Askable(q)}
                        /\ shown' \in {shown, None}
                   \/ asked' = None /\ shown' = None
                   \/ asked # None /\ shown' = asked /\ asked' = asked
                   \/ asked' = asked /\ shown' = shown
<1>1. Step => [Promise!Next]_(Promise!vars)
  BY DEF Promise!Next, Promise!Ask, Promise!Withdraw, Promise!Answer, Promise!vars
<1> SUFFICES Step
  BY <1>1
<1>2. Query \in Questions
  BY QueryType DEF IInv
<1>3. Query' \in Questions
  BY QuestionType DEF IInv, TypeOK, Query
<1>4. CASE ~mounted' /\ rows' = None
  BY <1>4
<1>5. CASE ~mounted /\ ~mounted' /\ rows' = rows
  BY <1>5
<1>6. CASE mounted' /\ rows' \in {rows, None}
  <2>1. CASE Askable(Query')
    BY <1>3, <1>6, <2>1
  <2>2. CASE ~Askable(Query')
    <3>1. ~(mounted /\ Askable(Query))
      BY <1>6, <2>2, StaysAskable DEF IInv
    <3> QED BY <1>6, <2>2, <3>1
  <2> QED BY <2>1, <2>2
<1>7. CASE /\ mounted /\ mounted' /\ Askable(Query) /\ Query' = Query
           /\ rows' # None /\ rows'.query = Query
  BY <1>2, <1>7, NoListAssumption
<1> QED BY <1>4, <1>5, <1>6, <1>7, KindsOfStep

-----------------------------------------------------------------------------
(* The spinner                                                             *)

\* A load that has its token is there to take the spinner away, if only by the
\* rejection of its aborted fetch.
HasToken(ls) == \E i \in 1 .. Len(ls) : ls[i].phase # "token"
SpinsForALoad == loading => HasToken(loads)

LEMMA RunKeepsTokens ==
  ASSUME NEW ls \in Seq(Load), NEW q \in Questions, NEW lock \in BOOLEAN,
         HasToken(ls)
  PROVE  HasToken(Run(ls, q, lock))
<1> DEFINE new == [query |-> q, lock |-> lock, aborted |-> FALSE,
                   phase |-> "token", gone |-> FALSE]
           cs == Cleanup(ls)
<1>1. /\ cs \in Seq(Load) /\ Len(cs) = Len(ls) /\ Len(ls) \in Nat
      /\ \A i \in 1 .. Len(ls) : cs[i].phase = ls[i].phase
  BY CleanedUp, CleanupKeepsPhases
<1>2. new \in Load
  BY DEF Load
<1>3. Run(ls, q, lock) \in {Append(cs, new), cs}
  BY DEF Run
<1> HIDE DEF new, cs
<1>4. Len(Append(cs, new)) = Len(ls) + 1
        /\ \A i \in 1 .. Len(ls) : Append(cs, new)[i] = cs[i]
  BY <1>1, <1>2
<1>5. HasToken(cs)
  BY <1>1 DEF HasToken
<1>6. HasToken(Append(cs, new))
  <2>1. PICK i \in 1 .. Len(ls) : ls[i].phase # "token"
    BY DEF HasToken
  <2>2. i \in 1 .. Len(Append(cs, new)) /\ Append(cs, new)[i].phase # "token"
    BY <1>1, <1>4, <2>1
  <2> QED BY <2>2 DEF HasToken
<1> QED BY <1>3, <1>5, <1>6

LEMMA EffectKeepsTokens ==
  ASSUME TypeOK, TypeOK', LoadEffect, HasToken(loads)
  PROVE  HasToken(loads')
<1>1. CASE loads' = Run(loads, Query', Dialogs')
  <2>1. Query' \in Questions
    BY QuestionType DEF TypeOK, Query
  <2>2. Dialogs' \in BOOLEAN
    BY DEF Dialogs
  <2> QED BY <1>1, <2>1, <2>2, RunKeepsTokens DEF TypeOK
<1> QED BY <1>1 DEF LoadEffect

\* The choice of a branch may run the effect twice.
LEMMA ChooseKeepsTokens ==
  ASSUME TypeOK, TypeOK', NEW o \in Org \union {org}, ChooseBranch(o),
         HasToken(loads)
  PROVE  HasToken(loads')
<1> DEFINE kept == Asks(o, filters, settled)
           first == Run(loads, kept, deleteDialog)
<1>1. /\ loads \in Seq(Load) /\ deleteDialog \in BOOLEAN
      /\ o \in Org \union {None} /\ filters \in Filters /\ settled \in Text
  BY DEF TypeOK
<1>2. kept \in Questions
  BY <1>1, QuestionType
<1>3. Query' \in Questions
  BY QuestionType DEF TypeOK, Query
<1>4. \/ loads' = Run(loads, Query', deleteDialog)
      \/ loads' = Run(first, Query', deleteDialog)
  BY Zenon DEF ChooseBranch
<1> HIDE DEF kept
<1>5. first \in Seq(Load) /\ HasToken(first)
  BY <1>1, <1>2, Ran, RunKeepsTokens
<1> HIDE DEF first
<1>6. HasToken(Run(loads, Query', deleteDialog))
        /\ HasToken(Run(first, Query', deleteDialog))
  BY <1>1, <1>3, <1>5, RunKeepsTokens
<1> QED BY <1>4, <1>6

LEMMA NextSpins ==
  ASSUME TypeOK, TypeOK', SpinsForALoad, [Next]_vars
  PROVE  SpinsForALoad'
<1>1. CASE loading' = FALSE
  BY <1>1, Zenon DEF SpinsForALoad
<1>2. CASE loads' = loads /\ loading' = loading
  BY <1>2 DEF SpinsForALoad
<1>3. CASE LoadEffect /\ loading' = loading
  BY <1>3, EffectKeepsTokens DEF SpinsForALoad
<1>4. ASSUME NEW i \in 1 .. Len(loads), NEW phase \in {"asked", "answered"},
             NEW l, l.phase = phase, loads' = [loads EXCEPT ![i] = l]
      PROVE  SpinsForALoad'
  <2>1. Len(loads') = Len(loads) /\ loads'[i] = l
    BY <1>4 DEF TypeOK
  <2> QED BY <1>4, <2>1 DEF SpinsForALoad, HasToken
<1>5. CASE Visit \/ GoHome
  <2>1. CASE Open
    <3>1. loading' = loading /\ (loads # << >> => mounted) /\ ~mounted
      BY <2>1 DEF Open, TypeOK
    <3>2. ~loading
      <4>1. Len(loads) = 0
        BY <3>1
      <4> QED BY <4>1 DEF SpinsForALoad, HasToken
    <3> QED BY <3>1, <3>2 DEF SpinsForALoad
  <2> QED BY <1>1, <1>2, <1>5, <2>1 DEF Visit, Leave, GoHome, Unmounted, pageVars
<1>6. CASE Filtering \/ DebounceFires
  BY <1>3, <1>6 DEF Filtering, DebounceFires, changeTab, changePage,
     handleSearchSubmit, FilterMenu, Filtered
<1>7. CASE Asking
  <2>1. CASE \E o \in Org \union {org} : ChooseBranch(o)
    <3>1. loading' = loading
      BY <2>1 DEF ChooseBranch
    <3>2. HasToken(loads) => HasToken(loads')
      BY <2>1, ChooseKeepsTokens
    <3> QED BY <3>1, <3>2 DEF SpinsForALoad
  <2> QED BY <1>2, <1>3, <1>7, <2>1 DEF Asking, OpenBranchDialog,
     CloseBranchDialog, OpenDeleteDialog, CloseDeleteDialog, ConfirmDeletion,
     pageVars
<1>8. CASE Deletion
  BY <1>2, <1>3, <1>8 DEF Deletion, ServerDeletes, DeletionReturns, pageVars
<1>9. CASE Tokens \/ Answers
  <2>1. PICK i \in 1 .. Len(loads) :
          \/ TokenArrives(i) \/ TokenFails(i) \/ AbortSettles(i) \/ ServerReads(i)
          \/ ListArrives(i) \/ Forbidden(i) \/ ListFails(i)
    BY <1>9 DEF Tokens, Answers
  <2>2. PICK l \in Load : l = loads[i]
    BY DEF TypeOK
  <2>3. CASE TokenArrives(i)
    <3>1. CASE loads[i].aborted
      BY <1>1, <2>3, <3>1, Zenon DEF TokenArrives
    <3>2. CASE ~loads[i].aborted
      <4>1. loads' = [loads EXCEPT ![i] = [l EXCEPT !.phase = "asked"]]
        BY <2>2, <2>3, <3>2, Zenon DEF TokenArrives
      <4>2. [l EXCEPT !.phase = "asked"].phase = "asked"
        BY DEF Load
      <4> QED BY <1>4, <4>1, <4>2
    <3> QED BY <3>1, <3>2
  <2>4. CASE ServerReads(i)
    <3>1. loads' = [loads EXCEPT ![i] =
                      [l EXCEPT !.phase = "answered", !.gone = gone]]
      BY <2>2, <2>4, Zenon DEF ServerReads
    <3>2. [l EXCEPT !.phase = "answered", !.gone = gone].phase = "answered"
      BY DEF Load
    <3> QED BY <1>4, <3>1, <3>2
  <2> QED
    BY <1>1, <2>1, <2>3, <2>4, Zenon
    DEF TokenFails, AbortSettles, ListArrives, Forbidden, ListFails, Ends, Unmounted
<1> QED
  BY <1>2, <1>5, <1>6, <1>7, <1>8, <1>9 DEF Next, User, vars, pageVars

-----------------------------------------------------------------------------
(* The theorems *)

\* The invariant the theorems on the list rest on: the load that is not aborted
\* asks for what the dashboard shows now (dashboard/index.tsx:532).
THEOREM Inductive == Spec => []IInv
<1>1. IInv /\ [Next]_vars => IInv'
  <2> SUFFICES ASSUME IInv, [Next]_vars PROVE IInv'
    OBVIOUS
  <2>1. CASE Next
    BY <2>1, VisitKeeps, FilteringKeeps, AskingKeeps, DebounceKeeps, TokensKeep,
       AnswersKeep, DeletionKeeps DEF Next, User
  <2>2. CASE UNCHANGED vars
    BY <2>2, StillKeeps DEF vars, pageVars, dialogVars, IInv, TypeOK
  <2> QED BY <2>1, <2>2
<1> QED BY <1>1, Starts, PTL DEF Spec

\* The types hold, at most one load is not aborted, and it is the newest.
THEOREM DashboardTypes == Spec => []TypeOK
<1>1. IInv => TypeOK
  BY DEF IInv
<1> QED BY <1>1, Inductive, PTL

\* The list on display never belongs to another tab (index.tsx:351, 531).
THEOREM TheTabsOwnList == Spec => []RowsOfTheTab
<1>1. IInv => RowsOfTheTab
  BY DEF IInv
<1> QED BY <1>1, Inductive, PTL

\* A dashboard with nothing on its way shows what it was asked for, but for a
\* refusal and a tab selected again (index.tsx:469-544).
THEOREM TheNewestQuestionWins == Spec => []ShowsWhatIsAsked
<1>1. IInv => ShowsWhatIsAsked
  BY DEF IInv, Answered, Awaited, OnDisplay, ShowsWhatIsAsked, Settled
<1> QED BY <1>1, Inductive, PTL

\* The lock and the deleted draft stay in order along with the rest.
THEOREM RestIsInductive == Spec => []RestInv
<1>1. IInv /\ RestInv /\ [Next]_vars => RestInv'
  <2> SUFFICES ASSUME IInv, RestInv, [Next]_vars PROVE RestInv'
    OBVIOUS
  <2>1. CASE Next
    BY <2>1, RestVisit, RestFiltering, RestAsking, RestTokens, RestAnswers,
       RestDeletion DEF Next, User
  <2>2. CASE UNCHANGED vars
    <3>1. Over' => Over
      BY <2>2 DEF vars, Over
    <3> QED BY <2>2, <3>1, RestStays DEF vars
  <2> QED BY <2>1, <2>2
<1> QED BY <1>1, RestStarts, Inductive, PTL DEF Spec

\* A dashboard with nothing on its way can be used exactly when no dialog is
\* open, although a load sets the lock from the dialogs it started with
\* (index.tsx:481).
THEOREM LockIsTheDialogs == Spec => []LockFollowsDialogs
<1>1. RestInv => LockFollowsDialogs
  BY DEF RestInv, LockIsRight, LockComes, LockFollowsDialogs, Settled
<1> QED BY <1>1, RestIsInductive, PTL

\* A deleted draft is not listed any more once the deletion has returned and
\* the way home was taken (RFQDeleteModal/index.tsx:78).
THEOREM TheDeletedStayGone == Spec => []DeletedStaysGone
<1>1. RestInv => DeletedStaysGone
  BY DEF RestInv, KnowsTheDeletion, Over, DeletedStaysGone, Settled
<1> QED BY <1>1, RestIsInductive, PTL

\* The list only ever changes to the answer to what the page asks at that
\* moment, whatever loads, tokens and debounced texts are on their way: the
\* dashboard implements the safety of LatestAnswer (index.tsx:469-544).
THEOREM DashboardShowsTheLatest == Spec => Promise!Safe
<1>1. Init => OnlyAskable /\ Promise!Init
  <2> SUFFICES ASSUME Init PROVE OnlyAskable /\ Promise!Init
    OBVIOUS
  <2>1. Len(loads) = 0
    BY DEF Init
  <2> QED BY <2>1 DEF Init, OnlyAskable, Promise!Init
<1>2. IInv /\ IInv' /\ OnlyAskable /\ [Next]_vars => OnlyAskable'
  BY NextAsks DEF IInv
<1>3. IInv /\ IInv' /\ OnlyAskable /\ [Next]_vars
        => [Promise!Next]_(Promise!vars)
  BY StepKeepsPromise
<1> QED BY <1>1, <1>2, <1>3, Inductive, PTL DEF Spec, Promise!Safe

\* The spinner of the dashboard never turns for nothing: a load that has its
\* token is under way, and its finally block takes the spinner away, aborted
\* or not (index.tsx:525).
THEOREM DashboardSpinnerHasALoad == Spec => []SpinsForALoad
<1>1. Init => SpinsForALoad
  BY DEF Init, SpinsForALoad
<1>2. IInv /\ IInv' /\ SpinsForALoad /\ [Next]_vars => SpinsForALoad'
  BY NextSpins DEF IInv
<1> QED BY <1>1, <1>2, Inductive, PTL DEF Spec

=============================================================================
