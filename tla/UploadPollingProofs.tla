------------------------- MODULE UploadPollingProofs -------------------------
(***************************************************************************)
(* What UploadPolling promises for any number of overlapping uploads.      *)
(* A poll ends in two ways: with its last answer, which takes the bar      *)
(* away, or by its signal.  ShownProgressIsLive is not inductive because   *)
(* of the second: the strengthening says that a signal is aborted only     *)
(* when the page is gone, which shows no bar.                              *)
(***************************************************************************)
EXTENDS UploadPolling, TLAPS

\* An aborted upload was aborted by leaving: no bar is on the screen then.
AbortMeansGone == aborted # {} => place = "gone"
GoneShowsNothing == place = "gone" => progress.finished
BarNamesUpload == ~progress.finished => progress.upload \in Upload

PollInv ==
  /\ TypeOK
  /\ ShownProgressIsLive
  /\ AbortMeansGone /\ GoneShowsNothing /\ BarNamesUpload

LEMMA InitPollInv == Init => PollInv
BY NoneAssumption DEF Init, PollInv, TypeOK, ShownProgressIsLive, AbortMeansGone,
   GoneShowsNothing, BarNamesUpload, NoProgress, Phase

\* What a poll does next: it asks, or its signal is aborted and it ends.
LEMMA PollsStep ==
  ASSUME TypeOK, NEW u \in Upload, Polls(u)
  PROVE  /\ poll' \in [Upload -> Phase]
         /\ asked' \in [Upload -> BOOLEAN]
         /\ u \notin aborted => poll'[u] = "asking"
         /\ u \in aborted => asked' = asked
         /\ \A v \in Upload \ {u} : poll'[v] = poll[v] /\ asked'[v] = asked[v]
BY DEF TypeOK, Polls, PollGoes, Phase

LEMMA PublishStep ==
  ASSUME TypeOK, NEW u \in Upload, NEW finished \in BOOLEAN, Publish(u, finished)
  PROVE  /\ progress' \in [upload : Upload \union {None}, finished : BOOLEAN]
         /\ place = "gone" => progress' = progress
         /\ place # "gone" => progress'.upload = u /\ progress'.finished = finished
BY DEF TypeOK, Publish

LEMMA NextPollInv == PollInv /\ [Next]_vars => PollInv'
<1> SUFFICES ASSUME PollInv, [Next]_vars PROVE PollInv'
  OBVIOUS
<1> USE NoneAssumption DEF PollInv, BarNamesUpload
<1>1. CASE LeaveStep \/ LeavePage
  <2>1. progress' = NoProgress /\ UNCHANGED <<poll, asked, abortRef>>
    BY <1>1 DEF LeaveStep, LeavePage
  <2>2. progress'.finished /\ progress' \in [upload : Upload \union {None}, finished : BOOLEAN]
    BY <2>1 DEF NoProgress
  <2>3. /\ place' \in {"documents", "otherStep", "gone"}
        /\ aborted' \subseteq Upload
        /\ aborted' # {} => place' = "gone"
    BY <1>1 DEF LeaveStep, LeavePage, TypeOK, AbortMeansGone
  <2> QED
    BY <2>1, <2>2, <2>3 DEF TypeOK, ShownProgressIsLive, AbortMeansGone, GoneShowsNothing
<1>2. CASE ReturnToStep
  BY <1>2 DEF ReturnToStep, TypeOK, ShownProgressIsLive, Polling, AbortMeansGone,
     GoneShowsNothing
<1>3. ASSUME NEW u \in Upload, StartUpload(u) \/ IdAnswered(u) \/ TokenFails(u)
      PROVE PollInv'
  <2>1. poll[u] \in {"none", "id", "token"} /\ UNCHANGED <<place, asked, aborted, progress>>
    BY <1>3 DEF StartUpload, IdAnswered, NoId, IdArrives, TokenFails
  <2>2. poll' \in [Upload -> Phase] /\ \A v \in Upload \ {u} : poll'[v] = poll[v]
    BY <1>3 DEF StartUpload, IdAnswered, NoId, IdArrives, TokenFails, PollGoes,
       TypeOK, Phase
  <2>3. abortRef' \in Upload \union {None}
    BY <1>3 DEF StartUpload, IdAnswered, NoId, IdArrives, TokenFails, TypeOK
  <2>4. ShownProgressIsLive'
    BY <2>1, <2>2 DEF ShownProgressIsLive, Polling, TypeOK
  <2> QED
    BY <2>1, <2>2, <2>3, <2>4 DEF TypeOK, AbortMeansGone, GoneShowsNothing
<1>4. ASSUME NEW u \in Upload, TokenArrives(u) \/ BackoffEnds(u) PROVE PollInv'
  <2>1. Polls(u) /\ UNCHANGED <<place, abortRef, aborted, progress>>
    BY <1>4 DEF TokenArrives, BackoffEnds
  <2>2. ShownProgressIsLive'
    BY <2>1, PollsStep DEF ShownProgressIsLive, Polling, AbortMeansGone,
       GoneShowsNothing, TypeOK
  <2> QED
    BY <2>1, <2>2, PollsStep DEF TypeOK, AbortMeansGone, GoneShowsNothing
<1>5. ASSUME NEW u \in Upload, PollRuns(u) PROVE PollInv'
  <2>1. Publish(u, FALSE) /\ Polls(u) /\ UNCHANGED <<place, abortRef, aborted>>
    BY <1>5 DEF PollRuns
  <2>2. GoneShowsNothing'
    BY <2>1, PublishStep DEF GoneShowsNothing
  <2>3. ShownProgressIsLive'
    <3>1. CASE place = "gone"
      BY <3>1, <2>1, <2>2 DEF ShownProgressIsLive, GoneShowsNothing
    <3>2. CASE place # "gone"
      BY <3>2, <2>1, PublishStep, PollsStep DEF ShownProgressIsLive, Polling,
         AbortMeansGone
    <3> QED
      BY <3>1, <3>2
  <2> QED
    BY <2>1, <2>2, <2>3, PollsStep, PublishStep DEF TypeOK, AbortMeansGone
<1>6. ASSUME NEW u \in Upload, PollFinishes(u) PROVE PollInv'
  <2>1. /\ Publish(u, TRUE) /\ UNCHANGED <<place, asked, abortRef, aborted>>
        /\ poll' = [poll EXCEPT ![u] = "ended"]
    BY <1>6 DEF PollFinishes, PollGoes
  <2>2. progress'.finished
    BY <2>1, PublishStep DEF GoneShowsNothing
  <2> QED
    BY <2>1, <2>2, PublishStep DEF TypeOK, ShownProgressIsLive, AbortMeansGone,
       GoneShowsNothing, Phase
<1>7. ASSUME NEW u \in Upload, PollFails(u) PROVE PollInv'
  <2>1. /\ UNCHANGED <<place, asked, abortRef, aborted, progress>>
        /\ poll' = [poll EXCEPT ![u] = AfterFailure(u)]
    BY <1>7 DEF PollFails, PollGoes
  <2>2. ShownProgressIsLive'
    BY <2>1 DEF ShownProgressIsLive, Polling, AfterFailure, AbortMeansGone,
       GoneShowsNothing, TypeOK
  <2> QED
    BY <2>1, <2>2 DEF TypeOK, AbortMeansGone, GoneShowsNothing, AfterFailure, Phase
<1>8. CASE UNCHANGED vars
  BY <1>8 DEF vars, TypeOK, ShownProgressIsLive, Polling, AbortMeansGone, GoneShowsNothing
<1> QED
  BY <1>1, <1>2, <1>3, <1>4, <1>5, <1>6, <1>7, <1>8 DEF Next, TokenAnswered, PollAnswered

\* Every variable keeps its type, for any number of overlapping uploads
\* (ta/index.tsx:41).
THEOREM UploadTypes == Spec => []TypeOK
BY InitPollInv, NextPollInv, PTL DEF Spec, PollInv

\* A progress bar on the screen always has a running poll behind it, however
\* many uploads overlap (pollUploadProgress.ts: a failure never ends a poll
\* whose page is there, and the last answer is published before the end).
THEOREM BarsAreLive == Spec => []ShownProgressIsLive
BY InitPollInv, NextPollInv, PTL DEF Spec, PollInv

\* A poll whose signal is aborted sends no request (pollUploadProgress.ts:44).
THEOREM SilentAfterAbort == Spec => AbortedAsksNoMore
<1>1. PollInv /\ [Next]_vars => [KeepsSilent]_vars
  <2> SUFFICES ASSUME PollInv, Next, NEW v \in aborted PROVE asked'[v] = asked[v]
    BY DEF KeepsSilent
  <2> USE DEF PollInv
  <2>1. v \in Upload
    BY DEF TypeOK
  <2>2. ASSUME NEW u \in Upload, Polls(u) PROVE asked'[v] = asked[v]
    BY <2>1, <2>2, PollsStep
  <2>3. CASE \E u \in Upload : TokenArrives(u) \/ BackoffEnds(u) \/ PollRuns(u)
    BY <2>2, <2>3 DEF TokenArrives, BackoffEnds, PollRuns
  <2>4. CASE ~ \E u \in Upload : TokenArrives(u) \/ BackoffEnds(u) \/ PollRuns(u)
    BY <2>4 DEF Next, LeaveStep, ReturnToStep, LeavePage, StartUpload, IdAnswered,
       NoId, IdArrives, TokenAnswered, TokenFails, PollAnswered, PollFinishes, PollFails
  <2> QED
    BY <2>3, <2>4
<1> QED
  BY <1>1, InitPollInv, NextPollInv, PTL DEF Spec, AbortedAsksNoMore
=============================================================================
