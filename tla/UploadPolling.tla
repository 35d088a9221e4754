---------------------------- MODULE UploadPolling ----------------------------
(***************************************************************************)
(* The progress polls of the type-approval application page                *)
(* (routes/ta/index.tsx and pollUploadProgress.ts).  Each upload asks for  *)
(* an upload id, then starts a long poll of its own with an                *)
(* AbortController of its own; the page keeps one reference, to the        *)
(* newest controller, and aborts that one when it unmounts.  All polls     *)
(* write the same progress state.  The upload control stays enabled, so    *)
(* uploads overlap.                                                        *)
(*                                                                         *)
(* Awaits with no effect between them are one phase: the phase "id" spans  *)
(* the access token and the upload id.  Percentages are left out; an       *)
(* answer only says whether the upload is finished.                        *)
(***************************************************************************)
CONSTANTS
  Upload,   \* the uploads the user may start, one per choice of files
  None      \* no upload

ASSUME NoneAssumption == None \notin Upload

VARIABLES
  place,     \* where the user is: on the documents step, another step, gone
  poll,      \* how far each upload's poll is
  asked,     \* of each upload: flips with every getProgress request
  abortRef,  \* the upload whose controller the page refers to
  aborted,   \* the uploads whose controller was aborted
  progress   \* the answer shown: of which upload, and is it finished?

vars == <<place, poll, asked, abortRef, aborted, progress>>

Phase == {"none", "id", "token", "asking", "backoff", "ended"}
NoProgress == [upload |-> None, finished |-> TRUE]

Init ==
  /\ place = "documents"
  /\ poll = [u \in Upload |-> "none"]
  /\ asked = [u \in Upload |-> FALSE]
  /\ abortRef = None
  /\ aborted = {}
  /\ progress = NoProgress

PollGoes(u, phase) == poll' = [poll EXCEPT ![u] = phase]

\* Mutant: The check at the start of a poll is left to the catch block.
Polls_NoCheck(u) ==
  /\ PollGoes(u, "asking")
  /\ asked' = [asked EXCEPT ![u] = ~@]

\* The start of every poll: an aborted signal ends it, else it asks.
Polls(u) ==
  IF u \in aborted
    THEN PollGoes(u, "ended") /\ UNCHANGED asked
    ELSE PollGoes(u, "asking") /\ asked' = [asked EXCEPT ![u] = ~@]

-----------------------------------------------------------------------------
(* The user *)

StartUpload(u) ==
  /\ place = "documents"
  /\ poll[u] = "none"
  /\ PollGoes(u, "id")
  /\ UNCHANGED <<place, asked, abortRef, aborted, progress>>

\* The documents step unmounts and takes the progress away: the page's
\* `uploading` is never set to true.
LeaveStep ==
  /\ place = "documents"
  /\ place' = "otherStep"
  /\ progress' = NoProgress
  /\ UNCHANGED <<poll, asked, abortRef, aborted>>

ReturnToStep ==
  /\ place = "otherStep"
  /\ place' = "documents"
  /\ UNCHANGED <<poll, asked, abortRef, aborted, progress>>

\* Mutant: The page aborts a controller it may not have.
LeavePage_NoGuard ==
  /\ place # "gone"
  /\ place' = "gone"
  /\ aborted' = aborted \union {abortRef}
  /\ progress' = NoProgress
  /\ UNCHANGED <<poll, asked, abortRef>>

LeavePage ==
  /\ place # "gone"
  /\ place' = "gone"
  /\ aborted' = aborted \union ({abortRef} \ {None})
  /\ progress' = NoProgress
  /\ UNCHANGED <<poll, asked, abortRef>>

-----------------------------------------------------------------------------
(* The answers *)

\* The request fails, or answers with an empty id: no poll either way.
NoId(u) ==
  /\ poll[u] = "id"
  /\ PollGoes(u, "ended")
  /\ UNCHANGED <<place, asked, abortRef, aborted, progress>>

IdArrives(u) ==
  /\ poll[u] = "id"
  /\ PollGoes(u, "token")
  /\ abortRef' = u
  /\ UNCHANGED <<place, asked, aborted, progress>>

TokenFails(u) ==
  /\ poll[u] = "token"
  /\ PollGoes(u, "ended")
  /\ UNCHANGED <<place, asked, abortRef, aborted, progress>>

TokenArrives(u) ==
  /\ poll[u] = "token"
  /\ Polls(u)
  /\ UNCHANGED <<place, abortRef, aborted, progress>>

\* onProgress; a page that is gone has no state to set.
Publish(u, finished) ==
  progress' = IF place = "gone" THEN progress
              ELSE [upload |-> u, finished |-> finished]

PollRuns(u) ==
  /\ poll[u] = "asking"
  /\ Publish(u, FALSE)
  /\ Polls(u)
  /\ UNCHANGED <<place, abortRef, aborted>>

\* Mutant: A finished poll calls onFinished only.
PollFinishes_Silent(u) ==
  /\ poll[u] = "asking"
  /\ PollGoes(u, "ended")
  /\ UNCHANGED <<place, asked, abortRef, aborted, progress>>

PollFinishes(u) ==
  /\ poll[u] = "asking"
  /\ Publish(u, TRUE)
  /\ PollGoes(u, "ended")
  /\ UNCHANGED <<place, asked, abortRef, aborted>>

\* Mutant: A failed poll gives up.
AfterFailure_GivesUp(u) == "ended"

AfterFailure(u) == IF u \in aborted THEN "ended" ELSE "backoff"

PollFails(u) ==
  /\ poll[u] = "asking"
  /\ PollGoes(u, AfterFailure(u))
  /\ UNCHANGED <<place, asked, abortRef, aborted, progress>>

BackoffEnds(u) ==
  /\ poll[u] = "backoff"
  /\ Polls(u)
  /\ UNCHANGED <<place, abortRef, aborted, progress>>

-----------------------------------------------------------------------------
IdAnswered(u) == NoId(u) \/ IdArrives(u)
TokenAnswered(u) == TokenFails(u) \/ TokenArrives(u)
PollAnswered(u) == PollRuns(u) \/ PollFinishes(u) \/ PollFails(u)

Next ==
  \/ LeaveStep \/ ReturnToStep \/ LeavePage
  \/ \E u \in Upload : StartUpload(u)
  \/ \E u \in Upload : IdAnswered(u)
  \/ \E u \in Upload : TokenAnswered(u)
  \/ \E u \in Upload : PollAnswered(u)
  \/ \E u \in Upload : BackoffEnds(u)

Spec == Init /\ [][Next]_vars

\* Requests settle (an aborted one by rejecting) and the back-off timer fires.
Fairness ==
  \A u \in Upload : /\ WF_vars(TokenAnswered(u))
                    /\ WF_vars(PollAnswered(u))
                    /\ WF_vars(BackoffEnds(u))

\* The server finishes every upload, and its poll gets to hear of it.
ServerFinishes == \A u \in Upload : SF_vars(PollFinishes(u))

FairSpec == Spec /\ Fairness

-----------------------------------------------------------------------------
TypeOK ==
  /\ place \in {"documents", "otherStep", "gone"}
  /\ poll \in [Upload -> Phase]
  /\ asked \in [Upload -> BOOLEAN]
  /\ abortRef \in Upload \union {None}
  /\ aborted \subseteq Upload
  /\ progress \in [upload : Upload \union {None}, finished : BOOLEAN]

Polling(u) == poll[u] \in {"asking", "backoff"}

\* A poll whose signal is aborted sends no request any more, in whatever
\* phase the abort meets it (pollUploadProgress.ts:44 and 50).
KeepsSilent == \A u \in aborted : asked'[u] = asked[u]
AbortedAsksNoMore == [][KeepsSilent]_vars

\* ... and it ends, also while the endpoint keeps failing.
AbortEndsPoll == \A u \in Upload : (u \in aborted) ~> (poll[u] = "ended")

\* A progress bar on the screen has a poll behind it that will move or remove
\* it: no upload ends or is retried into a bar that stays as it is.
ShownProgressIsLive ==
  ~progress.finished => Polling(progress.upload)

\* The bar takes the place of the documents, so it must not stay: when the
\* server finishes its uploads the documents come back.
ProgressGoesAway ==
  ServerFinishes => (~progress.finished ~> progress.finished)

\* The comment at the effect that aborts the controller on unmount: without
\* it the poll would outlive the component (appDocuments.tsx:87).
NoPollOutlivesPage ==
  place = "gone" => \A u \in Upload : Polling(u) => u \in aborted
=============================================================================
