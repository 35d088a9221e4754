------------------------------- MODULE Wizard -------------------------------
(***************************************************************************)
(* One user working through one multi-step wizard: the step controller     *)
(* (useWizardStepController), the view it decides on (resolveView), the    *)
(* part of the form that reacts to it, and the server's record of which    *)
(* steps it accepted.                                                      *)
(*                                                                         *)
(* A request is a call in flight: sent by the client, answered by the      *)
(* server, then delivered, so any two calls may overtake each other.  The  *)
(* controller's AbortControllers are created but never aborted, so no call *)
(* is ever cancelled by the wizard.  React Router renders the same         *)
(* WizardRoutedStep component for every step, so going from step to step   *)
(* keeps the component and its state; only leaving the wizard unmounts it. *)
(*                                                                         *)
(* The spinner shown while a step loads or saves is an element drawn over  *)
(* the form: the form stays rendered, its buttons stay enabled and keys    *)
(* reach them.  It is no guard of any action here.                         *)
(***************************************************************************)
EXTENDS Integers, FiniteSets, StepHandlers

CONSTANTS
  NSteps,          \* number of WizardStep children
  HandlerOf,       \* the handler of each step
  CallId,          \* bound: calls in flight at a time
  Reserve,         \* bound: calls the user leaves to the wizard's own reactions
  Answers,         \* the answers the server may give
  ParentRerenders  \* does the route re-render while a step is shown?

Step == 0 .. NSteps - 1

ASSUME StepsAssumption == /\ NSteps \in Nat \ {0}
                          /\ HandlerOf \in [Step -> Handlers]
ASSUME AnswersAssumption == Answers \subseteq AllAnswers
ASSUME CallsAssumption == CallId \subseteq Nat
ASSUME ReserveAssumption == Reserve \in Nat
ASSUME RerendersAssumption == ParentRerenders \in BOOLEAN

VARIABLES
  page,       \* "wizard", or the page outside the wizard that is shown
  current,    \* currentStepIndex
  statuses,   \* stepStatuses: which steps this client holds as Completed
  stepValues, \* the step whose values the form was given, if any
  isLoading,
  errorState,
  calls,
  accepted    \* server: the steps a completing save was accepted for

\* History, read by the properties only.
VARIABLES
  ahead,      \* steps accepted for a save that was sent under the spinner
  astray      \* the last load to end failed or was not of the step shown

historyVars == <<ahead, astray>>
clientVars == <<page, current, statuses, stepValues, isLoading, errorState>>
vars == <<page, current, statuses, stepValues, isLoading, errorState, calls,
          accepted, ahead, astray>>

-----------------------------------------------------------------------------
Pages == {"wizard"} \cup OutsidePages

NoStep == -1

\* "next" saves and completes the step, "draft" saves without completing it.
Ops == {"load", "next", "draft"}
Saves == {"next", "draft"}

\* live: the component that made the call is still mounted.
\* History: guarded, the guard looked when the save was sent (no spinner);
\* alone, no other save of the mounted component was in flight with it.
CallRecords == [phase : {"idle", "sent", "answered"}, op : Ops, step : Step,
                live : BOOLEAN, answer : AllAnswers, guarded : BOOLEAN,
                alone : BOOLEAN]
IdleCall == [phase |-> "idle", op |-> "load", step |-> 0, live |-> FALSE,
             answer |-> "ok", guarded |-> TRUE, alone |-> TRUE]
LoadRequest(s) == [IdleCall EXCEPT !.phase = "sent", !.step = s, !.live = TRUE]

LiveSave(cs, c) == cs[c].phase # "idle" /\ cs[c].op \in Saves /\ cs[c].live

Free(cs) == {c \in CallId : cs[c].phase = "idle"}

\* Which free call is taken says nothing: the least one.
Least(C) == {c \in C : \A d \in C : c <= d}

\* Bound: a step leaves calls free for the redirect that may follow it.
RoomLeft == Cardinality(Free(calls)) >= Reserve

TypeOK ==
  /\ page \in Pages
  /\ current \in Step
  /\ statuses \in [Step -> BOOLEAN]
  /\ stepValues \in Step \cup {NoStep}
  /\ isLoading \in BOOLEAN
  /\ errorState \in ErrorStates
  /\ calls \in [CallId -> CallRecords]
  /\ accepted \in [Step -> BOOLEAN]
  /\ ahead \subseteq Step
  /\ astray \in BOOLEAN

-----------------------------------------------------------------------------
(* resolveView: leave on an error outcome, go back to the first incomplete *)
(* step once loaded, else show the form.                                   *)
LeavingKinds == {"redirect", "notFound", "loading", "noThirdPartyAccess"}

LeaveTo(e) == CASE e.kind = "redirect" -> e.to
                [] e.kind = "notFound" -> "notFoundPage"
                [] e.kind = "loading" -> "serverErrorPage"
                [] OTHER -> "home"

FirstIncomplete(s) == ~statuses[s] /\ \A t \in Step : t < s => statuses[t]
\* Mutant: the guard looks one step short.
GuardSendsTo_OffByOne(s) == ~isLoading /\ s < current - 1 /\ FirstIncomplete(s)

GuardSendsTo(s) == ~isLoading /\ s < current /\ FirstIncomplete(s)

FormIsShown == /\ errorState.kind \notin LeavingKinds \cup {"gone"}
               /\ \A s \in Step : ~GuardSendsTo(s)

\* React commits a redirect before it runs the next callback.
Settled == page = "wizard" => FormIsShown

\* Under the spinner, too: the form is rendered and its buttons enabled.
FormInReach == page = "wizard" /\ FormIsShown

-----------------------------------------------------------------------------
(* loadData for step s, run by the effect on its identity; the effect on a *)
(* conflict depends on loadData too and runs it a second time.  cs are the *)
(* calls the action leaves in flight.                                      *)
Reload(s, cs) ==
  \E c \in Least(Free(cs)) : \E d \in {c} \cup Least(Free(cs) \ {c}) :
    /\ (c = d) <=> (errorState.kind # "concurrency")
    /\ calls' = [x \in CallId |-> IF x \in {c, d} THEN LoadRequest(s)
                                  ELSE cs[x]]
    /\ errorState' = NoError

\* Mutant: the effect that loads runs on the first mount only.
GoToStep_LoadsOnce(s, cs) ==
  /\ page' = "wizard"
  /\ current' = s
  /\ calls' = cs
  /\ UNCHANGED <<stepValues, isLoading, errorState, astray>>

(* A navigation to step s inside the mounted wizard.                       *)
GoToStep(s, cs) ==
  /\ Reload(s, cs)
  /\ page' = "wizard"
  /\ current' = s
  /\ UNCHANGED <<stepValues, isLoading, astray>>

(* A new WizardRoutedStep at step s, with statuses fresh from the server.  *)
MountAt(s, cs) ==
  /\ page' = "wizard"
  /\ current' = s
  /\ statuses' = accepted
  /\ stepValues' = NoStep
  /\ isLoading' = TRUE
  /\ errorState' = NoError
  /\ astray' = FALSE
  /\ \E c \in Least(Free(cs)) : calls' = [cs EXCEPT ![c] = LoadRequest(s)]
  /\ RoomLeft'

(* Unmounting drops what a load would set; a save runs on to its end.      *)
Orphaned(cs) ==
  [c \in CallId |-> IF cs[c].op = "load" THEN IdleCall
                    ELSE [cs[c] EXCEPT !.live = FALSE]]

Leave(to, cs) ==
  /\ page' = to
  /\ statuses' = [s \in Step |-> FALSE]
  /\ stepValues' = NoStep
  /\ isLoading' = FALSE
  /\ errorState' = NoError
  /\ astray' = FALSE
  /\ calls' = cs
  /\ UNCHANGED current

-----------------------------------------------------------------------------
Init ==
  /\ page = "home"
  /\ current = 0
  /\ statuses = [s \in Step |-> FALSE]
  /\ stepValues = NoStep
  /\ isLoading = FALSE
  /\ errorState = NoError
  /\ calls = [c \in CallId |-> IdleCall]
  /\ accepted = [s \in Step |-> FALSE]
  /\ ahead = {}
  /\ astray = FALSE

(* The user                                                                *)

EnterWizard(s) ==
  /\ page # "wizard"
  /\ MountAt(s, calls)
  /\ UNCHANGED <<accepted, ahead>>

(* A save of the step on screen joins the saves this component has in      *)
(* flight: formik.submitForm does not wait for an earlier one.             *)
SendSave(op) ==
  \E c \in Least(Free(calls)) :
    LET others == {x \in CallId : LiveSave(calls, x)}
        save == [phase |-> "sent", op |-> op, step |-> current, live |-> TRUE,
                 answer |-> "ok", guarded |-> ~isLoading,
                 alone |-> others = {}]
    IN calls' = [x \in CallId |->
                   IF x = c THEN save
                   ELSE [calls[x] EXCEPT !.alone = @ /\ x \notin others]]

\* Mutant: a new submit leaves the old error in place.
SubmitStep_KeepsError ==
  /\ FormInReach
  /\ SendSave("next")
  /\ RoomLeft'
  /\ UNCHANGED <<clientVars, accepted, historyVars>>

SubmitStep ==
  /\ FormInReach
  /\ errorState' = NoError
  /\ SendSave("next")
  /\ RoomLeft'
  /\ UNCHANGED <<page, current, statuses, stepValues, isLoading, accepted,
                 historyVars>>

SaveAndExitStep ==
  /\ FormInReach
  /\ \/ /\ SavesDraft(HandlerOf[current])
        /\ errorState' = NoError
        /\ SendSave("draft")
        /\ RoomLeft'
        /\ UNCHANGED <<page, current, statuses, stepValues, isLoading, astray>>
     \/ /\ ~SavesDraft(HandlerOf[current])
        /\ Leave("home", Orphaned(calls))
  /\ UNCHANGED <<accepted, ahead>>

\* Mutant: the first step has a Back button, too.
PreviousStep_OnFirstStep ==
  /\ FormInReach
  /\ GoToStep(current - 1, calls)
  /\ RoomLeft'
  /\ UNCHANGED <<statuses, accepted, ahead>>

PreviousStep ==
  /\ FormInReach
  /\ current > 0
  /\ GoToStep(current - 1, calls)
  /\ RoomLeft'
  /\ UNCHANGED <<statuses, accepted, ahead>>

BrowserHistory(s) ==
  /\ FormInReach
  /\ s # current
  /\ GoToStep(s, calls)
  /\ RoomLeft'
  /\ UNCHANGED <<statuses, accepted, ahead>>

Cancel ==
  /\ FormInReach
  /\ Leave("home", Orphaned(calls))
  /\ UNCHANGED <<accepted, ahead>>

(* The route component renders again and makes a new loadStepValues.       *)
ParentRerender ==
  /\ ParentRerenders
  /\ FormInReach
  /\ Reload(current, calls)
  /\ RoomLeft'
  /\ UNCHANGED <<page, current, statuses, stepValues, isLoading, accepted,
                 historyVars>>

-----------------------------------------------------------------------------
(* The navigation resolveView asks for; "gone" leaves through              *)
(* location.replace, which ends every script of the page.                  *)
FollowView ==
  /\ page = "wizard"
  /\ UNCHANGED <<accepted, ahead>>
  /\ \/ /\ errorState.kind \in LeavingKinds
        /\ Leave(LeaveTo(errorState), Orphaned(calls))
     \/ /\ errorState.kind = "gone"
        /\ Leave("signOut", [c \in CallId |-> IdleCall])
     \/ /\ errorState.kind \notin LeavingKinds \cup {"gone"}
        /\ \E s \in Step : GuardSendsTo(s) /\ GoToStep(s, calls)
        /\ UNCHANGED statuses

(* setErrorState, with the effect a change of kind to a conflict has.      *)
SetError(e, cs) ==
  /\ errorState' = e
  /\ IF e.kind = "concurrency" /\ errorState.kind # "concurrency"
     THEN \E c \in Least(Free(cs)) :
            calls' = [cs EXCEPT ![c] = LoadRequest(current)]
     ELSE calls' = cs

Arrives(c, ops) == /\ Settled
                   /\ calls[c].phase = "answered"
                   /\ calls[c].op \in ops

\* Mutant: setIsLoading(false) moved from the finally to the end of the try.
LoadingDone_AfterSuccess(seen) == isLoading' = (isLoading /\ seen # "ok")

(* setIsLoading(false) in the finally of loadData.                         *)
LoadingDone(seen) == isLoading' = FALSE

LoadArrives(c) ==
  LET call == calls[c]
      rest == [calls EXCEPT ![c] = IdleCall]
      seen == SeenByLoad(HandlerOf[call.step], call.answer)
  IN /\ Arrives(c, {"load"})
     /\ LoadingDone(seen)
     /\ astray' = (seen # "ok" \/ call.step # current)
     /\ UNCHANGED <<page, current, statuses, accepted, ahead>>
     /\ \/ /\ seen = "ok"
           /\ stepValues' = call.step
           /\ calls' = rest
           /\ UNCHANGED errorState
        \/ /\ seen # "ok"
           /\ SetError(ResolveErrorState(HandlerOf[call.step], seen, "Load"),
                       rest)
           /\ UNCHANGED stepValues

(* The catch of submitStep and saveAndExitStep; nothing when unmounted.    *)
SaveFails(call, seen, rest) ==
  /\ \/ /\ call.live
        /\ SetError(ResolveErrorState(HandlerOf[call.step], seen, "Update"),
                    rest)
     \/ /\ ~call.live
        /\ calls' = rest
        /\ UNCHANGED errorState
  /\ UNCHANGED <<page, current, statuses, stepValues, isLoading, astray>>

\* Mutant: the step the user is on by now is marked.
MarkedCompleted_Current(call) ==
  IF call.live THEN [statuses EXCEPT ![current] = TRUE] ELSE statuses

\* stepStatuses is state of the mounted component, changed for its own step.
MarkedCompleted(call) ==
  IF call.live THEN [statuses EXCEPT ![call.step] = TRUE] ELSE statuses

(* submitStep after its await: mark this step Completed in the array it    *)
(* was given, then go on from this step, wherever the user is by now.      *)
NextArrives(c) ==
  LET call == calls[c]
      rest == [calls EXCEPT ![c] = IdleCall]
      seen == SeenBySave(HandlerOf[call.step], call.answer)
  IN /\ Arrives(c, {"next"})
     /\ UNCHANGED <<accepted, ahead>>
     /\ \/ /\ seen = "ok"
           /\ call.step = NSteps - 1
           /\ Leave("completion", Orphaned(rest))
        \/ /\ seen = "ok"
           /\ call.step < NSteps - 1
           /\ page = "wizard"
           /\ GoToStep(call.step + 1, rest)
           /\ RoomLeft'
           /\ statuses' = MarkedCompleted(call)
        \/ /\ seen = "ok"
           /\ call.step < NSteps - 1
           /\ page # "wizard"
           /\ MountAt(call.step + 1, rest)
        \/ seen # "ok" /\ SaveFails(call, seen, rest)

DraftArrives(c) ==
  LET call == calls[c]
      rest == [calls EXCEPT ![c] = IdleCall]
      seen == SeenBySave(HandlerOf[call.step], call.answer)
  IN /\ Arrives(c, {"draft"})
     /\ UNCHANGED <<accepted, ahead>>
     /\ \/ seen = "ok" /\ Leave("home", Orphaned(rest))
        \/ seen # "ok" /\ SaveFails(call, seen, rest)

-----------------------------------------------------------------------------
(* The server and the network                                              *)

Answer(c, a) == [calls EXCEPT ![c].phase = "answered", ![c].answer = a]

ServeLoad(c) ==
  /\ calls[c].phase = "sent"
  /\ calls[c].op = "load"
  /\ "ok" \in Answers
  /\ calls' = Answer(c, "ok")
  /\ UNCHANGED <<clientVars, accepted, historyVars>>

AcceptSave(c) ==
  LET s == calls[c].step
  IN /\ calls[c].phase = "sent"
     /\ calls[c].op \in Saves
     /\ "ok" \in Answers
     /\ calls' = Answer(c, "ok")
     /\ UNCHANGED <<clientVars, astray>>
     /\ \/ /\ calls[c].op = "next"
           /\ accepted' = [accepted EXCEPT ![s] = TRUE]
           /\ ahead' = IF calls[c].guarded THEN ahead \ {s}
                       ELSE IF accepted[s] THEN ahead ELSE ahead \cup {s}
        \/ /\ calls[c].op = "draft"
           /\ UNCHANGED <<accepted, ahead>>

\* A conflict is the answer to a save; a load has nothing to conflict with.
Refuse(c) ==
  /\ calls[c].phase = "sent"
  /\ \E a \in Answers \ {"ok"} :
       /\ a = "conflict" => calls[c].op \in Saves
       /\ calls' = Answer(c, a)
  /\ UNCHANGED <<clientVars, accepted, historyVars>>

\* The server did its part and the answer is lost on the way back.
LoseAnswer(c) ==
  /\ calls[c].phase = "answered"
  /\ calls[c].answer = "ok"
  /\ "offline" \in Answers
  /\ calls' = Answer(c, "offline")
  /\ UNCHANGED <<clientVars, accepted, historyVars>>

-----------------------------------------------------------------------------
UserStep == \/ \E s \in Step : EnterWizard(s) \/ BrowserHistory(s)
            \/ SubmitStep \/ SaveAndExitStep \/ PreviousStep \/ Cancel
            \/ ParentRerender

ServerStep == \E c \in CallId : ServeLoad(c) \/ AcceptSave(c) \/ Refuse(c)
                                \/ LoseAnswer(c)

ClientStep == \/ FollowView
              \/ \E c \in CallId : LoadArrives(c) \/ NextArrives(c)
                                   \/ DraftArrives(c)

Next == UserStep \/ ServerStep \/ ClientStep

Spec == Init /\ [][Next]_vars

(* A fetch is answered or fails, and its promise settles; the user is free.*)
FairSpec ==
  /\ Spec
  /\ WF_vars(FollowView)
  /\ \A c \in CallId :
       /\ WF_vars(ServeLoad(c) \/ AcceptSave(c) \/ Refuse(c))
       /\ WF_vars(LoadArrives(c) \/ NextArrives(c) \/ DraftArrives(c))

-----------------------------------------------------------------------------
(* Properties                                                              *)

(* The client never holds a step as Completed that the server did not      *)
(* accept (unless the step's handler hides the refusal): stepStatuses is   *)
(* what the linear guard trusts.                                           *)
CompletedOnlyIfAccepted ==
  \A s \in Step : statuses[s] /\ ~SwallowsSaveError(HandlerOf[s])
                    => accepted[s]

(* The server never accepts a step before the steps in front of it: what   *)
(* the linear guard is for (types.ts:76).  The code does not keep it: the  *)
(* guard waits for the first load, and the form can be submitted before.   *)
AcceptedInOrder ==
  \A s, t \in Step : t < s /\ accepted[s] => accepted[t]

(* What the guard does keep, whatever overtakes what: a step accepted for  *)
(* a save that was sent with no load of a fresh mount under way is never   *)
(* accepted before the steps in front of it.                               *)
GuardedInOrder ==
  \A s, t \in Step : t < s /\ accepted[s] /\ s \notin ahead => accepted[t]

(* The completion page is shown only when the server accepted the last     *)
(* step: a refusal never looks like a success (types.ts:147).              *)
CompletionMeansSubmitted == page = "completion" => accepted[NSteps - 1]

(* Together: what the client believes was granted, nothing granted is      *)
(* taken back, the order is broken only by saves sent under the spinner,   *)
(* and the completion page follows the last step.  The wizard implements   *)
(* the promise stated in Submission.                                       *)
Promise == INSTANCE Submission WITH
             granted <- {s \in Step : accepted[s]},
             ahead <- ahead,
             believed <- {s \in Step : statuses[s]},
             finished <- page = "completion"

ImplementsSubmission == Promise!Spec

(* A conflict that the mounted step is told of sends a load of the step    *)
(* that is shown, the second conflict in a row too.  Two saves under way   *)
(* together may both be refused; the second of them sends none.            *)
ConflictReloads ==
  [][\A c \in CallId :
       (/\ NextArrives(c) \/ DraftArrives(c)
        /\ calls[c].live /\ calls[c].alone
        /\ errorState'.kind = "concurrency")
         => \E d \in CallId : /\ calls[d].phase # "sent"
                              /\ calls'[d] = LoadRequest(current)]_vars

(* With no load under way the form on screen was given the values of its   *)
(* own step, however the user went back and forth: unless the last load to *)
(* end failed, or was one of another step that overtook this one's.        *)
LoadUnderWay(cs) == \E c \in CallId : cs[c].phase # "idle" /\ cs[c].op = "load"

ShowsItsOwnValues ==
  FormInReach /\ ~LoadUnderWay(calls) /\ ~astray
    => stepValues = current

(* Every load ends: the first load of a step does not leave the spinner up.*)
LoadingEnds == (page = "wizard" /\ isLoading) ~> ~(page = "wizard" /\ isLoading)
=============================================================================
