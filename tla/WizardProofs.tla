---------------------------- MODULE WizardProofs ----------------------------
(***************************************************************************)
(* Theorems about Wizard, for any number of steps, any handlers, any       *)
(* answers and any number of calls in flight.                              *)
(*                                                                         *)
(* BeliefInv (the client's statuses) and OrderInv (the server's record)    *)
(* are inductive: each adds to its property what is true of the saves in   *)
(* flight, since a save may be answered long after the user went on.  From *)
(* them follow the completion page and that the wizard implements          *)
(* Submission.  The last two sections are of their own: conflicts reload   *)
(* the step, and the spinner and the values shown have a load behind them. *)
(***************************************************************************)
EXTENDS Wizard, TLAPS, WellFoundedInduction

Calls == [CallId -> CallRecords]

-----------------------------------------------------------------------------
(* Lemmas about the operators the actions are built from                   *)

LEMMA ErrorOfType ==
  ASSUME NEW kind \in ErrorKinds PROVE ErrorOf(kind) \in ErrorStates
BY DEF ErrorOf, ErrorStates

LEMMA NoErrorType == NoError \in ErrorStates
BY ErrorOfType DEF NoError, ErrorKinds

LEMMA RedirectionType ==
  ASSUME NEW h, NEW e, NEW phase
  PROVE  RedirectionOnError(h, e, phase) \in RedirectTargets \cup {"stay"}
BY DEF RedirectionOnError, RedirectTargets

(* resolveErrorState returns one of the nine states of WizardStepError.    *)
LEMMA ResolveType ==
  ASSUME NEW h, NEW e, NEW phase
  PROVE  ResolveErrorState(h, e, phase) \in ErrorStates
<1> DEFINE location == RedirectionOnError(h, e, phase)
<1>1. location \in RedirectTargets \cup {"stay"}
  BY RedirectionType
<1>2. location # "stay" =>
        [kind |-> "redirect", to |-> location] \in ErrorStates
  BY <1>1 DEF ErrorStates
<1>3. ResolveForbidden(e, phase) \in ErrorStates
  BY DEF ResolveForbidden, ErrorOf, ErrorStates, ErrorKinds
<1> HIDE DEF location
<1> QED
  BY <1>2, <1>3 DEF ResolveErrorState, location, NoError, ErrorOf, ErrorStates,
     ErrorKinds

(* No failure is silent: a refusal or a replaced error never resolves to   *)
(* the state without an error, whatever the step's handler and phase.      *)
THEOREM FailuresAreShown ==
  ASSUME NEW h, NEW e \in Errors \ {"aborted"}, NEW phase \in {"Load", "Update"}
  PROVE  ResolveErrorState(h, e, phase).kind # "none"
BY DEF Errors, Refusals, ResolveErrorState, ResolveForbidden, NoError, ErrorOf

LEMMA IdleCallType == IdleCall \in CallRecords
BY StepsAssumption DEF IdleCall, CallRecords, Ops, AllAnswers, Step

LEMMA LoadRequestType ==
  ASSUME NEW s \in Step PROVE LoadRequest(s) \in CallRecords
BY DEF LoadRequest, IdleCall, CallRecords, Ops, AllAnswers

LEMMA LeastIsFree ==
  ASSUME NEW cs, NEW c \in Least(Free(cs))
  PROVE  c \in CallId /\ cs[c].phase = "idle"
BY DEF Least, Free

LEMMA ReloadType ==
  ASSUME NEW s \in Step, NEW cs \in Calls, Reload(s, cs)
  PROVE  calls' \in Calls /\ errorState' \in ErrorStates
BY LoadRequestType, NoErrorType DEF Reload, Calls

LEMMA OrphanedType ==
  ASSUME NEW cs \in Calls PROVE Orphaned(cs) \in Calls
BY IdleCallType DEF Orphaned, Calls, CallRecords

LEMMA MountAtType ==
  ASSUME TypeOK, NEW s \in Step, NEW cs \in Calls, MountAt(s, cs),
         UNCHANGED <<accepted, ahead>>
  PROVE  TypeOK'
<1>1. calls' \in Calls
  BY LoadRequestType DEF MountAt, Calls
<1> QED
  BY <1>1, NoErrorType DEF MountAt, TypeOK, Calls, Pages

LEMMA LeaveType ==
  ASSUME TypeOK, NEW to \in Pages, NEW cs \in Calls, Leave(to, cs),
         UNCHANGED <<accepted, ahead>>
  PROVE  TypeOK'
BY NoErrorType DEF Leave, TypeOK, Calls

LEMMA GoToStepType ==
  ASSUME TypeOK, NEW s \in Step, NEW cs \in Calls, GoToStep(s, cs),
         UNCHANGED <<accepted, ahead>>, statuses' \in [Step -> BOOLEAN]
  PROVE  TypeOK'
BY ReloadType DEF GoToStep, TypeOK, Calls, Pages

LEMMA SetErrorType ==
  ASSUME TypeOK, NEW e \in ErrorStates, NEW cs \in Calls, SetError(e, cs)
  PROVE  calls' \in Calls /\ errorState' \in ErrorStates
BY LoadRequestType DEF SetError, TypeOK, Calls

LEMMA SaveFailsType ==
  ASSUME TypeOK, NEW call \in CallRecords, NEW seen, NEW rest \in Calls,
         SaveFails(call, seen, rest), UNCHANGED <<accepted, ahead>>
  PROVE  TypeOK'
<1>1. ResolveErrorState(HandlerOf[call.step], seen, "Update") \in ErrorStates
  BY ResolveType
<1>2. calls' \in Calls /\ errorState' \in ErrorStates
  BY <1>1, SetErrorType DEF SaveFails, TypeOK
<1> QED
  BY <1>2 DEF SaveFails, TypeOK, Calls

\* Two records of one call that may differ in what it shared its flight with.
SameBut(r, q) ==
  /\ q.phase = r.phase /\ q.op = r.op /\ q.step = r.step
  /\ q.live = r.live /\ q.answer = r.answer /\ q.guarded = r.guarded

(* What sending a save does to the calls: it adds one, marked with what    *)
(* the guard had seen, and marks those it joins.                           *)
LEMMA SendSaveAdds ==
  ASSUME TypeOK, NEW op \in Saves, SendSave(op)
  PROVE  /\ calls' \in Calls
         /\ \E c \in CallId :
              /\ calls[c].phase = "idle"
              /\ calls'[c].phase = "sent"
              /\ calls'[c].op = op
              /\ calls'[c].step = current
              /\ calls'[c].live
              /\ calls'[c].guarded => ~isLoading
              /\ calls'[c].alone => \A x \in CallId : ~LiveSave(calls, x)
              /\ \A x \in CallId \ {c} :
                   /\ SameBut(calls[x], calls'[x])
                   /\ calls'[x].alone => calls[x].alone /\ ~LiveSave(calls, x)
<1> DEFINE others == {x \in CallId : LiveSave(calls, x)}
           save == [phase |-> "sent", op |-> op, step |-> current, live |-> TRUE,
                    answer |-> "ok", guarded |-> ~isLoading,
                    alone |-> others = {}]
<1>1. PICK c \in Least(Free(calls)) :
             calls' = [x \in CallId |->
                         IF x = c THEN save
                         ELSE [calls[x] EXCEPT !.alone = @ /\ x \notin others]]
  BY DEF SendSave
<1>2. c \in CallId /\ calls[c].phase = "idle"
  BY <1>1, LeastIsFree
<1>3. save \in CallRecords
  BY DEF TypeOK, CallRecords, Ops, Saves, AllAnswers
<1>4. /\ calls'[c] = save
      /\ \A x \in CallId \ {c} :
           calls'[x] = [calls[x] EXCEPT !.alone = @ /\ x \notin others]
  BY <1>1, <1>2
<1>5. \A x \in CallId : calls[x] \in CallRecords
  BY DEF TypeOK
<1>6. save.alone => \A x \in CallId : ~LiveSave(calls, x)
  OBVIOUS
<1>7. \A x \in CallId \ {c} :
         /\ SameBut(calls[x], calls'[x])
         /\ calls'[x].alone => calls[x].alone /\ x \notin others
  <2> HIDE DEF others, save
  <2> SUFFICES ASSUME NEW x \in CallId \ {c}
               PROVE  /\ SameBut(calls[x], calls'[x])
                      /\ calls'[x].alone => calls[x].alone /\ x \notin others
    OBVIOUS
  <2>1. calls'[x] = [calls[x] EXCEPT !.alone = @ /\ x \notin others]
    BY <1>4
  <2>2. calls'[x].alone = (calls[x].alone /\ x \notin others)
    BY <1>5, <2>1 DEF CallRecords
  <2> QED
    BY <1>5, <2>1, <2>2 DEF CallRecords, SameBut
<1>8. \A x \in CallId : x \notin others => ~LiveSave(calls, x)
  OBVIOUS
<1>9. calls' \in Calls
  <2> HIDE DEF others, save
  <2> QED
    BY <1>1, <1>3, <1>5 DEF Calls, CallRecords
<1>10. /\ save.phase = "sent" /\ save.op = op /\ save.step = current
       /\ save.live /\ (save.guarded => ~isLoading)
  OBVIOUS
<1> HIDE DEF others, save
<1> QED
  BY <1>2, <1>4, <1>6, <1>7, <1>8, <1>9, <1>10

LEMMA AnswerType ==
  ASSUME TypeOK, NEW c \in CallId, NEW a \in AllAnswers
  PROVE  Answer(c, a) \in Calls
BY DEF Answer, TypeOK, Calls, CallRecords

LEMMA RestType ==
  ASSUME TypeOK, NEW c \in CallId
  PROVE  [calls EXCEPT ![c] = IdleCall] \in Calls /\ calls[c] \in CallRecords
BY IdleCallType DEF TypeOK, Calls

-----------------------------------------------------------------------------
(* Type correctness, one step per action                                   *)

LEMMA InitType == Init => TypeOK
<1> SUFFICES ASSUME Init PROVE TypeOK
  OBVIOUS
<1>1. current \in Step
  BY StepsAssumption DEF Init, Step
<1>2. page \in Pages
  BY DEF Init, Pages, OutsidePages
<1> QED
  BY <1>1, <1>2, IdleCallType, NoErrorType DEF Init, TypeOK

LEMMA UserStepType == ASSUME TypeOK, UserStep PROVE TypeOK'
<1> USE DEF Calls
<1>1. ASSUME NEW s \in Step, EnterWizard(s) PROVE TypeOK'
  BY <1>1, MountAtType DEF EnterWizard, TypeOK
<1>2. ASSUME NEW s \in Step, BrowserHistory(s) PROVE TypeOK'
  BY <1>2, GoToStepType DEF BrowserHistory, TypeOK
<1>3. CASE SubmitStep
  <2>1. calls' \in Calls
    BY <1>3, SendSaveAdds DEF SubmitStep, Saves
  <2> QED
    BY <1>3, <2>1, NoErrorType DEF SubmitStep, TypeOK, historyVars
<1>4. CASE SaveAndExitStep
  <2>1. CASE SavesDraft(HandlerOf[current])
    <3>1. calls' \in Calls
      BY <1>4, <2>1, SendSaveAdds DEF SaveAndExitStep, Saves
    <3> QED
      BY <1>4, <2>1, <3>1, NoErrorType DEF SaveAndExitStep, TypeOK
  <2>2. CASE ~SavesDraft(HandlerOf[current])
    BY <1>4, <2>2, LeaveType, OrphanedType
       DEF SaveAndExitStep, TypeOK, Pages, OutsidePages
  <2> QED
    BY <2>1, <2>2
<1>5. CASE PreviousStep
  <2>1. current - 1 \in Step
    BY <1>5, StepsAssumption DEF PreviousStep, TypeOK, Step
  <2> QED
    BY <1>5, <2>1, GoToStepType DEF PreviousStep, TypeOK
<1>6. CASE Cancel
  BY <1>6, LeaveType, OrphanedType DEF Cancel, TypeOK, Pages, OutsidePages
<1>7. CASE ParentRerender
  <2>1. calls' \in Calls /\ errorState' \in ErrorStates
    BY <1>7, ReloadType DEF ParentRerender, TypeOK
  <2> QED
    BY <1>7, <2>1 DEF ParentRerender, TypeOK, historyVars
<1> QED
  BY <1>1, <1>2, <1>3, <1>4, <1>5, <1>6, <1>7 DEF UserStep

LEMMA ServerStepType == ASSUME TypeOK, ServerStep PROVE TypeOK'
<1>1. ASSUME NEW c \in CallId, NEW a \in AllAnswers, calls' = Answer(c, a),
             UNCHANGED <<clientVars, accepted, historyVars>>
      PROVE  TypeOK'
  <2>1. calls' \in Calls
    BY <1>1, AnswerType
  <2> QED
    BY <1>1, <2>1 DEF TypeOK, clientVars, historyVars, Calls
<1>2. "ok" \in AllAnswers /\ "offline" \in AllAnswers
  BY DEF AllAnswers, Refusals
<1>3. ASSUME NEW c \in CallId, ServeLoad(c) \/ Refuse(c) \/ LoseAnswer(c)
      PROVE  TypeOK'
  BY <1>1, <1>2, <1>3, AnswersAssumption DEF ServeLoad, Refuse, LoseAnswer
<1>4. ASSUME NEW c \in CallId, AcceptSave(c) PROVE TypeOK'
  <2>1. calls[c].step \in Step
    BY DEF TypeOK, CallRecords
  <2>2. calls' \in Calls
    BY <1>2, <1>4, AnswerType DEF AcceptSave
  <2>3. accepted' \in [Step -> BOOLEAN] /\ ahead' \subseteq Step
    BY <1>4, <2>1 DEF AcceptSave, TypeOK
  <2> QED
    BY <1>4, <2>2, <2>3 DEF AcceptSave, TypeOK, clientVars, Calls
<1> QED
  BY <1>3, <1>4 DEF ServerStep

LEMMA FollowViewType == ASSUME TypeOK, FollowView PROVE TypeOK'
<1> USE DEF Calls
<1>1. CASE errorState.kind \in LeavingKinds
  <2>1. LeaveTo(errorState) \in Pages
    <3>1. errorState.kind = "redirect" => errorState.to \in RedirectTargets
      BY DEF TypeOK, ErrorStates, ErrorKinds
    <3> QED
      BY <3>1 DEF LeaveTo, Pages, OutsidePages, RedirectTargets
  <2> QED
    BY <1>1, <2>1, LeaveType, OrphanedType DEF FollowView, TypeOK, LeavingKinds
<1>2. CASE errorState.kind = "gone"
  <2>1. [c \in CallId |-> IdleCall] \in Calls
    BY IdleCallType
  <2> QED
    BY <1>2, <2>1, LeaveType DEF FollowView, Pages, OutsidePages, LeavingKinds
<1>3. CASE errorState.kind \notin LeavingKinds \cup {"gone"}
  <2>1. PICK s \in Step : GoToStep(s, calls)
    BY <1>3 DEF FollowView
  <2> QED
    BY <1>3, <2>1, GoToStepType DEF FollowView, TypeOK
<1> QED
  BY <1>1, <1>2, <1>3

LEMMA LoadArrivesType ==
  ASSUME TypeOK, NEW c \in CallId, LoadArrives(c) PROVE TypeOK'
<1> USE DEF Calls
<1> DEFINE call == calls[c]
           rest == [calls EXCEPT ![c] = IdleCall]
           seen == SeenByLoad(HandlerOf[call.step], call.answer)
           e == ResolveErrorState(HandlerOf[call.step], seen, "Load")
<1>1. rest \in Calls /\ call \in CallRecords
  BY RestType
<1>2. /\ isLoading' \in BOOLEAN /\ astray' \in BOOLEAN
      /\ UNCHANGED <<page, current, statuses, accepted, ahead>>
  BY DEF LoadArrives, LoadingDone
<1>3. CASE seen = "ok"
  <2>1. stepValues' = call.step /\ calls' = rest /\ errorState' = errorState
    BY <1>3 DEF LoadArrives
  <2> QED
    BY <1>1, <1>2, <2>1 DEF TypeOK, CallRecords
<1>4. CASE seen # "ok"
  <2>1. SetError(e, rest) /\ UNCHANGED stepValues
    BY <1>4 DEF LoadArrives
  <2>2. e \in ErrorStates
    BY ResolveType
  <2>3. calls' \in Calls /\ errorState' \in ErrorStates
    BY <1>1, <2>1, <2>2, SetErrorType
  <2> QED
    BY <1>2, <2>1, <2>3 DEF TypeOK
<1> QED
  BY <1>3, <1>4

LEMMA NextArrivesType ==
  ASSUME TypeOK, NEW c \in CallId, NextArrives(c) PROVE TypeOK'
<1> USE DEF Calls
<1> DEFINE call == calls[c]
           rest == [calls EXCEPT ![c] = IdleCall]
           seen == SeenBySave(HandlerOf[call.step], call.answer)
<1>1. rest \in Calls /\ call \in CallRecords /\ call.step \in Step
  BY RestType DEF CallRecords
<1>2. UNCHANGED <<accepted, ahead>>
  BY DEF NextArrives
<1>3. \/ Leave("completion", Orphaned(rest))
      \/ /\ call.step < NSteps - 1
         /\ GoToStep(call.step + 1, rest)
         /\ statuses' = MarkedCompleted(call)
      \/ call.step < NSteps - 1 /\ MountAt(call.step + 1, rest)
      \/ SaveFails(call, seen, rest)
  BY DEF NextArrives
<1> HIDE DEF call, rest, seen
<1>4. CASE Leave("completion", Orphaned(rest))
  BY <1>1, <1>2, <1>4, LeaveType, OrphanedType DEF Pages, OutsidePages
<1>5. call.step < NSteps - 1 => call.step + 1 \in Step
  BY <1>1, StepsAssumption DEF Step
<1>6. ASSUME call.step < NSteps - 1, GoToStep(call.step + 1, rest),
             statuses' = MarkedCompleted(call)
      PROVE  TypeOK'
  <2>1. statuses' \in [Step -> BOOLEAN]
    BY <1>1, <1>6 DEF TypeOK, MarkedCompleted
  <2> QED
    BY <1>1, <1>2, <1>5, <1>6, <2>1, GoToStepType
<1>7. CASE call.step < NSteps - 1 /\ MountAt(call.step + 1, rest)
  BY <1>1, <1>2, <1>5, <1>7, MountAtType
<1>8. CASE SaveFails(call, seen, rest)
  BY <1>1, <1>2, <1>8, SaveFailsType
<1> QED
  BY <1>3, <1>4, <1>6, <1>7, <1>8

LEMMA DraftArrivesType ==
  ASSUME TypeOK, NEW c \in CallId, DraftArrives(c) PROVE TypeOK'
<1> USE DEF Calls
<1> DEFINE call == calls[c]
           rest == [calls EXCEPT ![c] = IdleCall]
           seen == SeenBySave(HandlerOf[call.step], call.answer)
<1>1. rest \in Calls /\ call \in CallRecords
  BY RestType
<1>2. UNCHANGED <<accepted, ahead>>
  BY DEF DraftArrives
<1>3. Leave("home", Orphaned(rest)) \/ SaveFails(call, seen, rest)
  BY DEF DraftArrives
<1> HIDE DEF call, rest, seen
<1> QED
  BY <1>1, <1>2, <1>3, LeaveType, OrphanedType, SaveFailsType
     DEF Pages, OutsidePages

LEMMA NextType == ASSUME TypeOK, [Next]_vars PROVE TypeOK'
<1>1. CASE UserStep
  BY <1>1, UserStepType
<1>2. CASE ServerStep
  BY <1>2, ServerStepType
<1>3. CASE ClientStep
  BY <1>3, FollowViewType, LoadArrivesType, NextArrivesType, DraftArrivesType
     DEF ClientStep
<1>4. CASE UNCHANGED vars
  BY <1>4 DEF vars, TypeOK
<1> QED
  BY <1>1, <1>2, <1>3, <1>4 DEF Next

(* Every variable keeps its type, for any number of steps and calls.       *)
THEOREM TypeCorrect == Spec => []TypeOK
<1>1. TypeOK /\ [Next]_vars => TypeOK'
  BY NextType
<1> QED
  BY InitType, <1>1, PTL DEF Spec

-----------------------------------------------------------------------------
(* What the wizards of the code have in common: at most the last step      *)
(* hides a refusal.                                                        *)

OnlyTheLastHides == \A s \in Step : s < NSteps - 1 =>
                                      ~SwallowsSaveError(HandlerOf[s])
LastDoesNotHide == ~SwallowsSaveError(HandlerOf[NSteps - 1])
NoneHides == \A s \in Step : ~SwallowsSaveError(HandlerOf[s])

-----------------------------------------------------------------------------
(* The guard                                                               *)

LEMMA LeastStep ==
  ASSUME NEW T, T \subseteq Step, T # {}
  PROVE  \E s \in T : \A t \in T : ~(t < s)
<1>1. T \subseteq Nat
  BY StepsAssumption DEF Step
<1>2. \E s \in T : \A t \in T : ~(<<t, s>> \in OpToRel(<, Nat))
  BY <1>1, NatLessThanWellFounded, WFMin
<1>3. PICK s \in T : \A t \in T : ~(<<t, s>> \in OpToRel(<, Nat))
  BY <1>2
<1>4. ASSUME NEW t \in T PROVE ~(t < s)
  BY <1>1, <1>3 DEF OpToRel
<1> QED
  BY <1>4

(* A form on screen without the spinner has all steps before it completed. *)
LEMMA GuardHolds ==
  ASSUME TypeOK, FormIsShown, ~isLoading
  PROVE  \A t \in Step : t < current => statuses[t]
<1> DEFINE Open == {t \in Step : t < current /\ ~statuses[t]}
<1> SUFFICES ASSUME Open # {} PROVE FALSE
  OBVIOUS
<1>1. PICK s \in Open : \A t \in Open : ~(t < s)
  BY LeastStep
<1>2. FirstIncomplete(s)
  <2> SUFFICES ASSUME NEW t \in Step, t < s PROVE statuses[t]
    BY DEF FirstIncomplete
  <2>1. t < current
    BY StepsAssumption DEF TypeOK, Step
  <2> QED
    BY <1>1, <2>1
<1>3. GuardSendsTo(s)
  BY <1>2 DEF GuardSendsTo
<1> QED
  BY <1>3 DEF FormIsShown

-----------------------------------------------------------------------------
(* Which calls an action may leave: ds holds no completing save, and no    *)
(* success of one, that cs does not hold already.                          *)

Pending(cs, c) == cs[c].phase # "idle" /\ cs[c].op = "next"
Granted(cs, c) == cs[c].phase = "answered" /\ cs[c].answer = "ok"

OnlyDrops(cs, ds) ==
  \A c \in CallId : Pending(ds, c) => /\ Pending(cs, c)
                                      /\ cs[c].step = ds[c].step
                                      /\ ds[c].guarded => cs[c].guarded
                                      /\ Granted(ds, c) => Granted(cs, c)

LEMMA DropsSame == ASSUME NEW cs PROVE OnlyDrops(cs, cs)
BY DEF OnlyDrops

LEMMA DropsTransitive ==
  ASSUME NEW cs, NEW ds, NEW es, OnlyDrops(cs, ds), OnlyDrops(ds, es)
  PROVE  OnlyDrops(cs, es)
BY DEF OnlyDrops

LEMMA RestDrops ==
  ASSUME NEW cs \in Calls, NEW c \in CallId
  PROVE  OnlyDrops(cs, [cs EXCEPT ![c] = IdleCall])
BY DEF OnlyDrops, Calls, IdleCall, Pending, Granted

LEMMA OrphanedDrops ==
  ASSUME NEW cs \in Calls PROVE OnlyDrops(cs, Orphaned(cs))
BY DEF OnlyDrops, Orphaned, Calls, CallRecords, IdleCall, Pending, Granted

LEMMA RequestDrops ==
  ASSUME NEW cs \in Calls, NEW c \in CallId, NEW s
  PROVE  OnlyDrops(cs, [cs EXCEPT ![c] = LoadRequest(s)])
BY DEF OnlyDrops, Calls, LoadRequest, IdleCall, Pending, Granted

LEMMA ReloadDrops ==
  ASSUME NEW s, NEW cs \in Calls, Reload(s, cs)
  PROVE  OnlyDrops(cs, calls')
BY DEF OnlyDrops, Reload, Calls, LoadRequest, IdleCall, Pending, Granted

LEMMA MountAtDrops ==
  ASSUME NEW s, NEW cs \in Calls, MountAt(s, cs)
  PROVE  OnlyDrops(cs, calls') /\ statuses' = accepted
<1>1. PICK c \in Least(Free(cs)) : calls' = [cs EXCEPT ![c] = LoadRequest(s)]
  BY DEF MountAt
<1> QED
  BY <1>1, RequestDrops, LeastIsFree DEF MountAt

LEMMA SetErrorDrops ==
  ASSUME NEW e, NEW cs \in Calls, SetError(e, cs)
  PROVE  OnlyDrops(cs, calls')
<1>1. CASE calls' = cs
  BY <1>1, DropsSame
<1>2. CASE calls' # cs
  <2>1. PICK c \in Least(Free(cs)) :
               calls' = [cs EXCEPT ![c] = LoadRequest(current)]
    BY <1>2 DEF SetError
  <2> QED
    BY <2>1, RequestDrops, LeastIsFree
<1> QED
  BY <1>1, <1>2

LEMMA SaveFailsDrops ==
  ASSUME NEW call, NEW seen, NEW rest \in Calls, SaveFails(call, seen, rest)
  PROVE  OnlyDrops(rest, calls')
<1>1. CASE call.live
  BY <1>1, SetErrorDrops DEF SaveFails
<1>2. CASE ~call.live
  BY <1>2, DropsSame DEF SaveFails
<1> QED
  BY <1>1, <1>2

LEMMA DraftDrops ==
  ASSUME TypeOK, SendSave("draft") PROVE OnlyDrops(calls, calls')
BY SendSaveAdds DEF Saves, SameBut, OnlyDrops, Pending, Granted

-----------------------------------------------------------------------------
(* What a step does to the record of the steps: nothing, or it sends a     *)
(* completing save, or accepts one, or marks the step of one.              *)

NothingCompleted == [s \in Step |-> FALSE]

Quiet ==
  /\ UNCHANGED <<accepted, ahead>>
  /\ OnlyDrops(calls, calls')
  /\ statuses' \in {statuses, accepted, NothingCompleted}

Marks(c) ==
  /\ calls[c].phase = "answered" /\ calls[c].op = "next"
  /\ SeenBySave(HandlerOf[calls[c].step], calls[c].answer) = "ok"
  /\ UNCHANGED <<accepted, ahead>>
  /\ OnlyDrops(calls, calls')
  /\ statuses' = MarkedCompleted(calls[c])

LEMMA UserStepKinds ==
  ASSUME TypeOK, UserStep PROVE Quiet \/ SubmitStep
<1>1. calls \in Calls
  BY DEF TypeOK, Calls
<1>2. ASSUME NEW s \in Step, EnterWizard(s) PROVE Quiet
  BY <1>1, <1>2, MountAtDrops DEF EnterWizard, Quiet
<1>3. ASSUME NEW s \in Step, BrowserHistory(s) PROVE Quiet
  BY <1>1, <1>3, ReloadDrops DEF BrowserHistory, GoToStep, Quiet
<1>4. CASE SaveAndExitStep
  <2>1. CASE SavesDraft(HandlerOf[current])
    BY <1>4, <2>1, DraftDrops DEF SaveAndExitStep, Quiet
  <2>2. CASE ~SavesDraft(HandlerOf[current])
    BY <1>1, <1>4, <2>2, OrphanedDrops
       DEF SaveAndExitStep, Leave, Quiet, NothingCompleted
  <2> QED
    BY <2>1, <2>2
<1>5. CASE PreviousStep
  BY <1>1, <1>5, ReloadDrops DEF PreviousStep, GoToStep, Quiet
<1>6. CASE Cancel
  BY <1>1, <1>6, OrphanedDrops DEF Cancel, Leave, Quiet, NothingCompleted
<1>7. CASE ParentRerender
  BY <1>1, <1>7, ReloadDrops DEF ParentRerender, historyVars, Quiet
<1> QED
  BY <1>2, <1>3, <1>4, <1>5, <1>6, <1>7 DEF UserStep

LEMMA ServerStepKinds ==
  ASSUME TypeOK, ServerStep PROVE Quiet \/ \E c \in CallId : AcceptSave(c)
<1>1. calls \in Calls
  BY DEF TypeOK, Calls
<1>2. ASSUME NEW c \in CallId, NEW a, calls' = Answer(c, a),
             calls[c].phase # "idle", calls[c].op = "load" \/ a # "ok",
             UNCHANGED <<clientVars, accepted, historyVars>>
      PROVE  Quiet
  <2>1. /\ \A d \in CallId \ {c} : calls'[d] = calls[d]
        /\ calls'[c].op = calls[c].op /\ calls'[c].step = calls[c].step
        /\ calls'[c].answer = a /\ calls'[c].guarded = calls[c].guarded
    BY <1>1, <1>2 DEF Answer, Calls, CallRecords
  <2>2. OnlyDrops(calls, calls')
    BY <1>2, <2>1 DEF OnlyDrops, Pending, Granted
  <2> QED
    BY <1>2, <2>2 DEF Quiet, clientVars, historyVars
<1>3. ASSUME NEW c \in CallId, ServeLoad(c) \/ Refuse(c) \/ LoseAnswer(c)
      PROVE  Quiet
  BY <1>2, <1>3 DEF ServeLoad, Refuse, LoseAnswer
<1> QED
  BY <1>3 DEF ServerStep

LEMMA FollowViewKind == ASSUME TypeOK, FollowView PROVE Quiet
<1>1. calls \in Calls
  BY DEF TypeOK, Calls
<1>2. OnlyDrops(calls, calls')
  <2>1. OnlyDrops(calls, [c \in CallId |-> IdleCall])
    BY DEF OnlyDrops, IdleCall, Pending
  <2>2. CASE \E to : Leave(to, Orphaned(calls))
    BY <1>1, <2>2, OrphanedDrops DEF Leave
  <2>3. CASE \E to : Leave(to, [c \in CallId |-> IdleCall])
    BY <2>1, <2>3 DEF Leave
  <2>4. CASE \E s \in Step : GoToStep(s, calls)
    BY <1>1, <2>4, ReloadDrops DEF GoToStep
  <2> QED
    BY <2>2, <2>3, <2>4 DEF FollowView
<1>3. statuses' \in {statuses, NothingCompleted}
  BY DEF FollowView, Leave, NothingCompleted
<1> QED
  BY <1>2, <1>3 DEF FollowView, Quiet

LEMMA ArrivalKinds ==
  ASSUME TypeOK, NEW c \in CallId,
         LoadArrives(c) \/ NextArrives(c) \/ DraftArrives(c)
  PROVE  Quiet \/ Marks(c)
<1> DEFINE call == calls[c]
           rest == [calls EXCEPT ![c] = IdleCall]
           seen == SeenBySave(HandlerOf[call.step], call.answer)
<1>1. rest \in Calls /\ OnlyDrops(calls, rest)
  BY RestType, RestDrops DEF TypeOK, Calls
<1>2. UNCHANGED <<accepted, ahead>>
  BY DEF LoadArrives, NextArrives, DraftArrives
<1>3. \/ \E to : Leave(to, Orphaned(rest))
      \/ \E s : MountAt(s, rest)
      \/ statuses' = statuses /\ calls' = rest
      \/ statuses' = statuses /\ \E e : SetError(e, rest)
      \/ /\ call.phase = "answered" /\ call.op = "next" /\ seen = "ok"
         /\ \E s : Reload(s, rest)
         /\ statuses' = MarkedCompleted(call)
  BY DEF LoadArrives, NextArrives, DraftArrives, SaveFails, GoToStep, Arrives
<1> HIDE DEF rest
<1>4. ASSUME NEW to, Leave(to, Orphaned(rest)) PROVE Quiet
  BY <1>1, <1>2, <1>4, OrphanedDrops, DropsTransitive
     DEF Leave, Quiet, NothingCompleted
<1>5. ASSUME NEW s, MountAt(s, rest) PROVE Quiet
  BY <1>1, <1>2, <1>5, MountAtDrops, DropsTransitive DEF Quiet
<1>6. CASE statuses' = statuses /\ calls' = rest
  BY <1>1, <1>2, <1>6 DEF Quiet
<1>7. ASSUME NEW e, SetError(e, rest), statuses' = statuses PROVE Quiet
  BY <1>1, <1>2, <1>7, SetErrorDrops, DropsTransitive DEF Quiet
<1>8. ASSUME call.phase = "answered", call.op = "next", seen = "ok",
             NEW s, Reload(s, rest), statuses' = MarkedCompleted(call)
      PROVE  Marks(c)
  BY <1>1, <1>2, <1>8, ReloadDrops, DropsTransitive DEF Marks
<1> QED
  BY <1>3, <1>4, <1>5, <1>6, <1>7, <1>8

LEMMA StepKinds ==
  ASSUME TypeOK, [Next]_vars
  PROVE  \/ Quiet
         \/ SubmitStep
         \/ \E c \in CallId : AcceptSave(c) \/ Marks(c)
<1>1. CASE UNCHANGED vars
  BY <1>1, DropsSame DEF vars, Quiet
<1> QED
  BY <1>1, UserStepKinds, ServerStepKinds, FollowViewKind, ArrivalKinds
     DEF Next, ClientStep

(* The two steps that are not quiet, one by one.                           *)
LEMMA SubmitSends ==
  ASSUME TypeOK, SubmitStep
  PROVE  /\ UNCHANGED <<statuses, accepted, ahead>>
         /\ \E c \in CallId :
              /\ calls'[c].phase = "sent" /\ calls'[c].step = current
              /\ calls'[c].guarded => ~isLoading
              /\ \A d \in CallId \ {c} : SameBut(calls[d], calls'[d])
BY SendSaveAdds DEF SubmitStep, Saves, historyVars

LEMMA AcceptSaveDoes ==
  ASSUME TypeOK, NEW c \in CallId, AcceptSave(c)
  PROVE  /\ statuses' = statuses /\ page' = page
         /\ calls[c].phase = "sent" /\ calls[c].step \in Step
         /\ \A d \in CallId :
              /\ calls'[d].op = calls[d].op
              /\ calls'[d].step = calls[d].step
              /\ calls'[d].guarded = calls[d].guarded
              /\ d # c => calls'[d].phase = calls[d].phase
              /\ d # c => calls'[d].answer = calls[d].answer
         /\ calls[c].op = "next" =>
              /\ accepted' = [accepted EXCEPT ![calls[c].step] = TRUE]
              /\ ahead' = IF calls[c].guarded THEN ahead \ {calls[c].step}
                          ELSE IF accepted[calls[c].step] THEN ahead
                               ELSE ahead \cup {calls[c].step}
         /\ calls[c].op # "next" => UNCHANGED <<accepted, ahead>>
BY DEF AcceptSave, Answer, TypeOK, CallRecords, clientVars

LEMMA AcceptedGrows ==
  ASSUME TypeOK, [Next]_vars
  PROVE  \A s \in Step : accepted[s] => accepted'[s]
<1>1. ASSUME NEW c \in CallId, AcceptSave(c)
      PROVE  \A s \in Step : accepted[s] => accepted'[s]
  BY <1>1, AcceptSaveDoes DEF TypeOK
<1>2. CASE Quiet \/ SubmitStep \/ \E c \in CallId : Marks(c)
  BY <1>2 DEF Quiet, SubmitStep, Marks
<1> QED
  BY <1>1, <1>2, StepKinds

-----------------------------------------------------------------------------
(* What the client believes                                                *)

\* A completing save answered with success was accepted.
SavesGranted(cs, acc) ==
  \A c \in CallId : Pending(cs, c) /\ Granted(cs, c) => acc[cs[c].step]

BeliefInv == /\ TypeOK
             /\ CompletedOnlyIfAccepted
             /\ SavesGranted(calls, accepted)

LEMMA DropsKeepGranted ==
  ASSUME NEW cs, NEW ds, NEW acc, SavesGranted(cs, acc), OnlyDrops(cs, ds)
  PROVE  SavesGranted(ds, acc)
BY DEF SavesGranted, OnlyDrops

LEMMA InitBelief == Init => BeliefInv
BY InitType DEF Init, BeliefInv, CompletedOnlyIfAccepted, SavesGranted,
   Pending, IdleCall

LEMMA NextBelief == ASSUME BeliefInv, [Next]_vars PROVE BeliefInv'
<1>1. TypeOK /\ TypeOK'
  BY NextType DEF BeliefInv
<1>2. CASE Quiet
  <2>1. SavesGranted(calls', accepted')
    BY <1>2, DropsKeepGranted DEF Quiet, BeliefInv
  <2>2. CompletedOnlyIfAccepted'
    BY <1>1, <1>2 DEF Quiet, BeliefInv, CompletedOnlyIfAccepted,
       NothingCompleted, TypeOK
  <2> QED
    BY <1>1, <2>1, <2>2 DEF BeliefInv
<1>3. CASE SubmitStep
  <2>1. PICK c \in CallId :
               /\ calls'[c].phase = "sent"
               /\ \A d \in CallId \ {c} : SameBut(calls[d], calls'[d])
    BY <1>1, <1>3, SubmitSends
  <2>2. UNCHANGED <<statuses, accepted>>
    BY <1>3 DEF SubmitStep
  <2>3. SavesGranted(calls', accepted')
    BY <2>1, <2>2 DEF BeliefInv, SavesGranted, Pending, Granted, SameBut
  <2> QED
    BY <1>1, <2>2, <2>3 DEF BeliefInv, CompletedOnlyIfAccepted
<1>4. ASSUME NEW c \in CallId, AcceptSave(c) PROVE BeliefInv'
  <2>1. \A s \in Step : accepted[s] => accepted'[s]
    BY <1>1, AcceptedGrows
  <2>2. calls[c].op = "next" => accepted'[calls[c].step]
    BY <1>1, <1>4, AcceptSaveDoes DEF TypeOK
  <2>3. \A d \in CallId : calls[d].step \in Step
    BY <1>1 DEF TypeOK, CallRecords
  <2>4. SavesGranted(calls', accepted')
    <3> SUFFICES ASSUME NEW d \in CallId, Pending(calls', d), Granted(calls', d)
                 PROVE  accepted'[calls'[d].step]
      BY DEF SavesGranted
    <3>1. CASE d = c
      BY <1>1, <1>4, <2>2, <3>1, AcceptSaveDoes DEF Pending
    <3>2. CASE d # c
      BY <1>1, <1>4, <2>1, <2>3, <3>2, AcceptSaveDoes
         DEF BeliefInv, SavesGranted, Pending, Granted
    <3> QED
      BY <3>1, <3>2
  <2>5. CompletedOnlyIfAccepted'
    BY <1>1, <1>4, <2>1, AcceptSaveDoes DEF BeliefInv, CompletedOnlyIfAccepted
  <2> QED
    BY <1>1, <2>4, <2>5 DEF BeliefInv
<1>5. ASSUME NEW c \in CallId, Marks(c) PROVE BeliefInv'
  <2> DEFINE s == calls[c].step
  <2>1. s \in Step /\ statuses \in [Step -> BOOLEAN]
    BY <1>1 DEF TypeOK, CallRecords
  <2>2. ~SwallowsSaveError(HandlerOf[s]) => accepted[s]
    <3>1. ~SwallowsSaveError(HandlerOf[s]) => calls[c].answer = "ok"
      BY <1>5 DEF Marks, SeenBySave
    <3> QED
      BY <1>5, <3>1 DEF Marks, BeliefInv, SavesGranted, Pending, Granted
  <2>3. \A t \in Step : statuses'[t] => statuses[t] \/ t = s
    BY <1>5, <2>1 DEF Marks, MarkedCompleted
  <2>4. accepted' = accepted
    BY <1>5 DEF Marks
  <2> HIDE DEF s
  <2>5. CompletedOnlyIfAccepted'
    BY <2>2, <2>3, <2>4 DEF BeliefInv, CompletedOnlyIfAccepted
  <2>6. SavesGranted(calls', accepted')
    BY <1>5, DropsKeepGranted DEF Marks, BeliefInv
  <2> QED
    BY <1>1, <2>5, <2>6 DEF BeliefInv
<1> QED
  BY <1>1, <1>2, <1>3, <1>4, <1>5, StepKinds

(* The client holds a step as completed only after the server accepted it  *)
(* (useWizardStepController.ts:204), however saves, loads and navigations  *)
(* overtake each other: no assumption on the wizard or the user.           *)
THEOREM ClientBelievesNoMore == Spec => []CompletedOnlyIfAccepted
<1>1. BeliefInv /\ [Next]_vars => BeliefInv'
  BY NextBelief
<1>2. BeliefInv => CompletedOnlyIfAccepted
  BY DEF BeliefInv
<1> QED
  BY InitBelief, <1>1, <1>2, PTL DEF Spec

-----------------------------------------------------------------------------
(* The order of the steps                                                  *)
(*                                                                         *)
(* The guard says nothing of a save under way while the user navigates, so *)
(* the invariant speaks of every save in flight that was sent without the  *)
(* spinner: the steps before its own were accepted by then.                *)

GuardedSaves(cs, acc) ==
  \A c \in CallId : Pending(cs, c) /\ cs[c].guarded =>
                      \A t \in Step : t < cs[c].step => acc[t]

OrderInv == /\ BeliefInv
            /\ GuardedInOrder
            /\ GuardedSaves(calls, accepted)

LEMMA DropsKeepGuarded ==
  ASSUME NEW cs, NEW ds, NEW acc, GuardedSaves(cs, acc), OnlyDrops(cs, ds)
  PROVE  GuardedSaves(ds, acc)
BY DEF GuardedSaves, OnlyDrops

LEMMA InitOrder == Init => OrderInv
BY InitBelief DEF Init, OrderInv, GuardedInOrder, GuardedSaves, Pending, IdleCall

(* The one action that asks for a completing save: where the guard looked, *)
(* every step before the one on screen was accepted.                       *)
LEMMA SubmitOrder ==
  ASSUME OnlyTheLastHides, OrderInv, BeliefInv', SubmitStep
  PROVE  OrderInv'
<1>1. TypeOK /\ current \in Step
  BY DEF OrderInv, BeliefInv, TypeOK
<1>2. ~isLoading => \A t \in Step : t < current => accepted[t]
  <2>1. ~isLoading => \A t \in Step : t < current => statuses[t]
    BY <1>1, GuardHolds DEF SubmitStep, FormInReach
  <2>2. \A t \in Step : t < current => t < NSteps - 1
    BY <1>1, StepsAssumption DEF Step
  <2> QED
    BY <2>1, <2>2 DEF OrderInv, BeliefInv, CompletedOnlyIfAccepted, OnlyTheLastHides
<1>3. PICK c \in CallId :
             /\ calls'[c].phase = "sent" /\ calls'[c].step = current
             /\ calls'[c].guarded => ~isLoading
             /\ \A d \in CallId \ {c} : SameBut(calls[d], calls'[d])
  BY <1>1, SubmitSends
<1>4. UNCHANGED <<accepted, ahead>>
  BY DEF SubmitStep, historyVars
<1>5. GuardedSaves(calls', accepted')
  <2> SUFFICES ASSUME NEW d \in CallId, Pending(calls', d), calls'[d].guarded,
                      NEW t \in Step, t < calls'[d].step
               PROVE  accepted[t]
    BY <1>4 DEF GuardedSaves
  <2>1. CASE d = c
    BY <1>2, <1>3, <2>1
  <2>2. CASE d # c
    BY <1>3, <2>2 DEF OrderInv, GuardedSaves, Pending, SameBut
  <2> QED
    BY <2>1, <2>2
<1> QED
  BY <1>4, <1>5 DEF OrderInv, GuardedInOrder

(* The one action that accepts: a guarded save finds the steps before it   *)
(* accepted, an unguarded one puts its step on the list of exceptions.     *)
LEMMA AcceptSaveOrder ==
  ASSUME OrderInv, BeliefInv', NEW c \in CallId, AcceptSave(c)
  PROVE  OrderInv'
<1>1. TypeOK /\ accepted \in [Step -> BOOLEAN] /\ calls[c].step \in Step
  BY DEF OrderInv, BeliefInv, TypeOK, CallRecords
<1>2. \A s \in Step : accepted[s] => accepted'[s]
  BY <1>1, AcceptSaveDoes
<1>3. GuardedInOrder'
  <2>1. CASE calls[c].op = "next"
    <3> DEFINE r == calls[c].step
    <3>1. accepted' = [accepted EXCEPT ![r] = TRUE]
      BY <1>1, <2>1, AcceptSaveDoes
    <3>2. \A s \in Step : accepted'[s] => accepted[s] \/ s = r
      BY <1>1, <3>1
    <3>3. CASE calls[c].guarded
      <4>1. ahead' = ahead \ {r}
        BY <1>1, <2>1, <3>3, AcceptSaveDoes
      <4>2. \A t \in Step : t < r => accepted[t]
        BY <1>1, <2>1, <3>3, AcceptSaveDoes DEF OrderInv, GuardedSaves, Pending
      <4> HIDE DEF r
      <4> SUFFICES ASSUME NEW s \in Step, NEW t \in Step, t < s, accepted'[s],
                          s \notin ahead'
                   PROVE  accepted'[t]
        BY DEF GuardedInOrder
      <4>3. CASE s = r
        BY <1>2, <4>2, <4>3
      <4>4. CASE s # r
        BY <1>2, <3>2, <4>1, <4>4 DEF OrderInv, GuardedInOrder
      <4> QED
        BY <4>3, <4>4
    <3>4. CASE ~calls[c].guarded
      <4>1. ahead' = IF accepted[r] THEN ahead ELSE ahead \cup {r}
        BY <1>1, <2>1, <3>4, AcceptSaveDoes
      <4> HIDE DEF r
      <4>2. \A s \in Step : accepted'[s] /\ s \notin ahead' =>
                              accepted[s] /\ s \notin ahead
        BY <3>2, <4>1
      <4> QED
        BY <1>2, <4>2 DEF OrderInv, GuardedInOrder
    <3> QED
      BY <3>3, <3>4
  <2>2. CASE calls[c].op # "next"
    BY <1>1, <2>2, AcceptSaveDoes DEF OrderInv, GuardedInOrder
  <2> QED
    BY <2>1, <2>2
<1>4. GuardedSaves(calls', accepted')
  <2> SUFFICES ASSUME NEW d \in CallId, Pending(calls', d), calls'[d].guarded,
                      NEW t \in Step, t < calls'[d].step
               PROVE  accepted'[t]
    BY DEF GuardedSaves
  <2>1. Pending(calls, d)
    BY <1>1, AcceptSaveDoes DEF Pending
  <2>2. calls[d].guarded /\ t < calls[d].step
    BY <1>1, AcceptSaveDoes
  <2> QED
    BY <1>2, <2>1, <2>2 DEF OrderInv, GuardedSaves
<1> QED
  BY <1>3, <1>4 DEF OrderInv

LEMMA NextOrder ==
  ASSUME OnlyTheLastHides, OrderInv, [Next]_vars
  PROVE  OrderInv'
<1>1. TypeOK /\ BeliefInv'
  BY NextBelief DEF OrderInv, BeliefInv
<1>2. CASE Quiet \/ \E c \in CallId : Marks(c)
  <2>1. UNCHANGED <<accepted, ahead>> /\ OnlyDrops(calls, calls')
    BY <1>2 DEF Quiet, Marks
  <2>2. GuardedSaves(calls', accepted')
    BY <2>1, DropsKeepGuarded DEF OrderInv
  <2> QED
    BY <1>1, <2>1, <2>2 DEF OrderInv, GuardedInOrder
<1> QED
  BY <1>1, <1>2, StepKinds, SubmitOrder, AcceptSaveOrder

(* A step is accepted before one in front of it only for a save sent under *)
(* the spinner: where it looks, the linear guard is enough                 *)
(* (useWizardStepController.ts:340), if no step but the last hides a       *)
(* refusal, which is so in every wizard of the code.                       *)
THEOREM GuardKeepsOrder ==
  ASSUME OnlyTheLastHides
  PROVE  Spec => []GuardedInOrder
<1>1. OrderInv /\ [Next]_vars => OrderInv'
  BY NextOrder
<1>2. OrderInv => GuardedInOrder
  BY DEF OrderInv
<1> QED
  BY InitOrder, <1>1, <1>2, PTL DEF Spec

-----------------------------------------------------------------------------
(* The completion page                                                     *)

LEMMA OthersDoNotComplete ==
  ASSUME TypeOK, [Next]_vars, \A c \in CallId : ~NextArrives(c)
  PROVE  page' = "completion" => page = "completion"
<1>1. CASE UserStep
  BY <1>1 DEF UserStep, EnterWizard, BrowserHistory, SubmitStep,
     SaveAndExitStep, PreviousStep, Cancel, ParentRerender, MountAt, GoToStep,
     Leave
<1>2. CASE ServerStep
  BY <1>2 DEF ServerStep, ServeLoad, AcceptSave, Refuse, LoseAnswer, clientVars
<1>3. CASE FollowView
  <2>1. errorState.kind = "redirect" => errorState.to \in RedirectTargets
    BY DEF TypeOK, ErrorStates, ErrorKinds
  <2>2. LeaveTo(errorState) # "completion"
    BY <2>1 DEF LeaveTo, RedirectTargets
  <2> QED
    BY <1>3, <2>2 DEF FollowView, Leave, GoToStep
<1>4. ASSUME NEW c \in CallId, LoadArrives(c) \/ DraftArrives(c)
      PROVE  page' = "completion" => page = "completion"
  BY <1>4 DEF LoadArrives, DraftArrives, Leave, SaveFails
<1>5. CASE UNCHANGED vars
  BY <1>5 DEF vars
<1> QED
  BY <1>1, <1>2, <1>3, <1>4, <1>5 DEF Next, ClientStep

(* Only the last step leads to the completion page, and only a save of it  *)
(* that the server accepted.                                               *)
LEMMA LastStepCompletes ==
  ASSUME LastDoesNotHide, BeliefInv, [Next]_vars, page' = "completion"
  PROVE  page = "completion" \/ accepted[NSteps - 1]
<1>1. TypeOK
  BY DEF BeliefInv
<1>2. ASSUME NEW c \in CallId, NextArrives(c), page # "completion"
      PROVE  accepted[NSteps - 1]
  <2> DEFINE call == calls[c]
             seen == SeenBySave(HandlerOf[call.step], call.answer)
  <2>1. call.phase = "answered" /\ call.op = "next"
    BY <1>2 DEF NextArrives, Arrives
  <2>2. seen = "ok" /\ call.step = NSteps - 1
    BY <1>2 DEF NextArrives, GoToStep, MountAt, SaveFails
  <2>3. call.answer = "ok"
    BY <2>2 DEF SeenBySave, LastDoesNotHide
  <2> QED
    BY <2>1, <2>2, <2>3 DEF BeliefInv, SavesGranted, Pending, Granted
<1> QED
  BY <1>1, <1>2, OthersDoNotComplete

(* If the last step does not hide the refusal of its save, the completion  *)
(* page means that the server accepted the last step, whatever else the    *)
(* user saved, left or opened again meanwhile.                             *)
THEOREM CompletionIsReal ==
  ASSUME LastDoesNotHide
  PROVE  Spec => []CompletionMeansSubmitted
<1>1. Init => BeliefInv /\ CompletionMeansSubmitted
  BY InitBelief DEF Init, CompletionMeansSubmitted
<1>2. BeliefInv /\ CompletionMeansSubmitted /\ [Next]_vars
        => BeliefInv' /\ CompletionMeansSubmitted'
  <2> SUFFICES ASSUME BeliefInv, CompletionMeansSubmitted, [Next]_vars
               PROVE  BeliefInv' /\ CompletionMeansSubmitted'
    OBVIOUS
  <2>1. NSteps - 1 \in Step
    BY StepsAssumption DEF Step
  <2>2. accepted[NSteps - 1] => accepted'[NSteps - 1]
    BY <2>1, AcceptedGrows DEF BeliefInv
  <2>3. page' = "completion" => accepted[NSteps - 1]
    BY LastStepCompletes DEF CompletionMeansSubmitted
  <2> QED
    BY <2>2, <2>3, NextBelief DEF CompletionMeansSubmitted
<1> QED
  BY <1>1, <1>2, PTL DEF Spec

-----------------------------------------------------------------------------
(* The refinement of Submission                                            *)

(* A step that leaves the server's record alone only moves the client.     *)
LEMMA QuietStepBelieves ==
  ASSUME NoneHides, OrderInv, OrderInv', [Next]_vars, UNCHANGED <<accepted, ahead>>
  PROVE  Promise!Believe
<1>1. {s \in Step : statuses'[s]} \subseteq {s \in Step : accepted[s]}
  BY DEF OrderInv, BeliefInv, CompletedOnlyIfAccepted, NoneHides
<1>2. NSteps - 1 \in Step /\ \A s \in Step : s < NSteps - 1 \/ s = NSteps - 1
  BY StepsAssumption DEF Step
<1>3. page' = "completion" => page = "completion" \/ accepted[NSteps - 1]
  BY <1>2, LastStepCompletes DEF OrderInv, NoneHides, LastDoesNotHide
<1>4. accepted[NSteps - 1] =>
        NSteps - 1 \in ahead \/ {s \in Step : accepted[s]} = Step
  BY <1>2 DEF OrderInv, GuardedInOrder
<1>5. Promise!Step = Step /\ Promise!Last = NSteps - 1
  BY DEF Promise!Step, Promise!Last, Step
<1>6. {s \in Step : accepted'[s]} = {s \in Step : accepted[s]}
  OBVIOUS
<1> QED
  BY <1>1, <1>2, <1>3, <1>4, <1>5, <1>6 DEF Promise!Believe

(* The server's step grants the step of a save, in its turn or ahead of it.*)
LEMMA AcceptSaveGrants ==
  ASSUME OrderInv, NEW c \in CallId, AcceptSave(c)
  PROVE  [Promise!Next]_(Promise!vars)
<1>0. PICK r \in Step : r = calls[c].step
  BY DEF OrderInv, BeliefInv, TypeOK, CallRecords
<1> DEFINE before == {t \in Step : accepted[t]}
           after == {t \in Step : accepted'[t]}
<1>1. /\ TypeOK /\ accepted \in [Step -> BOOLEAN]
      /\ Promise!Step = Step
  BY DEF OrderInv, BeliefInv, TypeOK, Promise!Step, Step
<1>2. UNCHANGED <<statuses, page>>
  BY <1>1, AcceptSaveDoes
<1>3. CASE calls[c].op # "next" \/ (~calls[c].guarded /\ accepted[r])
  <2>1. after = before /\ ahead' = ahead
    BY <1>0, <1>1, <1>3, AcceptSaveDoes
  <2> QED
    BY <1>2, <2>1 DEF Promise!vars
<1>4. CASE calls[c].op = "next"
  <2>1. after = before \union {r}
    BY <1>0, <1>1, <1>4, AcceptSaveDoes
  <2>2. CASE calls[c].guarded
    <3>1. \A t \in Step : t < r => t \in before
      BY <1>0, <1>1, <1>4, <2>2, AcceptSaveDoes DEF OrderInv, GuardedSaves, Pending
    <3>2. ahead' = ahead \ {r}
      BY <1>0, <1>1, <1>4, <2>2, AcceptSaveDoes
    <3> HIDE DEF before, after
    <3>3. Promise!Grant(r)
      BY <1>1, <1>2, <2>1, <3>1, <3>2 DEF Promise!Grant, before, after
    <3> QED
      BY <1>1, <3>3 DEF Promise!Next
  <2>3. CASE ~calls[c].guarded /\ ~accepted[r]
    <3>1. r \notin before /\ ahead' = ahead \union {r}
      BY <1>0, <1>1, <1>4, <2>3, AcceptSaveDoes
    <3> HIDE DEF before, after
    <3>2. Promise!GrantAhead(r)
      BY <1>1, <1>2, <2>1, <3>1 DEF Promise!GrantAhead, before, after
    <3> QED
      BY <1>1, <3>2 DEF Promise!Next
  <2> QED
    BY <1>3, <1>4, <2>2, <2>3
<1> QED
  BY <1>3, <1>4

(* Every step of the wizard is a step of Submission, or changes nothing    *)
(* that Submission speaks of: history, late answers, remounts and saves    *)
(* sent under the spinner included.                                        *)
THEOREM WizardKeepsThePromise ==
  ASSUME NoneHides
  PROVE  Spec => ImplementsSubmission
<1>1. Init => Promise!Init
  BY DEF Init, Promise!Init
<1>2. OrderInv /\ [Next]_vars => OrderInv'
  BY NextOrder DEF OnlyTheLastHides, NoneHides
<1>3. OrderInv /\ OrderInv' /\ [Next]_vars => [Promise!Next]_(Promise!vars)
  <2> SUFFICES ASSUME OrderInv, OrderInv', [Next]_vars
               PROVE  [Promise!Next]_(Promise!vars)
    OBVIOUS
  <2>1. CASE \E c \in CallId : AcceptSave(c)
    BY <2>1, AcceptSaveGrants
  <2>2. CASE Quiet \/ SubmitStep \/ \E c \in CallId : Marks(c)
    <3>1. UNCHANGED <<accepted, ahead>>
      BY <2>2 DEF Quiet, SubmitStep, Marks, historyVars
    <3> QED
      BY <3>1, QuietStepBelieves DEF Promise!Next
  <2> QED
    BY <2>1, <2>2, StepKinds DEF OrderInv, BeliefInv
<1> QED
  BY InitOrder, <1>1, <1>2, <1>3, PTL DEF Spec, ImplementsSubmission, Promise!Spec

-----------------------------------------------------------------------------
(* Conflicts                                                               *)
(*                                                                         *)
(* The effect on a conflict runs when the kind of the error changes to it, *)
(* so a conflict that follows another unseen sends no load.  Each save     *)
(* clears the error when it is sent; while it is the only one whose step   *)
(* is mounted, nothing but its own answer reports a conflict, since a load *)
(* has nothing to conflict with.                                           *)

ReadsMeetNoConflict(cs) ==
  \A c \in CallId : cs[c].phase = "answered" /\ cs[c].op = "load" =>
                      cs[c].answer # "conflict"

LonelySaves(cs, e) ==
  \A c \in CallId : LiveSave(cs, c) /\ cs[c].alone =>
    /\ e.kind # "concurrency"
    /\ \A d \in CallId : LiveSave(cs, d) => d = c

ConflictInv ==
  TypeOK /\ ReadsMeetNoConflict(calls) /\ LonelySaves(calls, errorState)

(* Only a conflict resolves to the conflict banner.                        *)
LEMMA OnlyConflicts ==
  ASSUME NEW h, NEW e, NEW phase,
         ResolveErrorState(h, e, phase).kind = "concurrency"
  PROVE  e = "conflict"
BY DEF ResolveErrorState, ResolveForbidden, ErrorOf, NoError

LEMMA NoErrorKind == NoError.kind = "none"
BY DEF NoError, ErrorOf

\* What an action may do to the calls without a reader noticing a conflict
\* or a save that was not there: loads may be sent, calls may end.
Tame(cs, ds) ==
  \A c \in CallId :
    /\ LiveSave(ds, c) => LiveSave(cs, c) /\ (ds[c].alone => cs[c].alone)
    /\ ds[c].phase = "answered" /\ ds[c].op = "load" =>
         \/ ds[c].answer # "conflict"
         \/ cs[c].phase = "answered" /\ cs[c].op = "load" /\ cs[c].answer = "conflict"

LEMMA TameSame == ASSUME NEW cs PROVE Tame(cs, cs)
BY DEF Tame

LEMMA TameTransitive ==
  ASSUME NEW cs, NEW ds, NEW es, Tame(cs, ds), Tame(ds, es)
  PROVE  Tame(cs, es)
BY DEF Tame

LEMMA RestTame ==
  ASSUME NEW cs \in Calls, NEW c \in CallId
  PROVE  Tame(cs, [cs EXCEPT ![c] = IdleCall])
BY DEF Tame, Calls, IdleCall, LiveSave

LEMMA OrphanedTame ==
  ASSUME NEW cs \in Calls PROVE Tame(cs, Orphaned(cs))
BY DEF Tame, Orphaned, Calls, CallRecords, IdleCall, LiveSave

LEMMA RequestTame ==
  ASSUME NEW cs \in Calls, NEW c \in CallId, NEW s
  PROVE  Tame(cs, [cs EXCEPT ![c] = LoadRequest(s)])
BY DEF Tame, Calls, LoadRequest, IdleCall, LiveSave, Saves

LEMMA ReloadTame ==
  ASSUME NEW s, NEW cs \in Calls, Reload(s, cs)
  PROVE  Tame(cs, calls') /\ errorState'.kind # "concurrency"
BY NoErrorKind DEF Tame, Reload, Calls, LoadRequest, IdleCall, LiveSave, Saves

LEMMA MountAtTame ==
  ASSUME NEW s, NEW cs \in Calls, MountAt(s, cs)
  PROVE  Tame(cs, calls') /\ errorState'.kind # "concurrency"
<1>1. PICK c \in Least(Free(cs)) : calls' = [cs EXCEPT ![c] = LoadRequest(s)]
  BY DEF MountAt
<1> QED
  BY <1>1, RequestTame, LeastIsFree, NoErrorKind DEF MountAt

LEMMA SetErrorTame ==
  ASSUME NEW e, NEW cs \in Calls, SetError(e, cs)
  PROVE  Tame(cs, calls')
<1>1. CASE calls' = cs
  BY <1>1, TameSame
<1>2. CASE calls' # cs
  <2>1. PICK c \in Least(Free(cs)) :
               calls' = [cs EXCEPT ![c] = LoadRequest(current)]
    BY <1>2 DEF SetError
  <2> QED
    BY <2>1, RequestTame, LeastIsFree
<1> QED
  BY <1>1, <1>2

(* An answer of the server is a conflict only to a save.                   *)
LEMMA AnswerTame ==
  ASSUME TypeOK, NEW c \in CallId, NEW a, calls[c].phase # "idle",
         a = "conflict" => calls[c].op \in Saves
  PROVE  Tame(calls, Answer(c, a))
BY DEF Tame, Answer, TypeOK, CallRecords, Saves, LiveSave

(* A step that is tame and reports no conflict of its own keeps the        *)
(* invariant.                                                              *)
LEMMA TameStep ==
  ASSUME ConflictInv, TypeOK', Tame(calls, calls'),
         errorState' = errorState \/ errorState'.kind # "concurrency"
  PROVE  ConflictInv'
<1>1. ReadsMeetNoConflict(calls')
  BY DEF ConflictInv, ReadsMeetNoConflict, Tame
<1>2. LonelySaves(calls', errorState')
  <2> SUFFICES ASSUME NEW c \in CallId, LiveSave(calls', c), calls'[c].alone
               PROVE  /\ errorState'.kind # "concurrency"
                      /\ \A d \in CallId : LiveSave(calls', d) => d = c
    BY DEF LonelySaves
  <2>1. LiveSave(calls, c) /\ calls[c].alone
    BY DEF Tame
  <2> QED
    BY <2>1 DEF ConflictInv, LonelySaves, Tame
<1> QED
  BY <1>1, <1>2 DEF ConflictInv

LEMMA UserStepConflict ==
  ASSUME ConflictInv, UserStep PROVE ConflictInv'
<1>1. TypeOK /\ calls \in Calls /\ TypeOK'
  BY UserStepType DEF ConflictInv, TypeOK, Calls
<1>2. ASSUME NEW s \in Step, EnterWizard(s) \/ BrowserHistory(s)
      PROVE  ConflictInv'
  BY <1>1, <1>2, MountAtTame, ReloadTame, TameStep
     DEF EnterWizard, BrowserHistory, GoToStep
<1>3. ASSUME NEW op \in Saves, SendSave(op), errorState' = NoError
      PROVE  ConflictInv'
  <2>1. PICK c \in CallId :
               /\ calls'[c].phase = "sent" /\ calls'[c].op = op
               /\ calls'[c].alone => \A x \in CallId : ~LiveSave(calls, x)
               /\ \A x \in CallId \ {c} :
                    /\ SameBut(calls[x], calls'[x])
                    /\ calls'[x].alone => calls[x].alone /\ ~LiveSave(calls, x)
    BY <1>1, <1>3, SendSaveAdds
  <2>2. \A x \in CallId \ {c} : LiveSave(calls', x) => LiveSave(calls, x)
    BY <2>1 DEF LiveSave, SameBut
  <2>3. ReadsMeetNoConflict(calls')
    BY <2>1 DEF ConflictInv, ReadsMeetNoConflict, SameBut
  <2>4. LonelySaves(calls', errorState')
    BY <1>3, <2>1, <2>2, NoErrorKind DEF LonelySaves
  <2> QED
    BY <1>1, <2>3, <2>4 DEF ConflictInv
<1>4. CASE SubmitStep
  BY <1>3, <1>4 DEF SubmitStep, Saves
<1>5. CASE SaveAndExitStep
  <2>1. CASE SavesDraft(HandlerOf[current])
    BY <1>3, <1>5, <2>1 DEF SaveAndExitStep, Saves
  <2>2. CASE ~SavesDraft(HandlerOf[current])
    BY <1>1, <1>5, <2>2, OrphanedTame, TameStep, NoErrorKind
       DEF SaveAndExitStep, Leave
  <2> QED
    BY <2>1, <2>2
<1>6. CASE PreviousStep \/ ParentRerender
  BY <1>1, <1>6, ReloadTame, TameStep DEF PreviousStep, ParentRerender, GoToStep
<1>7. CASE Cancel
  BY <1>1, <1>7, OrphanedTame, TameStep, NoErrorKind DEF Cancel, Leave
<1> QED
  BY <1>2, <1>4, <1>5, <1>6, <1>7 DEF UserStep

LEMMA ServerStepConflict ==
  ASSUME ConflictInv, ServerStep PROVE ConflictInv'
<1>1. TypeOK /\ TypeOK'
  BY ServerStepType DEF ConflictInv
<1>2. ASSUME NEW c \in CallId,
             ServeLoad(c) \/ AcceptSave(c) \/ Refuse(c) \/ LoseAnswer(c)
      PROVE  ConflictInv'
  <2>1. PICK a : /\ calls' = Answer(c, a)
                 /\ a = "conflict" => calls[c].op \in Saves
    BY <1>2 DEF ServeLoad, AcceptSave, Refuse, LoseAnswer
  <2>2. calls[c].phase # "idle" /\ errorState' = errorState
    BY <1>2 DEF ServeLoad, AcceptSave, Refuse, LoseAnswer, clientVars
  <2> QED
    BY <1>1, <2>1, <2>2, AnswerTame, TameStep
<1> QED
  BY <1>2 DEF ServerStep

LEMMA FollowViewConflict ==
  ASSUME ConflictInv, FollowView PROVE ConflictInv'
<1>1. TypeOK /\ calls \in Calls /\ TypeOK'
  BY FollowViewType DEF ConflictInv, TypeOK, Calls
<1>2. Tame(calls, [c \in CallId |-> IdleCall])
  BY DEF Tame, IdleCall, LiveSave
<1> QED
  BY <1>1, <1>2, OrphanedTame, ReloadTame, TameStep, NoErrorKind
     DEF FollowView, Leave, GoToStep

LEMMA LoadArrivesConflict ==
  ASSUME ConflictInv, NEW c \in CallId, LoadArrives(c) PROVE ConflictInv'
<1> DEFINE rest == [calls EXCEPT ![c] = IdleCall]
           seen == SeenByLoad(HandlerOf[calls[c].step], calls[c].answer)
           e == ResolveErrorState(HandlerOf[calls[c].step], seen, "Load")
<1>1. TypeOK /\ calls \in Calls /\ TypeOK'
  BY LoadArrivesType DEF ConflictInv, TypeOK, Calls
<1>2. Tame(calls, rest)
  BY <1>1, RestTame
<1>3. seen # "conflict"
  BY DEF LoadArrives, Arrives, SeenByLoad, ConflictInv, ReadsMeetNoConflict
<1>4. e.kind # "concurrency"
  BY <1>3, OnlyConflicts
<1>5. calls' = rest /\ (errorState' = errorState \/ errorState' = e)
  BY <1>4 DEF LoadArrives, SetError
<1> QED
  BY <1>1, <1>2, <1>4, <1>5, TameStep

(* A save of the mounted step that shared its flight with no other one and *)
(* is refused for a conflict sends a load of the step shown.               *)
LEMMA RefusedSave ==
  ASSUME ConflictInv, NEW c \in CallId, NextArrives(c) \/ DraftArrives(c),
         calls[c].live, calls[c].alone, errorState'.kind = "concurrency"
  PROVE  \E d \in CallId : /\ calls[d].phase # "sent"
                           /\ calls'[d] = LoadRequest(current)
<1> DEFINE call == calls[c]
           rest == [calls EXCEPT ![c] = IdleCall]
           seen == SeenBySave(HandlerOf[call.step], call.answer)
<1>1. TypeOK /\ calls \in Calls /\ call.phase = "answered" /\ call.op \in Saves
  BY DEF ConflictInv, TypeOK, Calls, NextArrives, DraftArrives, Arrives, Saves
<1>2. SaveFails(call, seen, rest)
  BY NoErrorKind DEF NextArrives, DraftArrives, Leave, GoToStep, Reload, MountAt
<1>3. errorState.kind # "concurrency"
  BY <1>1 DEF ConflictInv, LonelySaves, LiveSave
<1>4. PICK d \in Least(Free(rest)) :
             calls' = [rest EXCEPT ![d] = LoadRequest(current)]
  BY <1>2, <1>3 DEF SaveFails, SetError
<1>5. d \in CallId /\ rest \in Calls /\ rest[d].phase = "idle"
  BY <1>1, <1>4, RestType, LeastIsFree
<1>6. calls'[d] = LoadRequest(current)
  BY <1>4, <1>5 DEF Calls
<1>7. calls[d].phase # "sent"
  BY <1>1, <1>5 DEF Calls
<1> QED
  BY <1>5, <1>6, <1>7

LEMMA SaveArrivesConflict ==
  ASSUME ConflictInv, NEW c \in CallId, NextArrives(c) \/ DraftArrives(c)
  PROVE  ConflictInv'
<1> DEFINE rest == [calls EXCEPT ![c] = IdleCall]
           seen == SeenBySave(HandlerOf[calls[c].step], calls[c].answer)
<1>1. TypeOK /\ calls \in Calls /\ rest \in Calls /\ TypeOK'
  BY NextArrivesType, DraftArrivesType, RestType DEF ConflictInv, TypeOK, Calls
<1>2. Tame(calls, rest)
  BY <1>1, RestTame
<1>3. \/ \E to : Leave(to, Orphaned(rest))
      \/ \E s : Reload(s, rest)
      \/ \E s : MountAt(s, rest)
      \/ ~calls[c].live /\ calls' = rest /\ errorState' = errorState
      \/ calls[c].live /\ \E e : SetError(e, rest)
  BY DEF NextArrives, DraftArrives, SaveFails, GoToStep
<1>4. calls[c].phase = "answered" /\ calls[c].op \in Saves
  BY DEF NextArrives, DraftArrives, Arrives, Saves
<1>5. \A d \in CallId : LiveSave(rest, d) => d # c /\ rest[d] = calls[d]
  BY <1>1 DEF LiveSave, IdleCall, Calls
<1> HIDE DEF rest
<1>6. ASSUME NEW e, SetError(e, rest), calls[c].live PROVE ConflictInv'
  <2>1. Tame(rest, calls')
    BY <1>1, <1>6, SetErrorTame
  <2>2. Tame(calls, calls')
    BY <1>2, <2>1, TameTransitive
  <2>3. ReadsMeetNoConflict(calls')
    BY <2>2 DEF ConflictInv, ReadsMeetNoConflict, Tame
  <2>4. \A d \in CallId : LiveSave(calls', d) => ~calls'[d].alone
    <3> SUFFICES ASSUME NEW d \in CallId, LiveSave(calls', d), calls'[d].alone
                 PROVE  FALSE
      OBVIOUS
    <3>1. LiveSave(rest, d) /\ LiveSave(calls, d) /\ calls[d].alone
      BY <2>1, <2>2 DEF Tame
    <3>2. LiveSave(calls, c) /\ d # c
      BY <1>4, <1>5, <1>6, <3>1 DEF LiveSave
    <3> QED
      BY <3>1, <3>2 DEF ConflictInv, LonelySaves
  <2> QED
    BY <1>1, <2>3, <2>4 DEF ConflictInv, LonelySaves
<1>7. CASE ~(calls[c].live /\ \E e : SetError(e, rest))
  <2>1. /\ Tame(rest, calls')
        /\ errorState' = errorState \/ errorState'.kind # "concurrency"
    BY <1>1, <1>3, <1>7, OrphanedTame, ReloadTame, MountAtTame, TameSame,
       NoErrorKind DEF Leave
  <2> QED
    BY <1>1, <1>2, <2>1, TameTransitive, TameStep
<1> QED
  BY <1>6, <1>7

LEMMA NextConflict ==
  ASSUME ConflictInv, [Next]_vars PROVE ConflictInv'
<1>1. CASE UNCHANGED vars
  <2>1. TypeOK'
    BY <1>1, NextType DEF ConflictInv
  <2> QED
    BY <1>1, <2>1, TameSame, TameStep DEF vars
<1> QED
  BY <1>1, UserStepConflict, ServerStepConflict, FollowViewConflict,
     LoadArrivesConflict, SaveArrivesConflict DEF Next, ClientStep

(* Every conflict the mounted step is told of sends a load of the step     *)
(* shown (useWizardStepController.ts:144), the second in a row too and     *)
(* whatever loads and saves of steps left behind are under way: for every  *)
(* save that was in flight with no other of the same component.            *)
THEOREM ConflictsReload == Spec => ConflictReloads
<1>1. Init => ConflictInv
  BY InitType DEF Init, ConflictInv, ReadsMeetNoConflict, LonelySaves, LiveSave,
     IdleCall
<1>2. ConflictInv /\ [Next]_vars => ConflictInv'
  BY NextConflict
<1> DEFINE Reloads ==
      \A c \in CallId :
        (/\ NextArrives(c) \/ DraftArrives(c)
         /\ calls[c].live /\ calls[c].alone
         /\ errorState'.kind = "concurrency")
          => \E d \in CallId : /\ calls[d].phase # "sent"
                               /\ calls'[d] = LoadRequest(current)
<1>3. ConflictInv /\ [Next]_vars => [Reloads]_vars
  BY RefusedSave
<1> QED
  BY <1>1, <1>2, <1>3, PTL DEF Spec, ConflictReloads

-----------------------------------------------------------------------------
(* Loads                                                                   *)
(*                                                                         *)
(* The spinner for a load, and the values of another step in the form,     *)
(* have a load behind them, whatever navigations, conflicts and re-renders *)
(* started or ended beside it.                                             *)

SpinnerHasALoad == isLoading => LoadUnderWay(calls)

ValuesComing == page = "wizard" /\ ~astray =>
                  stepValues = current \/ LoadUnderWay(calls)

\* What a step does to the loads: one is under way, or the wizard is left, or
\* they go on beside it, or one ended.
LoadsGoOn ==
  \/ LoadUnderWay(calls')
  \/ isLoading' = FALSE /\ page' # "wizard"
  \/ /\ UNCHANGED <<page, current, stepValues, isLoading, astray>>
     /\ LoadUnderWay(calls) => LoadUnderWay(calls')
  \/ isLoading' = FALSE /\ (astray' \/ stepValues' = current')

LEMMA RequestIsALoad ==
  ASSUME NEW s, NEW cs \in Calls, NEW c \in CallId
  PROVE  LoadUnderWay([cs EXCEPT ![c] = LoadRequest(s)])
BY DEF LoadUnderWay, LoadRequest, IdleCall, Calls

LEMMA ReloadLoads ==
  ASSUME NEW s, NEW cs, Reload(s, cs) PROVE LoadUnderWay(calls')
BY LeastIsFree DEF LoadUnderWay, Reload, LoadRequest, IdleCall

LEMMA MountAtLoads ==
  ASSUME NEW s, NEW cs \in Calls, MountAt(s, cs) PROVE LoadUnderWay(calls')
<1>1. PICK c \in Least(Free(cs)) : calls' = [cs EXCEPT ![c] = LoadRequest(s)]
  BY DEF MountAt
<1>2. c \in CallId
  BY LeastIsFree
<1> QED
  BY <1>1, <1>2, RequestIsALoad

LEMMA SetErrorLoads ==
  ASSUME NEW e, NEW cs \in Calls, LoadUnderWay(cs), SetError(e, cs)
  PROVE  LoadUnderWay(calls')
BY RequestIsALoad, LeastIsFree DEF SetError

LEMMA AnswerLoads ==
  ASSUME NEW c \in CallId, NEW a, TypeOK, LoadUnderWay(calls)
  PROVE  LoadUnderWay(Answer(c, a))
BY DEF LoadUnderWay, Answer, TypeOK, CallRecords

LEMMA SendSaveLoads ==
  ASSUME TypeOK, NEW op \in Saves, SendSave(op), LoadUnderWay(calls)
  PROVE  LoadUnderWay(calls')
BY SendSaveAdds DEF LoadUnderWay, SameBut

LEMMA UserStepLoads ==
  ASSUME TypeOK, UserStep PROVE LoadsGoOn
<1>1. calls \in Calls
  BY DEF TypeOK, Calls
<1>2. ASSUME NEW s \in Step, EnterWizard(s) \/ BrowserHistory(s)
      PROVE  LoadsGoOn
  BY <1>1, <1>2, MountAtLoads, ReloadLoads
     DEF EnterWizard, BrowserHistory, GoToStep, LoadsGoOn
<1>3. CASE SubmitStep
  BY <1>3, SendSaveLoads DEF SubmitStep, Saves, historyVars, LoadsGoOn
<1>4. CASE SaveAndExitStep
  <2>1. CASE SavesDraft(HandlerOf[current])
    BY <1>4, <2>1, SendSaveLoads DEF SaveAndExitStep, Saves, LoadsGoOn
  <2>2. CASE ~SavesDraft(HandlerOf[current])
    BY <1>4, <2>2 DEF SaveAndExitStep, Leave, LoadsGoOn
  <2> QED
    BY <2>1, <2>2
<1>5. CASE PreviousStep \/ ParentRerender
  BY <1>5, ReloadLoads DEF PreviousStep, ParentRerender, GoToStep, LoadsGoOn
<1>6. CASE Cancel
  BY <1>6 DEF Cancel, Leave, LoadsGoOn
<1> QED
  BY <1>2, <1>3, <1>4, <1>5, <1>6 DEF UserStep

LEMMA ServerStepLoads == ASSUME TypeOK, ServerStep PROVE LoadsGoOn
<1>1. PICK c \in CallId :
             ServeLoad(c) \/ AcceptSave(c) \/ Refuse(c) \/ LoseAnswer(c)
  BY DEF ServerStep
<1>2. \E a : calls' = Answer(c, a)
  BY <1>1 DEF ServeLoad, AcceptSave, Refuse, LoseAnswer
<1>3. UNCHANGED <<page, current, stepValues, isLoading, astray>>
  BY <1>1 DEF ServeLoad, AcceptSave, Refuse, LoseAnswer, clientVars, historyVars
<1> QED
  BY <1>2, <1>3, AnswerLoads DEF LoadsGoOn

LEMMA FollowViewLoads == ASSUME TypeOK, FollowView PROVE LoadsGoOn
<1>1. errorState.kind = "redirect" => errorState.to \in RedirectTargets
  BY DEF TypeOK, ErrorStates, ErrorKinds
<1>2. LeaveTo(errorState) # "wizard"
  BY <1>1 DEF LeaveTo, RedirectTargets
<1> QED
  BY <1>2, ReloadLoads DEF FollowView, Leave, GoToStep, LoadsGoOn

LEMMA SaveArrivesLoads ==
  ASSUME TypeOK, NEW c \in CallId, NextArrives(c) \/ DraftArrives(c)
  PROVE  LoadsGoOn
<1> DEFINE rest == [calls EXCEPT ![c] = IdleCall]
<1>1. rest \in Calls
  BY RestType
<1>2. LoadUnderWay(calls) => LoadUnderWay(rest)
  BY DEF LoadUnderWay, NextArrives, DraftArrives, Arrives, TypeOK
<1>3. \/ isLoading' = FALSE /\ page' # "wizard"
      \/ \E s : Reload(s, rest)
      \/ \E s : MountAt(s, rest)
      \/ /\ UNCHANGED <<page, current, stepValues, isLoading, astray>>
         /\ calls' = rest \/ \E e : SetError(e, rest)
  BY DEF NextArrives, DraftArrives, SaveFails, Leave, GoToStep
<1> HIDE DEF rest
<1> QED
  BY <1>1, <1>2, <1>3, ReloadLoads, MountAtLoads, SetErrorLoads DEF LoadsGoOn

LEMMA LoadArrivesLoads ==
  ASSUME NEW c \in CallId, LoadArrives(c) PROVE LoadsGoOn
BY DEF LoadArrives, LoadingDone, LoadsGoOn

LEMMA NextLoads == ASSUME TypeOK, [Next]_vars PROVE LoadsGoOn
<1>1. CASE UNCHANGED vars
  BY <1>1 DEF vars, LoadsGoOn
<1> QED
  BY <1>1, UserStepLoads, ServerStepLoads, FollowViewLoads, SaveArrivesLoads,
     LoadArrivesLoads DEF Next, ClientStep

(* The spinner over the form is up only while a load is under way: the     *)
(* load that ends it cannot have been dropped by a step that was left, a   *)
(* conflict or a re-render (useWizardStepController.ts:134).  What is left *)
(* of LoadingEnds is that the load is answered.                            *)
THEOREM SpinnersHaveALoad == Spec => []SpinnerHasALoad
<1>1. Init => SpinnerHasALoad
  BY DEF Init, SpinnerHasALoad
<1>2. TypeOK /\ SpinnerHasALoad /\ [Next]_vars => SpinnerHasALoad'
  BY NextLoads DEF LoadsGoOn, SpinnerHasALoad
<1> QED
  BY <1>1, <1>2, TypeCorrect, PTL DEF Spec

(* At rest the form shows the values of its own step, however the user and *)
(* late saves moved between steps, unless the last load to end failed or   *)
(* was one of another step (useWizardStepController.ts:99).                *)
THEOREM ValuesGoWithTheStep == Spec => []ShowsItsOwnValues
<1>1. Init => ValuesComing
  BY DEF Init, ValuesComing
<1>2. TypeOK /\ ValuesComing /\ [Next]_vars => ValuesComing'
  BY NextLoads DEF LoadsGoOn, ValuesComing
<1>3. ValuesComing => ShowsItsOwnValues
  BY DEF ValuesComing, ShowsItsOwnValues, FormInReach
<1> QED
  BY <1>1, <1>2, <1>3, TypeCorrect, PTL DEF Spec

=============================================================================
