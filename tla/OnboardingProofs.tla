-------------------------- MODULE OnboardingProofs --------------------------
(* Proofs about Onboarding, for any set of branches.                       *)
EXTENDS Onboarding, TLAPS

(***************************************************************************)
(* Types                                                                   *)
(***************************************************************************)

LEMMA RedirectIsAPage ==
  ASSUME NEW d \in Details, NEW p \in Page
  PROVE  RedirectTo(d, p) \in Page
BY DEF RedirectTo, Page

LEMMA InitTyped == Init => TypeOK
<1>1. NoCalls \in [Kind -> CallStates]
  BY DEF NoCalls, CallStates
<1>2. [branch |-> None, incomplete |-> FALSE]
        \in [branch : Branch \cup {None}, incomplete : BOOLEAN]
  OBVIOUS
<1> QED  BY <1>1, <1>2 DEF Init, TypeOK

(* Every variable keeps its type, whatever is answered, lost or navigated  *)
(* to.                                                                     *)
THEOREM OnboardingTypes == Spec => []TypeOK
<1>1. Init => TypeOK
  BY InitTyped
<1>2. TypeOK /\ [Next]_vars => TypeOK'
  <2> SUFFICES ASSUME TypeOK, [Next]_vars PROVE TypeOK'
    OBVIOUS
  <2> USE DEF TypeOK, client, router
  <2>1. CASE FollowRedirect
    <3>1. Redirect \in Page
      BY RedirectIsAPage DEF Redirect, Page
    <3> QED  BY <2>1, <3>1 DEF FollowRedirect
  <2>2. CASE Arrive
    BY <2>2 DEF Arrive
  <2>3. CASE \E p \in Page : Visit(p)
    BY <2>3 DEF Visit
  <2>4. CASE SignInOk
    <3>1. toAccountDetails \in Details
      BY DEF toAccountDetails, Details
    <3>2. target' \in [abn : Text, name : Text] \cup {None}
      BY <2>4 DEF SignInOk, Text
    <3> QED  BY <2>4, <3>1, <3>2 DEF SignInOk
  <2>5. CASE SignInFails
    BY <2>5 DEF SignInFails
  <2>6. CASE SignInAgain
    BY <2>6 DEF SignInAgain, Page
  <2>7. CASE Reload
    BY <2>7 DEF Reload, NoCalls, CallStates, Kind
  <2>8. CASE Agree \/ SubmitAccount \/ SubmitContact
    BY <2>8 DEF Agree, SubmitAccount, SubmitContact, Send, CallStates, Kind
  <2>9. CASE OpenSelector \/ CloseSelector
    BY <2>9 DEF OpenSelector, CloseSelector
  <2>10. CASE \E b \in Branch : ContinueBranchSelector(b)
    <3>1. details \in Details
      BY <2>10 DEF ContinueBranchSelector, AtRest
    <3> QED
      BY <2>10, <3>1 DEF ContinueBranchSelector, Send, CallStates, Kind, Details
  <2>11. CASE TermsArrives
    BY <2>11 DEF TermsArrives, Settle, Dispatch, Details, CallStates, Kind
  <2>12. CASE AccountArrives
    <3>1. calls' \in [Kind -> CallStates]
      BY <2>12 DEF AccountArrives, Settle, CallStates
    <3>2. details' \in Details \cup {None}
      BY <2>12 DEF AccountArrives, Dispatch, Details
    <3>3. going' \in Page \cup {None}
      BY <2>12 DEF AccountArrives, Page
    <3> QED  BY <2>12, <3>1, <3>2, <3>3 DEF AccountArrives
  <2>13. CASE ContactArrives
    BY <2>13 DEF ContactArrives, Settle, Dispatch, Details, CallStates, Kind,
                 Page
  <2>14. CASE BranchArrives
    <3>1. calls' \in [Kind -> CallStates]
      BY <2>14 DEF BranchArrives, Settle, CallStates
    <3>2. details' \in Details \cup {None}
      <4>1. CASE details = None \/ UNCHANGED details
        BY <2>14, <4>1 DEF BranchArrives, Dispatch
      <4>2. CASE details # None /\ ~UNCHANGED details
        <5>1. details' = [details EXCEPT !.org = choice.branch,
                            !.account = details.account \/ choice.incomplete]
          BY <2>14, <4>2 DEF BranchArrives, Dispatch
        <5>2. (details.account \/ choice.incomplete) \in BOOLEAN
          OBVIOUS
        <5> HIDE DEF client, router
        <5> QED  BY <4>2, <5>1, <5>2 DEF Details
      <4> QED  BY <4>1, <4>2
    <3>3. target' \in [abn : Text, name : Text] \cup {None}
      <4>1. target' = [abn |-> "name", name |-> "abn"] \/ target' = target
        BY <2>14 DEF BranchArrives
      <4>2. [abn |-> "name", name |-> "abn"] \in [abn : Text, name : Text]
        BY DEF Text
      <4> QED  BY <4>1, <4>2
    <3>4. going' \in Page \cup {None} /\ selector' \in BOOLEAN
      BY <2>14 DEF BranchArrives, Page
    <3> QED  BY <2>14, <3>1, <3>2, <3>3, <3>4 DEF BranchArrives
  <2>15. CASE \E k \in Kind : Accept(k)
    <3> PICK k \in Kind : Accept(k)
      BY <2>15
    <3>1. server' \in [terms : BOOLEAN, contact : BOOLEAN,
                       org : Branch \cup {None}, completed : SUBSET Branch]
      <4>1. CASE k # "account"
        BY <4>1 DEF Accept, Done
      <4>2. CASE k = "account"
        <5> PICK b \in Branch :
              server' = [server EXCEPT !.org = b,
                                       !.completed = server.completed \cup {b}]
          BY <4>2 DEF Accept, Done
        <5>1. server.completed \cup {b} \in SUBSET Branch
          OBVIOUS
        <5> QED  BY <5>1
      <4> QED  BY <4>1, <4>2
    <3>2. calls' \in [Kind -> CallStates]
      BY DEF Accept, CallStates
    <3> QED  BY <3>1, <3>2 DEF Accept
  <2>16. CASE \E k \in Kind : Refuse(k)
    BY <2>16 DEF Refuse, CallStates
  <2>17. CASE UNCHANGED vars
    BY <2>17 DEF vars
  <2> QED
    BY <2>1, <2>2, <2>3, <2>4, <2>5, <2>6, <2>7, <2>8, <2>9, <2>10, <2>11,
       <2>12, <2>13, <2>14, <2>15, <2>16, <2>17 DEF Next
<1> QED  BY <1>1, <1>2, PTL DEF Spec

(***************************************************************************)
(* Redirections                                                            *)
(***************************************************************************)

(* No flags make the redirections of PreConditions go in a circle: after   *)
(* two of them the user is on a page that stays.                           *)
THEOREM RedirectionsEnd == Spec => []NoRedirectLoop
<1>1. TypeOK => NoRedirectLoop
  BY DEF TypeOK, Details, NoRedirectLoop, RedirectTo, Page,
         redirectToCreateAccount, redirectToCreateContact, redirectToDashboard
<1> QED  BY <1>1, OnboardingTypes, PTL

(***************************************************************************)
(* What the client believes                                                *)
(*                                                                         *)
(* FlagsAreReal alone is not kept: an answer on its way brings a flag that *)
(* the server must have by then.                                           *)
(***************************************************************************)

AnswersAreReal ==
  /\ calls["terms"] = "accepted" => server.terms
  /\ calls["contact"] = "accepted" => server.contact

Truthful == TypeOK /\ FlagsAreReal /\ AnswersAreReal

LEMMA TruthfulStart == Init => Truthful
<1>1. Init => TypeOK
  BY InitTyped
<1>2. Init => FlagsAreReal /\ AnswersAreReal
  BY DEF Init, FlagsAreReal, AnswersAreReal, NoCalls, Kind
<1> QED  BY <1>1, <1>2 DEF Truthful

LEMMA TruthfulStep ==
  ASSUME Truthful, TypeOK', [Next]_vars
  PROVE  Truthful'
<1> USE DEF Truthful, TypeOK, FlagsAreReal, AnswersAreReal, client, router
<1>1. CASE FollowRedirect
  BY <1>1 DEF FollowRedirect
<1>2. CASE Arrive \/ \E p \in Page : Visit(p)
  BY <1>2 DEF Arrive, Visit
<1>3. CASE SignInOk
  BY <1>3 DEF SignInOk, toAccountDetails
<1>4. CASE SignInFails \/ SignInAgain
  BY <1>4 DEF SignInFails, SignInAgain
<1>5. CASE Reload
  BY <1>5 DEF Reload, NoCalls, Kind
<1>6. CASE Agree \/ SubmitAccount \/ SubmitContact
  BY <1>6 DEF Agree, SubmitAccount, SubmitContact, Send, Kind
<1>7. CASE OpenSelector \/ CloseSelector
  BY <1>7 DEF OpenSelector, CloseSelector
<1>8. CASE \E b \in Branch : ContinueBranchSelector(b)
  BY <1>8 DEF ContinueBranchSelector, Send, Kind
<1>9. CASE TermsArrives
  BY <1>9 DEF TermsArrives, Settle, Dispatch, Details, Kind
<1>10. CASE AccountArrives
  BY <1>10 DEF AccountArrives, Settle, Dispatch, Details, Kind
<1>11. CASE ContactArrives
  BY <1>11 DEF ContactArrives, Settle, Dispatch, Details, Kind
<1>12. CASE BranchArrives
  BY <1>12 DEF BranchArrives, Settle, Dispatch, Details, Kind
<1>13. CASE \E k \in Kind : Accept(k)
  BY <1>13 DEF Accept, Done, Kind
<1>14. CASE \E k \in Kind : Refuse(k)
  BY <1>14 DEF Refuse, Kind
<1>15. CASE UNCHANGED vars
  BY <1>15 DEF vars
<1> QED
  BY <1>1, <1>2, <1>3, <1>4, <1>5, <1>6, <1>7, <1>8, <1>9, <1>10, <1>11,
     <1>12, <1>13, <1>14, <1>15 DEF Next

(* The client takes terms for agreed and a contact for completed only when *)
(* the server has them.                                                    *)
THEOREM ClientIsTruthful == Spec => []FlagsAreReal
<1>1. Truthful /\ TypeOK' /\ [Next]_vars => Truthful'
  BY TruthfulStep
<1>2. Truthful => FlagsAreReal
  BY DEF Truthful
<1> QED  BY <1>1, <1>2, TruthfulStart, OnboardingTypes, PTL DEF Spec

(* The success page stays on the screen only for a user whose contact the  *)
(* server has: the redirection makes good the navigation that the contact  *)
(* form makes after a refusal.                                             *)
THEOREM SuccessIsEarned == Spec => []SuccessIsReal
<1>1. TypeOK /\ FlagsAreReal => SuccessIsReal
  BY DEF TypeOK, Details, FlagsAreReal, SuccessIsReal, AtRest, RedirectTo,
         redirectToCreateAccount, redirectToCreateContact
<1> QED  BY <1>1, ClientIsTruthful, OnboardingTypes, PTL
=============================================================================
