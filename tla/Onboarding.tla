----------------------------- MODULE Onboarding -----------------------------
(***************************************************************************)
(* How a signed-in user becomes one who may work: agree to the terms of    *)
(* use, complete the account of the organisation, complete the contact.    *)
(* AccountProvider keeps what the client believes (details), read once     *)
(* from the server and then changed flag by flag as calls are answered;    *)
(* PreConditions renders every page and, from the same flags, a Navigate   *)
(* to the page that has to come first.  Forms and dialogs navigate too,    *)
(* after their own await, wherever the user is by then.                    *)
(*                                                                         *)
(* A navigation takes time (pages are loaded lazily); a later one replaces *)
(* it.  Of each kind of call one is on its way at a time.                  *)
(***************************************************************************)
CONSTANTS
  Branch,   \* the organisation's branches, each with an id of its own
  None

ASSUME BranchAssumption == Branch # {} /\ None \notin Branch

Page == {"home", "dashboard", "createAccount", "createContact", "success"}
Kind == {"terms", "account", "contact", "branch"}
Text == {"", "abn", "name"}   \* what kind of text a field holds

ASSUME NoneAssumption == None \notin Page

VARIABLES
  server,    \* the user's record: agreed, contact, branch, completed accounts
  details,   \* accountDetails, None until the sign-in call is answered
  errored,   \* the account could not be loaded: signing out
  page,      \* the page of the URL
  going,     \* a navigation on its way, or None
  selector,  \* showBranchSelector of the page's PreConditions
  calls,     \* the state of the call of each kind
  choice,    \* what the branch call's handler closed over
  target     \* the target organisation in session storage, or None

vars == <<server, details, errored, page, going, selector, calls, choice,
          target>>
client == <<details, errored, target>>
router == <<page, going>>

-----------------------------------------------------------------------------
Details == [terms : BOOLEAN, account : BOOLEAN, contact : BOOLEAN,
            org : Branch \cup {None}]
CallStates == {"idle", "sent", "accepted", "refused"}

TypeOK ==
  /\ server \in [terms : BOOLEAN, contact : BOOLEAN,
                 org : Branch \cup {None}, completed : SUBSET Branch]
  /\ details \in Details \cup {None}
  /\ errored \in BOOLEAN
  /\ page \in Page
  /\ going \in Page \cup {None}
  /\ selector \in BOOLEAN
  /\ calls \in [Kind -> CallStates]
  /\ choice \in [branch : Branch \cup {None}, incomplete : BOOLEAN]
  /\ target \in [abn : Text, name : Text] \cup {None}

(* toAccountDetails: an account is completed for an organisation only.     *)
toAccountDetails ==
  [terms |-> server.terms, account |-> server.org \in server.completed,
   contact |-> server.contact, org |-> server.org]

NoCalls == [k \in Kind |-> "idle"]

(* Any user, on any page, before the account is loaded.                    *)
Init ==
  /\ server \in [terms : BOOLEAN, contact : BOOLEAN,
                 org : Branch \cup {None}, completed : SUBSET Branch]
  /\ details = None
  /\ errored = FALSE
  /\ page \in Page
  /\ going = None
  /\ selector = FALSE
  /\ calls = NoCalls
  /\ choice = [branch |-> None, incomplete |-> FALSE]
  /\ target = None

-----------------------------------------------------------------------------
(* PreConditions: which page has to come first                             *)

redirectToCreateAccount(d, p) ==
  d.org # None /\ ~d.account /\ p # "createAccount"

\* Mutant: the redirection of a contact forgets the account's page.
redirectToCreateContact_PingPong(d, p) ==
  /\ ~redirectToCreateAccount(d, p)
  /\ ~d.contact
  /\ p # "createContact"

\* Mutant: the success page needs no contact.
redirectToCreateContact_NotOnSuccess(d, p) ==
  /\ ~redirectToCreateAccount(d, p)
  /\ ~d.contact
  /\ p \notin {"createContact", "createAccount", "success"}

\* Mutant: the contact is asked for only once the account is completed.
redirectToCreateContact_AfterAccount(d, p) ==
  /\ d.account
  /\ ~d.contact
  /\ p \notin {"createContact", "createAccount"}

redirectToCreateContact(d, p) ==
  /\ ~redirectToCreateAccount(d, p)
  /\ ~d.contact
  /\ p \notin {"createContact", "createAccount"}

redirectToDashboard(d, p) ==
  /\ d.account
  /\ d.contact
  /\ p \in {"createContact", "createAccount"}

(* The page that the Navigate on page p leads to, p itself if there is     *)
(* none.  The home page is outside PreConditions: it sends every signed-in *)
(* user to the dashboard.                                                  *)
RedirectTo(d, p) ==
  IF p = "home" THEN "dashboard"
  ELSE IF redirectToCreateAccount(d, p) THEN "createAccount"
  ELSE IF redirectToCreateContact(d, p) THEN "createContact"
  ELSE IF redirectToDashboard(d, p) THEN "home"
  ELSE p

Redirect == IF details # None THEN RedirectTo(details, page)
            ELSE IF page = "home" THEN "dashboard" ELSE page

FollowRedirect ==
  /\ ~errored
  /\ Redirect \notin {page, going}
  /\ going' = Redirect
  /\ UNCHANGED <<server, client, page, selector, calls, choice>>

(* A page of another route is mounted anew, with its dialogs closed.       *)
Arrive ==
  /\ going # None
  /\ page' = going
  /\ going' = None
  /\ selector' = (selector /\ going = page)
  /\ UNCHANGED <<server, client, calls, choice>>

(* Back, forward or a link.                                                *)
Visit(p) ==
  /\ ~errored
  /\ p # page
  /\ page' = p
  /\ going' = None
  /\ selector' = FALSE
  /\ UNCHANGED <<server, client, calls, choice>>

-----------------------------------------------------------------------------
(* AccountProvider                                                         *)

\* Mutant: no empty text for a user without an organisation.
SignInOk_NoDefault ==
  /\ details = None /\ ~errored
  /\ details' = toAccountDetails
  /\ target' = IF target # None THEN target
               ELSE IF server.org = None THEN [abn |-> None, name |-> None]
               ELSE [abn |-> "abn", name |-> "name"]
  /\ UNCHANGED <<server, errored, router, selector, calls, choice>>

(* The account is loaded; a target organisation that is stored stays.      *)
SignInOk ==
  /\ details = None /\ ~errored
  /\ details' = toAccountDetails
  /\ target' = IF target # None THEN target
               ELSE IF server.org = None THEN [abn |-> "", name |-> ""]
               ELSE [abn |-> "abn", name |-> "name"]
  /\ UNCHANGED <<server, errored, router, selector, calls, choice>>

SignInFails ==
  /\ details = None /\ ~errored
  /\ errored' = TRUE
  /\ UNCHANGED <<server, details, target, router, selector, calls, choice>>

(* The sign-out that a failure leads to, and the next sign-in.             *)
SignInAgain ==
  /\ errored
  /\ errored' = FALSE
  /\ page' = "home"
  /\ going' = None
  /\ UNCHANGED <<server, details, target, selector, calls, choice>>

(* The browser loads the page again: a call on its way is never answered.  *)
Reload ==
  /\ details # None
  /\ details' = None
  /\ going' = None
  /\ selector' = FALSE
  /\ calls' = NoCalls
  /\ UNCHANGED <<server, errored, page, choice, target>>

(* setAgree, setCompleted, ...: they change details only if there are any. *)
Dispatch(new) == details' = IF details = None THEN None ELSE new

-----------------------------------------------------------------------------
(* The user                                                                *)

AtRest == details # None /\ ~errored /\ RedirectTo(details, page) = page
Send(k) == calls[k] = "idle" /\ calls' = [calls EXCEPT ![k] = "sent"]

Agree ==
  /\ AtRest /\ ~details.terms
  /\ Send("terms")
  /\ UNCHANGED <<server, client, router, selector, choice>>

(* The dialog of the terms keeps the user from everything behind it.       *)
SubmitAccount ==
  /\ AtRest /\ details.terms
  /\ page = "createAccount"
  /\ Send("account")
  /\ UNCHANGED <<server, client, router, selector, choice>>

SubmitContact ==
  /\ AtRest /\ details.terms
  /\ page = "createContact"
  /\ Send("contact")
  /\ UNCHANGED <<server, client, router, selector, choice>>

(* Opened by the user only: the condition under which it would open by     *)
(* itself asks for an organisation id of null, which no answer contains.   *)
OpenSelector ==
  /\ AtRest /\ details.terms
  /\ page = "dashboard"
  /\ ~selector
  /\ selector' = TRUE
  /\ UNCHANGED <<server, client, router, calls, choice>>

(* handleClose; without an organisation there is no button for it.         *)
CloseSelector ==
  /\ selector
  /\ details # None /\ details.org # None
  /\ selector' = FALSE
  /\ UNCHANGED <<server, client, router, calls, choice>>

ContinueBranchSelector(b) ==
  /\ AtRest /\ selector
  /\ Send("branch")
  /\ choice' = [branch |-> b, incomplete |-> ~details.account]
  /\ UNCHANGED <<server, client, router, selector>>

-----------------------------------------------------------------------------
(* Answers                                                                 *)

Answered(k) == calls[k] \in {"accepted", "refused"}
Settle(k) == calls' = [calls EXCEPT ![k] = "idle"]

TermsArrives ==
  /\ Answered("terms")
  /\ Settle("terms")
  /\ \/ /\ calls["terms"] = "accepted"
        /\ Dispatch([details EXCEPT !.terms = TRUE])
     \/ calls["terms"] = "refused" /\ UNCHANGED details
  /\ UNCHANGED <<server, errored, target, router, selector, choice>>

(* A refusal of the kind "precondition failed" sends the user home, any    *)
(* other is shown on the page.                                             *)
AccountArrives ==
  /\ Answered("account")
  /\ Settle("account")
  /\ \/ /\ calls["account"] = "accepted"
        /\ Dispatch([details EXCEPT !.account = TRUE])
        /\ going' = "success"
     \/ /\ calls["account"] = "refused"
        /\ \/ page = "createAccount" /\ going' = "home"
           \/ UNCHANGED going
        /\ UNCHANGED details
  /\ UNCHANGED <<server, errored, target, page, selector, choice>>

\* Mutant: the contact counts as completed whatever the answer.
ContactArrives_AfterCatch ==
  /\ Answered("contact")
  /\ Settle("contact")
  /\ Dispatch([details EXCEPT !.contact = TRUE])
  /\ going' = "success"
  /\ UNCHANGED <<server, errored, target, page, selector, choice>>

(* A refused contact is noted for the dashboard and not passed on, so the  *)
(* wizard goes to the success page either way.                             *)
ContactArrives ==
  /\ Answered("contact")
  /\ Settle("contact")
  /\ going' = "success"
  /\ \/ /\ calls["contact"] = "accepted"
        /\ Dispatch([details EXCEPT !.contact = TRUE])
     \/ calls["contact"] = "refused" /\ UNCHANGED details
  /\ UNCHANGED <<server, errored, target, page, selector, choice>>

(* applyAccountDispatchUpdates and finaliseAccountCreation, which passes   *)
(* the name where the number belongs; the dialog closes after a refusal    *)
(* too.                                                                    *)
BranchArrives ==
  /\ Answered("branch")
  /\ Settle("branch")
  /\ selector' = FALSE
  /\ going' = "home"
  /\ \/ /\ calls["branch"] = "accepted"
        /\ Dispatch([details EXCEPT !.org = choice.branch,
                                    !.account = @ \/ choice.incomplete])
        /\ target' = IF choice.incomplete THEN [abn |-> "name", name |-> "abn"]
                     ELSE target
     \/ calls["branch"] = "refused" /\ UNCHANGED <<details, target>>
  /\ UNCHANGED <<server, errored, page, choice>>

-----------------------------------------------------------------------------
(* The server                                                              *)

(* A user without an organisation who completes an account gets one.       *)
Done(k) ==
  \/ k = "terms" /\ server' = [server EXCEPT !.terms = TRUE]
  \/ k = "contact" /\ server' = [server EXCEPT !.contact = TRUE]
  \/ k = "branch" /\ server' = [server EXCEPT !.org = choice.branch]
  \/ /\ k = "account"
     /\ \E b \in Branch :
          /\ server.org \in {b, None}
          /\ server' = [server EXCEPT !.org = b, !.completed = @ \cup {b}]

Accept(k) ==
  /\ calls[k] = "sent"
  /\ Done(k)
  /\ calls' = [calls EXCEPT ![k] = "accepted"]
  /\ UNCHANGED <<client, router, selector, choice>>

(* Also what the client sees when the answer to a call that was carried    *)
(* out is lost.                                                            *)
Refuse(k) ==
  /\ calls[k] \in {"sent", "accepted"}
  /\ calls' = [calls EXCEPT ![k] = "refused"]
  /\ UNCHANGED <<server, client, router, selector, choice>>

-----------------------------------------------------------------------------
Next ==
  \/ FollowRedirect \/ Arrive \/ \E p \in Page : Visit(p)
  \/ SignInOk \/ SignInFails \/ SignInAgain \/ Reload
  \/ Agree \/ SubmitAccount \/ SubmitContact
  \/ OpenSelector \/ CloseSelector \/ \E b \in Branch : ContinueBranchSelector(b)
  \/ TermsArrives \/ AccountArrives \/ ContactArrives \/ BranchArrives
  \/ \E k \in Kind : Accept(k) \/ Refuse(k)

Spec == Init /\ [][Next]_vars

(* A call for what the server does not have yet is accepted in the end if  *)
(* it is repeated; a call for what it has may be refused for ever.         *)
AcceptNew ==
  \/ ~server.terms /\ Accept("terms")
  \/ ~server.contact /\ Accept("contact")
  \/ server.org \notin server.completed /\ Accept("account")

(* What the page asks the user for.                                        *)
Submit == Agree \/ SubmitAccount \/ SubmitContact

(* The browser runs effects and the continuations of answers; every call   *)
(* is answered and sign-in works in the end; the user goes on submitting   *)
(* what a page asks for, and from a page that asks for nothing new goes to *)
(* the dashboard.                                                          *)
Fairness ==
  /\ WF_vars(FollowRedirect) /\ WF_vars(Arrive)
  /\ WF_vars(TermsArrives) /\ WF_vars(AccountArrives)
  /\ WF_vars(ContactArrives) /\ WF_vars(BranchArrives)
  /\ WF_vars(SignInAgain) /\ SF_vars(SignInOk)
  /\ \A k \in Kind : WF_vars(Refuse(k))
  /\ SF_vars(AcceptNew)
  /\ SF_vars(Submit)
  /\ WF_vars(AtRest /\ Visit("dashboard"))

FairSpec == Spec /\ Fairness

-----------------------------------------------------------------------------
(* Properties                                                              *)

(* The client never takes terms for agreed or a contact for completed that *)
(* the server has not: not after a refusal, a lost answer, or a reload.    *)
FlagsAreReal ==
  details # None => /\ details.terms => server.terms
                    /\ details.contact => server.contact

(* The success page stays on the screen only for a user whose contact the  *)
(* server has and whose account the client takes for completed, although   *)
(* the contact form goes there also after a refusal.                       *)
SuccessIsReal ==
  page = "success" /\ AtRest =>
    /\ server.contact
    /\ details.org # None => details.account

(* From whatever page, the redirections of PreConditions and of the home   *)
(* page come to an end: after at most two.                                 *)
NoRedirectLoop ==
  details # None =>
    \A p \in Page : LET q == RedirectTo(details, RedirectTo(details, p))
                    IN RedirectTo(details, q) = q

(* The user in the end neither loads pages again nor leaves one before it  *)
(* has loaded.                                                             *)
Wanders == Reload \/ \E p \in Page : Visit(p) /\ ~(AtRest /\ p = "dashboard")
UserSettles == <>[][~Wanders]_vars

Ready == /\ details # None
         /\ details.terms /\ details.contact
         /\ details.org # None => details.account

(* The server has what the client does not know of.                        *)
NeedsReload == details # None /\ details # toAccountDetails

(* A user who goes on submitting is asked for nothing more in the end, or  *)
(* an answer was lost and only loading the page again helps.               *)
SetupEnds == UserSettles => []<>Ready \/ <>[]NeedsReload

(* "setTargetOrganisation(abn, name)": the stored target organisation has  *)
(* a business number where a number belongs.                               *)
TargetIsAPair == target # None => target.abn # "name" /\ target.name # "abn"
=============================================================================
