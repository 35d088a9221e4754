---------------------------- MODULE StepHandlers ----------------------------
(***************************************************************************)
(* What a wizard step's own functions do to a server answer before the     *)
(* wizard sees it, and how the wizard turns what it sees into the state of *)
(* the step.  A handler is what a step's props say: its load and its save  *)
(* pass an error on, replace it by an Error of their own (without its      *)
(* status), or hide it (the catch does not rethrow: the wizard sees a      *)
(* success); whether there is an onSaveAndExit; and which redirections     *)
(* getRedirectionLocationOnError knows.                                    *)
(***************************************************************************)

Handler(load, save, draft, redirects) ==
  [load |-> load, save |-> save, draft |-> draft, redirects |-> redirects]

(* Request for quote                                                       *)
rfqOrganisationAndContact == Handler("passes", "passes", TRUE, "notFoundPage")
instrumentAndRequest == Handler("passes", "passes", TRUE, "none")
requestForQuoteSummary == Handler("replaces", "hides", FALSE, "notFoundPage")
viewRequestForQuoteSummary == Handler("passes", "passes", FALSE, "notFoundPage")

(* Accept quote                                                            *)
reportRecipient == Handler("passes", "passes", TRUE, "quote")
deliveryAndReturn == Handler("passes", "passes", TRUE, "quote")
paymentDetails == Handler("replaces", "passes", TRUE, "quote")

\* Mutant: the summary logs its failure and goes on.
summaryAndAccept_LogsOnly == Handler("passes", "hides", TRUE, "quote")

summaryAndAccept == Handler("passes", "passes", TRUE, "quote")

(* Type approval                                                           *)
taOrganisationAndContact == Handler("replaces", "replaces", TRUE, "notFoundPage")
applicationAndInstrument == Handler("replaces", "replaces", TRUE, "none")
supportingDocuments == Handler("replaces", "replaces", TRUE, "notFoundPage")
summaryAndSubmit == Handler("replaces", "replaces", FALSE, "notFoundPage")

(* Account and contact                                                     *)
createAccount == Handler("passes", "passes", FALSE, "home")
updateAccount == Handler("passes", "hides", FALSE, "home")
addBranch == Handler("passes", "hides", FALSE, "home")
contactDetails == Handler("passes", "hides", FALSE, "home")

Handlers ==
  {rfqOrganisationAndContact, instrumentAndRequest, requestForQuoteSummary,
   viewRequestForQuoteSummary,
   reportRecipient, deliveryAndReturn, paymentDetails, summaryAndAccept,
   taOrganisationAndContact, applicationAndInstrument, supportingDocuments,
   summaryAndSubmit,
   createAccount, updateAccount, addBranch, contactDetails}

(* Answers of the server, "offline" being the call that gets none (network *)
(* or token failure: an error without a status).                           *)
Refusals == {"notFound", "unauthorised", "gone", "noThirdParty", "waf",
             "forbidden", "conflict", "precondition", "serverFault",
             "offline"}
AllAnswers == {"ok"} \cup Refusals

(* What the controller's catch can hold: a refusal, an Error made by the   *)
(* handler in its place, or the DOMException of an aborted fetch.          *)
Errors == Refusals \cup {"wrapped", "aborted"}
HasStatus(e) == e \in Refusals \ {"offline"}

-----------------------------------------------------------------------------
WrapsLoadError(h) == h.load = "replaces"
WrapsSaveError(h) == h.save = "replaces"
SwallowsSaveError(h) == h.save = "hides"
SavesDraft(h) == h.draft

SeenByLoad(h, answer) ==
  IF answer # "ok" /\ WrapsLoadError(h) THEN "wrapped" ELSE answer

\* Mutant: no handler rethrows.
SeenBySave_NoRethrow(h, answer) ==
  IF answer # "ok" /\ WrapsSaveError(h) THEN "wrapped" ELSE "ok"

SeenBySave(h, answer) ==
  IF answer = "ok" \/ SwallowsSaveError(h) THEN "ok"
  ELSE IF WrapsSaveError(h) THEN "wrapped" ELSE answer

-----------------------------------------------------------------------------
OutsidePages == {"home", "notFoundPage", "serverErrorPage", "viewSummary",
                 "completion", "signOut"}

RedirectTargets == {"home", "notFoundPage", "viewSummary"}

(* getRedirectionLocationOnError: the page, or "stay" for undefined.       *)
RedirectionOnError(h, e, phase) ==
  CASE h.redirects = "notFoundPage" -> "notFoundPage"
    [] h.redirects = "quote" /\ e = "precondition" /\ phase = "Load" ->
         "viewSummary"
    [] h.redirects = "quote" /\ e = "notFound" /\ phase = "Update" -> "home"
    [] h.redirects = "home" /\ e = "precondition" -> "home"
    [] OTHER -> "stay"

ErrorKinds == {"none", "loading", "notFound", "noThirdPartyAccess", "gone",
               "concurrency", "wafViolation", "serverError"}
ErrorStates == [kind : ErrorKinds, to : {"stay"}] \cup
               [kind : {"redirect"}, to : RedirectTargets]
ErrorOf(kind) == [kind |-> kind, to |-> "stay"]
NoError == ErrorOf("none")

ResolveForbidden(e, phase) ==
  CASE e = "noThirdParty" -> ErrorOf("noThirdPartyAccess")
    [] e = "waf" /\ phase = "Update" -> ErrorOf("wafViolation")
    [] OTHER -> ErrorOf("serverError")

(* resolveErrorState: the step's own redirect first, then the status, then *)
(* what is left of a load error and of a save error.                       *)
ResolveErrorState(h, e, phase) ==
  LET location == RedirectionOnError(h, e, phase)
  IN CASE HasStatus(e) /\ location # "stay" ->
              [kind |-> "redirect", to |-> location]
       [] e = "notFound" -> ErrorOf("notFound")
       [] e \in {"unauthorised", "gone"} -> ErrorOf("gone")
       [] e \in {"noThirdParty", "waf", "forbidden"} ->
              ResolveForbidden(e, phase)
       [] e = "conflict" -> ErrorOf("concurrency")
       [] e = "aborted" /\ phase = "Load" -> NoError
       [] phase = "Load" -> ErrorOf("loading")
       [] OTHER -> ErrorOf("serverError")
=============================================================================
