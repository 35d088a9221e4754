# Verification of the customer portal client

TLA+ models, TLC runs and TLAPS proofs for the React client in
`src/ClientApp/src` (written `CA/` below). The API server, Microsoft
identity (MSAL), React, React Router and Formik are outside the repository;
they are modelled only as far as the client's code depends on them.

## 1. The system

A user signs in, works through *wizards* (request for quote, accept quote, type
approval, account and contact forms), attaches files, and looks after requests
on dashboards. Everything runs in one browser tab on one event loop. There are
no threads, but every `await` is a point where other callbacks run, every
request may be answered late or never, and React may run an effect again or
unmount a component while a request of it is in flight. Those interleavings are
what is modelled.

### 1.1 Inventory

| Component | State | Operations | Interacts with | What is hard |
|---|---|---|---|---|
| Wizard step controller, `CA/components/forms/WizardForm` | `stepStatuses`, `stepValues`, `isLoading`, `errorState` | load, submit, save and exit, back, cancel, conflict reload, linear guard | step handlers, router, Formik, server | late answers, conflicts, component kept across steps, navigation after unmount |
| Step handlers, `CA/routes/*/*Props.ts` | none | load and save a step, choose a redirect for an error | server, controller | which errors survive to the controller |
| Form shell, `CA/components/forms/{FormikForm,RhfForm,SaveAndExitButton,SubmitFormButton,UnsavedFormPrompt}` | values, `saveAndExit` flag or mode, `submitCount`, `isSubmitting` | validate soft or hard, submit, save and exit, block leaving | controller, router | a flag that outlives a failed save |
| Attachment category, `CA/components/Inputs/RhfAttachment/RhfAttachmentItem.tsx` | last saved category, save token, form value | choose a category, save it, revert | server, parent list | overlapping saves that fail or overtake each other |
| Attachment list, `CA/components/Inputs/RhfAttachment/index.tsx`, `Attachment/index-new.tsx` | list of attachments | upload, delete, download | type approval route, server | lists computed from an old render |
| Upload polling, `CA/routes/ta/index.tsx`, `pollUploadProgress.ts` | `AbortController`, poll timer | upload, poll, cancel | server (upload job) | polls that outlive the component, cancel racing completion |
| Step-status loaders, `CA/routes/{requestForQuote,acceptQuote,ta}/index.tsx` and their `create` pages | `isLoading` ref, statuses | load once per mount | MSAL, account, server | effects that run again, StrictMode, failures that leave the lock set |
| Account session, `CA/authentication/*`, `CA/routes/preConditions`, `CA/components/modals/BranchSelectorModal` | account details, target organisation, branch selector | load account, agree to terms, complete account, choose a branch | every route | late account answers after sign-out, precondition order |
| Dashboards, `CA/routes/dashboard` | tab, page, filters, rows, spinner | load, change tab or page, search (debounced), save profile | server, session storage | overtaken loads, lost debounced saves |
| Look-ups, `CA/components/Inputs/{AutoSuggest,RhfAutoSuggest,AddressLookup}` | options, spinner, request id | search, select | server | answers out of order |
| Message polling, `CA/routes/ta/manage/appDetails.tsx`, `appMessages.tsx` | timer, count, page | poll, page, filter | server | two poll chains, overtaken pages |
| Quotation view, `CA/routes/quotation` | quotation, decline modal | load, decline | server | answer after unmount |
| Pagination, `CA/components/Pagination` | none | window of page numbers | dashboards | off-by-one at the ends |
| Generated API client, AriaComponents, layout, storybook, assets, scripts | - | - | - | not modelled: generated, presentational or tooling |

### 1.2 What makes each of them correct

These are the aims; section 6 tells where the code falls short of them.

* **Wizard.** The client holds a step as completed only if the server accepted
  it; the server is asked to complete steps in order; the completion page means
  that the submission was accepted; a conflict always reloads the step and the
  banner stays; a save is based on the step's own values; loads end.
* **Step handlers.** Every failure is shown; none is turned into a success.
* **Attachments.** Once nothing is in flight a row shows the category that was
  last saved, and believes to be saved what the server holds; the answer to a
  save touches no other document, whatever became of the list meanwhile.
* **Upload polling.** An aborted poll asks no more and ends; no progress bar
  stays without a poll behind it.
* **Loaders and create pages.** One run of the work at a time; one draft per
  visit; no lock is left behind by a run that is over; the spinner ends; a page
  that was left takes the user nowhere.
* **Account session.** The client takes terms for agreed and a contact for
  completed only if the server has them; redirections between the setup pages
  end; the success page stays only for a user who earned it; a user who keeps
  trying gets through the setup; the target organisation is a pair of the same
  organisation's number and name.
* **Dashboards, message tab, look-ups.** What is shown belongs to the last thing
  asked for, and the page number to the list above it; a dashboard is usable when
  no dialog is open; a deleted draft is gone; an address goes with the text that
  found it; no spinner stays.
* **Message polling.** The application on the screen has a live chain of
  requests; the badge gets its count; every chain ends after the page is left.

## 2. Plan

In order of importance; items 1 to 9 are built.

1. `StepHandlers`, `Wizard` - the step controller with the handlers of every
   wizard; `Submission`, the abstract promise it implements.
2. `Attachments` - category saves that overlap, and the list around them.
3. `UploadPolling` - the polls behind an upload.
4. `MessagePoll` - the chains of requests behind the unread-message badge.
5. `Onboarding` - account state, preconditions, terms, contact, branch.
6. `Dashboard` - filters, pages, debounced search and the dialogs over a list.
7. `EntryPages` - the loaders of a wizard's statuses and the creation of
   drafts: lock refs under repeated effects, failures and lost answers.
8. `LatestAnswer` - the abstract promise "what is shown answers the newest
   question" - and `AddressSuggest`, the look-up that keeps it.
9. `MessageTab` and `TaDashboard` - two lists that do not drop an overtaken
   answer, and what is true of them all the same.
10. Left: the leaving guard of the forms (validation modes, `submitCount`, the
    unsaved-changes prompt); the rows and the saving overlay of the branch
    dialog; the server's copy of the profile.

What is composed of what: `Wizard` uses the operators of `StepHandlers` and
implements `Submission`; `AddressSuggest` implements the safety part of
`LatestAnswer`, and so does `Dashboard` (`Promise` in `DashboardProofs`);
`MCPages` puts `MessagePoll`, `MessageTab`, `AddressSuggest`, `TaDashboard` and
`EntryPages` side by side, as the portal does: one page is on the screen, and the
parts share nothing but the network.

## 3. Modules and the code

All paths are below `CA/`. A module's comments name the lines where a choice
needs a reason; `PROJECT.json` maps every definition to its lines.

| Module | Models | State and where it lives in the code | Actions |
|---|---|---|---|
| `StepHandlers` | `routes/*/*Props.ts`, `errorState.ts` | none: operators | what a handler makes of a server answer (`SeenByLoad`, `SeenBySave`), `resolveErrorState` |
| `Wizard` | `useWizardStepController.ts`, `index.tsx`, `WizardRoutedStep.tsx`, the buttons | `stepStatuses`, `isLoading`, `errorState` as in the hook, of `stepValues` only whose they are; `current` and `page` are the URL; `calls` are promises in flight; `accepted` is the server's record; `ahead` and `astray` are history, read by properties only | enter, submit, save and exit, back, cancel, browser history, re-render; a call is served, accepted, refused, arrives |
| `Submission` | what a wizard promises | steps granted, those granted ahead of their turn, steps believed, finished | the server grants a step, in turn or ahead; the client hears of steps |
| `Attachments` | `RhfAttachmentItem.tsx`, `RhfAttachment/index.tsx`, `rhfSupportingDocuments.tsx`, `routes/ta/manage/appDocuments.tsx` | the form's list, the three refs of a row, the list each handler closed over; `held` is the server's list | choose a category, upload, delete; each call served, refused, answered |
| `UploadPolling` | `routes/ta/index.tsx`, `pollUploadProgress.ts` | one phase per poll, `uploadAbortRef`, the aborted signals, `uploadProgress` | choose files, token, answer, failure, back-off, leave the step, leave the page |
| `MessagePoll` | `routes/ta/manage/appDetails.tsx` | one chain per effect run, `pollTimeoutRef`, `disposedRef`, the count | open another application, answers, timers, leave |
| `Onboarding` | `AccountProvider.tsx`, `PreConditions.tsx`, the terms and branch dialogs, the account and contact handlers | `accountDetails`, target organisation (session storage), URL, navigation on its way, calls; `server` is the user's record | sign in, agree, complete, choose a branch, visit, go back, reload; answers, refusals, lost answers |
| `Dashboard` | `routes/dashboard/index.tsx`, `SearchFilter/*`, `useDebounce.ts`, `RFQDeleteModal` | `filters`, the debounced text, the loads in flight with what each closed over, the list, spinner, `inert`, dialogs, a deletion | tab, page, search, filter menu, branch, delete, leave and return; debounce, token, answer, refusal, abort |
| `EntryPages` | `routes/{requestForQuote,acceptQuote,ta}/index.tsx` and their `create` pages, `requestForQuote/copy` | per visit the lock and unmounted refs, whether the statuses are there and its runs; `drafts` is what the server created | open, leave, go back; the accounts change, the details arrive; token and request answered, refused, lost |
| `LatestAnswer` | what a part that asks questions promises | the last question, the question whose answer is shown | ask, withdraw, answer |
| `AddressSuggest` | `Inputs/AutoSuggest/index.tsx`, `Inputs/AddressLookup/index.tsx` | `searchTerm`, `requestIdRef`, `controllerRef`, suggestions, spinner, the form's address and its text | type, clear, cancel, pick, enter by hand, search again; an answer of any search |
| `MessageTab` | `routes/ta/manage/appMessages.tsx` | filter, page, `isDataLoading`, loads and messages under way, the question the list answers | filter, page, send, accounts change; each answer or failure |
| `TaDashboard` | `routes/dashboard/dashboard-ta.tsx`, `RequestList/paRequestItem` | filters, the page marked, the saved filters, the debounced save, loads, rows, spinner | open, leave, tab, page, filter menu, organisation, delete; timer, answers, refusals |
| `MCPages` | the one page on the screen | which of five parts the user is at | those of the part |

Conventions:

* One action is everything the code does between two awaits: the state it sets,
  the effects React runs because of it, and the requests it sends.
* A request has a phase in the client (sent, answered) and an effect at the
  server. Any two requests may overtake each other unless the constant of a
  module says otherwise (`inOrder` of a setting of `Attachments`). Access tokens come
  in the order they were asked for, as MSAL serves them.
* What a callback closed over is a field of its request, never the state at the
  time it runs.
* An operator named `X_Something` with a comment "Mutant" is not part of the
  model. It is `X` with one plausible mistake, and documents which mistake the
  property beside it rules out.

### 3.1 What the models leave out of a component they cover

* `Wizard`: field values, except for whose they are, and so what the user edits
  and what `enableReinitialize` does to it; the confirmation dialog of a last
  step; the reset of the target organisation when third-party access is lost.
  The spinners are no part of the state, as they keep nobody from the form.
* `Attachments`: files' names and contents; the Formik twin of the list.
  React Hook Form may hand out the list with or without the value just set
  (its references are shared with the form), so a handler sees either
  (`WithShownValues`).
* `UploadPolling`: percentages; cancelling a file, which changes no state of the
  page.
* `Onboarding`: the rows of the branch dialog and a save before they are
  loaded; its mode `RFQSelectOrg`, which sets the branch of a request and then
  reloads the page instead of going home; sign-out. `autoShowBranchSelector` never fires, as the API sends no null
  (`src/tests/unit/routes/preConditions.test.tsx:677`) and none in
  the model. One call of each kind is under way at a time, as the dialogs and
  forms are replaced by spinners. A `Navigate` fires again when another
  navigation replaced its own.
* `Dashboard`: `checkAcceptedQuoteStatus`, the server's copy of the profile,
  the return to the own organisation after a loss of third-party access. Terms
  are accepted and sign-in is over. The server answers a question with the page
  that was asked for. One draft, one deletion at a time.
* `EntryPages`: the accounts are never empty, as the routes are rendered for a
  signed-in user only. What a wizard does with its statuses is `Wizard`'s.
* `AddressSuggest`: what an address consists of; the React Hook Form versions,
  which repeat the code. `AutoSuggest` starts its request ids again at zero when
  it is mounted again; the model counts on, as no answer reaches either.
* `MessageTab`: leaving the page (no answer reaches one that is gone) and the text
  in the editor.
* `TaDashboard`: the search box, the dialogs over the page, the check that the
  service is active. Year and status of the filter menu are one value.

## 4. Runs

Each run is `tlc -config <cfg> <module>`; every one ends within three minutes.

| Run | Question | Bounds, and why they are enough |
|---|---|---|
| `wizard_quote` | Does the client ever believe more than the server accepted, is a step accepted out of turn other than under the spinner, does a refusal reach the completion page, does a conflict reload, does a form at rest have its own step's values, do loads end - and does `Wizard` implement `Submission`? | 2 steps, of which one is the last and one not: the guard, the redirects and the completion differ only there. 3 calls in flight (`CallId`): two that overtake each other, of which the user starts no more than leave one free (`Reserve`) for the load that a redirect or a conflict sends. Five outcomes: accepted, conflict, no answer, and one each of the refusals that leave the wizard and that end the session. Re-renders allowed, the user free to act at any time. |
| `wizard_order` | Violation: a step is accepted before the one in front of it. | 3 steps (first, middle, last). |
| `wizard_rfq_summary` | Violation: a refused request for quote reaches the success page. | the last two steps, conflicts and lost connections. |
| `attachments` | Is what a row remembers as saved what the server holds, does the row show it, and can a late answer change another document's row? | Three settings, one of which the initial state chooses. `Overlapping`: 1 document, 3 overlapping saves, 3 categories - a third save is the least that can be between an old and a new one. `Deleted`: 2 documents that may be deleted, 2 saves. `Replaced`: 2 documents and an uploaded third, rows deleted, appended and unmounted, saves handled in any order and answers lost; one save, as the question is of one answer meeting another list. |
| `attachments_refused` | Violation: a refused upload empties the list. | 1 document, 1 upload. |
| `upload_polls` | Do aborted polls stop, and does no progress bar stay without a poll? | 3 overlapping uploads, one more than the page has references to. |
| `upload_outlives` | Violation: a poll outlives the page. | 2 uploads. |
| `late_answers` | Does any spinner stay, is what is shown of the right page, search or application, is a draft made twice, does a page that is gone still navigate? | Badge: 2 applications opened in 3 runs - there and back again, so an old chain may be of the application shown, or of the other. Messages: 2 filters, 2 pages, 3 loads or messages under way. Look-up: 2 addresses, 1 typed text, 4 requests. Type approval dashboard: 2 tabs, 2 pages, 2 organisations (and none), 3 loads. Entry pages: 3 services, with StrictMode and without, 3 visits (a create page, its wizard, and back), 1 change of the accounts. |
| `ta_branch` | Violation: another organisation's first list is its second page. | 2 organisations, 2 pages. |
| `onboarding` | Is what the client believes real, do redirections end, does a user get through the setup? | 2 branches (the default and the other), every server record, every page, every answer. There is no counter to bound. |
| `onboarding_target` | Violation: name and number of the target organisation are exchanged. | 1 branch. |
| `dashboard` | Does the dashboard come to rest on the list it was last asked for, usable, without the deleted draft? | 2 tabs, 2 pages, 2 texts, 2 organisations (and none), 1 filter: a property compares one question with one other. `MaxLoads = 3`: the user acts while at most one overtaken load is outstanding, and a mount or a choice of branch then starts two more. |

`CHECK_DEADLOCK FALSE` appears where a user who has left, or has used up a
bound, has nothing more to do; the `.cfg` says which.

No run uses symmetry. In `Wizard` a call takes the least free id (`Least`), which
leaves out only the renaming of calls, and keeps the liveness property sound.

### 4.1 Fairness

Liveness is never about the user, except in `SetupEnds`, whose point is a user
who keeps trying.

* A request is answered or fails: browsers time requests out, and the clients'
  promises settle either way. Weak fairness of each call's answer and of its
  arrival (`Wizard`, `UploadPolling`, `MessagePoll`, `Onboarding`, `Dashboard`).
  `PagesSpec` of `MCPages` asks it of each request of the part the user is at;
  of `TaDashboard` of the oldest load only, since each load becomes the oldest.
* `SpinnersEnd` asks nothing of the user or of the account's details.
* Timers fire and the router renders the page it was sent to: weak fairness of
  back-off, poll timer, debounce, `FollowView`, `FollowRedirect`, `GoHome`.
* `ProgressGoesAway` assumes `ServerFinishes`, `BadgeCatchesUp` assumes
  `ServerAnswers`: an upload that never finishes, and an endpoint that always
  fails, refute nothing. Both assumptions are in the property, not in the
  specification.
* `SetupEnds` assumes that a user at rest goes on (signs in again, visits the
  dashboard) and that the server does not refuse the same valid request for
  ever: strong fairness of `SignInOk`, `AcceptNew`, `Submit`.
* `SettlesWhenLeftAlone` asks only that the user stops: `<>[][~User]_vars`.

## 5. Disagreements the runs show

Each is a "violation" run with one property, and TLC prints the behaviour.

1. `CompletionMeansSubmitted` with the request-for-quote handlers:
   `requestForQuoteSummaryProps.ts:75` logs a refused submit and returns, so the
   controller marks the step, and navigates to the success page. Of the wizards
   of more than one step no other handler does so; of those of one step, three
   do: the contact form (`contactWizardStepProps.ts:93`), the update of the
   account (`updateAccountProps.ts:93`) and the new branch
   (`addBranchProps.ts:134`), which tell the user by a notification instead. `WizardProofs!CompletionIsReal` proves that a wizard whose last
   handler does not hide a refusal completes only what was accepted.
2. `AcceptedInOrder`: the linear guard waits for the first load of a wizard
   (`useWizardStepController.ts:340`). Until then the form of a step opened by
   its URL or from the history is rendered (`FormikForm/index.tsx:116`), its
   buttons are enabled, and the spinner is only drawn over it
   (`BlockUISpinner/index.tsx:43`), so keys reach it: the step is submitted and
   accepted before those in front of it. `GuardedInOrder` states what is left:
   no other save is out of order, and the promise of `Submission` has these
   steps as `ahead`.
3. `ListIsHeld`: `routes/ta/manage/appDocuments.tsx:176` turns a refused upload
   into an empty result, and the list is replaced by it.
4. `NoPollOutlivesPage`: the controller of a poll is created after an await, so
   the unmount effect can run before there is anything to abort
   (`routes/ta/index.tsx:106`), and the second of two uploads replaces the first
   one's controller.
5. `TargetIsAPair`: `BranchSelectorModal/index.tsx:178` passes name and number
   in the wrong order.
6. `BranchStartsAtFirstPage`: the effect of the type approval dashboard that goes
   back to the first page when the branch changes waits for a dialog mode in the
   account's details, where nothing puts it (`dashboard-ta.tsx:329-345`, against
   the comment at `:333`).

## 6. What is known not to hold, and what is assumed

A reader should not take the passing properties for more than they say.

**Wizard.**
The user can act under the spinner, in the code and in the model: steps may be
accepted ahead of those in front of them (section 5), and the completion page
then says no more than that the last step was accepted. `GuardedInOrder` sets
exactly the saves sent under the spinner apart (`ahead`).
React Router keeps one component for all steps, so a step first shows the
previous step's values and, if it is submitted before its load arrives, saves
them (`useWizardStepController.ts:99`). `ShowsItsOwnValues` speaks of a form with
no load under way, and excepts (`astray`) the case in which the last load to end
failed or was of another step: an older load that ends last leaves its values,
as no load is aborted when its step is left.
A step can be submitted again while a save of it is under way; when both saves
are refused as conflicts, the second does not reload, as the effect at `:144`
sees no change of kind - it is left to the reload of the first.
`ConflictReloads` therefore speaks of saves that had no other of the mounted
component beside them (`alone`).
A re-render of the route reloads the step and clears a conflict banner the user
may not have read (`:109`). That the server accepts a step only on its own
merits is external.

**Attachments.** The blank category is never sent but counts as saved
(`rhfSupportingDocuments.tsx:201`, against the comment at
`RhfAttachmentItem.tsx:55`); `SavedIsHeld` sets it apart. If the newest save
fails while an older one is in flight, the row goes back to what was saved
before both (`RhfAttachmentItem.tsx:90`); `ShownIsSaved` therefore speaks of a
newest save that succeeded, or of saves that all failed. If the answer to a save
that was carried out is lost, or the server handles saves out of order, the row
is wrong about the server; `SavedIsHeld` assumes neither (`ServedWell`), while
`RevertsItsOwnDocument`, which needs no such thing, is checked with both. An
upload brings the list as the server knows it, blank choices and unsaved ones
undone, so that the first two properties set uploads apart, and `ShownIsSaved`
deletions as well. A file uploaded
between the confirmation and the answer of a deletion is dropped from the list
(`RhfAttachment/index.tsx:173`).

**Upload polling.** `handleCancelFile` reads `uploadIdRef` after its await for a
token, and may name another upload than the one on the screen
(`routes/ta/index.tsx:131`).

**Entry pages.** The accept-quote and type-approval wizards await their token
outside the `try`: if it fails, the page stays on its spinner (`ta/index.tsx:71`,
`acceptQuote/index.tsx:60`), and `SpinnersEnd` sets that case apart. Their late
failures take the user to the not-found page wherever the user is by then;
`NoStrayNavigation` therefore speaks of request-for-quote pages. A
request-for-quote page that lost the answer to its creation may create a second
draft (`requestForQuote/create/index.tsx:31`).

**Message polling.** After the page is left a chain may send one more request,
as only the newest timer can be cleared: `ChainsEndAfterLeaving` says that it is
one and no more. (`src/tests/unit/routes/ta/appDetails.test.tsx:530` tests the
case of one chain.) The badge may show the other application's count until the
next answer.

**Message tab.** Nothing drops the answer to an overtaken load. An answer turns
the page to its own, which loads again, so two loads of different pages can keep
each other going for ever: `SpinnersEnd` sets that case apart (`LoadsAgree`). A
sent message wipes what was typed meanwhile.

**Look-up.** The way back from the manual entry clears `isManuallyEntered` and
leaves lines and text as they are (`AddressLookup/index.tsx:79-91`, `221`): after
an address was picked, edited by hand and the search opened again, the form has
hand-edited lines beside the text of the address picked, and submits them as
picked, past the rules for manual entry (`validationSchemas/addressValidation.ts`).
`AddressSuggest` gets there, too (`Pick`, `EnterManually`, `Write`, `SearchAgain`);
no property speaks of lines and text.

**Onboarding.** A branch save that completes the account sets the client's flag
whatever the server's record says, so `FlagsAreReal` speaks of terms and contact
only. `SetupEnds` excepts a lost answer: a contact or account that was saved,
and whose answer was lost, is refused from then on as existing.

**Account.** Each change of the profile is saved by a request of its own, nothing
keeps them in order at the server, and a refusal is only logged
(`AccountProvider.tsx:202`). The account's answer may come after a sign-out has
cleared the details, and sets them again (`:259`). In the branch dialog a failed
token leaves the saving overlay (`BranchSelectorModal/index.tsx:220`), and every
change of the account puts the default branch back in the place of the user's
choice (`:327`).

**Dashboard.** Selecting the tab on display again on its first page empties the
list and loads nothing, as no dependency of the load changes
(`routes/dashboard/index.tsx:352`; React Bootstrap calls `onSelect` for the
active tab too). `emptied` remembers it, `refused` remembers a forbidden list,
and `ShowsWhatIsAsked` shows that these are the only two ways to rest on another
list. Every mount goes to page 1 whatever page was saved, because the reference
the branch effect compares with starts as null (`:395-430`, against the comment
at `:387`, "once per branch selection"). A profile without a tab shows Drafts as
selected but loads nothing until a tab is chosen (`:471`; `Askable`). A deletion
whose dialog was closed navigates home when it returns, wherever the user is
(`RFQDeleteModal/index.tsx:78`). The end of an aborted load may hide its
successor's spinner for a moment (`:526`).

**Type Approval dashboard.** Unlike the other dashboard this one neither aborts
an overtaken load nor ignores its answer: the rows may be of another tab than the
one on display. `ListIsOfTheFilters` shows that nothing but an overtaken answer
or a refusal does that, `PageIsOfTheAnswer` that the page marked is of the list
even then. The debounced save of a tab writes the filters of its click, so it
overwrites a page or filter saved while it waited
(`dashboard-ta.tsx:244`); it is dropped when the dashboard is left.

**Forms.** After a save that the server refused, the form is valid and submitted,
so `isServerRejected` is false and the form can be left without a question
(`UnsavedChangesPrompt.tsx:28`).

## 7. Proofs

Every theorem is of the specification without fairness (`Spec => ...`), for any
value of the constants that satisfies the module's assumptions. The argument is
an inductive invariant each time; TLC checked the invariant on the instances
above before it was proved.

| Module | Theorems | Argument |
|---|---|---|
| `WizardProofs` | `TypeCorrect`, `FailuresAreShown`, `ClientBelievesNoMore`, `GuardKeepsOrder`, `CompletionIsReal`, `WizardKeepsThePromise`, `ConflictsReload`, `ValuesGoWithTheStep`, `SpinnersHaveALoad` | The type invariant is inductive; one lemma per helper (`Reload`, `MountAt`, `SetError`) serves the many actions that end in it. `FailuresAreShown` is by cases on the handler kinds: no refusal resolves to "no error". `BeliefInv`: types, `CompletedOnlyIfAccepted`, and `SavesGranted` - a completing save answered with success has its step accepted; without it nothing is known of a save that arrives after the user has moved on. It needs no assumption, as a status is set only by such a save or by a fresh mount. `OrderInv` adds `GuardedInOrder` and `GuardedSaves` - a completing save in flight that was sent while the guard looked has all earlier steps accepted. Most actions only drop calls (`Quiet`), and one lemma settles those at once. The completion page follows from `BeliefInv` at the step that shows it. The refinement maps `granted`, `ahead`, `believed` and `finished` to `accepted`, its history, `stepStatuses` and the completion page. `ConflictInv`: while a save with no other beside it waits for its answer no conflict banner is up, as every submit clears it and only the answer to a save brings one; so the answer changes the kind of the error and the effect runs. `LoadsGoOn` says what any step does to the loads under way; the spinner and the values of another step both wait for one. |
| `AttachmentsProofs` | `AttachmentTypes`, `OthersKeepTheirs`, `TheRowShowsWhatIsSaved`, `TheRowBelievesRightly` | Lists are sequences that name a document once; `PutOne` and `WithoutOne` say what a handler's list keeps. `Base`: types, live rows, documents named once. `ShownInv` adds that a row whose newest save is over shows what it believes to be saved; an old failure is no exception, as its token is not the newest. `HeldInv` adds that tokens grow with the calls, that saves of a document are handled in turn, and that the server holds what the last answered save carries which the row has not heard of, or else what the row believes. |
| `UploadPollingProofs` | `UploadTypes`, `BarsAreLive`, `SilentAfterAbort` | `PollInv` adds that only leaving the page aborts, that a page that is gone shows nothing, and that a bar names its upload. `SilentAfterAbort` is an action property: every request goes through the check at the start of `Polls`. |
| `OnboardingProofs` | `OnboardingTypes`, `RedirectionsEnd`, `ClientIsTruthful`, `SuccessIsEarned` | `Truthful`: types, `FlagsAreReal`, and that a call answered with success was accepted (`AnswersAreReal`), without which a late answer could set any flag. `RedirectionsEnd` is a fact about the redirect operators alone. |
| `DashboardProofs` | `DashboardTypes`, `TheTabsOwnList`, `TheNewestQuestionWins`, `LockIsTheDialogs`, `TheDeletedStayGone`, `DashboardShowsTheLatest`, `DashboardSpinnerHasALoad` | `IInv`: types, the list is of the tab, the one load that is not aborted asks what is asked now (`AsksThePresent`), and a dashboard that waits for nothing was answered (`Answered`). The load effect is one lemma (`EffectKeeps`), cited by every action that ends in it. `RestInv` adds that tokens come in order, that the lock still to be set is that of the dialogs open now, and that once the deletion has returned no answer on its way shows the draft. The refinement maps the question to what the page asks once it can ask, and the answer to the question of the list; its steps need that a load still wanted was askable (`OnlyAskable`) and that a page which can ask stays able to (`StaysAskable`). A tab selected again is the same question asked once more. |
| `EntryPagesProofs` | `OneRun`, `OneDraft`, `LocksAreOwned`, `FailuresStayAtHome`, `WizardsSpinForARun` | Everything is about one visit: `Sound` relates its lock, its unmounted ref and its runs, `DraftOK` its drafts to its runs. Each action changes one visit, or unmounts the one shown, so a lemma per operator on the record of a visit is all there is. |
| `PartsProofs` | `ShownChainStaysAlive`, `ChainsRunDownAfterLeaving`, `TabMarksItsPage`, `TabSpinsForWork`, `LookUpShowsTheLatest`, `LookUpKeepsItsTypes`, `LookUpSpinsForASearch`, `DashboardShowsWhatItAsks`, `DashboardSpinsForLoads` | One section per instance of `MCPages`, each about the instance's own specification. Chains: a cleanup runs when a new run has started its own chain, or when the page is left, so a chain it ends is never the one of the application then shown; a failed count schedules the next. Once the page is left a chain only moves from pausing to fetching to its end. Message tab: the list is the one of the last load to end, which moved the page to its own. Its types are the harder half: that a place is free for each load needs the count of the places in use (`Waits`), as a message under way keeps one for the load that follows it. Look-up: `IdsInv` says that ids above the newest are unused, and that a search under way, and the controller's, has a term; then a step that changes the suggestions is an answer of the newest request, a withdrawal or a new search of `LatestAnswer`. Type approval dashboard: every operation that changes the question runs the load, so the newest load asks what the filters ask, and it is the last to end unless an answer overtook another. |
| `PagesProofs` | `PagesImplementTheirParts`, `PagesKeepTypes`, `PagesKeepTheChain`, `PagesRunDown`, `PagesMarkTheirPage`, `PagesShowWhatTheyAsk`, `PagesSuggestTheLatest`, `PagesSpinForWork` | The system of `MCPages` implements the specification of each of its parts: a step is a step of the part the user is at, and a stutter of the others. What `PartsProofs` and `EntryPagesProofs` prove of the parts is then proved of `PagesSpec`, which is what the run `late_answers` checks. |

Assumptions on constants beyond types:

* `GuardKeepsOrder`: no step but the last hides the refusal of its save
  (`OnlyTheLastHides`), which is so in every wizard of the code.
  `CompletionIsReal`: the last one does not (`LastDoesNotHide`);
  `WizardKeepsThePromise`: none does (`NoneHides`). The request-for-quote summary
  shows that the last two are needed. The other theorems of `WizardProofs` assume
  nothing of handlers, and none assumes anything of the user.
* `UploadPolling`, `MessagePoll`, `Onboarding`, `Dashboard`: `None` is none of
  the values it stands beside; bounds are positive.
* `PollAssumption` of `MessagePoll`, `TabAssumption` of `MessageTab`,
  `TextsAssumption` of `AddressSuggest` and `ListAssumption` of `TaDashboard` are
  hypotheses of the theorems in `PartsProofs`, since these modules are used
  through `INSTANCE`. They say that `None` is none of the values it
  stands beside, and that
  bounds are natural numbers, positive where something exists from the start. `MCPages` assumes all four of its instances, so that
  TLC evaluates them, and the theorems of `PagesProofs` have no hypothesis left.
* `Attachments`: the list a page starts with names no document twice
  (`NoDocTwice`), as the server's identifiers are unique.

The bounds (`CallId`, `MaxRuns`, `MaxLoads`, ...) are constants as well, so the
theorems hold for every number of calls, runs and loads.

### 7.1 Only model-checked

* Liveness: `LoadingEnds`, `AbortEndsPoll`, `ProgressGoesAway`,
  `ChainsEndAfterLeaving`, `BadgeCatchesUp`, `SpinnersEnd`, `SetupEnds`,
  `SettlesWhenLeftAlone`. Fairness is out of the prover's reach, and so is
  `ENABLED`.
  What safety says of some of them is proved. `PagesRunDown`: once the page is
  left every chain of counts comes closer to its end, so of
  `ChainsEndAfterLeaving` only the timers and answers are left. `PagesSpinForWork`,
  `SpinnersHaveALoad` and `DashboardSpinnerHasALoad`: every spinner has a request
  behind it that takes it away, so of `SpinnersEnd`, `LoadingEnds` and the spinner
  in `SettlesWhenLeftAlone` it is left that the answers come and, in the message
  tab, that two loads do not keep each other going. For the look-up that request is
  the newest search, not yet aborted; for the pages in front of the accept-quote and type-approval wizards it may be over without a
  token, as section 6 tells. TLC checked these invariants on the instances of
  `late_answers`, `wizard_quote` and `dashboard` before they were proved; they are
  no properties of a run, since the liveness properties there say more. The same
  instance of `dashboard` was checked for the refinement of `LatestAnswer`.
* The six properties of the "violation" runs do not hold, so there is nothing to
  prove; `CompletionIsReal` says under which handlers one of the wizard's does, and
  `GuardKeepsOrder` what is left of the other.

Every invariant and every action property of a passing run is stated by a
theorem.

## 8. Not modelled

`PROJECT.json` lists every component with its reason, and every known hazard
with the property that covers it, or the reason why none does.

* The leaving guard and the form shells: one condition over the state of two form
  libraries; what it misses is told in section 6. Account and contact forms are
  wizards of one step; their handlers are in `StepHandlers`, what they set in
  `Onboarding`.
* The Formik attachment list repeats `RhfAttachment` on another form library.
* The organisation and certificate look-ups: the same `AutoSuggest` in front of
  other services.
* The quotation view (one load, one decline) and pagination (which page numbers
  are drawn) keep no state that outlives a step of another part.
* Validation schemas are data: lengths, patterns, digits.
* The API client is generated; it appears as the server actions of each module.
* Layout, static pages, help texts, stories, logging, analytics, scripts: they
  render or record, and nothing that is modelled reads what they write.

The modelled code is the part with state and awaits, about 5 000 lines. Most of
the rest of the repository is rendering, schemas, generated code, stories, help
texts and tooling, which is why only a small share of all its lines is mapped.
