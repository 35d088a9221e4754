------------------------------ MODULE EntryPages ------------------------------
(***************************************************************************)
(* The pages in front of a wizard: those that create a draft and go on to  *)
(* its wizard (routes/requestForQuote/create and copy, acceptQuote/create, *)
(* ta/create), and the loading of the wizard's step statuses               *)
(* (routes/requestForQuote, acceptQuote and ta).  Each does its work in an *)
(* effect that React runs again when the signed-in accounts change, twice  *)
(* on mounting in StrictMode, and guards the work with a ref.  There are   *)
(* three kinds of guard:                                                   *)
(*   - set at the start and released at the end: the "rfq" wizard;         *)
(*   - set at the start and released by a failure: the "rfq" create pages; *)
(*   - only ever set, by the cleanup of the effect: "quote" and "ta".      *)
(*                                                                         *)
(* A visit is one mounting of a page.  The answers to a visit that was     *)
(* left still arrive.  The accounts are never empty here: the routes are   *)
(* rendered for a signed-in user only.                                     *)
(***************************************************************************)
EXTENDS Naturals

CONSTANTS
  Service,     \* the services whose pages are visited
  MaxVisits,   \* bound on the visits
  MaxRenewals  \* bound on the changes of the accounts

ASSUME EntryAssumption ==
  /\ Service \subseteq {"rfq", "quote", "ta"}
  /\ MaxVisits \in Nat
  /\ MaxRenewals \in Nat

VARIABLES
  service,    \* the service the user is at
  strict,     \* is this a development build, with StrictMode?
  lossy,      \* may the answer to an accepted request be lost?
  details,    \* have the account's details been loaded?  ("rfq" waits for them)
  place,      \* the page shown
  fromCreate, \* is a create page the history entry behind the wizard?
  visit,      \* the newest visit
  visits,     \* of each visit: its refs, its state and its runs
  drafts,     \* of each visit: the drafts it made the server create
  renewals    \* how often the accounts changed

vars == <<service, strict, lossy, details, place, fromCreate, visit, visits,
          drafts, renewals>>

Visit == 1..MaxVisits
Page == {"create", "wizard"}
Place == Page \cup {"elsewhere", "notFound"}

\* A run of the effect's work.  "stuck" is a failure that nobody shows.
Run == 1..2
Phase == {"idle", "token", "first", "last", "done", "stuck"}
Busy(r, i) == r.runs[i] \in {"token", "first", "last"}

\* Accepting a quote asks for two things, the other pages for one.
FirstRequest == IF service = "quote" THEN "first" ELSE "last"

ReleasedAtEnd(r) == service = "rfq" /\ r.page = "wizard"
ReleasedByFailure(r) == service = "rfq" /\ r.page = "create"
SetByCleanup(r) == service # "rfq"

Fresh(p) == [page |-> p, lock |-> FALSE, isUnmounted |-> FALSE,
             ready |-> FALSE, runs |-> [i \in Run |-> "idle"]]

-----------------------------------------------------------------------------
(* The effect, on the record of a visit *)

MayStart(r, known) ==
  /\ ~r.lock
  /\ ~r.ready
  /\ ReleasedAtEnd(r) => known

FreeRun(r) == IF Busy(r, 1) THEN 2 ELSE 1

\* Mutant: The lock is taken when the answer arrives.
Started_NoLock(r) == [r EXCEPT !.runs[FreeRun(r)] = "token"]

\* The work begins; the request-for-quote pages take the lock themselves.
Started(r) ==
  [r EXCEPT !.runs[FreeRun(r)] = "token", !.lock = @ \/ ~SetByCleanup(r)]

Effect(r, known) == IF MayStart(r, known) THEN Started(r) ELSE r

\* Mutant: The cleanup leaves the lock alone.
Cleanup_NoLock(r) == r

Cleanup(r) == [r EXCEPT !.lock = @ \/ SetByCleanup(r)]

Unmounted(r) == [Cleanup(r) EXCEPT !.isUnmounted = TRUE]

\* Mutant: The flag is initialised once and not reset by a remount.
Remounted_Latched(r) == r

Remounted(r) == [r EXCEPT !.isUnmounted = FALSE]

\* The first render of a page.  StrictMode unmounts and remounts it.
Mounted(p) ==
  LET first == Effect(Fresh(p), details)
  IN IF strict THEN Effect(Remounted(Unmounted(first)), details) ELSE first

IsShown(v) == place \in Page /\ visit = v

\* What the visits are when the page shown is left.
AfterLeaving(vs) ==
  [v \in Visit |-> IF IsShown(v) THEN Unmounted(vs[v]) ELSE vs[v]]

-----------------------------------------------------------------------------
Init ==
  /\ service \in Service
  /\ strict \in BOOLEAN
  /\ lossy \in BOOLEAN
  /\ details \in (IF service = "rfq" THEN BOOLEAN ELSE {TRUE})
  /\ place = "elsewhere"
  /\ fromCreate = FALSE
  /\ visit = 0
  /\ visits = [v \in Visit |-> Fresh("create")]
  /\ drafts = [v \in Visit |-> 0]
  /\ renewals = 0

\* The page p is mounted, in the place of the one shown, within the bound.
Shows(p, vs) ==
  /\ visit < MaxVisits
  /\ place' = p
  /\ visit' = visit + 1
  /\ visits' = [vs EXCEPT ![visit + 1] = Mounted(p)]

(* The user *)

Open(p) ==
  /\ place = "elsewhere"
  /\ Shows(p, visits)
  /\ fromCreate' = FALSE
  /\ UNCHANGED <<service, strict, lossy, details, drafts, renewals>>

Leave ==
  /\ place # "elsewhere"
  /\ place' = "elsewhere"
  /\ fromCreate' = FALSE
  /\ visits' = AfterLeaving(visits)
  /\ UNCHANGED <<service, strict, lossy, details, visit, drafts, renewals>>

\* Back in the browser's history: the create page navigated without
\* replacing its entry, so it is mounted again.
Back ==
  /\ place = "wizard"
  /\ fromCreate
  /\ Shows("create", AfterLeaving(visits))
  /\ fromCreate' = FALSE
  /\ UNCHANGED <<service, strict, lossy, details, drafts, renewals>>

-----------------------------------------------------------------------------
(* The effect runs again: the accounts change, or the details arrive. *)

AccountsChange ==
  /\ place \in Page
  /\ renewals < MaxRenewals
  /\ renewals' = renewals + 1
  /\ visits' = [visits EXCEPT ![visit] = Effect(Cleanup(@), details)]
  /\ UNCHANGED <<service, strict, lossy, details, place, fromCreate, visit,
                 drafts>>

DetailsArrive ==
  /\ ~details
  /\ details' = TRUE
  /\ visits' =
       [v \in Visit |-> IF IsShown(v) /\ ReleasedAtEnd(visits[v])
                          THEN Effect(visits[v], TRUE) ELSE visits[v]]
  /\ UNCHANGED <<service, strict, lossy, place, fromCreate, visit, drafts,
                 renewals>>

-----------------------------------------------------------------------------
(* The answers *)

RunGoes(v, i, phase) == [visits EXCEPT ![v].runs[i] = phase]

TokenArrives(v, i) ==
  /\ visits[v].runs[i] = "token"
  /\ visits' = RunGoes(v, i, FirstRequest)
  /\ UNCHANGED <<service, strict, lossy, details, place, fromCreate, visit,
                 drafts, renewals>>

\* The quote that is accepted, or the statuses that name it, are there.
FirstArrives(v, i) ==
  /\ visits[v].runs[i] = "first"
  /\ visits' = RunGoes(v, i, "last")
  /\ UNCHANGED <<service, strict, lossy, details, place, fromCreate, visit,
                 drafts, renewals>>

\* Mutant: Statuses for a visit that was left are dropped with the lock held.
LoadArrives_KeepsLock(v, i) ==
  /\ visits[v].page = "wizard"
  /\ visits[v].runs[i] = "last"
  /\ visits' = [visits EXCEPT ![v].runs[i] = "done", ![v].ready = IsShown(v)]
  /\ UNCHANGED <<service, strict, lossy, details, place, fromCreate, visit,
                 drafts, renewals>>

\* The statuses arrive; setting them runs the effect again.
LoadArrives(v, i) ==
  LET r == visits[v]
      applied == IsShown(v) /\ (ReleasedAtEnd(r) => ~r.isUnmounted)
  IN /\ r.page = "wizard"
     /\ r.runs[i] = "last"
     /\ visits' = [visits EXCEPT
          ![v].runs[i] = "done",
          ![v].ready = @ \/ applied,
          ![v].lock = IF ReleasedAtEnd(r) THEN FALSE ELSE @ \/ applied]
     /\ UNCHANGED <<service, strict, lossy, details, place, fromCreate, visit,
                    drafts, renewals>>

\* Mutant: A failed load navigates wherever the user is by now.
LoadFails_Anywhere(v, i) ==
  /\ visits[v].page = "wizard"
  /\ visits[v].runs[i] \in {"first", "last"}
  /\ place' = "notFound"
  /\ fromCreate' = FALSE
  /\ visits' = AfterLeaving(RunGoes(v, i, "done"))
  /\ UNCHANGED <<service, strict, lossy, details, visit, drafts, renewals>>

\* A load fails in the try block.  The request-for-quote wizard goes to the
\* not-found page only if it is mounted, the other wizards from anywhere.
LoadFails(v, i) ==
  LET r == visits[v]
      ended == [visits EXCEPT ![v].runs[i] = "done",
                              ![v].lock = @ /\ ~ReleasedAtEnd(r)]
  IN /\ r.page = "wizard"
     /\ \/ r.runs[i] \in {"first", "last"}
        \/ ReleasedAtEnd(r) /\ r.runs[i] = "token"
     /\ IF ReleasedAtEnd(r) /\ r.isUnmounted
          THEN visits' = ended /\ UNCHANGED <<place, fromCreate>>
          ELSE /\ place' = "notFound"
               /\ fromCreate' = FALSE
               /\ visits' = AfterLeaving(ended)
     /\ UNCHANGED <<service, strict, lossy, details, visit, drafts, renewals>>

\* The accept-quote and type-approval wizards await the token outside the
\* try block: nothing is shown of its failure.
TokenFails(v, i) ==
  /\ visits[v].page = "wizard"
  /\ SetByCleanup(visits[v])
  /\ visits[v].runs[i] = "token"
  /\ visits' = RunGoes(v, i, "stuck")
  /\ UNCHANGED <<service, strict, lossy, details, place, fromCreate, visit,
                 drafts, renewals>>

\* The draft exists and its id arrives: a mounted page pushes the wizard.
DraftArrives(v, i) ==
  LET done == RunGoes(v, i, "done")
  IN /\ visits[v].page = "create"
     /\ visits[v].runs[i] = "last"
     /\ drafts' = [drafts EXCEPT ![v] = @ + 1]
     /\ IF IsShown(v)
          THEN /\ Shows("wizard", AfterLeaving(done))
               /\ fromCreate' = TRUE
          ELSE visits' = done /\ UNCHANGED <<place, fromCreate, visit>>
     /\ UNCHANGED <<service, strict, lossy, details, renewals>>

\* Creating fails: before the server was asked, by its refusal, or because
\* the answer of a server that created the draft is lost.
CreateFails(v, i) ==
  /\ visits[v].page = "create"
  /\ Busy(visits[v], i)
  /\ visits' = [visits EXCEPT
       ![v].runs[i] = "stuck",
       ![v].lock = @ /\ ~ReleasedByFailure(visits[v])]
  /\ \E created \in (IF lossy /\ visits[v].runs[i] = "last"
                       THEN {0, 1} ELSE {0}) :
       drafts' = [drafts EXCEPT ![v] = @ + created]
  /\ UNCHANGED <<service, strict, lossy, details, place, fromCreate, visit,
                 renewals>>

-----------------------------------------------------------------------------
TokenAnswered(v, i) ==
  /\ visits[v].runs[i] = "token"
  /\ \/ TokenArrives(v, i)
     \/ TokenFails(v, i)
     \/ LoadFails(v, i)
     \/ CreateFails(v, i)

RequestAnswered(v, i) ==
  /\ visits[v].runs[i] \in {"first", "last"}
  /\ \/ FirstArrives(v, i)
     \/ LoadArrives(v, i)
     \/ LoadFails(v, i)
     \/ DraftArrives(v, i)
     \/ CreateFails(v, i)

Next ==
  \/ \E p \in Page : Open(p)
  \/ Leave
  \/ Back
  \/ AccountsChange
  \/ DetailsArrive
  \/ \E v \in Visit, i \in Run : TokenAnswered(v, i) \/ RequestAnswered(v, i)

Spec == Init /\ [][Next]_vars

\* Every token request and every request is answered in the end.  Nothing
\* is assumed of the user or of the account's details.
FairSpec ==
  /\ Spec
  /\ \A v \in Visit, i \in Run : WF_vars(TokenAnswered(v, i))
                              /\ WF_vars(RequestAnswered(v, i))

-----------------------------------------------------------------------------
(* Correctness *)

\* The refs and the history flag agree with what is shown: of the visits so
\* far only the one shown is not marked as unmounted.
TypeOK ==
  /\ service \in Service
  /\ {strict, lossy, details, fromCreate} \subseteq BOOLEAN
  /\ place \in Place
  /\ fromCreate => place = "wizard"
  /\ visit \in 0..MaxVisits
  /\ visits \in [Visit -> [page : Page, lock : BOOLEAN, isUnmounted : BOOLEAN,
                          ready : BOOLEAN, runs : [Run -> Phase]]]
  /\ \A v \in 1..visit : visits[v].isUnmounted = ~IsShown(v)
  /\ drafts \in [Visit -> Nat]
  /\ renewals \in 0..MaxRenewals

\* However often the effect runs, a visit never has two runs of its work
\* under way (the lock refs isLoading and isSaving).
OneRunPerVisit ==
  \A v \in Visit : ~(Busy(visits[v], 1) /\ Busy(visits[v], 2))

\* A visit to a create page makes at most one draft, unless the page tries
\* again after an answer that was lost: only the request-for-quote pages,
\* which release their lock, do (create/index.tsx:31).
OneDraftPerVisit ==
  \A v \in Visit : drafts[v] > 1 => lossy /\ service = "rfq"

\* A lock that is released by the run that took it is never left behind:
\* it is held only while that run is under way or after it made the draft.
LockIsOwned ==
  service = "rfq" =>
    \A v \in Visit :
      visits[v].lock =>
        \E i \in Run :
          \/ Busy(visits[v], i)
          \/ visits[v].page = "create" /\ visits[v].runs[i] = "done"

\* The request-for-quote wizard takes the user to the not-found page only
\* when the load that failed belongs to the visit shown.
NoStrayNavigation ==
  [][service = "rfq" /\ place' = "notFound" =>
       \E v \in Visit, i \in Run :
         IsShown(v) /\ Busy(visits[v], i) /\ ~Busy(visits'[v], i)]_<<place>>

\* A wizard that waits for its statuses does not stay on its spinner: it
\* gets them, or the user is taken away from it.  For the accept-quote and
\* type-approval wizards this needs a token (ta/index.tsx:75).
Spins ==
  /\ place = "wizard"
  /\ ~visits[visit].ready
  /\ details

SpinnerEnds ==
  Spins ~> \/ ~Spins
           \/ /\ SetByCleanup(visits[visit])
              /\ \E i \in Run : visits[visit].runs[i] = "stuck"

=============================================================================
