----------------------------- MODULE MessagePoll -----------------------------
(***************************************************************************)
(* The unread-message count of the application page                        *)
(* (routes/ta/manage/appDetails.tsx): every effect run starts a chain of   *)
(* requests, each scheduled five seconds after the answer to the one       *)
(* before.  The cleanup of a run clears the one timer the page refers to;  *)
(* only unmounting sets disposedRef.  The route keeps the component when   *)
(* its :id changes, so a chain whose request is under way at that moment   *)
(* goes on, for the application it closed over, beside the new chain.      *)
(*                                                                         *)
(* The load of the page's details runs on the same changes and writes the  *)
(* same count.  The access token's await is part of each request.          *)
(***************************************************************************)
EXTENDS Integers

CONSTANTS
  App,      \* the applications the user may look at
  MaxRuns,  \* bound: effect runs, one per application opened
  None      \* no chain, no count

\* What an instance has to give the constants.
PollAssumption ==
  /\ None \notin App \union Int
  /\ MaxRuns \in Nat \ {0}

Run == 1 .. MaxRuns

VARIABLES
  appOf,     \* the application each effect run was started for
  run,       \* the newest effect run
  chain,     \* of each run's chain: not started, fetching, pausing, ended
  load,      \* of each run's load of the details: is it under way?
  timerRef,  \* pollTimeoutRef: the run whose timer was set last
  disposed,  \* disposedRef
  count      \* the application whose count the badge shows

vars == <<appOf, run, chain, load, timerRef, disposed, count>>

Shown == appOf[run]
Alive(i) == chain[i] \in {"fetching", "pausing"}

Init ==
  /\ run = 1
  /\ appOf \in {f \in [Run -> App \union {None}] :
                  \A i \in Run : (f[i] = None) <=> (i > 1)}
  /\ chain = [i \in Run |-> IF i = 1 THEN "fetching" ELSE "none"]
  /\ load = [i \in Run |-> i = 1]
  /\ timerRef = None
  /\ disposed = FALSE
  /\ count = None

\* clearPollTimeout: nothing happens to a timer that has fired, or to one
\* the page no longer refers to.
TimerCleared ==
  [i \in Run |-> IF i = timerRef /\ chain[i] = "pausing"
                 THEN "ended" ELSE chain[i]]

-----------------------------------------------------------------------------
(* The user *)

\* Mutant: The chain of the first application goes on for all of them.
OpenApplication_SameChain(app) ==
  /\ ~disposed
  /\ run < MaxRuns
  /\ app # Shown
  /\ run' = run + 1
  /\ appOf' = [appOf EXCEPT ![run + 1] = app]
  /\ load' = [load EXCEPT ![run + 1] = TRUE]
  /\ UNCHANGED <<chain, timerRef, disposed, count>>

\* The :id of the route changes: the effects are cleaned up and run again.
OpenApplication(app) ==
  /\ ~disposed
  /\ run < MaxRuns
  /\ app # Shown
  /\ run' = run + 1
  /\ appOf' = [appOf EXCEPT ![run + 1] = app]
  /\ chain' = [TimerCleared EXCEPT ![run + 1] = "fetching"]
  /\ load' = [load EXCEPT ![run + 1] = TRUE]
  /\ timerRef' = None
  /\ UNCHANGED <<disposed, count>>

LeavePage ==
  /\ ~disposed
  /\ disposed' = TRUE
  /\ chain' = TimerCleared
  /\ timerRef' = None
  /\ UNCHANGED <<appOf, run, load, count>>

-----------------------------------------------------------------------------
(* The answers and the timers *)

\* Mutant: The check of disposedRef before the next timer is missing.
Reschedule_Always(i) ==
  chain' = [chain EXCEPT ![i] = "pausing"] /\ timerRef' = i

\* After a request, answered or not: schedule the next, unless disposed.
Reschedule(i) ==
  IF disposed
    THEN chain' = [chain EXCEPT ![i] = "ended"] /\ UNCHANGED timerRef
    ELSE chain' = [chain EXCEPT ![i] = "pausing"] /\ timerRef' = i

CountArrives(i) ==
  /\ chain[i] = "fetching"
  /\ count' = IF disposed THEN count ELSE appOf[i]
  /\ Reschedule(i)
  /\ UNCHANGED <<appOf, run, load, disposed>>

\* Mutant: The error of a failed count is not caught: the chain rejects.
CountFails_Uncaught(i) ==
  /\ chain[i] = "fetching"
  /\ chain' = [chain EXCEPT ![i] = "ended"]
  /\ UNCHANGED <<appOf, run, load, timerRef, disposed, count>>

CountFails(i) ==
  /\ chain[i] = "fetching"
  /\ Reschedule(i)
  /\ UNCHANGED <<appOf, run, load, disposed, count>>

TimerFires(i) ==
  /\ chain[i] = "pausing"
  /\ chain' = [chain EXCEPT ![i] = "fetching"]
  /\ UNCHANGED <<appOf, run, load, timerRef, disposed, count>>

\* React ignores the state a page sets that is gone.
LoadArrives(i) ==
  /\ load[i]
  /\ load' = [load EXCEPT ![i] = FALSE]
  /\ count' = IF disposed THEN count ELSE appOf[i]
  /\ UNCHANGED <<appOf, run, chain, timerRef, disposed>>

LoadFails(i) ==
  /\ load[i]
  /\ load' = [load EXCEPT ![i] = FALSE]
  /\ UNCHANGED <<appOf, run, chain, timerRef, disposed, count>>

-----------------------------------------------------------------------------
CountAnswered(i) == CountArrives(i) \/ CountFails(i)

Next ==
  \/ \E app \in App : OpenApplication(app)
  \/ LeavePage
  \/ \E i \in Run : CountAnswered(i)
  \/ \E i \in Run : TimerFires(i)
  \/ \E i \in Run : LoadArrives(i) \/ LoadFails(i)

Spec == Init /\ [][Next]_vars

\* Requests settle and timers fire.
Fairness ==
  \A i \in Run : WF_vars(CountAnswered(i)) /\ WF_vars(TimerFires(i))

\* Not every request of a chain fails.
ServerAnswers == \A i \in Run : SF_vars(CountArrives(i))

FairSpec == Spec /\ Fairness

-----------------------------------------------------------------------------
TypeOK ==
  /\ run \in Run
  /\ appOf \in [Run -> App \union {None}]
  /\ \A i \in Run : (appOf[i] = None) <=> (i > run)
  /\ \A i \in Run : i > run => chain[i] = "none" /\ ~load[i]
  /\ chain \in [Run -> {"none", "fetching", "pausing", "ended"}]
  /\ load \in [Run -> BOOLEAN]
  /\ timerRef \in Run \union {None}
  /\ disposed \in BOOLEAN
  /\ count \in App \union {None}

\* Only the timer set last can be cleared, so leaving the page may leave
\* timers of overtaken chains behind.  Each fires once more at most: after the
\* page is gone every chain ends (the check of disposedRef at :134).
ChainsEndAfterLeaving == disposed ~> \A i \in Run : ~Alive(i)

\* While the page is there, the chain of the application it shows is alive:
\* no cleanup of another run, and no failed request, ends it.
ShownChainIsAlive == ~disposed => Alive(run)

\* ... so whatever an overtaken chain or load writes, the badge comes back to
\* the count of the application on the screen.
BadgeCatchesUp ==
  ServerAnswers =>
    \A app \in App :
      (~disposed /\ Shown = app) ~> (disposed \/ Shown # app \/ count = app)
=============================================================================
