----------------------------- MODULE Submission ------------------------------
(***************************************************************************)
(* What a wizard promises, whatever its requests do: the server grants the *)
(* steps of an application in their order and takes none back, but for the *)
(* steps granted ahead; the client believes no more than was granted; and  *)
(* the completion page follows the grant of the last step, which is that   *)
(* of every step unless the last one was granted ahead.                    *)
(***************************************************************************)
EXTENDS Integers

CONSTANT NSteps

VARIABLES
  granted,   \* the steps the server accepted
  ahead,     \* those it was asked for without a look at the steps before
  believed,  \* the steps the client holds as completed
  finished   \* the completion page is shown

vars == <<granted, ahead, believed, finished>>

Step == 0 .. NSteps - 1
Last == NSteps - 1

Init == granted = {} /\ ahead = {} /\ believed = {} /\ finished = FALSE

\* The server accepts a step when it has accepted those before it; steps may
\* be submitted again.
Grant(s) ==
  /\ \A t \in Step : t < s => t \in granted
  /\ granted' = granted \union {s}
  /\ ahead' = ahead \ {s}
  /\ UNCHANGED <<believed, finished>>

GrantAhead(s) ==
  /\ s \notin granted
  /\ granted' = granted \union {s}
  /\ ahead' = ahead \union {s}
  /\ UNCHANGED <<believed, finished>>

\* The client hears of steps, and forgets them when it leaves the wizard.
Believe ==
  /\ believed' \in SUBSET granted
  /\ \/ finished' = finished
     \/ finished' = FALSE
     \/ /\ finished' = TRUE
        /\ Last \in granted
        /\ Last \in ahead \/ granted = Step
  /\ UNCHANGED <<granted, ahead>>

Next == Believe \/ \E s \in Step : Grant(s) \/ GrantAhead(s)

Spec == Init /\ [][Next]_vars
=============================================================================
