----------------------------- MODULE LatestAnswer -----------------------------
(***************************************************************************)
(* What a part that asks a server questions promises its user: the answer  *)
(* shown only ever changes to that of the last question asked, however     *)
(* late the answers to earlier ones come, and that answer comes.           *)
(***************************************************************************)
CONSTANTS
  Question,
  None       \* no question, no answer

VARIABLES
  asked,     \* the last question, unless it was withdrawn
  shown      \* the question whose answer is shown

vars == <<asked, shown>>

Init == asked = None /\ shown = None

\* The answer to the question before may stay until the new one comes.
Ask ==
  /\ asked' \in Question
  /\ shown' \in {shown, None}

Withdraw ==
  /\ asked' = None
  /\ shown' = None

Answer ==
  /\ asked # None
  /\ shown' = asked
  /\ UNCHANGED asked

Next == Ask \/ Withdraw \/ Answer

Safe == Init /\ [][Next]_vars

Spec == Safe /\ WF_vars(Answer)

=============================================================================
