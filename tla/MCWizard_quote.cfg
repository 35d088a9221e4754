\* Two accept-quote steps; answers of every outcome; three calls, of which the
\* user leaves one to the wizard.
CONSTANTS
  NSteps = 2
  HandlerOf <- Steps2Quote
  CallId = {1, 2, 3}
  Reserve = 1
  Answers = {"ok", "conflict", "offline", "forbidden", "gone"}
  ParentRerenders = TRUE
SPECIFICATION FairSpec
INVARIANTS
  TypeOK
  CompletedOnlyIfAccepted
  GuardedInOrder
  CompletionMeansSubmitted
  ShowsItsOwnValues
PROPERTIES
  ImplementsSubmission
  ConflictReloads
  LoadingEnds
