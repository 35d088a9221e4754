\* The last two request-for-quote steps; the summary's save hides refusals.
CONSTANTS
  NSteps = 2
  HandlerOf <- Steps2Rfq
  CallId = {1, 2, 3}
  Reserve = 1
  Answers = {"ok", "conflict", "offline"}
  ParentRerenders = FALSE
SPECIFICATION Spec
INVARIANTS
  CompletionMeansSubmitted
