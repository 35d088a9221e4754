\* Three accept-quote steps, one of them opened and submitted under the spinner.
CONSTANTS
  NSteps = 3
  HandlerOf <- Steps3Quote
  CallId = {1, 2, 3}
  Reserve = 1
  Answers = {"ok", "offline"}
  ParentRerenders = FALSE
SPECIFICATION Spec
INVARIANTS
  AcceptedInOrder
