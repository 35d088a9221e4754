\* A user without an organisation chooses a branch.
CONSTANTS
  Branch = {b1}
  None = None
SPECIFICATION Spec
INVARIANTS
  TargetIsAPair
