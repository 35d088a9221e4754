\* Two branches, every user, every page.
CONSTANTS
  Branch = {b1, b2}
  None = None
SPECIFICATION FairSpec
INVARIANTS
  TypeOK
  FlagsAreReal
  SuccessIsReal
  NoRedirectLoop
PROPERTIES
  SetupEnds
