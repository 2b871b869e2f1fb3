SPECIFICATION Spec
CONSTANTS
  Tabs = {t1, t2}
  Subjects = {alice, bob}
  DisplayName <- MCDisplayName
  MaxTries = 1
  MaxReplays = 1
  Modes = {"form_post", "missing"}
  None = None
SYMMETRY Symmetry
CHECK_DEADLOCK FALSE
INVARIANTS TypeOK AnsweredOnce WrongNonceNeedsALaterRequest ShownTokenIsTheUsers ScratchUsersAreTemporary
PROPERTY AcceptedOnce
