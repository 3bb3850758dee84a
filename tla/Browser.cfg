SPECIFICATION Spec
CONSTANTS
  Me = Me
  Other = Other
  NoUser = NoUser
  None = None
  MaxFailures = 1
INVARIANTS NoFalseSuccess
PROPERTIES NavigationsArrive OfferedWorks SignInLands
CHECK_DEADLOCK FALSE
