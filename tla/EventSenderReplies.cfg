SPECIFICATION Spec
CHECK_DEADLOCK FALSE
CONSTANTS
  Filter = {f1, f2}
  Id = {1}
  None = None
  MaxUnderway = 3
INVARIANTS
  ReplyReachesAsker
