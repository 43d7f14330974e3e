SPECIFICATION FairSpec
CHECK_DEADLOCK FALSE
CONSTANTS
  Filter = {f1, f2}
  Id = {1}
  None = None
  MaxUnderway = 3
INVARIANTS
  TypeOK
  HeartReachesAsker
  AstrayOnlyIfOverheard
PROPERTIES
  NothingDropped
  EveryRequestServed
