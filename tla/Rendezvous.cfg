SPECIFICATION FairSpec
CONSTANTS
  Proxy = {p1, p2}
  Filter = {f1}
  Other = Other
  Nobody = Nobody
  MaxPort = 2
  Steps = 1
INVARIANTS
  TypeOK
  FoundIsServed
PROPERTIES
  BlankOnlyAtFirst
  NeverTurnedAway
  StartupShrinks
  Finds
  StartupEnds
