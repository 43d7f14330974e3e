SPECIFICATION FairSpec
CONSTANTS
  MaxMisses = 3
  IdMod = 7
  MaxPosts = 1
  MaxAge = 2
INVARIANTS
  TypeOK
  DeadIsNoticed
PROPERTIES
  OnlyLatestCounts
  TrustLasts
  Recovers
