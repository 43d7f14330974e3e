SPECIFICATION FairSpec
CONSTANTS
  Cap = 2
  MaxBytes = 1
  SizeMod = 8
  ShortWrites = {"up"}
PROPERTY ClosePropagates
CHECK_DEADLOCK FALSE
