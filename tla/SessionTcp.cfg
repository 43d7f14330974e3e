SPECIFICATION FairSpec
CONSTANTS
  Cap = 2
  MaxBytes = 4
  SizeMod = 8
  ShortWrites = {"up"}
INVARIANTS
  TypeOK
  OneOperation
  BufferHoldsRest
  RestIsSent
  DrainedBeforeClose
PROPERTIES
  WorkShrinks
  SessionEnds
  KeepsPipe
CHECK_DEADLOCK FALSE
