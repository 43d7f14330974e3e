SPECIFICATION Spec
CONSTANTS
  Cap = 2
  MaxBytes = 3
  SizeMod = 8
  ShortWrites = {"down"}
INVARIANT RestIsSent
CHECK_DEADLOCK FALSE
