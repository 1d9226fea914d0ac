SPECIFICATION FairSpec

CONSTANTS
  Callbacks = {b1, b2}
  MaxAttempts = 2

CHECK_DEADLOCK FALSE

INVARIANTS
  TypeOK
  TokenFileStaysUsable
  SavedIsFirstCode
PROPERTIES
  ToolEnds
