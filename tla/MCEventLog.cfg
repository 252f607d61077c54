SPECIFICATION Spec
CONSTANTS
  WindowCapacity = 2
  MaxAppends = 4
  MaxCrashes = 2
CHECK_DEADLOCK FALSE
INVARIANTS
  TypeOK
  WindowPagesRecorded
  IdsIncrease
  UnbrokenLogReplays
  ReplayHasAcknowledged
