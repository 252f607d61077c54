SPECIFICATION Spec
CONSTANTS
  Credential = {c1}
  Operator = {}
  Request = {r1, r2}
  QueueCapacity = 1
  MaxCrashes = 0
CHECK_DEADLOCK FALSE
PROPERTY ExpiredUntilRestored
