SPECIFICATION Spec
CONSTANTS
  Credential = {c1}
  Operator = {o1, o2}
  Request = {r1, r2}
  QueueCapacity = 1
  MaxCrashes = 1
SYMMETRY Interchangeable
CHECK_DEADLOCK FALSE
INVARIANTS
  TypeOK
  UndisturbedCommandAtomic
PROPERTIES
  AppliesToStateSeen
  DisabledHoldsInPool
