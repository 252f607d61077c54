SPECIFICATION Spec
CONSTANTS
  Model = {m1}
  Channel = {ch1, ch2}
  Key = {k1}
  Operator = {o1, o2, o3}
  MaxCrashes = 1
  MaxTorn = 0
SYMMETRY Interchangeable
CHECK_DEADLOCK FALSE
INVARIANT AcknowledgedDisableServed
