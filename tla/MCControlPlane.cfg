SPECIFICATION Spec
CONSTANTS
  Model = {m1}
  Channel = {ch1, ch2}
  Key = {k1, k2}
  Operator = {o1, o2, o3}
  MaxCrashes = 1
  MaxTorn = 2
SYMMETRY Interchangeable
VIEW Remembered
CHECK_DEADLOCK FALSE
INVARIANTS
  TypeOK
  VersionsAgree
  DisabledAsLogged
  ImportedServed
PROPERTY SyncKeepsRoutes
