SPECIFICATION Spec
CONSTANTS
  t1 = t1
  t2 = t2
  h1 = h1
  h2 = h2
  g1 = g1
  g2 = g2
  c1 = c1
  c2 = c2
  Token = {t1, t2}
  Hash = {h1, h2}
  Groups = {g1}
  Channels = {c1, c2}
  Operator = {o1, o2, o3}
  Absent = Absent
  Unchanged = Unchanged
  Bootstrap <- MCBootstrap
SYMMETRY Interchangeable
CHECK_DEADLOCK FALSE
INVARIANTS
  TypeOK
  IdentitiesAgree
  UndisturbedTokenServedAsStored
  AcknowledgedScopeStored
