SPECIFICATION Spec
CONSTANTS
  k1 = k1
  k2 = k2
  k3 = k3
  Capacity = 3
  Credential <- MCCredential
  InitialBatch <- MCInitialBatch
  MaxBatch = 2
  MaxTime = 3
SYMMETRY Interchangeable
INVARIANTS
  TypeOK
  IndexesDescribeStates
  ReadOnlyChecksExact
  IdentitiesDistinct
PROPERTIES
  CandidatesUsable
  LastResortFindsCooling
  SelectionSticky
  KeepsPromise
