CONSTANTS
  r1 = r1
  r2 = r2
  Request = {r1, r2}
  Channel = {"near", "far"}
  Credential = {"n1", "f1"}
  Domain = {"nearProvider", "farProvider"}
  Route <- TwoTargets
  Weighted = FALSE
  Limit = 16
  CredentialsOf <- OneCredentialEach
  DomainsOf <- TwoProviders
  Contexts <- OnlyChat
  Profiles <- BothRetries
  Contention = FALSE
  MaxCommands = 1
SYMMETRY Interchangeable
SPECIFICATION Spec
INVARIANTS
  PlanUniform
PROPERTIES
  DisabledChannelHolds
  OldFailuresIgnored
CHECK_DEADLOCK FALSE
