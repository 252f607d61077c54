CONSTANTS
  r1 = r1
  r2 = r2
  Request = {r1}
  Channel = {"near", "far"}
  Credential = {"n1", "n2", "f1"}
  Domain = {"provider", "nearAccount", "farAccount"}
  Route <- NearTwice
  Weighted = TRUE
  Limit = 16
  CredentialsOf <- CredentialSets
  DomainsOf <- Domains
  Contexts <- EveryContext
  Profiles <- EveryProfile
  Contention = TRUE
  MaxCommands = 2
SPECIFICATION Spec
INVARIANTS
  TypeOK
  OneConservativeRetry
  FailedCredentialAvoided
PROPERTIES
  EveryRequestAnswered
CHECK_DEADLOCK FALSE
