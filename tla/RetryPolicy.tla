---------------------------- MODULE RetryPolicy ----------------------------
(***************************************************************************)
(* What follows an upstream failure: transition_after_failure of           *)
(* src/routing.rs, with the failures that src/error.rs classifies.  The    *)
(* functions are pure; one decision gives a state mutation and a retry     *)
(* directive.                                                              *)
(***************************************************************************)
EXTENDS Integers, Sequences

(* A classified failure: its kind, scope and source; whether the           *)
(* classifier holds it retryable; whether the upstream named a cooldown;   *)
(* whether its status was 502..504; whether it carries typed evidence (a   *)
(* code, a limit type, an adaptation rule or a Retry-After).               *)
Failure(kind, scope, source, retryable, cooldown, gateway, evidence) ==
  [kind |-> kind, scope |-> scope, source |-> source, retryable |-> retryable,
   cooldown |-> cooldown, gateway |-> gateway, evidence |-> evidence]

TransportFailure ==
  Failure("ProviderUnavailable", "Channel", "LocalTransport",
          TRUE, FALSE, FALSE, TRUE)

(* The failures a finished upstream exchange, or the guarded beginning of  *)
(* a success, may be classified as.  A rate limit is retryable when it     *)
(* carries a known code or a rule says so; Retry-After counts as evidence; *)
(* an exhausted quota is retryable only by an adaptation rule.             *)
ExchangeFailures(source) ==
  {Failure("AuthInvalid", "Credential", source, FALSE, FALSE, FALSE, TRUE),
   Failure("Unknown", "RequestOnly", source, FALSE, FALSE, FALSE, FALSE),
   Failure("RelayBalanceUnavailable", "Channel", source,
           TRUE, FALSE, FALSE, TRUE)}
  \cup {Failure("ProviderUnavailable", "Channel", source, TRUE, cooldown,
                gateway, cooldown) : cooldown, gateway \in BOOLEAN}
  \cup {Failure("RateLimited", "Credential", source, evidence, FALSE, FALSE,
                evidence) : evidence \in BOOLEAN}
  \cup {Failure("QuotaExhausted", "Credential", source, retryable, FALSE,
                FALSE, TRUE) : retryable \in BOOLEAN}

FilterFailure(scope) ==
  Failure("ResponseFilterRejected", scope, "ResponseFilterPrecommit",
          TRUE, FALSE, FALSE, FALSE)

-----------------------------------------------------------------------------
(* The state mutation of a failure.                                        *)
Mutation(f) ==
  CASE f.kind \in {"AuthInvalid", "ResponseFilterRejected"}
         /\ f.scope = "Credential" -> "ExpireCredential"
    [] f.kind = "RateLimited" -> "MarkCredentialCoolingDown"
    [] f.kind = "QuotaExhausted" -> "MarkCredentialQuotaExhausted"
    [] f.kind = "RelayBalanceUnavailable"
         /\ f.source = "UpstreamTransaction" -> "MarkRelayBalanceCoolingDown"
    [] f.kind = "ProviderUnavailable" -> "MarkProviderAccount"
    [] f.kind = "ResponseFilterRejected"
         /\ f.scope = "Channel" -> "MarkChannelCoolingDown"
    [] OTHER -> "Noop"

-----------------------------------------------------------------------------
(* The retry directive.  A snapshot s of the selection holds the request's *)
(* context, the attempt, the frozen candidates, and whether the plan has   *)
(* another target; p is the channel's routing profile.                     *)

CredentialEvidence(f) ==
  /\ f.kind \in {"RateLimited", "QuotaExhausted"}
  /\ f.scope = "Credential"
  /\ f.evidence

ChannelEvidence(f) ==
  /\ f.kind = "ProviderUnavailable" /\ f.scope = "Channel"
  /\ f.source = "UpstreamTransaction" => f.gateway

(* conservative_retry_evidence_allowed                                     *)
EvidenceAllows(f, context) ==
  /\ context.selection # "NamedChannel"
  /\ context.retryEndpoint
  /\ \/ f.source = "LocalTransport" /\ ChannelEvidence(f)
     \/ f.source = "UpstreamTransaction"
          /\ (ChannelEvidence(f) \/ CredentialEvidence(f))

(* Mutant: the attempt limit is not looked at. *)
RetryPossibleUnlimited(f, s, deadlineFits) ==
  /\ f.retryable
  /\ s.context.replayable
  /\ ~s.context.streaming
  /\ ~s.partialOutput
  /\ deadlineFits
  /\ EvidenceAllows(f, s.context)

(* Every gate before the directives part.  At most one retry: the first    *)
(* attempt is number 0.                                                    *)
RetryPossible(f, s, deadlineFits) ==
  /\ f.retryable
  /\ s.context.replayable
  /\ ~s.context.streaming
  /\ ~s.partialOutput
  /\ s.attempt = 0
  /\ deadlineFits
  /\ EvidenceAllows(f, s.context)

SameTargetAllowed(f) ==
  /\ ~f.cooldown
  /\ ChannelEvidence(f)
  /\ f.source \in {"LocalTransport", "UpstreamTransaction"}

Directive(f, s, p, deadlineFits) ==
  CASE ~RetryPossible(f, s, deadlineFits) -> "ReturnCurrentError"
    [] /\ RetryPossible(f, s, deadlineFits)
       /\ f.scope = "Channel" /\ p.routeRetry /\ s.targetsLeft
         -> "RetryRouteTarget"
    [] /\ RetryPossible(f, s, deadlineFits)
       /\ f.scope = "Channel" /\ p.routeRetry /\ ~s.targetsLeft
       /\ SameTargetAllowed(f)
         -> "RetrySameTarget"
    [] /\ RetryPossible(f, s, deadlineFits)
       /\ f.scope = "Credential" /\ p.credentialRetry
       /\ s.attempt < p.maxRetries
       /\ s.candidates # <<>> /\ Head(s.candidates) # s.credential
         -> "RetryCredential"
    [] OTHER -> "ReturnCurrentError"
=============================================================================
