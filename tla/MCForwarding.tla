---------------------------- MODULE MCForwarding ----------------------------
(* Two channels of one provider.  Each has its own account and its own     *)
(* credential set.                                                         *)
EXTENDS Forwarding, TLC

CONSTANTS r1, r2  \* requests

Interchangeable == Permutations(Request)

TwoTargets ==
  <<[channel |-> "near", priority |-> 1, enabled |-> TRUE],
    [channel |-> "far", priority |-> 2, enabled |-> TRUE]>>

(* Two that share the first priority, and the near one listed once more.   *)
NearTwice ==
  <<[channel |-> "near", priority |-> 1, enabled |-> TRUE],
    [channel |-> "far", priority |-> 1, enabled |-> TRUE],
    [channel |-> "near", priority |-> 2, enabled |-> TRUE]>>

CredentialSets == [near |-> {"n1", "n2"}, far |-> {"f1"}]
Domains == [near |-> {"provider", "nearAccount"},
            far |-> {"provider", "farAccount"}]

TwoProviders == [near |-> {"nearProvider"}, far |-> {"farProvider"}]
OneCredentialEach == [near |-> {"n1"}, far |-> {"f1"}]

Context(selection, retryEndpoint, streaming, replayable, scope) ==
  [selection |-> selection, retryEndpoint |-> retryEndpoint,
   streaming |-> streaming, replayable |-> replayable, scope |-> scope]

Chat == Context("ModelMapping", TRUE, FALSE, TRUE, Channel)
StreamedChat == Context("ModelMapping", TRUE, TRUE, TRUE, Channel)
Embeddings == Context("ModelMapping", FALSE, FALSE, TRUE, Channel)
NamedChat == Context("NamedChannel", TRUE, FALSE, TRUE, {"near"})
NamedUpload == Context("NamedChannel", TRUE, FALSE, FALSE, {"near"})
DefaultChat == Context("DefaultPool", TRUE, FALSE, TRUE, {"far"})

EveryContext == {Chat, StreamedChat, Embeddings, NamedChat, NamedUpload,
                 DefaultChat}
OnlyChat == {Chat}

Profile(credentialRetry, maxRetries, routeRetry) ==
  [credentialRetry |-> credentialRetry, maxRetries |-> maxRetries,
   routeRetry |-> routeRetry]

EveryProfile == {Profile(FALSE, 0, TRUE), Profile(TRUE, 1, TRUE),
                 Profile(TRUE, 2, FALSE)}
BothRetries == {Profile(TRUE, 1, TRUE)}
=============================================================================
