----------------------------- MODULE Forwarding -----------------------------
(***************************************************************************)
(* Requests forwarded along a frozen route plan: forward_with_pools and    *)
(* forward_with_pool of src/proxy.rs, with the failure reports of          *)
(* src/failure_observer.rs and src/failure_state_executor.rs.              *)
(*                                                                         *)
(* A request plans once, then for each target: commits (under the gates:   *)
(* checks the route state again, selects a credential, takes a snapshot),  *)
(* sends, and on a failure reports it with the snapshot, which mutates the *)
(* shared state and decides whether to send again, to pass on to the next  *)
(* target, or to answer.  Everything a request learned may be out of date  *)
(* at its next step: other requests report, operators command, cooldowns   *)
(* end.                                                                    *)
(*                                                                         *)
(* The pool is KeyPool; here a selection is any usable credential, and a   *)
(* cooldown report may find its credential no longer current.              *)
(***************************************************************************)
EXTENDS RoutePlan, RetryPolicy, ChannelHealth, FiniteSets

CONSTANTS
  Request, Channel, Credential, Domain,
  Route,         \* the model route: a sequence of targets
  Weighted,      \* its strategy is priority_weighted_sticky
  Limit,         \* max_route_candidates
  CredentialsOf, \* the credential set of each channel
  DomainsOf,     \* the provider and the account of each channel
  Contexts,      \* the request contexts tried
  Profiles,      \* the routing profiles tried
  Contention,    \* whether the pool lock may be found taken
  MaxCommands    \* bound: operator commands

NoCredential == "none"

ASSUME ForwardingAssumption ==
  /\ Route \in Seq([channel : Channel, priority : Nat, enabled : BOOLEAN])
  /\ \A context \in Contexts : context.scope \subseteq Channel
  /\ \A p \in Profiles : p.maxRetries \in Nat
  /\ IsFiniteSet(Credential) /\ NoCredential \notin Credential
  /\ CredentialsOf \in [Channel -> SUBSET Credential]
  /\ DomainsOf \in [Channel -> SUBSET Domain]
  /\ Limit \in Nat /\ MaxCommands \in Nat
  /\ Contention \in BOOLEAN

VARIABLES
  profile,    \* the routing profile in force
  channel,    \* health and health generation of each channel
  open,       \* the failure domains that are open
  credential, \* state of each credential
  request,    \* where each request is
  commands    \* operator commands so far

vars == <<profile, channel, open, credential, request, commands>>

-----------------------------------------------------------------------------
New == [stage |-> "new"]

Stage == {"planned", "sending", "filtering", "streaming", "done"}

(* `sends' lists what was sent where, `failure' is the last one reported,  *)
(* `commanded' whether an operator set the channel's health since the      *)
(* selection: history, for the properties only.                            *)
Planned(context, plan) ==
  [stage |-> IF plan = <<>> THEN "done" ELSE "planned",
   context |-> context, plan |-> plan, position |-> 1, attempt |-> 0,
   retry |-> NoCredential, frozen |-> FALSE, candidates |-> <<>>,
   credential |-> NoCredential, generation |-> 0,
   sends |-> <<>>, failure |-> NoCredential, commanded |-> FALSE]

Target(r) == request[r].plan[request[r].position]
TargetsLeft(r) == request[r].position < Len(request[r].plan)

Snapshot(r) ==
  [context |-> request[r].context, attempt |-> request[r].attempt,
   candidates |-> request[r].candidates, credential |-> request[r].credential,
   targetsLeft |-> TargetsLeft(r),
   partialOutput |-> request[r].stage = "streaming"]

Kinds(ch) == {credential[c] : c \in CredentialsOf[ch]}
Observed(ch, contended) ==
  RouteState(channel[ch], DomainsOf[ch] \cap open # {}, contended, Kinds(ch))

Init ==
  /\ profile \in Profiles
  /\ channel = [ch \in Channel |-> NewChannel]
  /\ open = {}
  /\ credential = [c \in Credential |-> "Available"]
  /\ request = [r \in Request |-> New]
  /\ commands = 0

KeepShared == UNCHANGED <<profile, channel, open, credential, commands>>

-----------------------------------------------------------------------------
(* Planning.  Each channel is read in turn, without waiting for its pool.  *)

Plan(r, context) ==
  /\ request[r].stage = "new"
  /\ \E contended \in IF Contention THEN SUBSET Channel ELSE {{}} :
       LET states == [ch \in Channel |-> Observed(ch, ch \in contended)]
           single == {<<[channel |-> ch, frozen |-> states[ch]]>> :
                        ch \in {c \in context.scope : states[c] \notin Blocking}}
       IN \E plan \in IF context.selection = "ModelMapping"
                      THEN Plans(Route, states, context.scope, Weighted, Limit)
                      ELSE single \cup {<<>>} :
            request' = [request EXCEPT ![r] = Planned(context, plan)]
  /\ KeepShared

-----------------------------------------------------------------------------
(* Ends of a request on a target; q is its record.                         *)

Finished(q) == [stage |-> "done", context |-> q.context, sends |-> q.sends]

(* Mutant: every target starts with a fresh attempt count. *)
NextTargetFresh(q) ==
  IF q.position < Len(q.plan)
  THEN [q EXCEPT !.stage = "planned", !.position = @ + 1, !.attempt = 0,
                 !.retry = NoCredential, !.frozen = FALSE,
                 !.candidates = <<>>]
  ELSE Finished(q)

(* Mutant: the next target is the same one again. *)
NextTargetSame(q) ==
  IF q.position < Len(q.plan)
  THEN [q EXCEPT !.stage = "planned", !.attempt = 1, !.retry = NoCredential,
                 !.frozen = FALSE, !.candidates = <<>>]
  ELSE Finished(q)

(* The next target, if any: it starts at attempt 1, its candidates are not *)
(* frozen yet.                                                             *)
NextTarget(q) ==
  IF q.position < Len(q.plan)
  THEN [q EXCEPT !.stage = "planned", !.position = @ + 1, !.attempt = 1,
                 !.retry = NoCredential, !.frozen = FALSE,
                 !.candidates = <<>>]
  ELSE Finished(q)

-----------------------------------------------------------------------------
(* Committing to a target, under the mutation gate.                        *)

(* Mutant: a retry selects anew instead of the candidate it was given. *)
SelectableAnew(r, state) ==
  LET held == CredentialsOf[Target(r).channel]
      usable == {c \in held : credential[c] = "Available"}
  IN IF usable = {} /\ state = "CredentialCoolingDown"
     THEN {c \in held : credential[c] = "CoolingDown"}
     ELSE usable

(* The credentials a commit may get: the candidate of a retry, or any      *)
(* usable one; one that is cooling down only as a last resort.             *)
Selectable(r, state) ==
  LET held == CredentialsOf[Target(r).channel]
      usable == {c \in held : credential[c] = "Available"}
  IN IF request[r].retry # NoCredential THEN usable \cap {request[r].retry}
     ELSE IF usable = {} /\ state = "CredentialCoolingDown"
     THEN {c \in held : credential[c] = "CoolingDown"}
     ELSE usable

(* The candidates of a later retry, frozen at the target's first selection.*)
CandidateLists(r, selected) ==
  LET others == {c \in CredentialsOf[Target(r).channel] \ {selected} :
                   credential[c] = "Available"}
      cut(s) == SubSeq(s, 1, Min({profile.maxRetries, Len(s)}))
  IN IF request[r].frozen THEN {request[r].candidates}
     ELSE {cut(s) : s \in SetToSeqs(others)}

Commit(r) ==
  /\ request[r].stage = "planned"
  /\ \E contended \in IF Contention THEN BOOLEAN ELSE {FALSE} :
       LET ch == Target(r).channel
           frozen == Target(r).frozen
           state == MostRestrictive(frozen, Observed(ch, contended))
       IN \/ /\ \/ PassedOver(state, frozen, TargetsLeft(r))
                \/ Selectable(r, state) = {}
             /\ request' = [request EXCEPT ![r] = NextTarget(@)]
          \/ /\ ~PassedOver(state, frozen, TargetsLeft(r))
             /\ \E c \in Selectable(r, state) :
                \E candidates \in CandidateLists(r, c) :
                  request' = [request EXCEPT ![r] =
                    [request[r] EXCEPT !.stage = "sending",
                              !.retry = NoCredential,
                              !.frozen = TRUE,
                              !.candidates = candidates,
                              !.credential = c,
                              !.generation = channel[ch].generation,
                              !.commanded = FALSE,
                              !.sends = Append(@, [target |-> request[r].position,
                                                   credential |-> c,
                                                   after |-> request[r].failure])]]
  /\ KeepShared

-----------------------------------------------------------------------------
(* Reports.                                                                *)

(* The mutation of failure f, from the snapshot of request r.  The domains *)
(* follow the last report, whatever its generation.                        *)
Apply(r, f) ==
  LET ch == Target(r).channel
      seen == request[r].generation
      c == request[r].credential
      mutation == Mutation(f)
      health == IF f.cooldown THEN "ProviderCooldown" ELSE "Degraded"
      sticky == IF credential[c] = "Disabled" THEN {"Disabled"} ELSE {}
  IN /\ channel' = [channel EXCEPT ![ch] =
          CASE mutation = "MarkProviderAccount" ->
                 AutomaticTransition(@, seen, health)
            [] mutation = "MarkRelayBalanceCoolingDown" ->
                 RelayBalanceSuppression(@, seen)
            [] mutation = "MarkChannelCoolingDown" ->
                 AutomaticTransition(@, seen, "HardCooldown")
            [] OTHER -> @]
     /\ open' = CASE mutation # "MarkProviderAccount" -> open
                  [] mutation = "MarkProviderAccount" /\ f.cooldown ->
                       open \cup DomainsOf[ch]
                  [] OTHER -> open \ DomainsOf[ch]
     /\ \E new \in CASE sticky # {} -> sticky
                     [] mutation = "MarkCredentialCoolingDown" ->
                          {credential[c], "CoolingDown"}
                     [] mutation \in {"ExpireCredential",
                                      "MarkCredentialQuotaExhausted"} ->
                          {"Expired"}
                     [] OTHER -> {credential[c]} :
          credential' = [credential EXCEPT ![c] = new]

(* apply_retry_directive_to_attempt_state and what the caller does next.   *)
Continue(q, directive) ==
  CASE directive = "RetryCredential" ->
         [q EXCEPT !.stage = "planned", !.attempt = @ + 1,
                   !.retry = Head(q.candidates), !.candidates = Tail(@)]
    [] directive = "RetrySameTarget" ->
         [q EXCEPT !.stage = "planned", !.attempt = @ + 1]
    [] directive = "RetryRouteTarget" -> NextTarget(q)
    [] OTHER -> Finished(q)

(* A failure before any output.  One the upstream answered with may still  *)
(* meet the response filter after the decision to return it.               *)
Report(r) ==
  /\ request[r].stage = "sending"
  /\ \E f \in {TransportFailure} \cup ExchangeFailures("UpstreamTransaction")
              \cup ExchangeFailures("GuardedSuccessEnvelope"),
        deadlineFits \in BOOLEAN :
       LET directive == Directive(f, Snapshot(r), profile, deadlineFits)
           failed == [request[r] EXCEPT !.failure = f.scope]
       IN /\ Apply(r, f)
          /\ \/ request' = [request EXCEPT ![r] = Continue(failed, directive)]
             \/ /\ directive = "ReturnCurrentError"
                /\ f.source = "UpstreamTransaction"
                /\ request' = [request EXCEPT ![r].stage = "filtering"]
  /\ UNCHANGED <<profile, commands>>

(* The response filter rejects the body: with a lifecycle action for a     *)
(* replayable request, and the directive is not followed.                  *)
Filter(r) ==
  /\ request[r].stage \in {"sending", "filtering"}
  /\ request' = [request EXCEPT ![r] = Finished(@)]
  /\ \/ UNCHANGED <<channel, open, credential>>
     \/ /\ request[r].context.replayable /\ ~request[r].context.streaming
        /\ \E scope \in {"Credential", "Channel"} : Apply(r, FilterFailure(scope))
  /\ UNCHANGED <<profile, commands>>

(* A success is recorded before the first byte goes to the client.         *)
Succeed(r) ==
  /\ request[r].stage = "sending"
  /\ LET ch == Target(r).channel
     IN /\ channel' = [channel EXCEPT ![ch] = RecordSuccess(@)]
        /\ open' = open \ DomainsOf[ch]
  /\ request' = [request EXCEPT ![r].stage = "streaming"]
  /\ UNCHANGED <<profile, credential, commands>>

EndStream(r) ==
  /\ request[r].stage = "streaming"
  /\ request' = [request EXCEPT ![r] = Finished(@)]
  /\ \/ UNCHANGED <<channel, open, credential>>
     \/ Apply(r, TransportFailure)
  /\ UNCHANGED <<profile, commands>>

-----------------------------------------------------------------------------
(* Operators and the clock.                                                *)

Command(ch, result) ==
  /\ commands < MaxCommands
  /\ commands' = commands + 1
  /\ channel' = [channel EXCEPT ![ch] = result]
  /\ request' = [r \in Request |->
                   IF request[r].stage \in {"sending", "filtering", "streaming"}
                        /\ Target(r).channel = ch
                   THEN [request[r] EXCEPT !.commanded = TRUE]
                   ELSE request[r]]
  /\ UNCHANGED <<profile, open, credential>>

DisableChannel(ch) == Command(ch, Disable(channel[ch]))
EnableChannel(ch) == Command(ch, Enable(channel[ch]))
ResetChannelHealth(ch) ==
  channel[ch].health # "Disabled" /\ Command(ch, Reset(channel[ch]))

ManageCredential(c) ==
  /\ commands < MaxCommands
  /\ commands' = commands + 1
  /\ \E state \in {"Available", "Expired", "Disabled"} \ {credential[c]} :
       credential' = [credential EXCEPT ![c] = state]
  /\ UNCHANGED <<profile, channel, open, request>>

ChannelCooldownEnds(ch) ==
  /\ channel[ch].health \in CoolingDown
  /\ channel' = [channel EXCEPT ![ch].health = "CooldownOver"]
  /\ UNCHANGED <<profile, open, credential, request, commands>>

DomainCooldownEnds(d) ==
  /\ d \in open
  /\ open' = open \ {d}
  /\ UNCHANGED <<profile, channel, credential, request, commands>>

CredentialThaws(c) ==
  /\ credential[c] = "CoolingDown"
  /\ credential' = [credential EXCEPT ![c] = "Available"]
  /\ UNCHANGED <<profile, channel, open, request, commands>>

-----------------------------------------------------------------------------
Forward(r) == Commit(r) \/ Report(r) \/ Filter(r) \/ Succeed(r) \/ EndStream(r)

Next ==
  \/ \E r \in Request : \/ \E context \in Contexts : Plan(r, context)
                       \/ Forward(r)
  \/ \E ch \in Channel : \/ DisableChannel(ch)
                         \/ EnableChannel(ch)
                         \/ ResetChannelHealth(ch)
                         \/ ChannelCooldownEnds(ch)
  \/ \E c \in Credential : ManageCredential(c) \/ CredentialThaws(c)
  \/ \E d \in Domain : DomainCooldownEnds(d)

(* A planned request goes on: every wait for the upstream has a timeout,   *)
(* and every gate is a fair queue.                                         *)
Spec == Init /\ [][Next]_vars /\ \A r \in Request : WF_vars(Forward(r))

-----------------------------------------------------------------------------
(* Properties.                                                             *)

TypeOK ==
  /\ profile \in Profiles
  /\ channel \in [Channel -> [health : Health, generation : Nat]]
  /\ open \subseteq Domain
  /\ credential \in [Credential -> {"Available", "CoolingDown", "Expired",
                                    "Disabled"}]
  /\ \A r \in Request :
       /\ request[r].stage \in Stage \cup {"new"}
       /\ request[r].stage \notin {"new", "done"} =>
            /\ request[r].position \in DOMAIN request[r].plan
            /\ request[r].attempt \in 0..1
  /\ commands \in 0..MaxCommands

Sends(r) == IF request[r].stage = "new" THEN <<>> ELSE request[r].sends

(* A client request reaches an upstream at most twice, over all targets    *)
(* and for all reasons together; and once only when it is streamed, not    *)
(* replayable, on an endpoint that is not retried, or for a named pool: a  *)
(* single conservative retry.                                              *)
OneConservativeRetry ==
  \A r \in Request :
    /\ Len(Sends(r)) <= 2
    /\ Len(Sends(r)) = 2 =>
         LET context == request[r].context
         IN /\ context.replayable /\ ~context.streaming
            /\ context.retryEndpoint
            /\ context.selection # "NamedChannel"

(* A request never goes back to a credential because that credential       *)
(* failed: the same one serves a target twice only after a failure of the  *)
(* channel, although the failed one may be usable again by then.  (A route *)
(* may list a channel twice; its second target selects anew.)              *)
FailedCredentialAvoided ==
  \A r \in Request :
    LET sends == Sends(r)
    IN Len(sends) = 2 /\ sends[2].after = "Credential" =>
         \/ sends[1].target # sends[2].target
         \/ sends[1].credential # sends[2].credential

(* All targets of a plan were in the same admission category when it was   *)
(* made: a cooling or degraded one is planned only if nothing better is.   *)
PlanUniform ==
  \A r \in Request :
    request[r].stage \notin {"new", "done"} =>
      Cardinality({request[r].plan[n].frozen : n \in DOMAIN request[r].plan}) = 1

(* Neither a success nor a failure, nor the end of a cooldown, takes a     *)
(* channel out of the operator's hands: only enabling it does.             *)
DisabledChannelHolds ==
  [][\A ch \in Channel :
       channel[ch].health = "Disabled" /\ channel'[ch].health # "Disabled" =>
         EnableChannel(ch)]_vars

(* A failure of a request that was sent before an operator set the health  *)
(* of its channel, by reset, enable or disable, leaves that health alone.  *)
OldFailuresIgnored ==
  [][\A r \in Request :
       request[r].stage \in {"sending", "filtering", "streaming"} =>
         (request[r].commanded /\ (Report(r) \/ Filter(r) \/ EndStream(r)) =>
            channel' = channel)]_vars

(* Every planned request is answered.                                      *)
EveryRequestAnswered ==
  \A r \in Request : request[r].stage = "planned" ~> request[r].stage = "done"
=============================================================================
