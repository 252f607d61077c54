----------------------------- MODULE RoutePlan -----------------------------
(***************************************************************************)
(* Route planning: src/route_plan.rs, and the gates on a route state in    *)
(* src/proxy.rs.  A plan is computed once per request from one reading of  *)
(* the channels' route states, and is frozen: what forwarding may do with  *)
(* a target later is decided by comparing the state it had in the plan     *)
(* with the state it has then.                                             *)
(*                                                                         *)
(* A target is [channel, priority, enabled]; a route is a sequence of      *)
(* targets; states maps each channel to its route state.  Weights and the  *)
(* hash of the request id are left out: a ticket may pick any target of    *)
(* the first priority.                                                     *)
(***************************************************************************)
EXTENDS Integers, SequencesExt

(* Channel route states, from the least to the most restrictive.           *)
Severity ==
  [Available |-> 0, Degraded |-> 1, ProviderCoolingDown |-> 2,
   CredentialCoolingDown |-> 3, RuntimeUnavailable |-> 4, CoolingDown |-> 5,
   NoAvailableCredentials |-> 6, Disabled |-> 7, UnknownChannel |-> 8]

ChannelRouteState == DOMAIN Severity

MostRestrictive(s, t) == IF Severity[t] > Severity[s] THEN t ELSE s

(* States that rule a target out, whatever the others are.                 *)
Blocking == {"Disabled", "CoolingDown", "NoAvailableCredentials",
             "RuntimeUnavailable", "UnknownChannel"}

(* Mutant: a cooling provider ranks with a degraded channel. *)
TierMerged(s) ==
  CASE s \in {"Degraded", "ProviderCoolingDown"} -> 1
    [] s = "CredentialCoolingDown" -> 3
    [] OTHER -> 0

(* Admission tiers: only the best tier present is planned.                 *)
Tier(s) ==
  CASE s = "Degraded" -> 1
    [] s = "ProviderCoolingDown" -> 2
    [] s = "CredentialCoolingDown" -> 3
    [] OTHER -> 0

-----------------------------------------------------------------------------
Eligible(route, states, scope) ==
  {n \in DOMAIN route : /\ route[n].enabled
                        /\ route[n].channel \in scope
                        /\ states[route[n].channel] \notin Blocking}

(* The eligible targets of the best tier.                                  *)
Admitted(route, states, scope) ==
  LET eligible == Eligible(route, states, scope)
      tier(n) == Tier(states[route[n].channel])
  IN {n \in eligible : \A m \in eligible : tier(n) <= tier(m)}

(* By priority, then in the order of the route.                            *)
Before(route, m, n) ==
  \/ route[m].priority < route[n].priority
  \/ route[m].priority = route[n].priority /\ m < n

InPriorityOrder(route, S) ==
  CHOOSE s \in SetToSeqs(S) :
    \A j, k \in DOMAIN s : j < k => Before(route, s[j], s[k])

(* How many targets share the first priority.                              *)
FirstTier(route, ordered) ==
  Cardinality({k \in DOMAIN ordered :
                 route[ordered[k]].priority = route[ordered[1]].priority})

(* The first-priority targets rotated so that the one drawn comes first;   *)
(* the others follow in their order.                                       *)
Drawn(route, ordered, ticket) ==
  LET first == FirstTier(route, ordered)
  IN [k \in DOMAIN ordered |->
        IF k > first THEN ordered[k]
        ELSE ordered[((k + ticket - 2) % first) + 1]]

(* Every plan the route may yield: one per ticket under the weighted       *)
(* strategy, exactly one otherwise; cut at the candidate limit.            *)
Plans(route, states, scope, weighted, limit) ==
  LET ordered == InPriorityOrder(route, Admitted(route, states, scope))
      cut(s) == IF limit > 0 THEN SubSeq(s, 1, Min({limit, Len(s)})) ELSE s
      frozen(s) == [k \in 1..Len(s) |->
                      [channel |-> route[s[k]].channel,
                       frozen |-> states[route[s[k]].channel]]]
  IN IF weighted /\ ordered # <<>>
     THEN {frozen(cut(Drawn(route, ordered, t))) : t \in 1..FirstTier(route, ordered)}
     ELSE {frozen(cut(ordered))}

-----------------------------------------------------------------------------
(* Whether a target must be passed over now.  Beside the blocking states,  *)
(* a target that began to cool down since the plan was frozen is passed    *)
(* over as long as the plan has another target left.                       *)
PassedOver(state, frozen, targetsLeft) ==
  \/ state \in Blocking
  \/ /\ state \in {"ProviderCoolingDown", "CredentialCoolingDown"}
     /\ frozen # state
     /\ targetsLeft
=============================================================================
