--------------------------- MODULE ChannelHealth ---------------------------
(***************************************************************************)
(* The health of one channel and the failure domains above it: the state   *)
(* methods of PoolState, FailureDomainRegistry and route_state_for_pool in *)
(* src/state.rs.  A channel is a record [health, generation]; a domain, a  *)
(* provider or an account, is open or not (its degraded state changes no   *)
(* route).  Every function is one critical section of the health lock.     *)
(*                                                                         *)
(* A cooldown is a deadline: "ProviderCooldown" and "HardCooldown" have    *)
(* one ahead, and become "CooldownOver" when the clock passes it, in no    *)
(* step of the program.  They differ in their reason: the provider's       *)
(* unavailability, or an empty relay balance or a response filter.         *)
(***************************************************************************)
EXTENDS Integers

Health == {"Available", "Degraded", "ProviderCooldown", "HardCooldown",
           "CooldownOver", "Disabled"}

CoolingDown == {"ProviderCooldown", "HardCooldown"}

NewChannel == [health |-> "Available", generation |-> 1]

With(ch, health) == [health |-> health, generation |-> ch.generation + 1]

(* apply_automatic_channel_health_transition: evidence of a failure counts *)
(* only while the health is as the request found it when it was sent.      *)
AutomaticTransition(ch, seen, health) ==
  IF ch.health = "Disabled" \/ ch.generation # seen THEN ch
  ELSE With(ch, health)

(* A relay-balance suppression does not replace an active cooldown.        *)
RelayBalanceSuppression(ch, seen) ==
  IF ch.health \in CoolingDown THEN ch
  ELSE AutomaticTransition(ch, seen, "HardCooldown")

(* Mutant: a success re-enables a disabled channel. *)
RecordSuccessAlways(ch) == With(ch, "Available")

(* A success makes the channel available, whatever happened since it was   *)
(* selected, unless an operator disabled it.                               *)
RecordSuccess(ch) ==
  IF ch.health = "Disabled" THEN ch ELSE With(ch, "Available")

Disable(ch) == With(ch, "Disabled")
Enable(ch) == With(ch, "Available")

(* Mutant: a reset does not outdate the requests in flight. *)
ResetInPlace(ch) ==
  IF ch.health = "Disabled" THEN ch ELSE [ch EXCEPT !.health = "Available"]

Reset(ch) == IF ch.health = "Disabled" THEN ch ELSE With(ch, "Available")

(* The route state of a channel: its health, whether one of its domains is *)
(* open, whether someone else holds the pool's lock, and the kinds of      *)
(* state its credentials are in.                                           *)
RouteState(ch, open, contended, kinds) ==
  CASE ch.health = "Disabled" -> "Disabled"
    [] ch.health = "HardCooldown" -> "CoolingDown"
    [] ch.health = "ProviderCooldown" /\ ~open -> "CoolingDown"
    [] OTHER ->
         IF contended
         THEN IF open THEN "ProviderCoolingDown" ELSE "RuntimeUnavailable"
         ELSE CASE "Available" \notin kinds /\ "CoolingDown" \in kinds
                     -> "CredentialCoolingDown"
                [] "Available" \notin kinds /\ "CoolingDown" \notin kinds
                     -> "NoAvailableCredentials"
                [] "Available" \in kinds /\ open -> "ProviderCoolingDown"
                [] OTHER -> IF ch.health = "Degraded" THEN "Degraded"
                            ELSE "Available"
=============================================================================
