------------------------ MODULE CredentialLifecycle ------------------------
(***************************************************************************)
(* What a credential pool promises, with no index and no clock: every slot *)
(* is in one phase, the pool serves from one slot, and                     *)
(*   - only an available slot is served, or, as a last resort and only     *)
(*     when nothing is available, one that is cooling down;                *)
(*   - a failure moves the pool off the failed slot exactly when another   *)
(*     slot is available;                                                  *)
(*   - a disabled slot stays disabled until it is enabled;                 *)
(*   - the pool never loses a slot.                                        *)
(* KeyPool implements this specification.                                  *)
(***************************************************************************)
EXTENDS Integers

CONSTANT Slot

VARIABLES
  phase,   \* phase of each slot
  serving  \* the slot served from

vars == <<phase, serving>>

Phase == {"Absent", "Available", "CoolingDown", "Expired", "QuotaExhausted",
          "Disabled"}

Usable == {i \in Slot : phase[i] = "Available"}
Present == {i \in Slot : phase[i] # "Absent"}

TypeOK == phase \in [Slot -> Phase] /\ serving \in Slot

Init ==
  /\ phase \in [Slot -> {"Absent", "Available"}]
  /\ serving \in Usable

(* Time passes: any set of cooling slots becomes available.                *)
Thaw ==
  /\ \E S \in SUBSET {i \in Slot : phase[i] = "CoolingDown"} :
       phase' = [i \in Slot |-> IF i \in S THEN "Available" ELSE phase[i]]
  /\ UNCHANGED serving

Serve ==
  /\ serving' \in Usable
  /\ UNCHANGED phase

(* Only with nothing available, judged before time passes any further.     *)
ServeLastResort ==
  /\ Usable = {}
  /\ \E S \in SUBSET {i \in Slot : phase[i] = "CoolingDown"} :
       phase' = [i \in Slot |-> IF i \in S THEN "Available" ELSE phase[i]]
  /\ \/ phase'[serving'] = "CoolingDown" /\ serving' \in Slot
     \/ UNCHANGED serving

(* The pool leaves slot i for an available one unless there is none.       *)
MoveOff(i) ==
  \/ serving' # i /\ serving' \in Slot /\ phase'[serving'] = "Available"
  \/ /\ UNCHANGED serving
     /\ \A j \in Slot \ {i} : phase'[j] # "Available"

(* A cooldown that is already over when it is recorded changes nothing.    *)
CoolDown(i) ==
  /\ i = serving
  /\ phase[i] # "Disabled"
  /\ \E p \in {"CoolingDown", "Available"} : phase' = [phase EXCEPT ![i] = p]
  /\ MoveOff(i)

Exclude(i) ==
  /\ phase[i] \notin {"Absent", "Disabled"}
  /\ \E p \in {"Expired", "QuotaExhausted"} : phase' = [phase EXCEPT ![i] = p]
  /\ IF i = serving THEN MoveOff(i) ELSE UNCHANGED serving

Disable(i) ==
  /\ phase[i] # "Absent"
  /\ phase' = [phase EXCEPT ![i] = "Disabled"]
  /\ IF i = serving THEN MoveOff(i) ELSE UNCHANGED serving

(* Restore, enable and clear-cooldown.                                     *)
Readmit(i) ==
  /\ phase[i] # "Absent"
  /\ phase' = [phase EXCEPT ![i] = "Available"]
  /\ UNCHANGED serving

Add ==
  /\ \E S \in SUBSET {i \in Slot : phase[i] = "Absent"} :
       phase' = [i \in Slot |-> IF i \in S THEN "Available" ELSE phase[i]]
  /\ UNCHANGED serving

Next ==
  \/ Thaw
  \/ Serve
  \/ ServeLastResort
  \/ Add
  \/ \E i \in Slot : CoolDown(i) \/ Exclude(i) \/ Disable(i) \/ Readmit(i)

Spec == Init /\ [][Next]_vars
=============================================================================
