------------------------------ MODULE KeyPool ------------------------------
(***************************************************************************)
(* The key pool of one credential set: src/pool.rs and src/credentials.rs. *)
(*                                                                         *)
(* A pool keeps the state of every credential, the slot it serves from     *)
(* (`current'), and three derived indexes that let it answer in sub-linear *)
(* time: the set of available slots, the slots ordered by cooldown         *)
(* deadline, and the deadline of each slot.  The indexes are refreshed     *)
(* lazily, from the clock read inside the operation that needs them.       *)
(*                                                                         *)
(* A pool is a sequential object behind a mutex, so every operation is one *)
(* action.  Its callers (requests in flight, management commands) are      *)
(* concurrent: an operation may name any slot at any time, whatever        *)
(* happened to that slot since the caller learned of it.                   *)
(***************************************************************************)
EXTENDS Integers, SequencesExt

CONSTANTS
  Capacity,     \* bound: slots a pool may grow to
  Credential,   \* credential identities (hash of namespace and secret)
  InitialBatch, \* the credentials the pool is built from, in order
  MaxBatch,     \* bound: credentials added in one call
  MaxTime       \* bound: the last clock reading

ASSUME PoolAssumption ==
  /\ Capacity \in Nat \ {0}
  /\ MaxBatch \in Nat
  /\ MaxTime \in Nat
  /\ InitialBatch \in Seq(Credential)
  /\ Len(InitialBatch) \in 1..Capacity
  /\ \A m, n \in 1..Len(InitialBatch) :
        InitialBatch[m] = InitialBatch[n] => m = n

VARIABLES
  size,     \* number of credentials held; slots 0..size-1 are in use
  id,       \* credential identity of each slot
  state,    \* CredentialState of each slot
  index,    \* the three derived indexes, one record
  current,  \* slot served from
  now,      \* the monotonic clock
  reply     \* what the last operation returned

vars == <<size, id, state, index, current, now, reply>>

Slot == 0..Capacity - 1
Time == 0..MaxTime
Held == 0..size - 1
NoTime == -1

-----------------------------------------------------------------------------
(* Credential states (credentials.rs).  The reason text is left out.       *)

Kind == {"Available", "CoolingDown", "Expired", "QuotaExhausted", "Disabled"}
CredentialState == [kind : Kind, until : Time]

Available == [kind |-> "Available", until |-> 0]
(* Mutant: a deadline rounded up past the one requested. *)
CoolingDownRoundedUp(t) == [kind |-> "CoolingDown", until |-> t + 1]
CoolingDown(t) == [kind |-> "CoolingDown", until |-> t]
Expired == [kind |-> "Expired", until |-> 0]
QuotaExhausted == [kind |-> "QuotaExhausted", until |-> 0]
Disabled == [kind |-> "Disabled", until |-> 0]

IsAvailableAt(s, t) ==
  \/ s.kind = "Available"
  \/ s.kind = "CoolingDown" /\ t >= s.until

IsCoolingDownAt(s, t) == s.kind = "CoolingDown" /\ t < s.until

-----------------------------------------------------------------------------
(* The derived indexes.  `deadlines' is the ordered map from deadline to    *)
(* slots; a deadline the map does not hold maps to the empty set.           *)

Index == [available : SUBSET Slot,
          deadlines : [Time -> SUBSET Slot],
          deadlineOf : [Slot -> Time \cup {NoTime}]]

(* Mutant: the ordered map keeps the removed entry. *)
RemoveCooldownDeadlineHalf(ix, i) == [ix EXCEPT !.deadlineOf[i] = NoTime]

RemoveCooldownDeadline(ix, i) ==
  [ix EXCEPT !.deadlines = [d \in Time |-> IF d = ix.deadlineOf[i]
                                           THEN ix.deadlines[d] \ {i}
                                           ELSE ix.deadlines[d]],
             !.deadlineOf[i] = NoTime]

(* Mutant: the cooldown entry outlives the cooldown. *)
MarkIndexAvailableOnly(ix, i) ==
  [ix EXCEPT !.available = ix.available \cup {i}]

MarkIndexAvailable(ix, i) ==
  LET cleared == RemoveCooldownDeadline(ix, i)
  IN [cleared EXCEPT !.available = cleared.available \cup {i}]

MarkIndexUnavailable(ix, i) ==
  LET cleared == RemoveCooldownDeadline(ix, i)
  IN [cleared EXCEPT !.available = cleared.available \ {i}]

MarkIndexCoolingDown(ix, i, until) ==
  LET cleared == MarkIndexUnavailable(ix, i)
  IN [available  |-> cleared.available,
      deadlines  |-> [cleared.deadlines EXCEPT ![until] = @ \cup {i}],
      deadlineOf |-> [cleared.deadlineOf EXCEPT ![i] = until]]

(* Drains every deadline that has passed; a drained slot becomes available  *)
(* when the entry was its own and its credential really is available.       *)
RefreshAvailableIndices(ix, st, t) ==
  LET woken == {i \in Slot : /\ ix.deadlineOf[i] \in 0..t
                             /\ i \in ix.deadlines[ix.deadlineOf[i]]}
  IN [available  |-> ix.available \cup {i \in woken : IsAvailableAt(st[i], t)},
      deadlines  |-> [d \in Time |-> IF d <= t THEN {} ELSE ix.deadlines[d]],
      deadlineOf |-> [i \in Slot |-> IF i \in woken THEN NoTime
                                     ELSE ix.deadlineOf[i]]]

(* First member of S at or after `start', wrapping round.                   *)
NextFrom(S, start) ==
  LET ahead == {i \in S : i >= start}
  IN IF ahead # {} THEN Min(ahead) ELSE Min(S)

After(i) == (i + 1) % size

(* The members of S in the order a scan that begins just after `current'    *)
(* meets them.                                                              *)
InScanOrder(S) ==
  LET rank(i) == (i - current - 1 + size) % size
  IN CHOOSE s \in SetToSeqs(S) :
       \A j, k \in DOMAIN s : j < k => rank(s[j]) < rank(s[k])

-----------------------------------------------------------------------------
(* What an operation returns: its outcome and the slots it names.           *)

Answer(o) == [outcome |-> o, slots |-> <<>>]
Key(i) == [outcome |-> "Key", slots |-> <<i>>]

Init ==
  /\ size = Len(InitialBatch)
  /\ id = [i \in Slot |-> IF i < size THEN InitialBatch[i + 1]
                          ELSE InitialBatch[1]]
  /\ state = [i \in Slot |-> Available]
  /\ index = [available  |-> Held,
              deadlines  |-> [d \in Time |-> {}],
              deadlineOf |-> [i \in Slot |-> NoTime]]
  /\ current = 0
  /\ now = 0
  /\ reply = Answer("Done")

Tick ==
  /\ now < MaxTime
  /\ now' = now + 1
  /\ UNCHANGED <<size, id, state, index, current, reply>>

-----------------------------------------------------------------------------
(* Selection.                                                               *)

(* Mutant: every selection moves on to the next slot. *)
SelectRoundRobin ==
  /\ index' = RefreshAvailableIndices(index, state, now)
  /\ \/ /\ index'.available = {}
        /\ reply' = Answer("NoKey")
        /\ UNCHANGED current
     \/ /\ index'.available # {}
        /\ current' = NextFrom(index'.available, After(current))
        /\ reply' = Key(current')
  /\ UNCHANGED <<size, id, state, now>>

Select ==
  /\ index' = RefreshAvailableIndices(index, state, now)
  /\ \/ /\ index'.available = {}
        /\ reply' = Answer("NoKey")
        /\ UNCHANGED current
     \/ /\ index'.available # {}
        /\ current' = NextFrom(index'.available, current)
        /\ reply' = Key(current')
  /\ UNCHANGED <<size, id, state, now>>

SelectCredentialById(i) ==
  /\ i \in Held
  /\ index' = RefreshAvailableIndices(index, state, now)
  /\ \/ /\ i \notin index'.available
        /\ reply' = Answer("NoKey")
        /\ UNCHANGED current
     \/ /\ i \in index'.available
        /\ current' = i
        /\ reply' = Key(i)
  /\ UNCHANGED <<size, id, state, now>>

(* Mutant: the search for a cooling slot does not wrap round. *)
SelectLastResortNoWrap ==
  /\ index' = RefreshAvailableIndices(index, state, now)
  /\ index'.available = {}
  /\ LET cooling == {i \in Held : i >= current /\ index'.deadlineOf[i] > now}
     IN /\ current' = IF cooling = {} THEN current ELSE Min(cooling)
        /\ reply' = IF cooling = {} THEN Answer("NoKey") ELSE Key(current')
  /\ UNCHANGED <<size, id, state, now>>

(* The operation reads the clock twice: once to refresh the indexes, and,   *)
(* when nothing is available, again to look for a slot still cooling down.  *)
SelectCoolingDownLastResort ==
  /\ index' = RefreshAvailableIndices(index, state, now)
  /\ \/ /\ index'.available # {}
        /\ current' = NextFrom(index'.available, current)
        /\ reply' = Key(current')
        /\ UNCHANGED now
     \/ /\ index'.available = {}
        /\ \E later \in now..MaxTime :
             LET cooling == {i \in Held : index'.deadlineOf[i] > later}
             IN /\ now' = later
                /\ \/ /\ cooling = {}
                      /\ reply' = Answer("NoKey")
                      /\ UNCHANGED current
                   \/ /\ cooling # {}
                      /\ current' = NextFrom(cooling, current)
                      /\ reply' = Key(current')
  /\ UNCHANGED <<size, id, state>>

(* Mutant: the scan does not skip the slot that just failed. *)
RetryCandidatesWithCurrent(limit) ==
  /\ index' = RefreshAvailableIndices(index, state, now)
  /\ LET all == InScanOrder(index'.available)
     IN reply' = [outcome |-> "Candidates",
                  slots |-> SubSeq(all, 1, Min({limit, Len(all)}))]
  /\ UNCHANGED <<size, id, state, current, now>>

RetryCandidatesFromCurrent(limit) ==
  \/ /\ limit = 0
     /\ reply' = Answer("Candidates")
     /\ UNCHANGED <<size, id, state, index, current, now>>
  \/ /\ limit > 0
     /\ index' = RefreshAvailableIndices(index, state, now)
     /\ LET others == InScanOrder(index'.available \ {current})
        IN reply' = [outcome |-> "Candidates",
                     slots |-> SubSeq(others, 1, Min({limit, Len(others)}))]
     /\ UNCHANGED <<size, id, state, current, now>>

-----------------------------------------------------------------------------
(* Reports of failures.                                                     *)

Stale ==
  /\ reply' = Answer("StaleFailure")
  /\ UNCHANGED <<size, id, state, index, current, now>>

(* Marks slot i in `marked' and moves `current' off it when another slot is *)
(* available: the common tail of the three failure reports.                 *)
SwitchFrom(i, marked) ==
  /\ index' = RefreshAvailableIndices(marked, state', now)
  /\ LET next == NextFrom(index'.available, After(current))
         found == index'.available # {} /\ next # i
     IN /\ current' = IF found THEN next ELSE current
        /\ reply' = Answer(IF found THEN "Switched" ELSE "NoAlternative")

ReportSwitchableFailureUntil(i, until) ==
  \/ /\ i \notin Held \/ state[i].kind = "Disabled" \/ i # current
     /\ Stale
  \/ /\ i \in Held /\ state[i].kind # "Disabled" /\ i = current
     /\ state' = [state EXCEPT ![i] = CoolingDown(until)]
     /\ SwitchFrom(i, MarkIndexCoolingDown(index, i, until))
     /\ UNCHANGED <<size, id, now>>

(* Mutant: a late failure report is applied to a disabled slot. *)
ReportHardFailureAlways(i, new) ==
  /\ i \in Held
  /\ state' = [state EXCEPT ![i] = new]
  /\ \/ /\ i # current
        /\ index' = MarkIndexUnavailable(index, i)
        /\ reply' = Answer("StaleFailure")
        /\ UNCHANGED current
     \/ /\ i = current
        /\ SwitchFrom(i, MarkIndexUnavailable(index, i))
  /\ UNCHANGED <<size, id, now>>

(* Expiry and quota exhaustion take effect on any slot that is not          *)
(* disabled; only the switch depends on the slot being current.             *)
ReportHardFailure(i, new) ==
  \/ /\ i \notin Held \/ state[i].kind = "Disabled"
     /\ Stale
  \/ /\ i \in Held /\ state[i].kind # "Disabled"
     /\ state' = [state EXCEPT ![i] = new]
     /\ \/ /\ i # current
           /\ index' = MarkIndexUnavailable(index, i)
           /\ reply' = Answer("StaleFailure")
           /\ UNCHANGED current
        \/ /\ i = current
           /\ SwitchFrom(i, MarkIndexUnavailable(index, i))
     /\ UNCHANGED <<size, id, now>>

ReportExpiredFailure(i) == ReportHardFailure(i, Expired)
ApplyCredentialQuotaExhausted(i) == ReportHardFailure(i, QuotaExhausted)

-----------------------------------------------------------------------------
(* Management.                                                              *)

UnknownCredential(i) ==
  /\ i \notin Held
  /\ reply' = Answer("Unknown")
  /\ UNCHANGED <<size, id, state, index, current, now>>

(* Makes slot i available when `applies', and otherwise changes nothing.    *)
BecomeAvailable(i, applies) ==
  /\ i \in Held
  /\ state' = IF applies THEN [state EXCEPT ![i] = Available] ELSE state
  /\ index' = IF applies THEN MarkIndexAvailable(index, i) ELSE index
  /\ reply' = Answer("Done")
  /\ UNCHANGED <<size, id, current, now>>

RestoreCredential(i) ==
  \/ UnknownCredential(i)
  \/ BecomeAvailable(i, state[i].kind \in {"Expired", "QuotaExhausted"})

EnableCredential(i) == UnknownCredential(i) \/ BecomeAvailable(i, TRUE)

ClearCredentialCooldown(i) ==
  \/ UnknownCredential(i)
  \/ BecomeAvailable(i, IsCoolingDownAt(state[i], now))

DisableCredential(i) ==
  \/ UnknownCredential(i)
  \/ /\ i \in Held
     /\ state' = [state EXCEPT ![i] = Disabled]
     /\ LET marked == MarkIndexUnavailable(index, i)
            fresh == RefreshAvailableIndices(marked, state', now)
        IN /\ index' = IF i = current THEN fresh ELSE marked
           /\ current' = IF i = current /\ fresh.available # {}
                         THEN NextFrom(fresh.available, After(current))
                         ELSE current
     /\ reply' = Answer("Done")
     /\ UNCHANGED <<size, id, now>>

(* All or nothing: one identity already held, or given twice, refuses the   *)
(* whole batch.                                                             *)
HeldIdentities == {id[i] : i \in Held}

(* Mutant: only the credentials already held are looked at. *)
AddCredentialsUnchecked(batch) ==
  /\ ToSet(batch) \cap HeldIdentities = {}
  /\ size + Len(batch) <= Capacity
  /\ size' = size + Len(batch)
  /\ id' = [i \in Slot |-> IF i \in size..size' - 1
                           THEN batch[i - size + 1] ELSE id[i]]
  /\ index' = [index EXCEPT
                 !.available = index.available \cup (size..size' - 1)]
  /\ reply' = Answer("Done")
  /\ UNCHANGED <<state, current, now>>

AddCredentials(batch) ==
  \/ /\ ~IsInjective(batch) \/ ToSet(batch) \cap HeldIdentities # {}
     /\ reply' = Answer("AlreadyExists")
     /\ UNCHANGED <<size, id, state, index, current, now>>
  \/ /\ IsInjective(batch) /\ ToSet(batch) \cap HeldIdentities = {}
     /\ size + Len(batch) <= Capacity
     /\ size' = size + Len(batch)
     /\ id' = [i \in Slot |-> IF i \in size..size' - 1
                              THEN batch[i - size + 1] ELSE id[i]]
     /\ index' = [index EXCEPT
                    !.available = index.available \cup (size..size' - 1)]
     /\ reply' = Answer("Done")
     /\ UNCHANGED <<state, current, now>>

-----------------------------------------------------------------------------
Batch == UNION {[1..n -> Credential] : n \in 1..MaxBatch}

Next ==
  \/ Tick
  \/ Select
  \/ SelectCoolingDownLastResort
  \/ \E limit \in 0..Capacity : RetryCandidatesFromCurrent(limit)
  \/ \E batch \in Batch : AddCredentials(batch)
  \/ \E i \in Slot :
       \/ SelectCredentialById(i)
       \/ \E until \in Time : ReportSwitchableFailureUntil(i, until)
       \/ ReportExpiredFailure(i)
       \/ ApplyCredentialQuotaExhausted(i)
       \/ RestoreCredential(i)
       \/ EnableCredential(i)
       \/ ClearCredentialCooldown(i)
       \/ DisableCredential(i)

Spec == Init /\ [][Next]_vars

-----------------------------------------------------------------------------
(* Properties.                                                              *)

TypeOK ==
  /\ size \in 1..Capacity
  /\ id \in [Slot -> Credential]
  /\ state \in [Slot -> CredentialState]
  /\ index \in Index
  /\ current \in Held
  /\ now \in Time

(* A slot in use is filed in the availability set or in the deadline map,   *)
(* according to its state; a cooldown that has ended may still be filed     *)
(* under its deadline, and one that has not ended always is.                *)
Filed(ix, st, t, i) ==
  /\ i \in ix.available <=> /\ st[i].kind \in {"Available", "CoolingDown"}
                            /\ ix.deadlineOf[i] = NoTime
  /\ st[i].kind = "Available" => ix.deadlineOf[i] = NoTime
  /\ ix.deadlineOf[i] # NoTime => st[i] = CoolingDown(ix.deadlineOf[i])
  /\ \A d \in Time : i \in ix.deadlines[d] <=> ix.deadlineOf[i] = d
  /\ IsCoolingDownAt(st[i], t) => ix.deadlineOf[i] # NoTime

(* A slot not in use yet is filed nowhere.                                  *)
Unfiled(ix, st, i) ==
  /\ i \notin ix.available
  /\ ix.deadlineOf[i] = NoTime
  /\ \A d \in Time : i \notin ix.deadlines[d]
  /\ st[i] = Available

Describes(ix, st, t, n) ==
  \A i \in Slot : IF i < n THEN Filed(ix, st, t, i) ELSE Unfiled(ix, st, i)

(* The incrementally maintained indexes always describe the credentials     *)
(* themselves: a held slot is in exactly one of the availability set and    *)
(* the deadline map, according to its state, and the two deadline maps are  *)
(* inverse to each other (mark_index_*, refresh_available_indices).         *)
IndexesDescribeStates == Describes(index, state, now, size)

(* The two read-only checks, which answer without refreshing the indexes    *)
(* because the route planner only borrows the pool, say exactly whether a   *)
(* usable credential and a cooling one exist at this instant.               *)
HasAvailableCredentialsReadOnly ==
  \/ index.available # {}
  \/ \E d \in Time : index.deadlines[d] # {} /\ d <= now

HasCoolingDownCredentialsReadOnly ==
  \E d \in Time : index.deadlines[d] # {} /\ d > now

ReadOnlyChecksExact ==
  /\ HasAvailableCredentialsReadOnly <=>
        \E i \in Held : IsAvailableAt(state[i], now)
  /\ HasCoolingDownCredentialsReadOnly <=>
        \E i \in Held : IsCoolingDownAt(state[i], now)

(* A batch that repeats an identity, or brings one already held, leaves no  *)
(* trace: two slots never hold the same credential (add_credentials).       *)
IdentitiesDistinct == \A i, j \in Held : id[i] = id[j] => i = j

(* A retry never goes back to the failed slot, to a slot that cannot serve, *)
(* or to one slot twice (retry_candidates_from_current).                    *)
CandidatesUsable ==
  [][\A limit \in 0..Capacity : RetryCandidatesFromCurrent(limit) =>
       /\ IsInjective(reply'.slots)
       /\ Len(reply'.slots) <= limit
       /\ \A i \in ToSet(reply'.slots) :
            i # current /\ i \in Held /\ IsAvailableAt(state[i], now)]_vars

(* A last-resort selection comes back empty-handed only if no credential    *)
(* was usable when it began and every cooldown had ended when it looked.    *)
LastResortFindsCooling ==
  [][SelectCoolingDownLastResort /\ reply'.outcome = "NoKey" =>
       \A i \in Held : /\ ~IsAvailableAt(state[i], now)
                       /\ ~IsCoolingDownAt(state[i], now')]_vars

(* The pool is sticky: while the slot it serves from stays usable, a        *)
(* selection returns that slot, whatever cooldowns of other slots end.      *)
SelectionSticky ==
  [][Select /\ IsAvailableAt(state[current], now) =>
       reply' = Key(current)]_vars

(* The pool keeps its promise: seen without indexes and clock, its steps    *)
(* are those of CredentialLifecycle.                                        *)
PhaseAt(i) ==
  CASE i \notin Held -> "Absent"
    [] i \in Held /\ IsAvailableAt(state[i], now) -> "Available"
    [] OTHER -> state[i].kind

Promise == INSTANCE CredentialLifecycle WITH
             phase <- [i \in Slot |-> PhaseAt(i)],
             serving <- current

KeepsPromise == Promise!Spec
=============================================================================
