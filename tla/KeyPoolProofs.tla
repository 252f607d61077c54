--------------------------- MODULE KeyPoolProofs ---------------------------
(***************************************************************************)
(* Proofs about KeyPool, for every capacity, every credential set and      *)
(* every clock bound.                                                      *)
(*                                                                         *)
(* The inductive invariant is TypeOK together with IndexesDescribeStates.  *)
(* What the operations of the pool do to the indexes is a composition of   *)
(* three marks and one refresh, so the argument is: each mark keeps the    *)
(* indexes describing the states once the state of its slot is changed     *)
(* with it, a refresh keeps them describing the same states, and time      *)
(* alone disturbs nothing.                                                 *)
(*                                                                         *)
(* Every pool then keeps its promise: it behaves as CredentialLifecycle    *)
(* says.  Two things have to be shown of the indexes for it.  The set a    *)
(* selection finds available is the set of the credentials usable at that  *)
(* instant; and the cyclic scan that starts behind a slot comes back to    *)
(* that slot only if nothing else is available, so that a pool stays on a  *)
(* failed slot for lack of an alternative only.                            *)
(*                                                                         *)
(* The same scan, listed, gives the retry candidates: it meets each slot   *)
(* at a distance of its own, so there is one list in its order.            *)
(***************************************************************************)
EXTENDS KeyPool, SortedSequences

-----------------------------------------------------------------------------
(* Facts about the scan order.                                              *)

(* A nonempty set of naturals has a least member, which Min returns.        *)
LEMMA MinIsLeast ==
  ASSUME NEW S, S \subseteq Nat, S # {}
  PROVE  Min(S) \in S /\ \A y \in S : Min(S) <= y
<1>1. PICK x \in S : \A y \in S : ~(<<y, x>> \in OpToRel(<, Nat))
  BY NatLessThanWellFounded, WFMin
<1>2. \A y \in S : x <= y
  <2> TAKE y \in S
  <2>1. x \in Nat /\ y \in Nat
    OBVIOUS
  <2>2. ~(y < x)
    BY <1>1, <2>1 DEF OpToRel
  <2> QED
    BY <2>1, <2>2
<1> QED
  BY <1>2 DEF Min

(* The cyclic scan finds a member of the set it scans.                      *)
LEMMA NextFromInSet ==
  ASSUME NEW S, S \subseteq Nat, S # {}, NEW start \in Nat
  PROVE  NextFrom(S, start) \in S
<1> DEFINE ahead == {i \in S : i >= start}
<1>1. CASE ahead # {}
  BY <1>1, MinIsLeast, ahead \subseteq Nat DEF NextFrom
<1>2. CASE ahead = {}
  BY <1>2, MinIsLeast DEF NextFrom
<1> QED
  BY <1>1, <1>2

-----------------------------------------------------------------------------
(* Facts about the index operations.                                        *)

(* A mark returns indexes of the right shape, and touches one slot only.    *)
LEMMA MarkShape ==
  ASSUME NEW ix \in Index, NEW i \in Slot, NEW until \in Time
  PROVE  /\ RemoveCooldownDeadline(ix, i) \in Index
         /\ MarkIndexAvailable(ix, i) \in Index
         /\ MarkIndexUnavailable(ix, i) \in Index
         /\ MarkIndexCoolingDown(ix, i, until) \in Index
<1>1. \A jx \in Index : RemoveCooldownDeadline(jx, i) \in Index
  BY DEF RemoveCooldownDeadline, Index
<1>2. MarkIndexAvailable(ix, i) \in Index
  BY <1>1 DEF MarkIndexAvailable, Index
<1>3. MarkIndexUnavailable(ix, i) \in Index
  BY <1>1 DEF MarkIndexUnavailable, Index
<1>4. MarkIndexCoolingDown(ix, i, until) \in Index
  BY <1>3 DEF MarkIndexCoolingDown, Index
<1> QED
  BY <1>1, <1>2, <1>3, <1>4

(* What the marks do to each field, slot by slot.                           *)
SameEntry(new, old, j) ==
  /\ j \in new.available <=> j \in old.available
  /\ new.deadlineOf[j] = old.deadlineOf[j]
  /\ \A d \in Time : j \in new.deadlines[d] <=> j \in old.deadlines[d]

(* Taking a slot off the deadlines leaves the other entries alone.         *)
LEMMA RemoveEntry ==
  ASSUME NEW ix \in Index, NEW i \in Slot,
         NEW new, new = RemoveCooldownDeadline(ix, i)
  PROVE  /\ new \in Index
         /\ new.available = ix.available
         /\ new.deadlineOf[i] = NoTime
         /\ \A d \in Time : i \in new.deadlines[d] <=>
                i \in ix.deadlines[d] /\ d # ix.deadlineOf[i]
         /\ \A j \in Slot \ {i} : SameEntry(new, ix, j)
<1>1. /\ new \in Index
      /\ new.available = ix.available
      /\ new.deadlineOf = [ix.deadlineOf EXCEPT ![i] = NoTime]
      /\ new.deadlines = [d \in Time |-> IF d = ix.deadlineOf[i]
                                         THEN ix.deadlines[d] \ {i}
                                         ELSE ix.deadlines[d]]
  BY DEF RemoveCooldownDeadline, Index
<1>2. \A j \in Slot : new.deadlineOf[j] = IF j = i THEN NoTime
                                          ELSE ix.deadlineOf[j]
  BY <1>1 DEF Index
<1> QED
  BY <1>1, <1>2 DEF SameEntry

(* mark_index_available files its slot as available, and only that one.    *)
LEMMA MarkAvailableEntry ==
  ASSUME NEW ix \in Index, NEW i \in Slot,
         NEW new, new = MarkIndexAvailable(ix, i)
  PROVE  /\ new \in Index
         /\ i \in new.available
         /\ new.deadlineOf[i] = NoTime
         /\ \A d \in Time : i \in new.deadlines[d] <=>
                i \in ix.deadlines[d] /\ d # ix.deadlineOf[i]
         /\ \A j \in Slot \ {i} : SameEntry(new, ix, j)
<1> DEFINE cleared == RemoveCooldownDeadline(ix, i)
<1>1. /\ cleared \in Index
      /\ cleared.deadlineOf[i] = NoTime
      /\ cleared.available = ix.available
      /\ \A d \in Time : i \in cleared.deadlines[d] <=>
             i \in ix.deadlines[d] /\ d # ix.deadlineOf[i]
      /\ \A j \in Slot \ {i} : SameEntry(cleared, ix, j)
  BY RemoveEntry
<1>2. new = [cleared EXCEPT !.available = cleared.available \cup {i}]
  BY DEF MarkIndexAvailable
<1> HIDE DEF cleared
<1>3. /\ new \in Index
      /\ new.available = cleared.available \cup {i}
      /\ new.deadlineOf = cleared.deadlineOf
      /\ new.deadlines = cleared.deadlines
  BY <1>1, <1>2 DEF Index
<1> QED
  BY <1>1, <1>3 DEF SameEntry

(* mark_index_unavailable takes its slot out of every index, and no other. *)
LEMMA MarkUnavailableEntry ==
  ASSUME NEW ix \in Index, NEW i \in Slot,
         NEW new, new = MarkIndexUnavailable(ix, i)
  PROVE  /\ new \in Index
         /\ i \notin new.available
         /\ new.deadlineOf[i] = NoTime
         /\ \A d \in Time : i \in new.deadlines[d] <=>
                i \in ix.deadlines[d] /\ d # ix.deadlineOf[i]
         /\ \A j \in Slot \ {i} : SameEntry(new, ix, j)
<1> DEFINE cleared == RemoveCooldownDeadline(ix, i)
<1>1. /\ cleared \in Index
      /\ cleared.deadlineOf[i] = NoTime
      /\ cleared.available = ix.available
      /\ \A d \in Time : i \in cleared.deadlines[d] <=>
             i \in ix.deadlines[d] /\ d # ix.deadlineOf[i]
      /\ \A j \in Slot \ {i} : SameEntry(cleared, ix, j)
  BY RemoveEntry
<1>2. new = [cleared EXCEPT !.available = cleared.available \ {i}]
  BY DEF MarkIndexUnavailable
<1> HIDE DEF cleared
<1>3. /\ new \in Index
      /\ new.available = cleared.available \ {i}
      /\ new.deadlineOf = cleared.deadlineOf
      /\ new.deadlines = cleared.deadlines
  BY <1>1, <1>2 DEF Index
<1> QED
  BY <1>1, <1>3 DEF SameEntry

(* mark_index_cooling_down files its slot under its deadline alone.        *)
LEMMA MarkCoolingDownEntry ==
  ASSUME NEW ix \in Index, NEW i \in Slot, NEW until \in Time,
         \A d \in Time : i \in ix.deadlines[d] => ix.deadlineOf[i] = d,
         NEW new, new = MarkIndexCoolingDown(ix, i, until)
  PROVE  /\ new \in Index
         /\ i \notin new.available
         /\ new.deadlineOf[i] = until
         /\ \A d \in Time : i \in new.deadlines[d] <=> d = until
         /\ \A j \in Slot \ {i} : SameEntry(new, ix, j)
<1> DEFINE cleared == MarkIndexUnavailable(ix, i)
<1>1. /\ cleared \in Index
      /\ i \notin cleared.available
      /\ \A d \in Time : i \in cleared.deadlines[d] <=>
             i \in ix.deadlines[d] /\ d # ix.deadlineOf[i]
      /\ \A j \in Slot \ {i} : SameEntry(cleared, ix, j)
  BY MarkUnavailableEntry
<1>2. new = [available  |-> cleared.available,
             deadlines  |-> [cleared.deadlines EXCEPT
                              ![until] = cleared.deadlines[until] \cup {i}],
             deadlineOf |-> [cleared.deadlineOf EXCEPT ![i] = until]]
  BY DEF MarkIndexCoolingDown
<1> HIDE DEF cleared
<1>3. /\ new \in Index
      /\ new.available = cleared.available
      /\ new.deadlineOf = [cleared.deadlineOf EXCEPT ![i] = until]
      /\ new.deadlines = [cleared.deadlines EXCEPT
                            ![until] = cleared.deadlines[until] \cup {i}]
  BY <1>1, <1>2 DEF Index
<1>4. \A j \in Slot : new.deadlineOf[j] = IF j = i THEN until
                                          ELSE cleared.deadlineOf[j]
  BY <1>1, <1>3 DEF Index
<1>5. \A d \in Time : new.deadlines[d] = IF d = until
                                         THEN cleared.deadlines[d] \cup {i}
                                         ELSE cleared.deadlines[d]
  BY <1>1, <1>3 DEF Index
<1> QED
  BY <1>1, <1>3, <1>4, <1>5 DEF SameEntry

-----------------------------------------------------------------------------
(* Describes survives each operation.                                       *)

(* An entry left alone goes on describing its slot.                         *)
LEMMA SameEntryFiled ==
  ASSUME NEW ix, NEW new, NEW st, NEW nst, NEW t, NEW j,
         SameEntry(new, ix, j), nst[j] = st[j]
  PROVE  /\ Filed(ix, st, t, j) => Filed(new, nst, t, j)
         /\ Unfiled(ix, st, j) => Unfiled(new, nst, j)
BY DEF SameEntry, Filed, Unfiled

(* A slot made available is described once it is marked available.         *)
LEMMA MarkAvailableDescribes ==
  ASSUME NEW ix \in Index, NEW i \in Slot, NEW t \in Time, NEW n \in Nat,
         NEW st \in [Slot -> CredentialState],
         i < n, Describes(ix, st, t, n)
  PROVE  Describes(MarkIndexAvailable(ix, i), [st EXCEPT ![i] = Available],
                   t, n)
<1> DEFINE new == MarkIndexAvailable(ix, i)
           nst == [st EXCEPT ![i] = Available]
<1> SUFFICES ASSUME NEW j \in Slot
             PROVE  IF j < n THEN Filed(new, nst, t, j) ELSE Unfiled(new, nst, j)
  BY DEF Describes
<1>1. IF j < n THEN Filed(ix, st, t, j) ELSE Unfiled(ix, st, j)
  BY DEF Describes
<1>2. /\ i \in new.available
      /\ new.deadlineOf[i] = NoTime
      /\ \A d \in Time : i \in new.deadlines[d] <=>
             i \in ix.deadlines[d] /\ d # ix.deadlineOf[i]
      /\ \A k \in Slot \ {i} : SameEntry(new, ix, k)
  BY MarkAvailableEntry
<1> HIDE DEF new
<1>3. CASE j = i
  BY <1>1, <1>2, <1>3
     DEF Filed, Available, IsCoolingDownAt, NoTime, Time
<1>4. CASE j # i
  <2>1. nst[j] = st[j]
    BY <1>4
  <2>2. SameEntry(new, ix, j)
    BY <1>2, <1>4
  <2> QED
    BY <1>1, <2>1, <2>2, SameEntryFiled
<1> QED
  BY <1>3, <1>4

(* The states the pool excludes a slot in.                                  *)
Excluded == {Expired, QuotaExhausted, Disabled}

(* A slot excluded is described once it is marked unavailable.             *)
LEMMA MarkUnavailableDescribes ==
  ASSUME NEW ix \in Index, NEW i \in Slot, NEW t \in Time, NEW n \in Nat,
         NEW st \in [Slot -> CredentialState], NEW s \in Excluded,
         i < n, Describes(ix, st, t, n)
  PROVE  Describes(MarkIndexUnavailable(ix, i), [st EXCEPT ![i] = s], t, n)
<1> DEFINE new == MarkIndexUnavailable(ix, i)
           nst == [st EXCEPT ![i] = s]
<1> SUFFICES ASSUME NEW j \in Slot
             PROVE  IF j < n THEN Filed(new, nst, t, j) ELSE Unfiled(new, nst, j)
  BY DEF Describes
<1>1. IF j < n THEN Filed(ix, st, t, j) ELSE Unfiled(ix, st, j)
  BY DEF Describes
<1>2. /\ i \notin new.available
      /\ new.deadlineOf[i] = NoTime
      /\ \A d \in Time : i \in new.deadlines[d] <=>
             i \in ix.deadlines[d] /\ d # ix.deadlineOf[i]
      /\ \A k \in Slot \ {i} : SameEntry(new, ix, k)
  BY MarkUnavailableEntry
<1> HIDE DEF new
<1>3. CASE j = i
  <2>1. s.kind \in {"Expired", "QuotaExhausted", "Disabled"}
    BY DEF Excluded, Expired, QuotaExhausted, Disabled
  <2> QED
    BY <1>1, <1>2, <1>3, <2>1 DEF Filed, IsCoolingDownAt, NoTime, Time
<1>4. CASE j # i
  <2>1. nst[j] = st[j]
    BY <1>4
  <2>2. SameEntry(new, ix, j)
    BY <1>2, <1>4
  <2> QED
    BY <1>1, <2>1, <2>2, SameEntryFiled
<1> QED
  BY <1>3, <1>4

(* A slot that cools down is described once it is filed under its          *)
(* deadline.                                                               *)
LEMMA MarkCoolingDownDescribes ==
  ASSUME NEW ix \in Index, NEW i \in Slot, NEW t \in Time, NEW n \in Nat,
         NEW st \in [Slot -> CredentialState], NEW until \in Time,
         i < n, Describes(ix, st, t, n)
  PROVE  Describes(MarkIndexCoolingDown(ix, i, until),
                   [st EXCEPT ![i] = CoolingDown(until)], t, n)
<1> DEFINE new == MarkIndexCoolingDown(ix, i, until)
           nst == [st EXCEPT ![i] = CoolingDown(until)]
<1> SUFFICES ASSUME NEW j \in Slot
             PROVE  IF j < n THEN Filed(new, nst, t, j) ELSE Unfiled(new, nst, j)
  BY DEF Describes
<1>1. \A k \in Slot : IF k < n THEN Filed(ix, st, t, k) ELSE Unfiled(ix, st, k)
  BY DEF Describes
<1>2. /\ i \notin new.available
      /\ new.deadlineOf[i] = until
      /\ \A d \in Time : i \in new.deadlines[d] <=> d = until
      /\ \A k \in Slot \ {i} : SameEntry(new, ix, k)
  <2>1. \A d \in Time : i \in ix.deadlines[d] => ix.deadlineOf[i] = d
    BY <1>1 DEF Filed
  <2> QED
    BY <2>1, MarkCoolingDownEntry
<1> HIDE DEF new
<1>3. CASE j = i
  BY <1>2, <1>3 DEF Filed, CoolingDown, IsCoolingDownAt, NoTime, Time
<1>4. CASE j # i
  <2>1. nst[j] = st[j]
    BY <1>4
  <2>2. SameEntry(new, ix, j)
    BY <1>2, <1>4
  <2> QED
    BY <1>1, <2>1, <2>2, SameEntryFiled
<1> QED
  BY <1>3, <1>4

(* A refresh at a later instant describes the same states at that instant,  *)
(* and leaves every usable credential available.                            *)
LEMMA RefreshDescribes ==
  ASSUME NEW ix \in Index, NEW st \in [Slot -> CredentialState],
         NEW t \in Time, NEW u \in Time, u <= t, NEW n \in Nat,
         Describes(ix, st, u, n),
         NEW new, new = RefreshAvailableIndices(ix, st, t)
  PROVE  /\ new \in Index
         /\ Describes(new, st, t, n)
         /\ \A i \in Slot : i \in new.available <=>
                             i < n /\ IsAvailableAt(st[i], t)
<1> DEFINE woken == {i \in Slot : /\ ix.deadlineOf[i] \in 0..t
                                 /\ i \in ix.deadlines[ix.deadlineOf[i]]}
<1>1. new = [available  |-> ix.available \cup
                              {i \in woken : IsAvailableAt(st[i], t)},
             deadlines  |-> [d \in Time |-> IF d <= t THEN {}
                                           ELSE ix.deadlines[d]],
             deadlineOf |-> [i \in Slot |-> IF i \in woken THEN NoTime
                                           ELSE ix.deadlineOf[i]]]
  BY DEF RefreshAvailableIndices
<1>2. new \in Index
  BY <1>1 DEF Index
<1>3. \A i \in Slot : IF i < n THEN Filed(ix, st, u, i) ELSE Unfiled(ix, st, i)
  BY DEF Describes
<1>4. ASSUME NEW i \in Slot
      PROVE  /\ IF i < n THEN Filed(new, st, t, i) ELSE Unfiled(new, st, i)
             /\ i \in new.available <=> i < n /\ IsAvailableAt(st[i], t)
  <2>1. /\ st[i] \in CredentialState
        /\ ix.deadlineOf[i] \in Time \cup {NoTime}
        /\ t \in Nat /\ u \in Nat /\ Time \subseteq Nat /\ NoTime \notin Time
        /\ st[i].until \in Nat
    BY DEF Index, Time, NoTime, CredentialState
  <2>2. CASE i \in woken
    <3>1. /\ i < n
          /\ ix.deadlineOf[i] \in Time
          /\ st[i] = CoolingDown(ix.deadlineOf[i])
          /\ ix.deadlineOf[i] <= t
      BY <1>3, <2>1, <2>2 DEF Filed, Unfiled, Time, NoTime
    <3>2. /\ st[i].kind = "CoolingDown"
          /\ st[i].until = ix.deadlineOf[i]
      BY <3>1 DEF CoolingDown
    <3>5. /\ IsAvailableAt(st[i], t)
          /\ ~IsCoolingDownAt(st[i], t)
      BY <2>1, <3>1, <3>2 DEF IsAvailableAt, IsCoolingDownAt
    <3>3. /\ i \in new.available
          /\ new.deadlineOf[i] = NoTime
      BY <1>1, <2>2, <3>5
    <3>4. \A d \in Time : i \notin new.deadlines[d]
      BY <1>1, <1>3, <2>1, <3>1 DEF Filed
    <3> QED
      BY <2>1, <3>1, <3>2, <3>3, <3>4, <3>5 DEF Filed
  <2>3. CASE i \notin woken
    <3>1. /\ i \in new.available <=> i \in ix.available
          /\ new.deadlineOf[i] = ix.deadlineOf[i]
      BY <1>1, <2>3
    <3>2. CASE i < n
      <4>1. Filed(ix, st, u, i)
        BY <1>3, <3>2
      <4>2. ix.deadlineOf[i] = NoTime \/ ix.deadlineOf[i] > t
        BY <2>1, <2>3, <4>1 DEF Filed, Time
      <4>3. \A d \in Time : i \in new.deadlines[d] <=> i \in ix.deadlines[d]
        BY <1>1, <2>1, <4>1, <4>2 DEF Filed
      <4>4. IsCoolingDownAt(st[i], t) => IsCoolingDownAt(st[i], u)
        BY <2>1 DEF IsCoolingDownAt
      <4>5. Filed(new, st, t, i)
        BY <3>1, <4>1, <4>3, <4>4 DEF Filed
      <4>6. i \in ix.available <=> IsAvailableAt(st[i], t)
        <5>1. CASE ix.deadlineOf[i] = NoTime
          BY <2>1, <4>1, <4>4, <5>1
             DEF Filed, IsAvailableAt, IsCoolingDownAt
        <5>2. CASE ix.deadlineOf[i] # NoTime /\ ix.deadlineOf[i] > t
          <6>1. st[i] = CoolingDown(ix.deadlineOf[i])
            BY <4>1, <5>2 DEF Filed
          <6>2. st[i].kind = "CoolingDown" /\ st[i].until = ix.deadlineOf[i]
            BY <6>1 DEF CoolingDown
          <6> QED
            BY <2>1, <4>1, <5>2, <6>2 DEF Filed, IsAvailableAt
        <5> QED
          BY <4>2, <5>1, <5>2
      <4> QED
        BY <3>1, <3>2, <4>5, <4>6
    <3>3. CASE ~(i < n)
      BY <1>1, <1>3, <3>1, <3>3 DEF Unfiled
    <3> QED
      BY <3>2, <3>3
  <2> QED
    BY <2>2, <2>3
<1> QED
  BY <1>2, <1>4 DEF Describes

(* Time alone disturbs nothing: a cooldown can only end.                    *)
LEMMA LaterDescribes ==
  ASSUME NEW ix, NEW st \in [Slot -> CredentialState],
         NEW t \in Time, NEW u \in Time, u <= t, NEW n \in Nat,
         Describes(ix, st, u, n)
  PROVE  Describes(ix, st, t, n)
<1> SUFFICES ASSUME NEW i \in Slot
             PROVE  IsCoolingDownAt(st[i], t) => IsCoolingDownAt(st[i], u)
  BY DEF Describes, Filed
<1> QED
  BY DEF IsCoolingDownAt, CredentialState, Time

-----------------------------------------------------------------------------
(* The inductive invariant.                                                 *)

IInv == TypeOK /\ IndexesDescribeStates

(* The values credentials take are credential states.                      *)
LEMMA StatesTyped ==
  /\ {Available, Expired, QuotaExhausted, Disabled} \subseteq CredentialState
  /\ \A t \in Time : CoolingDown(t) \in CredentialState
BY PoolAssumption
   DEF Available, Expired, QuotaExhausted, Disabled, CoolingDown,
       CredentialState, Kind, Time

(* A new pool is consistent.                                               *)
LEMMA InitIInv == Init => IInv
<1> SUFFICES ASSUME Init PROVE IInv
  OBVIOUS
<1> USE PoolAssumption
<1>1. size \in 1..Capacity
  BY DEF Init
<1>2. id \in [Slot -> Credential]
  <2>1. \A n \in 1..Len(InitialBatch) : InitialBatch[n] \in Credential
    OBVIOUS
  <2>2. ASSUME NEW i \in Slot
        PROVE  (IF i < size THEN InitialBatch[i + 1] ELSE InitialBatch[1])
                 \in Credential
    BY <2>1, <1>1 DEF Init, Slot
  <2> QED
    BY <2>2 DEF Init
<1>3. state \in [Slot -> CredentialState]
  BY StatesTyped DEF Init
<1>4. index \in Index
  BY <1>1 DEF Init, Index, Held, Slot
<1>5. current \in Held /\ now \in Time
  BY <1>1 DEF Init, Held, Time
<1>6. ASSUME NEW i \in Slot
      PROVE  IF i < size THEN Filed(index, state, now, i)
             ELSE Unfiled(index, state, i)
  <2>1. /\ i \in index.available <=> i < size
        /\ index.deadlineOf[i] = NoTime
        /\ \A d \in Time : i \notin index.deadlines[d]
        /\ state[i] = Available
    BY <1>1 DEF Init, Held, Slot
  <2>2. /\ state[i].kind = "Available"
        /\ \A d \in Time : NoTime # d
    BY <2>1 DEF Available, NoTime, Time
  <2> QED
    BY <2>1, <2>2 DEF Filed, Unfiled, IsCoolingDownAt
<1> QED
  BY <1>1, <1>2, <1>3, <1>4, <1>5, <1>6
     DEF IInv, TypeOK, IndexesDescribeStates, Describes

(* What the invariant says of a state, in the form the lemmas above take.   *)
LEMMA IInvFacts ==
  ASSUME IInv
  PROVE  /\ size \in Nat /\ size \in 1..Capacity
         /\ state \in [Slot -> CredentialState]
         /\ index \in Index
         /\ Held \subseteq Slot /\ Slot \subseteq Nat
         /\ now \in Time /\ now \in Nat /\ now <= now
         /\ current \in Held
         /\ Describes(index, state, now, size)
BY PoolAssumption DEF IInv, TypeOK, IndexesDescribeStates, Held, Slot, Time

(* A refresh in a state where the invariant holds.                          *)
LEMMA RefreshIInv ==
  ASSUME IInv
  PROVE  LET new == RefreshAvailableIndices(index, state, now) IN
         /\ new \in Index
         /\ Describes(new, state, now, size)
         /\ new.available \subseteq Held
<1> DEFINE new == RefreshAvailableIndices(index, state, now)
<1>1. /\ new \in Index
      /\ Describes(new, state, now, size)
      /\ \A i \in Slot : i \in new.available => i < size
  BY IInvFacts, RefreshDescribes
<1>2. new.available \subseteq Slot
  BY <1>1 DEF Index
<1> QED
  BY <1>1, <1>2, IInvFacts DEF Held, Slot

(* The scan from any slot of a nonempty set of held slots ends on one.      *)
LEMMA NextFromHeld ==
  ASSUME IInv, NEW S, S \subseteq Held, S # {}, NEW start \in Nat
  PROVE  NextFrom(S, start) \in S /\ NextFrom(S, start) \in Held
<1>1. S \subseteq Nat
  BY IInvFacts
<1> QED
  BY <1>1, NextFromInSet

(* The slot after the current one is a slot number.                        *)
LEMMA AfterIsNat ==
  ASSUME IInv
  PROVE  After(current) \in Nat
BY IInvFacts DEF After, Held

(* The common tail of a failure report keeps the invariant.                 *)
LEMMA SwitchFromIInv ==
  ASSUME IInv, NEW i \in Held, NEW marked \in Index,
         state' \in [Slot -> CredentialState],
         Describes(marked, state', now, size),
         SwitchFrom(i, marked), UNCHANGED <<size, id, now>>
  PROVE  IInv'
<1>1. index' = RefreshAvailableIndices(marked, state', now)
  BY DEF SwitchFrom
<1>2. /\ index' \in Index
      /\ Describes(index', state', now, size)
      /\ \A j \in Slot : j \in index'.available => j < size
  BY <1>1, IInvFacts, RefreshDescribes
<1>3. index'.available \subseteq Held
  BY <1>2, IInvFacts DEF Index, Held, Slot
<1>4. current' \in Held
  BY <1>3, NextFromHeld, AfterIsNat, IInvFacts DEF SwitchFrom
<1> QED
  BY <1>2, <1>4
     DEF IInv, TypeOK, IndexesDescribeStates, Held

-----------------------------------------------------------------------------
(* Each operation keeps the invariant.                                      *)

(* Time passes; what the index says of the deadlines stays true.           *)
LEMMA TickIInv == IInv /\ Tick => IInv'
<1> SUFFICES ASSUME IInv, Tick PROVE IInv'
  OBVIOUS
<1>1. now' \in Time /\ now <= now'
  BY IInvFacts, PoolAssumption DEF Tick, Time
<1>2. Describes(index, state, now', size)
  BY <1>1, IInvFacts, LaterDescribes
<1> QED
  BY <1>1, <1>2 DEF IInv, TypeOK, IndexesDescribeStates, Tick, Held

(* select keeps the invariant.                                             *)
LEMMA SelectIInv == IInv /\ Select => IInv'
<1> SUFFICES ASSUME IInv, Select PROVE IInv'
  OBVIOUS
<1>1. current' \in Held
  BY RefreshIInv, NextFromHeld, IInvFacts DEF Select
<1> QED
  BY <1>1, RefreshIInv
     DEF IInv, TypeOK, IndexesDescribeStates, Select, Held

(* select_credential_by_id keeps the invariant.                            *)
LEMMA SelectByIdIInv ==
  ASSUME NEW i \in Slot
  PROVE  IInv /\ SelectCredentialById(i) => IInv'
<1> SUFFICES ASSUME IInv, SelectCredentialById(i) PROVE IInv'
  OBVIOUS
<1>1. current' \in Held
  BY IInvFacts DEF SelectCredentialById
<1> QED
  BY <1>1, RefreshIInv
     DEF IInv, TypeOK, IndexesDescribeStates, SelectCredentialById, Held

(* select_cooling_down_last_resort keeps the invariant.                    *)
LEMMA LastResortIInv == IInv /\ SelectCoolingDownLastResort => IInv'
<1> SUFFICES ASSUME IInv, SelectCoolingDownLastResort PROVE IInv'
  OBVIOUS
<1>1. /\ index' = RefreshAvailableIndices(index, state, now)
      /\ size' = size /\ id' = id /\ state' = state
  BY DEF SelectCoolingDownLastResort
<1>2. /\ index' \in Index
      /\ Describes(index', state, now, size)
      /\ index'.available \subseteq Held
  BY <1>1, RefreshIInv
<1>3. CASE index'.available # {}
  <2>1. current' \in Held /\ now' = now
    BY <1>2, <1>3, NextFromHeld, IInvFacts DEF SelectCoolingDownLastResort
  <2> QED
    BY <1>1, <1>2, <2>1
       DEF IInv, TypeOK, IndexesDescribeStates, Held
<1>4. CASE index'.available = {}
  <2>1. PICK later \in now..MaxTime :
          LET cooling == {i \in Held : index'.deadlineOf[i] > later}
          IN /\ now' = later
             /\ \/ UNCHANGED current
                \/ cooling # {} /\ current' = NextFrom(cooling, current)
    BY <1>4 DEF SelectCoolingDownLastResort
  <2>2. current' \in Held
    <3> DEFINE cooling == {i \in Held : index'.deadlineOf[i] > later}
    <3>1. \/ UNCHANGED current
          \/ cooling # {} /\ current' = NextFrom(cooling, current)
      BY <2>1
    <3>2. cooling \subseteq Held
      OBVIOUS
    <3> HIDE DEF cooling
    <3> QED
      BY <3>1, <3>2, NextFromHeld, IInvFacts
  <2>3. now' \in Time /\ now <= now'
    BY <2>1, IInvFacts DEF Time
  <2>4. Describes(index', state, now', size)
    BY <1>2, <2>3, IInvFacts, LaterDescribes
  <2> QED
    BY <1>1, <1>2, <2>2, <2>3, <2>4
       DEF IInv, TypeOK, IndexesDescribeStates, Held
<1> QED
  BY <1>3, <1>4

(* retry_candidates_from_current keeps the invariant.                      *)
LEMMA RetryCandidatesIInv ==
  ASSUME NEW limit
  PROVE  IInv /\ RetryCandidatesFromCurrent(limit) => IInv'
<1> SUFFICES ASSUME IInv, RetryCandidatesFromCurrent(limit) PROVE IInv'
  OBVIOUS
<1>1. /\ index' = index \/ index' = RefreshAvailableIndices(index, state, now)
      /\ UNCHANGED <<size, id, state, current, now>>
  BY DEF RetryCandidatesFromCurrent
<1> QED
  BY <1>1, RefreshIInv DEF IInv, TypeOK, IndexesDescribeStates, Held

(* So does an operation that touches none of the state it speaks of.       *)
LEMMA StaleIInv == IInv /\ UNCHANGED <<size, id, state, index, current, now>>
                     => IInv'
BY DEF IInv, TypeOK, IndexesDescribeStates, Held

(* A cooldown report keeps the invariant.                                  *)
LEMMA SwitchableFailureIInv ==
  ASSUME NEW i \in Slot, NEW until \in Time
  PROVE  IInv /\ ReportSwitchableFailureUntil(i, until) => IInv'
<1> SUFFICES ASSUME IInv, ReportSwitchableFailureUntil(i, until) PROVE IInv'
  OBVIOUS
<1>1. CASE Stale
  BY <1>1, StaleIInv DEF Stale
<1>2. CASE ~Stale
  <2> DEFINE marked == MarkIndexCoolingDown(index, i, until)
  <2>1. /\ i \in Held
        /\ state' = [state EXCEPT ![i] = CoolingDown(until)]
        /\ SwitchFrom(i, marked)
        /\ UNCHANGED <<size, id, now>>
    BY <1>2 DEF ReportSwitchableFailureUntil
  <2>2. i < size
    BY <2>1, IInvFacts DEF Held
  <2>3. state' \in [Slot -> CredentialState]
    BY <2>1, StatesTyped, IInvFacts
  <2>4. Describes(marked, state', now, size)
    BY <2>1, <2>2, IInvFacts, MarkCoolingDownDescribes
  <2>5. marked \in Index
    BY IInvFacts, MarkShape
  <2> HIDE DEF marked
  <2> QED
    BY <2>1, <2>3, <2>4, <2>5, SwitchFromIInv
<1> QED
  BY <1>1, <1>2

(* An expiry or quota report keeps the invariant.                          *)
LEMMA HardFailureIInv ==
  ASSUME NEW i \in Slot, NEW s \in {Expired, QuotaExhausted}
  PROVE  IInv /\ ReportHardFailure(i, s) => IInv'
<1> SUFFICES ASSUME IInv, ReportHardFailure(i, s) PROVE IInv'
  OBVIOUS
<1>1. CASE Stale
  BY <1>1, StaleIInv DEF Stale
<1>2. CASE ~Stale
  <2> DEFINE marked == MarkIndexUnavailable(index, i)
  <2>1. /\ i \in Held
        /\ state' = [state EXCEPT ![i] = s]
        /\ \/ index' = marked /\ UNCHANGED current
           \/ SwitchFrom(i, marked)
        /\ UNCHANGED <<size, id, now>>
    BY <1>2 DEF ReportHardFailure
  <2>2. i < size
    BY <2>1, IInvFacts DEF Held
  <2>3. state' \in [Slot -> CredentialState]
    BY <2>1, StatesTyped, IInvFacts
  <2>4. Describes(marked, state', now, size)
    BY <2>1, <2>2, IInvFacts, MarkUnavailableDescribes DEF Excluded
  <2>5. marked \in Index
    BY IInvFacts, MarkShape DEF Time
  <2> HIDE DEF marked
  <2>6. CASE SwitchFrom(i, marked)
    BY <2>1, <2>3, <2>4, <2>5, <2>6, SwitchFromIInv
  <2>7. CASE index' = marked /\ UNCHANGED current
    BY <2>1, <2>3, <2>4, <2>5, <2>7
       DEF IInv, TypeOK, IndexesDescribeStates, Held
  <2> QED
    BY <2>1, <2>6, <2>7
<1> QED
  BY <1>1, <1>2

(* restore, enable and clear_cooldown keep the invariant.                  *)
LEMMA BecomeAvailableIInv ==
  ASSUME NEW i \in Slot, NEW applies
  PROVE  IInv /\ (UnknownCredential(i) \/ BecomeAvailable(i, applies)) => IInv'
<1> SUFFICES ASSUME IInv, UnknownCredential(i) \/ BecomeAvailable(i, applies)
             PROVE  IInv'
  OBVIOUS
<1>1. CASE UNCHANGED <<size, id, state, index, current, now>>
  BY <1>1, StaleIInv
<1>2. CASE /\ i \in Held
           /\ state' = [state EXCEPT ![i] = Available]
           /\ index' = MarkIndexAvailable(index, i)
           /\ UNCHANGED <<size, id, current, now>>
  <2>1. i < size
    BY <1>2, IInvFacts DEF Held
  <2>2. state' \in [Slot -> CredentialState]
    BY <1>2, StatesTyped, IInvFacts
  <2>3. Describes(index', state', now, size)
    BY <1>2, <2>1, IInvFacts, MarkAvailableDescribes
  <2>4. index' \in Index
    BY <1>2, IInvFacts, MarkAvailableEntry
  <2> QED
    BY <1>2, <2>2, <2>3, <2>4 DEF IInv, TypeOK, IndexesDescribeStates, Held
<1> QED
  BY <1>1, <1>2 DEF UnknownCredential, BecomeAvailable

(* disable keeps the invariant.                                            *)
LEMMA DisableIInv ==
  ASSUME NEW i \in Slot
  PROVE  IInv /\ DisableCredential(i) => IInv'
<1> SUFFICES ASSUME IInv, DisableCredential(i) PROVE IInv'
  OBVIOUS
<1>1. CASE UnknownCredential(i)
  BY <1>1, StaleIInv DEF UnknownCredential
<1>2. CASE ~UnknownCredential(i)
  <2> DEFINE marked == MarkIndexUnavailable(index, i)
             fresh == RefreshAvailableIndices(marked, state', now)
  <2>1. /\ i \in Held
        /\ state' = [state EXCEPT ![i] = Disabled]
        /\ index' = marked \/ index' = fresh
        /\ \/ UNCHANGED current
           \/ /\ fresh.available # {}
              /\ current' = NextFrom(fresh.available, After(current))
        /\ UNCHANGED <<size, id, now>>
    BY <1>2 DEF DisableCredential
  <2>2. i < size
    BY <2>1, IInvFacts DEF Held
  <2>3. state' \in [Slot -> CredentialState]
    BY <2>1, StatesTyped, IInvFacts
  <2>4. Describes(marked, state', now, size)
    BY <2>1, <2>2, IInvFacts, MarkUnavailableDescribes DEF Excluded
  <2>5. marked \in Index
    BY IInvFacts, MarkUnavailableEntry
  <2> HIDE DEF marked
  <2>6. /\ fresh \in Index
        /\ Describes(fresh, state', now, size)
        /\ \A j \in Slot : j \in fresh.available => j < size
    BY <2>3, <2>4, <2>5, IInvFacts, RefreshDescribes
  <2> HIDE DEF fresh
  <2>7. fresh.available \subseteq Held
    BY <2>6, IInvFacts DEF Index, Held, Slot
  <2>8. current' \in Held
    BY <2>1, <2>7, NextFromHeld, AfterIsNat, IInvFacts
  <2> QED
    BY <2>1, <2>3, <2>4, <2>5, <2>6, <2>8
       DEF IInv, TypeOK, IndexesDescribeStates, Held
<1> QED
  BY <1>1, <1>2

(* A slot below a bound is below a larger one.                             *)
LEMMA BelowBound ==
  ASSUME NEW a \in Int, NEW b \in Int, NEW c \in Int
  PROVE  c \in a..b - 1 <=> a <= c /\ c < b
OBVIOUS

(* add_credentials keeps the invariant: the new slots are filed as         *)
(* available.                                                              *)
LEMMA AddCredentialsIInv ==
  ASSUME NEW batch \in Batch
  PROVE  IInv /\ AddCredentials(batch) => IInv'
<1> SUFFICES ASSUME IInv, AddCredentials(batch) PROVE IInv'
  OBVIOUS
<1>1. CASE UNCHANGED <<size, id, state, index, current, now>>
  BY <1>1, StaleIInv
<1>2. CASE /\ size + Len(batch) <= Capacity
           /\ size' = size + Len(batch)
           /\ id' = [i \in Slot |-> IF i \in size..size' - 1
                                    THEN batch[i - size + 1] ELSE id[i]]
           /\ index' = [index EXCEPT
                          !.available = index.available \cup (size..size' - 1)]
           /\ UNCHANGED <<state, current, now>>
  <2>1. PICK n \in 1..MaxBatch : batch \in [1..n -> Credential]
    BY DEF Batch
  <2>2. Len(batch) = n /\ n \in Nat
    BY <2>1, PoolAssumption
  <2>3. size' \in 1..Capacity /\ size <= size' /\ size' \in Nat
    BY <1>2, <2>2, IInvFacts, PoolAssumption
  <2>4. id' \in [Slot -> Credential]
    <3>1. id \in [Slot -> Credential]
      BY DEF IInv, TypeOK
    <3>2. ASSUME NEW i \in Slot
          PROVE  (IF i \in size..size' - 1 THEN batch[i - size + 1] ELSE id[i])
                   \in Credential
      <4>1. CASE i \in size..size' - 1
        <5>1. i - size + 1 \in 1..n
          BY <1>2, <2>2, <2>3, <4>1, IInvFacts
        <5> QED
          BY <2>1, <4>1, <5>1
      <4>2. CASE i \notin size..size' - 1
        BY <3>1, <4>2
      <4> QED
        BY <4>1, <4>2
    <3> QED
      BY <1>2, <3>2
  <2>5. size..size' - 1 \subseteq Slot
    BY <2>3, IInvFacts, PoolAssumption DEF Slot
  <2>6. /\ index' \in Index
        /\ index'.available = index.available \cup (size..size' - 1)
        /\ index'.deadlineOf = index.deadlineOf
        /\ index'.deadlines = index.deadlines
    BY <1>2, <2>5, IInvFacts DEF Index
  <2>9. ASSUME NEW i \in Slot
        PROVE  i \in index'.available <=>
                 i \in index.available \/ (size <= i /\ i < size')
    <3>1. i \in Int /\ size \in Int /\ size' \in Int
      BY <2>3, IInvFacts
    <3>2. i \in size..size' - 1 <=> size <= i /\ i < size'
      BY <3>1, BelowBound, Zenon
    <3>3. i \in index'.available <=>
            i \in index.available \/ i \in size..size' - 1
      BY <2>6, Zenon
    <3> QED
      BY <3>2, <3>3, Zenon
  <2>7. current' \in 0..size' - 1
    BY <1>2, <2>3, IInvFacts DEF Held
  <2>8. ASSUME NEW i \in Slot
        PROVE  IF i < size' THEN Filed(index', state, now, i)
               ELSE Unfiled(index', state, i)
    <3>1. IF i < size THEN Filed(index, state, now, i)
          ELSE Unfiled(index, state, i)
      BY IInvFacts DEF Describes
    <3>2. i \in Nat /\ size \in Nat
      BY IInvFacts
    <3>3. CASE i < size
      <4>1. SameEntry(index', index, i)
        BY <2>6, <2>9, <3>2, <3>3 DEF SameEntry
      <4>2. i < size'
        BY <2>3, <3>2, <3>3
      <4> QED
        BY <3>1, <3>3, <4>1, <4>2, SameEntryFiled
    <3>4. CASE i >= size'
      <4>1. ~(size <= i /\ i < size')
        BY <2>3, <3>2, <3>4
      <4>3. SameEntry(index', index, i)
        BY <2>6, <2>9, <4>1 DEF SameEntry
      <4>2. ~(i < size) /\ ~(i < size')
        BY <2>3, <3>2, <3>4
      <4> QED
        BY <3>1, <4>2, <4>3, SameEntryFiled
    <3>5. CASE size <= i /\ i < size'
      <4>1. Unfiled(index, state, i)
        BY <3>1, <3>2, <3>5
      <4>2. i \in index'.available
        BY <2>9, <3>5
      <4>3. state[i].kind = "Available" /\ \A d \in Time : NoTime # d
        BY <4>1 DEF Unfiled, Available, Time, NoTime
      <4>4. Filed(index', state, now, i)
        BY <2>6, <4>1, <4>2, <4>3 DEF Filed, Unfiled, IsCoolingDownAt
      <4> QED
        BY <3>5, <4>4
    <3> QED
      BY <2>3, <3>2, <3>3, <3>4, <3>5
  <2> QED
    BY <1>2, <2>3, <2>4, <2>6, <2>7, <2>8
       DEF IInv, TypeOK, IndexesDescribeStates, Describes, Held
<1> QED
  BY <1>1, <1>2 DEF AddCredentials

(* Every step keeps the invariant, one case per operation.                 *)
LEMMA NextIInv == IInv /\ [Next]_vars => IInv'
<1> SUFFICES ASSUME IInv, [Next]_vars PROVE IInv'
  OBVIOUS
<1>1. CASE Tick
  BY <1>1, TickIInv
<1>2. CASE Select
  BY <1>2, SelectIInv
<1>3. CASE SelectCoolingDownLastResort
  BY <1>3, LastResortIInv
<1>4. ASSUME NEW limit \in 0..Capacity, RetryCandidatesFromCurrent(limit)
      PROVE  IInv'
  BY <1>4, RetryCandidatesIInv
<1>5. ASSUME NEW batch \in Batch, AddCredentials(batch)
      PROVE  IInv'
  BY <1>5, AddCredentialsIInv
<1>6. ASSUME NEW i \in Slot, SelectCredentialById(i)
      PROVE  IInv'
  BY <1>6, SelectByIdIInv
<1>7. ASSUME NEW i \in Slot, NEW until \in Time,
             ReportSwitchableFailureUntil(i, until)
      PROVE  IInv'
  BY <1>7, SwitchableFailureIInv
<1>8. ASSUME NEW i \in Slot,
             ReportExpiredFailure(i) \/ ApplyCredentialQuotaExhausted(i)
      PROVE  IInv'
  BY <1>8, HardFailureIInv
     DEF ReportExpiredFailure, ApplyCredentialQuotaExhausted
<1>9. ASSUME NEW i \in Slot,
             \/ RestoreCredential(i)
             \/ EnableCredential(i)
             \/ ClearCredentialCooldown(i)
      PROVE  IInv'
  BY <1>9, BecomeAvailableIInv
     DEF RestoreCredential, EnableCredential, ClearCredentialCooldown
<1>10. ASSUME NEW i \in Slot, DisableCredential(i)
       PROVE  IInv'
  BY <1>10, DisableIInv
<1>11. CASE UNCHANGED vars
  BY <1>11, StaleIInv DEF vars
<1> QED
  BY <1>1, <1>2, <1>3, <1>4, <1>5, <1>6, <1>7, <1>8, <1>9, <1>10, <1>11
     DEF Next

-----------------------------------------------------------------------------
(* The pool's types hold, and its indexes always describe its credentials:  *)
(* no sequence of selections, failure reports and management calls leaves a *)
(* slot in the wrong index.                                                 *)
THEOREM IndexConsistency == Spec => [](TypeOK /\ IndexesDescribeStates)
<1>1. Init => IInv
  BY InitIInv
<1>2. IInv /\ [Next]_vars => IInv'
  BY NextIInv
<1> QED
  BY <1>1, <1>2, PTL DEF Spec, IInv

(* Reports, selections, commands, the clock and additions keep every        *)
(* credential, index entry, position and reply of the pool well-formed.     *)
THEOREM PoolTypes == Spec => []TypeOK
<1>1. Init => IInv
  BY InitIInv
<1>2. IInv /\ [Next]_vars => IInv'
  BY NextIInv
<1> QED
  BY <1>1, <1>2, PTL DEF Spec, IInv

(* The checks the route planner makes without refreshing the indexes tell   *)
(* the truth about this instant.                                            *)
THEOREM ReadOnlyChecks == Spec => []ReadOnlyChecksExact
<1>1. IInv => ReadOnlyChecksExact
  <2> SUFFICES ASSUME IInv PROVE ReadOnlyChecksExact
    OBVIOUS
  <2>1. \A i \in Slot : IF i < size THEN Filed(index, state, now, i)
                        ELSE Unfiled(index, state, i)
    BY IInvFacts DEF Describes
  <2>2. \A i \in Held : i \in Slot /\ i < size /\ Filed(index, state, now, i)
    BY <2>1, IInvFacts DEF Held, Slot
  <2>3. \A i \in Slot : i \notin Held => Unfiled(index, state, i)
    BY <2>1, IInvFacts DEF Held, Slot
  <2>4. /\ index.available \subseteq Slot
        /\ \A d \in Time : index.deadlines[d] \subseteq Slot
        /\ \A i \in Slot : index.deadlineOf[i] \in Time \cup {NoTime}
        /\ Time \subseteq Nat /\ now \in Nat /\ NoTime \notin Time
    <3>1. index \in Index /\ now \in Nat
      BY IInvFacts
    <3>2. /\ index.available \subseteq Slot
          /\ \A d \in Time : index.deadlines[d] \subseteq Slot
          /\ \A i \in Slot : index.deadlineOf[i] \in Time \cup {NoTime}
      BY <3>1 DEF Index
    <3>3. Time \subseteq Nat /\ NoTime \notin Time
      BY DEF Time, NoTime
    <3> QED
      BY <3>1, <3>2, <3>3
  <2>11. \A i \in Slot : state[i].until \in Nat
    <3> TAKE i \in Slot
    <3>1. state[i] \in CredentialState
      BY IInvFacts
    <3> QED
      BY <3>1 DEF CredentialState, Time
  <2>5. \A i \in Slot : \A d \in Time :
          state[i] = CoolingDown(d) =>
            state[i].kind = "CoolingDown" /\ state[i].until = d
    BY DEF CoolingDown
  <2>6. ASSUME NEW d \in Time, NEW i \in index.deadlines[d]
        PROVE  i \in Held /\ state[i] = CoolingDown(d)
    BY <2>2, <2>3, <2>4 DEF Filed, Unfiled
  <2>7. ASSUME NEW i \in Held, IsCoolingDownAt(state[i], now)
        PROVE  \E d \in Time : index.deadlines[d] # {} /\ d > now
    <3>1. /\ index.deadlineOf[i] \in Time
          /\ i \in index.deadlines[index.deadlineOf[i]]
          /\ state[i] = CoolingDown(index.deadlineOf[i])
      BY <2>2, <2>4, <2>7 DEF Filed
    <3>2. index.deadlineOf[i] > now
      BY <2>2, <2>4, <2>11, <2>5, <2>7, <3>1 DEF IsCoolingDownAt
    <3> QED
      BY <3>1, <3>2
  <2>8. ASSUME NEW i \in Held, IsAvailableAt(state[i], now)
        PROVE  HasAvailableCredentialsReadOnly
    <3>1. CASE i \in index.available
      BY <3>1 DEF HasAvailableCredentialsReadOnly
    <3>2. CASE i \notin index.available
      <4>1. /\ index.deadlineOf[i] \in Time
            /\ i \in index.deadlines[index.deadlineOf[i]]
            /\ state[i] = CoolingDown(index.deadlineOf[i])
        BY <2>2, <2>4, <2>8, <3>2 DEF Filed, IsAvailableAt
      <4>2. index.deadlineOf[i] <= now
        BY <2>2, <2>4, <2>11, <2>5, <2>8, <4>1 DEF IsAvailableAt
      <4> QED
        BY <4>1, <4>2 DEF HasAvailableCredentialsReadOnly
    <3> QED
      BY <3>1, <3>2
  <2>9. ASSUME NEW i \in index.available
        PROVE  i \in Held /\ IsAvailableAt(state[i], now)
    <3>1. i \in Held
      BY <2>3, <2>4 DEF Unfiled
    <3> QED
      BY <2>2, <2>4, <2>11, <3>1 DEF Filed, IsAvailableAt, IsCoolingDownAt
  <2>10. ASSUME NEW d \in Time, index.deadlines[d] # {}
         PROVE  \E i \in Held : /\ d <= now => IsAvailableAt(state[i], now)
                                /\ d > now => IsCoolingDownAt(state[i], now)
    <3>1. PICK i \in index.deadlines[d] : TRUE
      BY <2>10
    <3>2. i \in Held /\ state[i] = CoolingDown(d)
      BY <2>6, <3>1
    <3>3. state[i].kind = "CoolingDown" /\ state[i].until = d
      BY <2>2, <2>5, <3>2
    <3> QED
      BY <2>4, <3>2, <3>3 DEF IsAvailableAt, IsCoolingDownAt
  <2> QED
    BY <2>7, <2>8, <2>9, <2>10
       DEF ReadOnlyChecksExact, HasAvailableCredentialsReadOnly,
           HasCoolingDownCredentialsReadOnly
<1>2. Spec => []IInv
  BY InitIInv, NextIInv, PTL DEF Spec
<1> QED
  BY <1>1, <1>2, PTL

-----------------------------------------------------------------------------
(* Every step but add_credentials leaves the identities alone.             *)
LEMMA IdentitiesKept ==
  ASSUME [Next]_vars, \A batch \in Batch : ~AddCredentials(batch)
  PROVE  UNCHANGED <<size, id>>
<1>1. CASE Tick \/ Select \/ SelectCoolingDownLastResort \/ UNCHANGED vars
  BY <1>1 DEF Tick, Select, SelectCoolingDownLastResort, vars
<1>2. CASE \E limit \in 0..Capacity : RetryCandidatesFromCurrent(limit)
  BY <1>2 DEF RetryCandidatesFromCurrent
<1>3. ASSUME NEW i \in Slot,
             \/ SelectCredentialById(i)
             \/ \E until \in Time : ReportSwitchableFailureUntil(i, until)
             \/ ReportExpiredFailure(i)
             \/ ApplyCredentialQuotaExhausted(i)
      PROVE  UNCHANGED <<size, id>>
  BY <1>3 DEF SelectCredentialById, ReportSwitchableFailureUntil, Stale,
     ReportExpiredFailure, ApplyCredentialQuotaExhausted, ReportHardFailure
<1>4. ASSUME NEW i \in Slot,
             \/ RestoreCredential(i)
             \/ EnableCredential(i)
             \/ ClearCredentialCooldown(i)
             \/ DisableCredential(i)
      PROVE  UNCHANGED <<size, id>>
  BY <1>4 DEF RestoreCredential, EnableCredential, ClearCredentialCooldown,
     DisableCredential, UnknownCredential, BecomeAvailable
<1> QED
  BY <1>1, <1>2, <1>3, <1>4 DEF Next

(* A batch that is added brings new identities, each once.                 *)
LEMMA AddedDistinct ==
  ASSUME IInv, IdentitiesDistinct, NEW batch \in Batch, AddCredentials(batch)
  PROVE  IdentitiesDistinct'
<1>1. CASE UNCHANGED <<size, id, state, index, current, now>>
  BY <1>1 DEF IdentitiesDistinct, Held
<1>2. CASE /\ IsInjective(batch) /\ ToSet(batch) \cap HeldIdentities = {}
           /\ size + Len(batch) <= Capacity
           /\ size' = size + Len(batch)
           /\ id' = [i \in Slot |-> IF i \in size..size' - 1
                                    THEN batch[i - size + 1] ELSE id[i]]
  <2>1. PICK n \in 1..MaxBatch : batch \in [1..n -> Credential]
    BY DEF Batch
  <2>2. Len(batch) = n /\ n \in Nat /\ DOMAIN batch = 1..n /\ size \in Nat
    BY <2>1, IInvFacts, PoolAssumption
  <2>3. size' \in Nat /\ size' = size + n /\ size' <= Capacity
    BY <1>2, <2>2
  <2>4. ASSUME NEW i \in 0..size' - 1
        PROVE  /\ i \in Slot
               /\ i < size => i \in Held /\ id'[i] = id[i]
               /\ i >= size => i - size + 1 \in 1..n
                                /\ id'[i] = batch[i - size + 1]
    <3>1. i \in Slot
      BY <2>3, PoolAssumption DEF Slot
    <3>2. id'[i] = IF i \in size..size' - 1 THEN batch[i - size + 1] ELSE id[i]
      BY <1>2, <3>1
    <3>3. i \in size..size' - 1 <=> i >= size
      BY <2>2, <2>3
    <3>4. i < size => i \in Held /\ ~(i >= size)
      BY <2>2, <2>3 DEF Held
    <3>5. i >= size => i - size + 1 \in 1..n
      BY <2>2, <2>3
    <3> QED
      BY <3>1, <3>2, <3>3, <3>4, <3>5
  <2>5. ASSUME NEW i \in Held, NEW k \in 1..n
        PROVE  id[i] # batch[k]
    <3>1. id[i] \in HeldIdentities
      BY DEF HeldIdentities
    <3>2. batch[k] \in ToSet(batch)
      BY <2>2 DEF ToSet
    <3> QED
      BY <1>2, <3>1, <3>2
  <2>6. ASSUME NEW k \in 1..n, NEW m \in 1..n, batch[k] = batch[m]
        PROVE  k = m
    BY <1>2, <2>2, <2>6 DEF IsInjective
  <2>7. ASSUME NEW i \in 0..size' - 1, NEW j \in 0..size' - 1,
               id'[i] = id'[j]
        PROVE  i = j
    <3>1. CASE i < size /\ j < size
      BY <2>4, <2>7, <3>1 DEF IdentitiesDistinct
    <3>2. CASE i < size /\ j >= size
      BY <2>4, <2>5, <2>7, <3>2
    <3>3. CASE i >= size /\ j < size
      BY <2>4, <2>5, <2>7, <3>3
    <3>4. CASE i >= size /\ j >= size
      <4>1. i - size + 1 = j - size + 1
        BY <2>4, <2>6, <2>7, <3>4
      <4> QED
        BY <2>2, <2>3, <4>1
    <3> QED
      BY <2>2, <2>3, <3>1, <3>2, <3>3, <3>4
  <2> QED
    BY <2>7 DEF IdentitiesDistinct, Held
<1> QED
  BY <1>1, <1>2 DEF AddCredentials

(* Two slots never hold the same credential: the pool starts without       *)
(* duplicates, and add_credentials refuses a batch that brings one.        *)
THEOREM DistinctIdentities == Spec => []IdentitiesDistinct
<1>1. Init => IdentitiesDistinct
  <2> SUFFICES ASSUME Init PROVE IdentitiesDistinct
    OBVIOUS
  <2>1. ASSUME NEW i \in Held
        PROVE  i + 1 \in 1..Len(InitialBatch) /\ id[i] = InitialBatch[i + 1]
               /\ i \in Nat
    BY PoolAssumption DEF Init, Held, Slot
  <2> QED
    BY <2>1, PoolAssumption DEF IdentitiesDistinct
<1>2. IInv /\ IdentitiesDistinct /\ [Next]_vars => IdentitiesDistinct'
  <2> SUFFICES ASSUME IInv, IdentitiesDistinct, [Next]_vars
               PROVE  IdentitiesDistinct'
    OBVIOUS
  <2>1. CASE \E batch \in Batch : AddCredentials(batch)
    BY <2>1, AddedDistinct
  <2>2. CASE ~\E batch \in Batch : AddCredentials(batch)
    BY <2>2, IdentitiesKept DEF IdentitiesDistinct, Held
  <2> QED
    BY <2>1, <2>2
<1>3. Spec => []IInv
  BY InitIInv, NextIInv, PTL DEF Spec
<1> QED
  BY <1>1, <1>2, <1>3, PTL DEF Spec

-----------------------------------------------------------------------------
(* While the slot served from stays usable, a selection returns it.        *)
THEOREM StickySelection == Spec => SelectionSticky
<1>1. ASSUME IInv, Select, IsAvailableAt(state[current], now)
      PROVE  reply' = Key(current)
  <2>1. /\ current \in Slot /\ current \in Nat
        /\ Filed(index, state, now, current)
    BY <1>1, IInvFacts DEF Describes, Held, Slot
  <2>2. current \in RefreshAvailableIndices(index, state, now).available
    <3>1. CASE current \in index.available
      BY <3>1 DEF RefreshAvailableIndices
    <3>2. CASE current \notin index.available
      <4>1. /\ index.deadlineOf[current] \in Time
            /\ current \in index.deadlines[index.deadlineOf[current]]
            /\ state[current] = CoolingDown(index.deadlineOf[current])
        BY <1>1, <2>1, <3>2, IInvFacts DEF Filed, IsAvailableAt, Index
      <4>2. index.deadlineOf[current] \in 0..now
        BY <1>1, <4>1, IInvFacts DEF IsAvailableAt, CoolingDown, Time
      <4> QED
        BY <1>1, <2>1, <4>1, <4>2 DEF RefreshAvailableIndices
    <3> QED
      BY <3>1, <3>2
  <2>3. index' = RefreshAvailableIndices(index, state, now)
    BY <1>1 DEF Select
  <2>4. index'.available \subseteq Nat
    BY <1>1, <2>3, RefreshIInv, IInvFacts
  <2>5. NextFrom(index'.available, current) = current
    <3> DEFINE ahead == {i \in index'.available : i >= current}
    <3>1. current \in ahead /\ ahead \subseteq Nat
      BY <2>1, <2>2, <2>3, <2>4
    <3>2. Min(ahead) \in ahead /\ \A i \in ahead : Min(ahead) <= i
      BY <3>1, MinIsLeast
    <3>3. Min(ahead) = current
      BY <2>1, <3>1, <3>2
    <3> QED
      BY <3>1, <3>3 DEF NextFrom
  <2> QED
    BY <1>1, <2>2, <2>3, <2>5 DEF Select
<1>2. IInv /\ [Next]_vars =>
        [Select /\ IsAvailableAt(state[current], now)
           => reply' = Key(current)]_vars
  BY <1>1
<1>3. Spec => []IInv
  BY InitIInv, NextIInv, PTL DEF Spec
<1> QED
  BY <1>2, <1>3, PTL DEF Spec, SelectionSticky

(* A last-resort selection comes back empty-handed only if nothing was     *)
(* usable when it began and every cooldown had ended when it looked.       *)
THEOREM LastResort == Spec => LastResortFindsCooling
<1>1. ASSUME IInv, SelectCoolingDownLastResort, reply'.outcome = "NoKey",
             NEW i \in Held
      PROVE  ~IsAvailableAt(state[i], now) /\ ~IsCoolingDownAt(state[i], now')
  <2> DEFINE new == RefreshAvailableIndices(index, state, now)
  <2>1. /\ new.available = {}
        /\ now' \in now..MaxTime
        /\ {j \in Held : new.deadlineOf[j] > now'} = {}
    <3>1. \A k : Key(k).outcome # "NoKey"
      BY DEF Key
    <3>2. index' = new
      BY <1>1 DEF SelectCoolingDownLastResort
    <3>3. CASE reply' = Key(current')
      BY <1>1, <3>1, <3>3
    <3>4. CASE reply' # Key(current')
      <4> HIDE DEF new
      <4> QED
        BY <1>1, <3>2, <3>4 DEF SelectCoolingDownLastResort
    <3> QED
      BY <3>3, <3>4
  <2>2. new \in Index /\ Describes(new, state, now, size)
    BY <1>1, RefreshIInv
  <2>3. \A d \in Time : d <= now => new.deadlines[d] = {}
    BY <1>1, IInvFacts DEF RefreshAvailableIndices
  <2> HIDE DEF new
  <2>4. /\ i \in Slot /\ i < size /\ state[i] \in CredentialState
        /\ now \in Nat /\ now' \in Nat /\ now <= now'
    BY <1>1, <2>1, IInvFacts DEF Held
  <2>5. Filed(new, state, now, i)
    BY <2>2, <2>4 DEF Describes
  <2>6. new.deadlineOf[i] \in Time \cup {NoTime}
    BY <2>2, <2>4 DEF Index
  <2>7. state[i].until \in Nat
    BY <2>4 DEF CredentialState, Time
  <2>8. new.deadlineOf[i] \in Time =>
          /\ state[i].until = new.deadlineOf[i]
          /\ state[i].kind = "CoolingDown"
          /\ new.deadlineOf[i] > now
    <3> SUFFICES ASSUME new.deadlineOf[i] \in Time
                 PROVE  /\ state[i].until = new.deadlineOf[i]
                        /\ state[i].kind = "CoolingDown"
                        /\ new.deadlineOf[i] > now
      OBVIOUS
    <3>1. new.deadlineOf[i] # NoTime /\ i \in new.deadlines[new.deadlineOf[i]]
      BY <2>5 DEF Filed, Time, NoTime
    <3>2. ~(new.deadlineOf[i] <= now)
      BY <2>3, <3>1
    <3>3. new.deadlineOf[i] > now
      BY <2>4, <3>2 DEF Time
    <3> QED
      BY <2>5, <3>1, <3>3 DEF Filed, CoolingDown
  <2>9. ~IsAvailableAt(state[i], now)
    BY <2>1, <2>4, <2>5, <2>6, <2>7, <2>8 DEF Filed, IsAvailableAt
  <2>10. ~IsCoolingDownAt(state[i], now')
    <3> SUFFICES ASSUME IsCoolingDownAt(state[i], now') PROVE FALSE
      OBVIOUS
    <3>1. IsCoolingDownAt(state[i], now)
      BY <2>4, <2>7 DEF IsCoolingDownAt
    <3>2. new.deadlineOf[i] \in Time
      BY <2>5, <2>6, <3>1 DEF Filed
    <3>3. new.deadlineOf[i] > now'
      BY <2>8, <3>2 DEF IsCoolingDownAt
    <3> QED
      BY <1>1, <2>1, <3>3
  <2> QED
    BY <2>9, <2>10
<1>2. IInv /\ [Next]_vars =>
        [SelectCoolingDownLastResort /\ reply'.outcome = "NoKey" =>
           \A i \in Held : /\ ~IsAvailableAt(state[i], now)
                           /\ ~IsCoolingDownAt(state[i], now')]_vars
  BY <1>1
<1>3. Spec => []IInv
  BY InitIInv, NextIInv, PTL DEF Spec
<1> QED
  BY <1>2, <1>3, PTL DEF Spec, LastResortFindsCooling

-----------------------------------------------------------------------------
(* Phases.                                                                  *)

(* What a held credential in state s shows at time t.                       *)
PhaseOf(s, t) == IF IsAvailableAt(s, t) THEN "Available" ELSE s.kind

(* Before a step and after it, the promise sees of a slot what its state    *)
(* and the clock say.                                                       *)
LEMMA Seen ==
  ASSUME NEW i \in Slot
  PROVE  /\ PhaseAt(i) = IF i \in Held THEN PhaseOf(state[i], now) ELSE "Absent"
         /\ PhaseAt(i)' = IF i \in Held' THEN PhaseOf(state'[i], now')
                          ELSE "Absent"
BY DEF PhaseAt, PhaseOf

(* A phase tells usable, cooling and excluded credentials apart.            *)
LEMMA PhaseFacts ==
  ASSUME NEW s \in CredentialState, NEW t \in Time
  PROVE  /\ PhaseOf(s, t) \in Kind
         /\ PhaseOf(s, t) = "Available" <=> IsAvailableAt(s, t)
         /\ PhaseOf(s, t) = "CoolingDown" <=> IsCoolingDownAt(s, t)
         /\ PhaseOf(s, t) = "Disabled" <=> s.kind = "Disabled"
BY DEF PhaseOf, IsAvailableAt, IsCoolingDownAt, CredentialState, Kind, Time

(* Time can end a cooldown, and nothing else.                               *)
LEMMA PhaseLater ==
  ASSUME NEW s \in CredentialState, NEW t \in Time, NEW u \in Time, t <= u
  PROVE  \/ PhaseOf(s, u) = PhaseOf(s, t)
         \/ PhaseOf(s, t) = "CoolingDown" /\ PhaseOf(s, u) = "Available"
BY DEF PhaseOf, IsAvailableAt, CredentialState, Time

(* The phases of the states the operations put credentials in.              *)
LEMMA PhasesSet ==
  ASSUME NEW t \in Time
  PROVE  /\ PhaseOf(Available, t) = "Available"
         /\ PhaseOf(Expired, t) = "Expired"
         /\ PhaseOf(QuotaExhausted, t) = "QuotaExhausted"
         /\ PhaseOf(Disabled, t) = "Disabled"
         /\ \A d \in Time : PhaseOf(CoolingDown(d), t) \in {"CoolingDown", "Available"}
BY DEF PhaseOf, IsAvailableAt, Available, Expired, QuotaExhausted, Disabled,
       CoolingDown

(* The set the promise calls usable is that of the usable credentials.      *)
LEMMA UsableSlots ==
  ASSUME IInv
  PROVE  /\ Promise!Usable = {i \in Held : IsAvailableAt(state[i], now)}
         /\ \A i \in Slot : i \in Promise!Present <=> i \in Held
<1>1. /\ state \in [Slot -> CredentialState] /\ now \in Time
      /\ Held \subseteq Slot
  BY IInvFacts
<1>2. \A i \in Slot : PhaseAt(i) = "Available" <=>
                        i \in Held /\ IsAvailableAt(state[i], now)
  BY <1>1, Seen, PhaseFacts
<1>3. \A i \in Slot : PhaseAt(i) # "Absent" <=> i \in Held
  BY <1>1, Seen, PhaseFacts DEF Kind
<1> QED
  BY <1>1, <1>2, <1>3 DEF Promise!Usable, Promise!Present

(* What a refresh finds available is what is usable.                        *)
LEMMA RefreshFindsUsable ==
  ASSUME IInv, NEW ix \in Index, NEW st \in [Slot -> CredentialState],
         Describes(ix, st, now, size)
  PROVE  RefreshAvailableIndices(ix, st, now).available =
           {i \in Held : IsAvailableAt(st[i], now)}
<1> DEFINE new == RefreshAvailableIndices(ix, st, now)
<1>1. /\ new \in Index
      /\ \A i \in Slot : i \in new.available <=> i < size /\ IsAvailableAt(st[i], now)
  BY IInvFacts, RefreshDescribes
<1>2. new.available \subseteq Slot
  BY <1>1 DEF Index
<1>3. \A i \in Slot : i \in Held <=> i < size
  BY IInvFacts DEF Held, Slot
<1> HIDE DEF new
<1>4. Held \subseteq Slot
  BY IInvFacts
<1>5. new.available = {i \in Held : IsAvailableAt(st[i], now)}
  BY <1>1, <1>2, <1>3, <1>4
<1> QED
  BY <1>5 DEF new

(* The scan that starts behind a slot ends on it only for lack of another.  *)
LEMMA ScanReturns ==
  ASSUME IInv, NEW S, S \subseteq Held, S # {}, NextFrom(S, After(current)) = current
  PROVE  S = {current}
<1>1. /\ current \in Nat /\ current < size /\ size \in Nat /\ S \subseteq Nat
      /\ \A i \in S : i < size
  BY IInvFacts DEF Held
<1> DEFINE ahead == {i \in S : i >= After(current)}
<1>2. current \in S
  BY <1>1, NextFromHeld, AfterIsNat
<1>3. CASE current + 1 < size
  <2>1. After(current) = current + 1
    BY <1>1, <1>3 DEF After
  <2>2. ahead = {}
    <3>1. SUFFICES ASSUME ahead # {} PROVE FALSE
      OBVIOUS
    <3>2. ahead \subseteq Nat
      BY <1>1
    <3>3. NextFrom(S, After(current)) = Min(ahead)
      BY <3>1 DEF NextFrom
    <3>4. Min(ahead) \in ahead
      BY <3>1, <3>2, MinIsLeast
    <3> QED
      BY <1>1, <2>1, <3>3, <3>4
  <2>3. NextFrom(S, After(current)) = Min(S)
    BY <2>2 DEF NextFrom
  <2>4. \A i \in S : current <= i /\ ~(i >= current + 1)
    BY <1>1, <2>1, <2>2, <2>3, MinIsLeast
  <2>5. \A i \in S : i = current
    BY <1>1, <2>4
  <2> QED
    BY <1>2, <2>5
<1>4. CASE ~(current + 1 < size)
  <2>1. current + 1 = size
    BY <1>1, <1>4
  <2>2. After(current) = 0
    BY <1>1, <2>1 DEF After
  <2>3. ahead = S
    <3>1. \A i \in S : i >= 0
      BY <1>1
    <3> QED
      BY <2>2, <3>1
  <2>4. NextFrom(S, After(current)) = Min(S)
    BY <2>3 DEF NextFrom
  <2>5. \A i \in S : current <= i
    BY <1>1, <2>4, MinIsLeast
  <2>6. \A i \in S : i = current
    BY <1>1, <2>1, <2>5
  <2> QED
    BY <1>2, <2>6
<1> QED
  BY <1>3, <1>4

-----------------------------------------------------------------------------
(* The steps of the promise, slot by slot.                                  *)

(* Some cooldowns end, or nothing happens.                                  *)
LEMMA ThawStep ==
  ASSUME \A i \in Slot : \/ PhaseAt(i)' = PhaseAt(i)
                         \/ PhaseAt(i) = "CoolingDown" /\ PhaseAt(i)' = "Available",
         UNCHANGED current
  PROVE  Promise!Next
<1> DEFINE woken == {i \in Slot : PhaseAt(i)' # PhaseAt(i)}
           phases == [i \in Slot |-> PhaseAt(i)]
<1>1. woken \in SUBSET {i \in Slot : phases[i] = "CoolingDown"}
  OBVIOUS
<1>2. phases' = [i \in Slot |-> IF i \in woken THEN "Available" ELSE phases[i]]
  OBVIOUS
<1>3. Promise!Thaw
  BY <1>1, <1>2 DEF Promise!Thaw
<1> QED
  BY <1>3 DEF Promise!Next

(* No phase changes and the pool serves from a usable slot.                 *)
LEMMA ServeStep ==
  ASSUME \A i \in Slot : PhaseAt(i)' = PhaseAt(i), current' \in Promise!Usable
  PROVE  Promise!Next
<1>1. [i \in Slot |-> PhaseAt(i)]' = [i \in Slot |-> PhaseAt(i)]
  OBVIOUS
<1>2. Promise!Serve
  BY <1>1 DEF Promise!Serve
<1> QED
  BY <1>2 DEF Promise!Next

(* One slot changes its phase.                                              *)
OnePhase(i, p) ==
  /\ PhaseAt(i)' = p
  /\ \A j \in Slot \ {i} : PhaseAt(j)' = PhaseAt(j)

(* To the promise, the phases with one of them replaced.                    *)
LEMMA OnePhaseStep ==
  ASSUME NEW i \in Slot, NEW p, OnePhase(i, p)
  PROVE  [j \in Slot |-> PhaseAt(j)]' =
           [[j \in Slot |-> PhaseAt(j)] EXCEPT ![i] = p]
BY DEF OnePhase

(* The slot of a state that changes, with size and clock as they were.      *)
LEMMA StateSet ==
  ASSUME IInv, NEW i \in Held, NEW s \in CredentialState,
         state' = [state EXCEPT ![i] = s], UNCHANGED <<size, now>>
  PROVE  OnePhase(i, PhaseOf(s, now))
<1>1. /\ state \in [Slot -> CredentialState] /\ i \in Slot /\ Held' = Held
      /\ now' = now
  BY IInvFacts DEF Held
<1>2. state'[i] = s /\ \A j \in Slot \ {i} : state'[j] = state[j]
  BY <1>1
<1> QED
  BY <1>1, <1>2, Seen DEF OnePhase

(* After a step, too, a held slot whose state is usable shows so.           *)
LEMMA ShowsAfter ==
  ASSUME IInv, state' \in [Slot -> CredentialState], UNCHANGED <<size, now>>,
         NEW j \in Slot
  PROVE  [i \in Slot |-> PhaseAt(i)]'[j] = "Available" <=>
           j \in Held /\ IsAvailableAt(state'[j], now)
<1>1. Held' = Held /\ now' = now /\ state'[j] \in CredentialState /\ now \in Time
  BY IInvFacts DEF Held
<1>2. PhaseAt(j)' = IF j \in Held THEN PhaseOf(state'[j], now) ELSE "Absent"
  BY <1>1, Seen
<1>3. PhaseAt(j)' = "Available" <=> j \in Held /\ IsAvailableAt(state'[j], now)
  BY <1>1, <1>2, PhaseFacts
<1> QED
  BY <1>3

(* A pool moves off the slot it served from to a usable one, or stays for   *)
(* lack of another.                                                         *)
LEMMA MovesOff ==
  ASSUME IInv, NEW available, state' \in [Slot -> CredentialState],
         UNCHANGED <<size, now>>,
         available = {j \in Held : IsAvailableAt(state'[j], now)},
         \/ /\ available # {} /\ current' # current
            /\ current' = NextFrom(available, After(current))
         \/ /\ UNCHANGED current
            /\ available # {} => NextFrom(available, After(current)) = current
  PROVE  Promise!MoveOff(current)
<1>1. Held \subseteq Slot /\ available \subseteq Held /\ current \in Held
  BY IInvFacts
<1>2. CASE /\ available # {} /\ current' # current
           /\ current' = NextFrom(available, After(current))
  <2>1. current' \in available
    BY <1>1, <1>2, NextFromHeld, AfterIsNat
  <2>2. \A j \in available : j \in Slot /\ [i \in Slot |-> PhaseAt(i)]'[j] = "Available"
    BY <1>1, ShowsAfter
  <2> QED
    BY <1>2, <2>1, <2>2 DEF Promise!MoveOff
<1>3. CASE /\ UNCHANGED current
           /\ available # {} => NextFrom(available, After(current)) = current
  <2>1. available \subseteq {current}
    BY <1>1, <1>3, ScanReturns
  <2>2. \A j \in Slot \ {current} : [i \in Slot |-> PhaseAt(i)]'[j] # "Available"
    BY <2>1, ShowsAfter
  <2> QED
    BY <1>3, <2>2 DEF Promise!MoveOff
<1> QED
  BY <1>2, <1>3

(* The common tail of the failure reports moves off its slot.               *)
LEMMA SwitchMovesOff ==
  ASSUME IInv, NEW marked \in Index, state' \in [Slot -> CredentialState],
         Describes(marked, state', now, size), UNCHANGED <<size, now>>,
         SwitchFrom(current, marked)
  PROVE  Promise!MoveOff(current)
<1> DEFINE available == index'.available
           next == NextFrom(available, After(current))
           found == available # {} /\ next # current
<1>1. /\ index' = RefreshAvailableIndices(marked, state', now)
      /\ current' = IF found THEN next ELSE current
  BY DEF SwitchFrom
<1>2. available = {j \in Held : IsAvailableAt(state'[j], now)}
  BY <1>1, RefreshFindsUsable
<1>3. \/ /\ available # {} /\ current' # current
         /\ current' = next
      \/ /\ UNCHANGED current
         /\ available # {} => next = current
  BY <1>1
<1> HIDE DEF available
<1> QED
  BY <1>2, <1>3, MovesOff

-----------------------------------------------------------------------------
(* Each operation keeps the promise.                                        *)

(* What an operation that leaves states, size, clock and current alone      *)
(* shows: nothing.                                                          *)
LEMMA QuietKeeps ==
  ASSUME UNCHANGED <<size, state, current, now>>
  PROVE  UNCHANGED Promise!vars
<1>1. \A i \in Slot : PhaseAt(i)' = PhaseAt(i)
  BY Seen DEF Held
<1> QED
  BY <1>1 DEF Promise!vars

(* Time ends cooldowns.                                                     *)
LEMMA LaterPhases ==
  ASSUME IInv, UNCHANGED <<size, state>>, now' \in Time, now <= now',
         NEW i \in Slot
  PROVE  \/ PhaseAt(i)' = PhaseAt(i)
         \/ PhaseAt(i) = "CoolingDown" /\ PhaseAt(i)' = "Available"
<1>1. /\ state[i] \in CredentialState /\ now \in Time /\ Held' = Held
      /\ state' = state
  BY IInvFacts DEF Held
<1>2. \/ PhaseOf(state[i], now') = PhaseOf(state[i], now)
      \/ /\ PhaseOf(state[i], now) = "CoolingDown"
         /\ PhaseOf(state[i], now') = "Available"
  BY <1>1, PhaseLater
<1> QED
  BY <1>1, <1>2, Seen

(* A tick ends any number of them.                                          *)
LEMMA TickKeeps == IInv /\ Tick => Promise!Next
<1> SUFFICES ASSUME IInv, Tick
             PROVE  Promise!Next
  OBVIOUS
<1>1. now' \in Time /\ now <= now'
  BY IInvFacts, PoolAssumption DEF Tick, Time
<1> QED
  BY <1>1, LaterPhases, ThawStep DEF Tick

(* A selection serves from a usable slot, or finds none.                    *)
LEMMA SelectKeeps ==
  ASSUME IInv, Select \/ \E i \in Slot : SelectCredentialById(i)
  PROVE  Promise!Next \/ UNCHANGED Promise!vars
<1>1. /\ UNCHANGED <<size, state, now>>
      /\ index' = RefreshAvailableIndices(index, state, now)
      /\ \/ UNCHANGED current
         \/ index'.available # {} /\ current' = NextFrom(index'.available, current)
         \/ current' \in index'.available
  BY DEF Select, SelectCredentialById
<1>2. index'.available = Promise!Usable
  BY <1>1, IInvFacts, RefreshFindsUsable, UsableSlots
<1>3. index'.available \subseteq Held /\ current \in Nat
  BY <1>1, RefreshIInv, IInvFacts
<1>4. CASE UNCHANGED current
  BY <1>1, <1>4, QuietKeeps
<1>5. CASE current' \in index'.available
  <2>1. \A i \in Slot : PhaseAt(i)' = PhaseAt(i)
    BY <1>1, Seen DEF Held
  <2> QED
    BY <1>2, <1>5, <2>1, ServeStep
<1>6. CASE index'.available # {} /\ current' = NextFrom(index'.available, current)
  BY <1>3, <1>5, <1>6, NextFromHeld
<1> QED
  BY <1>1, <1>4, <1>5, <1>6

(* A last resort serves from a usable slot, or from one that cools down     *)
(* when none is usable.                                                     *)
LEMMA LastResortKeeps == IInv /\ SelectCoolingDownLastResort => Promise!Next
<1> SUFFICES ASSUME IInv, SelectCoolingDownLastResort
             PROVE  Promise!Next
  OBVIOUS
<1>1. /\ UNCHANGED <<size, state>>
      /\ index' = RefreshAvailableIndices(index, state, now)
  BY DEF SelectCoolingDownLastResort
<1>2. /\ index' \in Index /\ Describes(index', state, now, size)
      /\ index'.available = Promise!Usable /\ index'.available \subseteq Held
  BY <1>1, IInvFacts, RefreshIInv, RefreshFindsUsable, UsableSlots
<1>3. CASE index'.available # {}
  <2>1. UNCHANGED now /\ current' = NextFrom(index'.available, current)
    BY <1>3 DEF SelectCoolingDownLastResort
  <2>2. current' \in Promise!Usable
    BY <1>2, <1>3, <2>1, IInvFacts, NextFromHeld
  <2>3. \A i \in Slot : PhaseAt(i)' = PhaseAt(i)
    BY <1>1, <2>1, Seen DEF Held
  <2> QED
    BY <2>2, <2>3, ServeStep
<1>4. CASE index'.available = {}
  <2>1. PICK later \in now..MaxTime :
          LET cooling == {i \in Held : index'.deadlineOf[i] > later}
          IN /\ now' = later
             /\ \/ UNCHANGED current
                \/ cooling # {} /\ current' = NextFrom(cooling, current)
    BY <1>4 DEF SelectCoolingDownLastResort
  <2> DEFINE cooling == {i \in Held : index'.deadlineOf[i] > later}
             phases == [i \in Slot |-> PhaseAt(i)]
             woken == {i \in Slot : PhaseAt(i)' # PhaseAt(i)}
  <2>2. now' \in Time /\ now <= now' /\ later \in Time /\ now' = later
    BY <2>1, IInvFacts DEF Time
  <2>3. \A i \in Slot : \/ PhaseAt(i)' = PhaseAt(i)
                        \/ PhaseAt(i) = "CoolingDown" /\ PhaseAt(i)' = "Available"
    BY <1>1, <2>2, LaterPhases
  <2>4. /\ woken \in SUBSET {i \in Slot : phases[i] = "CoolingDown"}
        /\ phases' = [i \in Slot |-> IF i \in woken THEN "Available" ELSE phases[i]]
    BY <2>3
  <2>5. ASSUME NEW i \in cooling
        PROVE  i \in Slot /\ phases'[i] = "CoolingDown"
    <3>1. i \in Slot /\ i \in Held /\ i < size /\ index'.deadlineOf[i] > later
      BY IInvFacts DEF Held
    <3>2. Filed(index', state, now, i) /\ index'.deadlineOf[i] \in Time \cup {NoTime}
      BY <1>2, <3>1 DEF Describes, Index
    <3>3. index'.deadlineOf[i] \in Time /\ index'.deadlineOf[i] # NoTime
      BY <2>2, <3>1, <3>2 DEF Time, NoTime
    <3>4. state[i] = CoolingDown(index'.deadlineOf[i])
      BY <3>2, <3>3 DEF Filed
    <3>5. state[i].kind = "CoolingDown" /\ state[i].until = index'.deadlineOf[i]
      BY <3>4 DEF CoolingDown
    <3>6. IsCoolingDownAt(state[i], later)
      BY <2>2, <3>1, <3>3, <3>5 DEF IsCoolingDownAt, Time
    <3>7. state[i] \in CredentialState
      BY <3>1, IInvFacts
    <3>8. PhaseOf(state[i], later) = "CoolingDown"
      BY <2>2, <3>6, <3>7, PhaseFacts
    <3>9. PhaseAt(i)' = PhaseOf(state[i], later)
      BY <1>1, <2>2, <3>1, Seen DEF Held
    <3> QED
      BY <3>1, <3>8, <3>9
  <2>6. \/ phases'[current'] = "CoolingDown" /\ current' \in Slot
        \/ UNCHANGED current
    <3>1. cooling \subseteq Held
      OBVIOUS
    <3>2. \/ UNCHANGED current
          \/ cooling # {} /\ current' = NextFrom(cooling, current)
      BY <2>1
    <3> HIDE DEF cooling, phases
    <3>3. UNCHANGED current \/ current' \in cooling
      BY <3>1, <3>2, IInvFacts, NextFromHeld
    <3> QED
      BY <2>5, <3>3
  <2>7. Promise!ServeLastResort
    BY <1>2, <1>4, <2>4, <2>6 DEF Promise!ServeLastResort
  <2> QED
    BY <2>7 DEF Promise!Next
<1> QED
  BY <1>3, <1>4

(* A cooldown report cools its slot down and moves the pool off it.         *)
LEMMA SwitchableFailureKeeps ==
  ASSUME IInv, NEW i \in Slot, NEW until \in Time,
         ReportSwitchableFailureUntil(i, until)
  PROVE  Promise!Next \/ UNCHANGED Promise!vars
<1>1. CASE Stale
  BY <1>1, QuietKeeps DEF Stale
<1>2. CASE ~Stale
  <2> DEFINE marked == MarkIndexCoolingDown(index, i, until)
  <2>1. /\ i \in Held /\ i = current /\ state[i].kind # "Disabled"
        /\ state' = [state EXCEPT ![i] = CoolingDown(until)]
        /\ SwitchFrom(i, marked)
        /\ UNCHANGED <<size, id, now>>
    BY <1>2 DEF ReportSwitchableFailureUntil
  <2>2. /\ i < size /\ CoolingDown(until) \in CredentialState
        /\ state' \in [Slot -> CredentialState] /\ now \in Time
        /\ state[i] \in CredentialState
    BY <2>1, StatesTyped, IInvFacts DEF Held
  <2>3. Describes(marked, state', now, size) /\ marked \in Index
    BY <2>1, <2>2, IInvFacts, MarkCoolingDownDescribes, MarkShape
  <2> HIDE DEF marked
  <2>4. Promise!MoveOff(i)
    BY <2>1, <2>2, <2>3, SwitchMovesOff
  <2>5. OnePhase(i, PhaseOf(CoolingDown(until), now))
    BY <2>1, <2>2, StateSet
  <2>6. PhaseOf(CoolingDown(until), now) \in {"CoolingDown", "Available"}
    BY <2>2, PhasesSet
  <2>7. PhaseAt(i) # "Disabled"
    BY <2>1, <2>2, Seen, PhaseFacts
  <2>8. Promise!CoolDown(i)
    BY <2>1, <2>4, <2>5, <2>6, <2>7, OnePhaseStep DEF Promise!CoolDown
  <2> QED
    BY <2>8 DEF Promise!Next
<1> QED
  BY <1>1, <1>2

(* An expiry or quota report excludes its slot, and moves the pool off it.  *)
LEMMA HardFailureKeeps ==
  ASSUME IInv, NEW i \in Slot, NEW s \in {Expired, QuotaExhausted},
         ReportHardFailure(i, s)
  PROVE  Promise!Next \/ UNCHANGED Promise!vars
<1>1. CASE Stale
  BY <1>1, QuietKeeps DEF Stale
<1>2. CASE ~Stale
  <2> DEFINE marked == MarkIndexUnavailable(index, i)
  <2>1. /\ i \in Held /\ state[i].kind # "Disabled"
        /\ state' = [state EXCEPT ![i] = s]
        /\ \/ i # current /\ UNCHANGED current
           \/ i = current /\ SwitchFrom(i, marked)
        /\ UNCHANGED <<size, id, now>>
    BY <1>2 DEF ReportHardFailure
  <2>2. /\ i < size /\ s \in CredentialState
        /\ state' \in [Slot -> CredentialState] /\ now \in Time
        /\ state[i] \in CredentialState
    BY <2>1, StatesTyped, IInvFacts DEF Held
  <2>3. Describes(marked, state', now, size) /\ marked \in Index
    BY <2>1, <2>2, IInvFacts, MarkUnavailableDescribes, MarkUnavailableEntry
       DEF Excluded
  <2> HIDE DEF marked
  <2>4. IF i = current THEN Promise!MoveOff(i) ELSE UNCHANGED current
    BY <2>1, <2>2, <2>3, SwitchMovesOff
  <2>5. OnePhase(i, PhaseOf(s, now))
    BY <2>1, <2>2, StateSet
  <2>6. PhaseOf(s, now) \in {"Expired", "QuotaExhausted"}
    BY <2>2, PhasesSet
  <2>7. PhaseAt(i) \notin {"Absent", "Disabled"}
    BY <2>1, <2>2, Seen, PhaseFacts DEF Kind
  <2>8. Promise!Exclude(i)
    BY <2>4, <2>5, <2>6, <2>7, OnePhaseStep DEF Promise!Exclude
  <2> QED
    BY <2>8 DEF Promise!Next
<1> QED
  BY <1>1, <1>2

(* Restore, enable and clear-cooldown readmit their slot, or do nothing.    *)
LEMMA BecomeAvailableKeeps ==
  ASSUME IInv, NEW i \in Slot, NEW applies,
         UnknownCredential(i) \/ BecomeAvailable(i, applies)
  PROVE  Promise!Next \/ UNCHANGED Promise!vars
<1>1. CASE UNCHANGED <<size, state, current, now>>
  BY <1>1, QuietKeeps
<1>2. CASE /\ i \in Held
           /\ state' = [state EXCEPT ![i] = Available]
           /\ UNCHANGED <<size, current, now>>
  <2>1. /\ Available \in CredentialState /\ now \in Time
        /\ state[i] \in CredentialState
    BY StatesTyped, IInvFacts
  <2>2. OnePhase(i, "Available")
    BY <1>2, <2>1, StateSet, PhasesSet
  <2>3. PhaseAt(i) # "Absent"
    BY <1>2, <2>1, Seen, PhaseFacts DEF Kind
  <2>4. Promise!Readmit(i)
    BY <1>2, <2>2, <2>3, OnePhaseStep DEF Promise!Readmit
  <2> QED
    BY <2>4 DEF Promise!Next
<1> QED
  BY <1>1, <1>2 DEF UnknownCredential, BecomeAvailable

(* Disabling takes a slot out, and moves the pool off it.                   *)
LEMMA DisableKeeps ==
  ASSUME IInv, NEW i \in Slot, DisableCredential(i)
  PROVE  Promise!Next \/ UNCHANGED Promise!vars
<1>1. CASE UnknownCredential(i)
  BY <1>1, QuietKeeps DEF UnknownCredential
<1>2. CASE ~UnknownCredential(i)
  <2> DEFINE marked == MarkIndexUnavailable(index, i)
             fresh == RefreshAvailableIndices(marked, state', now)
             available == fresh.available
             next == NextFrom(available, After(current))
  <2>1. /\ i \in Held /\ state' = [state EXCEPT ![i] = Disabled]
        /\ current' = IF i = current /\ available # {} THEN next ELSE current
        /\ UNCHANGED <<size, id, now>>
    BY <1>2 DEF DisableCredential
  <2>2. /\ i < size /\ Disabled \in CredentialState
        /\ state' \in [Slot -> CredentialState] /\ now \in Time
        /\ state[i] \in CredentialState /\ state'[i] = Disabled
    BY <2>1, StatesTyped, IInvFacts DEF Held
  <2>3. Describes(marked, state', now, size) /\ marked \in Index
    BY <2>1, <2>2, IInvFacts, MarkUnavailableDescribes, MarkUnavailableEntry
       DEF Excluded
  <2> HIDE DEF marked
  <2>4. available = {j \in Held : IsAvailableAt(state'[j], now)}
    BY <2>2, <2>3, RefreshFindsUsable
  <2>5. i \notin available
    BY <2>2, <2>4 DEF IsAvailableAt, Disabled
  <2> HIDE DEF available
  <2>6. IF i = current THEN Promise!MoveOff(i) ELSE UNCHANGED current
    <3>1. CASE i = current
      <4>1. available # {} => next \in available
        BY <2>4, NextFromHeld, AfterIsNat
      <4>2. \/ available # {} /\ current' # current /\ current' = next
            \/ UNCHANGED current /\ (available # {} => next = current)
        BY <2>1, <2>5, <3>1, <4>1
      <4>3. Promise!MoveOff(current)
        BY <2>1, <2>2, <2>4, <4>2, MovesOff
      <4> QED
        BY <3>1, <4>3
    <3>2. CASE i # current
      BY <2>1, <3>2
    <3> QED
      BY <3>1, <3>2
  <2>7. OnePhase(i, "Disabled")
    BY <2>1, <2>2, StateSet, PhasesSet
  <2>8. PhaseAt(i) # "Absent"
    BY <2>1, <2>2, Seen, PhaseFacts DEF Kind
  <2>9. Promise!Disable(i)
    BY <2>6, <2>7, <2>8, OnePhaseStep DEF Promise!Disable
  <2> QED
    BY <2>9 DEF Promise!Next
<1> QED
  BY <1>1, <1>2

(* A batch shows as absent slots that become available.                     *)
LEMMA AddKeeps ==
  ASSUME IInv, NEW batch \in Batch, AddCredentials(batch)
  PROVE  Promise!Next \/ UNCHANGED Promise!vars
<1>1. CASE UNCHANGED <<size, state, current, now>>
  BY <1>1, QuietKeeps
<1>2. CASE size' = size + Len(batch) /\ UNCHANGED <<state, current, now>>
  <2> DEFINE new == {i \in Slot : i \in Held' /\ i \notin Held}
             phases == [i \in Slot |-> PhaseAt(i)]
  <2>1. size \in Nat /\ size' \in Nat /\ size <= size'
    <3>1. PICK n \in 1..MaxBatch : batch \in [1..n -> Credential]
      BY DEF Batch
    <3>2. Len(batch) = n /\ n \in Nat
      BY <3>1, PoolAssumption
    <3> QED
      BY <1>2, <3>2, IInvFacts
  <2>2. ASSUME NEW i \in Slot, i \in Held
        PROVE  i \in Held'
    <3>1. i \in Nat /\ i < size
      BY <2>2, IInvFacts DEF Held
    <3>2. /\ 0 <= i /\ i < size'
          /\ i \in Int /\ size' \in Int /\ 0 \in Int
      BY <2>1, <3>1, IInvFacts
    <3>3. i \in 0..size' - 1
      BY <3>2, BelowBound, Zenon
    <3> QED
      BY <3>3, Zenon DEF Held
  <2>3. ASSUME NEW i \in new
        PROVE  PhaseAt(i) = "Absent" /\ PhaseAt(i)' = "Available"
    <3>1. i \in Slot /\ ~(i < size)
      BY <2>1, IInvFacts DEF Held
    <3>2. state[i] = Available
      BY <3>1, IInvFacts DEF Describes, Unfiled
    <3>3. state'[i] = Available /\ now' = now /\ now \in Time
      BY <1>2, <3>2, IInvFacts
    <3> QED
      BY <3>1, <3>3, Seen, PhasesSet
  <2>4. ASSUME NEW i \in Slot, i \notin new
        PROVE  PhaseAt(i)' = PhaseAt(i)
    BY <1>2, <2>2, <2>4, Seen
  <2>5. new \in SUBSET {i \in Slot : phases[i] = "Absent"}
    BY <2>3
  <2>6. phases' = [i \in Slot |-> IF i \in new THEN "Available" ELSE phases[i]]
    BY <2>3, <2>4
  <2>7. Promise!Add
    BY <1>2, <2>5, <2>6 DEF Promise!Add
  <2> QED
    BY <2>7 DEF Promise!Next
<1> QED
  BY <1>1, <1>2 DEF AddCredentials

(* A new pool is a new promise.                                             *)
LEMMA InitKeeps == Init => Promise!Init
<1> SUFFICES ASSUME Init
             PROVE  Promise!Init
  OBVIOUS
<1>1. IInv
  BY InitIInv
<1>2. \A i \in Slot : state[i] = Available
  BY DEF Init
<1>3. \A i \in Slot : PhaseAt(i) = IF i \in Held THEN "Available" ELSE "Absent"
  BY <1>1, <1>2, Seen, PhasesSet, IInvFacts
<1>4. current \in Promise!Usable
  <2>1. current \in Slot /\ current \in Held
    BY <1>1, IInvFacts
  <2> QED
    BY <1>3, <2>1 DEF Promise!Usable
<1> QED
  BY <1>3, <1>4 DEF Promise!Init

(* Every step is one of the promise, or shows nothing.                      *)
LEMMA NextKeeps == IInv /\ [Next]_vars => [Promise!Next]_(Promise!vars)
<1> SUFFICES ASSUME IInv, [Next]_vars
             PROVE  Promise!Next \/ UNCHANGED Promise!vars
  OBVIOUS
<1>1. CASE Tick
  BY <1>1, TickKeeps
<1>2. CASE Select
  BY <1>2, SelectKeeps
<1>3. CASE SelectCoolingDownLastResort
  BY <1>3, LastResortKeeps
<1>4. ASSUME NEW limit \in 0..Capacity, RetryCandidatesFromCurrent(limit)
      PROVE  UNCHANGED Promise!vars
  BY <1>4, QuietKeeps DEF RetryCandidatesFromCurrent
<1>5. ASSUME NEW batch \in Batch, AddCredentials(batch)
      PROVE  Promise!Next \/ UNCHANGED Promise!vars
  BY <1>5, AddKeeps
<1>6. ASSUME NEW i \in Slot, SelectCredentialById(i)
      PROVE  Promise!Next \/ UNCHANGED Promise!vars
  BY <1>6, SelectKeeps
<1>7. ASSUME NEW i \in Slot, NEW until \in Time,
             ReportSwitchableFailureUntil(i, until)
      PROVE  Promise!Next \/ UNCHANGED Promise!vars
  BY <1>7, SwitchableFailureKeeps
<1>8. ASSUME NEW i \in Slot,
             ReportExpiredFailure(i) \/ ApplyCredentialQuotaExhausted(i)
      PROVE  Promise!Next \/ UNCHANGED Promise!vars
  BY <1>8, HardFailureKeeps
     DEF ReportExpiredFailure, ApplyCredentialQuotaExhausted
<1>9. ASSUME NEW i \in Slot,
             \/ RestoreCredential(i)
             \/ EnableCredential(i)
             \/ ClearCredentialCooldown(i)
      PROVE  Promise!Next \/ UNCHANGED Promise!vars
  BY <1>9, BecomeAvailableKeeps
     DEF RestoreCredential, EnableCredential, ClearCredentialCooldown
<1>10. ASSUME NEW i \in Slot, DisableCredential(i)
       PROVE  Promise!Next \/ UNCHANGED Promise!vars
  BY <1>10, DisableKeeps
<1>11. CASE UNCHANGED vars
  BY <1>11, QuietKeeps DEF vars
<1> QED
  BY <1>1, <1>2, <1>3, <1>4, <1>5, <1>6, <1>7, <1>8, <1>9, <1>10, <1>11
     DEF Next

-----------------------------------------------------------------------------
(* Seen without indexes and clock, a pool does what CredentialLifecycle     *)
(* says: it serves from a usable credential, leaves one only for a usable   *)
(* one, and only an operator readmits what was excluded.                    *)
THEOREM PoolKeepsPromise == Spec => KeepsPromise
<1>1. Init => IInv
  BY InitIInv
<1>2. IInv /\ [Next]_vars => IInv'
  BY NextIInv
<1>3. Init => Promise!Init
  BY InitKeeps
<1>4. IInv /\ [Next]_vars => [Promise!Next]_(Promise!vars)
  BY NextKeeps
<1> QED
  BY <1>1, <1>2, <1>3, <1>4, PTL DEF Spec, KeepsPromise, Promise!Spec

-----------------------------------------------------------------------------
(* Retry candidates.                                                        *)

(* A remainder of a number below twice the modulus.                         *)
LEMMA OnceAround ==
  ASSUME NEW n \in Nat, NEW a \in Nat, a < 2 * n
  PROVE  a % n = IF a < n THEN a ELSE a - n
<1>1. n > 0
  OBVIOUS
<1>2. CASE a < n
  BY <1>1, <1>2
<1>3. CASE ~(a < n)
  <2>1. a - n \in 0..n - 1 /\ a = n + (a - n)
    BY <1>3
  <2> QED
    BY <1>1, <1>3, <2>1
<1> QED
  BY <1>2, <1>3

(* How far a scan that begins behind the current slot goes to slot i.       *)
ScanRank(i) == (i - current - 1 + size) % size

(* The scan meets each slot at its own distance.                            *)
LEMMA ScanRanks ==
  ASSUME IInv
  PROVE  \A i, j \in Held : /\ ScanRank(i) \in Int
                            /\ ScanRank(i) = ScanRank(j) => i = j
<1>1. /\ size \in Nat /\ current \in Nat /\ current < size
      /\ \A i \in Held : i \in Nat /\ i < size
  BY IInvFacts DEF Held
<1>2. ASSUME NEW i \in Held
      PROVE  ScanRank(i) = IF i > current THEN i - current - 1
                           ELSE i - current - 1 + size
  <2> DEFINE a == i - current - 1 + size
  <2>1. i \in Nat /\ i < size
    BY <1>1
  <2>2. a \in Nat /\ a < 2 * size /\ (a < size <=> ~(i > current))
    BY <1>1, <2>1
  <2> HIDE DEF a
  <2>3. a % size = IF a < size THEN a ELSE a - size
    BY <1>1, <2>2, OnceAround
  <2>4. a % size = IF i > current THEN a - size ELSE a
    BY <2>2, <2>3
  <2>5. ScanRank(i) = IF i > current THEN a - size ELSE a
    BY <2>4 DEF ScanRank, a
  <2>6. a - size = i - current - 1
    BY <1>1, <2>1 DEF a
  <2> QED
    BY <2>5, <2>6 DEF a
<1>3. ASSUME NEW i \in Held, NEW j \in Held
      PROVE  /\ ScanRank(i) \in Int
             /\ ScanRank(i) = ScanRank(j) => i = j
  BY <1>1, <1>2
<1> QED
  BY <1>3

(* A scan meets every available slot once.                                  *)
LEMMA ScanMeets ==
  ASSUME IInv, NEW S \in SUBSET Held
  PROVE  IsFiniteSet(S) /\ InScanOrder(S) \in SetToSeqs(S)
<1> DEFINE R == {p \in S \X S : ScanRank(p[1]) < ScanRank(p[2])}
<1>1. IsFiniteSet(S)
  <2>1. 0 \in Int /\ size - 1 \in Int
    BY IInvFacts
  <2> QED
    BY <2>1, FS_Interval, FS_Subset DEF Held
<1>2. StrictlyOrders(R, S)
  <2>1. \A i, j \in S : <<i, j>> \in R <=> ScanRank(i) < ScanRank(j)
    OBVIOUS
  <2>2. \A i, j \in S : /\ ScanRank(i) \in Int
                        /\ ScanRank(i) = ScanRank(j) => i = j
    BY ScanRanks
  <2> HIDE DEF R
  <2> QED
    BY <2>1, <2>2 DEF StrictlyOrders
<1>3. PICK s \in SetToSeqs(S) : Sorted(R, s)
  BY <1>1, <1>2, SortedExists
<1>4. \A j, k \in DOMAIN s : j < k => ScanRank(s[j]) < ScanRank(s[k])
  BY <1>3 DEF Sorted
<1>5. \E q \in SetToSeqs(S) :
        \A j, k \in DOMAIN q : j < k => ScanRank(q[j]) < ScanRank(q[k])
  BY <1>4
<1> QED
  BY <1>1, <1>5 DEF InScanOrder, ScanRank

(* The beginning of a scan that meets every slot once.                      *)
LEMMA ScanBegins ==
  ASSUME NEW S, IsFiniteSet(S), NEW s \in SetToSeqs(S), NEW limit \in Nat
  PROVE  LET q == SubSeq(s, 1, Min({limit, Len(s)}))
         IN /\ IsInjective(q)
            /\ Len(q) <= limit
            /\ ToSet(q) \subseteq S
<1> DEFINE n == Min({limit, Len(s)})
           q == SubSeq(s, 1, n)
<1>1. /\ s \in Seq(S) /\ Len(s) \in Nat /\ DOMAIN s = 1..Len(s)
      /\ \A j, k \in 1..Len(s) : j # k => s[j] # s[k]
  BY Listed, LenProperties
<1>2. n \in Nat /\ n <= Len(s) /\ n <= limit
  <2>1. {limit, Len(s)} \subseteq Nat
    BY <1>1
  <2> QED
    BY <2>1, MinIsLeast
<1> HIDE DEF n
<1>3. /\ q \in Seq(S) /\ Len(q) = n
      /\ \A k \in 1..n : q[k] = s[k]
  BY <1>1, <1>2, SubSeqProperties
<1> HIDE DEF q
<1>4. DOMAIN q = 1..n /\ \A k \in 1..n : q[k] \in S
  BY <1>3, LenProperties
<1>5. \A k \in 1..n : k \in 1..Len(s)
  BY <1>1, <1>2
<1>6. IsInjective(q)
  BY <1>1, <1>3, <1>4, <1>5 DEF IsInjective
<1>7. ToSet(q) \subseteq S
  BY <1>4 DEF ToSet
<1> QED
  BY <1>2, <1>3, <1>6, <1>7 DEF q, n

(* A retry is offered slots that can serve at this instant, each once, at   *)
(* most as many as asked for, and never the slot that just failed           *)
(* (retry_candidates_from_current), for every pool size.                    *)
THEOREM RetryCandidates == Spec => CandidatesUsable
<1>1. ASSUME IInv, NEW limit \in 0..Capacity, RetryCandidatesFromCurrent(limit)
      PROVE  /\ IsInjective(reply'.slots)
             /\ Len(reply'.slots) <= limit
             /\ \A i \in ToSet(reply'.slots) :
                  i # current /\ i \in Held /\ IsAvailableAt(state[i], now)
  <2>1. limit \in Nat
    BY PoolAssumption
  <2>2. CASE limit = 0
    <3>1. reply'.slots = <<>>
      BY <1>1, <2>2 DEF RetryCandidatesFromCurrent, Answer
    <3>2. DOMAIN <<>> = {} /\ Len(<<>>) = 0
      BY EmptySeq
    <3> QED
      BY <2>2, <3>1, <3>2 DEF IsInjective, ToSet
  <2>3. CASE limit > 0
    <3> DEFINE S == index'.available \ {current}
               s == InScanOrder(S)
    <3>1. /\ index' = RefreshAvailableIndices(index, state, now)
          /\ reply'.slots = SubSeq(s, 1, Min({limit, Len(s)}))
      <4>1. limit # 0
        BY <2>3
      <4>2. /\ index' = RefreshAvailableIndices(index, state, now)
            /\ reply' = [outcome |-> "Candidates",
                         slots |-> SubSeq(s, 1, Min({limit, Len(s)}))]
        BY <1>1, <4>1, Zenon DEF RetryCandidatesFromCurrent
      <4> HIDE DEF s
      <4> QED
        BY <4>2
    <3>2. index'.available = {i \in Held : IsAvailableAt(state[i], now)}
      BY <1>1, <3>1, IInvFacts, RefreshFindsUsable
    <3>3. S \in SUBSET Held
      BY <3>2
    <3>4. \A i \in S : i # current /\ i \in Held /\ IsAvailableAt(state[i], now)
      BY <3>2
    <3> HIDE DEF S
    <3>5. IsFiniteSet(S) /\ s \in SetToSeqs(S)
      BY <1>1, <3>3, ScanMeets
    <3> HIDE DEF s
    <3> DEFINE q == SubSeq(s, 1, Min({limit, Len(s)}))
    <3>6. IsInjective(q) /\ Len(q) <= limit /\ ToSet(q) \subseteq S
      BY <2>1, <3>5, ScanBegins
    <3>7. reply'.slots = q
      BY <3>1
    <3> HIDE DEF q
    <3> QED
      BY <3>4, <3>6, <3>7
  <2> QED
    BY <2>1, <2>2, <2>3
<1>2. IInv /\ [Next]_vars =>
        [\A limit \in 0..Capacity : RetryCandidatesFromCurrent(limit) =>
           /\ IsInjective(reply'.slots)
           /\ Len(reply'.slots) <= limit
           /\ \A i \in ToSet(reply'.slots) :
                i # current /\ i \in Held /\ IsAvailableAt(state[i], now)]_vars
  BY <1>1
<1>3. Init => IInv
  BY InitIInv
<1>4. IInv /\ [Next]_vars => IInv'
  BY NextIInv
<1> QED
  BY <1>2, <1>3, <1>4, PTL DEF Spec, CandidatesUsable
=============================================================================
