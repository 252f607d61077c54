---------------------- MODULE CredentialCommandsProofs ----------------------
(***************************************************************************)
(* Proofs about CredentialCommands, for every number of credentials,       *)
(* operators and requests, every capacity of the queue and every number of *)
(* crashes.                                                                *)
(*                                                                         *)
(* The recheck before a command applies compares the generation and the    *)
(* state.  Neither is enough: a cooldown that ends, and a second automatic *)
(* failure, change the state without a new generation.  But such a change, *)
(* a drift, never leads back, and every other change counts.  So a command *)
(* that finds the generation and the state it saw was not disturbed        *)
(* (SeenOK), and one whose store and pool nobody else touched knows at     *)
(* each stage what both of them hold (AtomicOK).                           *)
(***************************************************************************)
EXTENDS CredentialCommands, TLAPS

-----------------------------------------------------------------------------
(* The inductive invariant.                                                 *)

RequestState ==
  [stage : {"idle", "finished"}]
    \cup [stage : {"sending", "answered"}, credential : Credential]

Shape == TypeOK /\ request \in [Request -> RequestState]

(* A change of state without a new generation.                              *)
Drift(s, t) ==
  \/ s.kind = "CoolingDown" /\ t = Available
  \/ s.kind \in {"Expired", "QuotaExhausted"} /\ t.kind = s.kind
       /\ t.cause = "automatic"

Subject(o) == command[o].credential
Before(o) ==
  command[o].stage \in {"checking", "persisting", "appending", "applying"}

SeenOK(o) ==
  Before(o) =>
    /\ Decision(command[o].kind, command[o].state) = "Ready"
    /\ generation >= command[o].generation
    /\ ~disturbed[o].state => runtime[Subject(o)] = command[o].state
    /\ disturbed[o].state /\ generation = command[o].generation =>
         /\ Drift(command[o].state, runtime[Subject(o)])
         /\ runtime[Subject(o)] # command[o].state

AtomicOK(o) ==
  LET cmd == command[o]
      row == durable[Subject(o)]
      pool == DurableOf(runtime[Subject(o)])
      old == DurableOf(cmd.state)
      new == Target(cmd.kind, o)
  IN ~disturbed[o].store =>
       /\ cmd.stage \in {"checking", "persisting"} => row = old /\ pool = old
       /\ cmd.stage \in {"appending", "applying"} => row = new /\ pool = old
       /\ cmd.stage \in {"reading", "compensating"} => row \in {old, new}
       /\ cmd.stage = "compensating" => cmd.readBack = pool
       /\ cmd.stage = "done" /\ cmd.outcome # "CompensationFailed" => row = pool

Inv == Shape /\ \A o \in Operator : SeenOK(o) /\ AtomicOK(o)

-----------------------------------------------------------------------------
(* States.                                                                  *)

(* The states the code writes are states, and a durable one stays as it is. *)
LEMMA StateShapes ==
  /\ Available \in State /\ CoolingDown \in State
  /\ Expired("automatic") \in State /\ QuotaExhausted("automatic") \in State
  /\ \A o \in Operator, k \in CommandKind : Target(k, o) \in State
  /\ \A s \in State : DurableOf(s) \in State /\ DurableOf(DurableOf(s)) = DurableOf(s)
<1>1. \A k \in Kind, x \in Cause :
        (k \in {"Available", "CoolingDown"} => x = "none")
          => [kind |-> k, cause |-> x] \in State
  BY DEF State
<1>2. /\ Available \in State /\ CoolingDown \in State
      /\ Expired("automatic") \in State /\ QuotaExhausted("automatic") \in State
  BY <1>1 DEF Available, CoolingDown, Expired, QuotaExhausted, Kind, Cause
<1>3. \A o \in Operator : /\ Expired(o) \in State /\ QuotaExhausted(o) \in State
                          /\ Disabled(o) \in State
  BY <1>1 DEF Expired, QuotaExhausted, Disabled, Kind, Cause
<1>4. \A o \in Operator, k \in CommandKind : Target(k, o) \in State
  BY <1>2, <1>3 DEF Target
<1>5. \A s \in State : DurableOf(s) \in State /\ DurableOf(DurableOf(s)) = DurableOf(s)
  BY <1>2 DEF DurableOf, Available
<1> QED
  BY <1>2, <1>4, <1>5

(* What a command puts a credential in is durable, is not what it found,   *)
(* and is what another command of its kind would have put it in.           *)
LEMMA TargetFacts ==
  ASSUME NEW k \in CommandKind, NEW o
  PROVE  /\ DurableOf(Target(k, o)) = Target(k, o)
         /\ Target(k, o).kind \in AppliedIn[k]
         /\ \A s : Decision(k, s) = "Ready" => s.kind # Target(k, o).kind
  BY DEF CommandKind, Target, DurableOf, Decision, AppliedIn, ReadyIn, Available,
         Expired, QuotaExhausted, Disabled

-----------------------------------------------------------------------------
(* What a step may do to the pool.                                          *)

Moves ==
  /\ runtime' \in [Credential -> State]
  /\ generation' \in Nat /\ generation' >= generation
  /\ \A c \in Credential : \/ runtime'[c] = runtime[c]
                           \/ generation' > generation
                           \/ Drift(runtime[c], runtime'[c])

(* A step that leaves the pool alone.                                       *)
LEMMA KeepMoves ==
  ASSUME Shape, KeepRuntime
  PROVE  Moves
  BY DEF Shape, TypeOK, KeepRuntime, Moves

(* A state of a new kind comes with a new generation.                       *)
LEMMA SetMoves ==
  ASSUME Shape, NEW c \in Credential, NEW s \in State, SetRuntime(c, s),
         s.kind = runtime[c].kind => s = runtime[c] \/ Drift(runtime[c], s)
  PROVE  Moves
<1>1. /\ runtime \in [Credential -> State] /\ generation \in Nat
      /\ runtime' = [runtime EXCEPT ![c] = s]
  BY DEF Shape, TypeOK, SetRuntime
<1>2. CASE s.kind = runtime[c].kind
  BY <1>1, <1>2 DEF SetRuntime, Moves
<1>3. CASE s.kind # runtime[c].kind
  BY <1>1, <1>3 DEF SetRuntime, Moves
<1> QED
  BY <1>2, <1>3

(* Two drifts in a row do not happen: the first ends where no other starts. *)
LEMMA DriftsOnce ==
  ASSUME NEW s \in State, NEW t \in State, NEW u \in State,
         Drift(s, t), t # s, Drift(t, u)
  PROVE  u = t
<1>1. CASE s.kind = "CoolingDown"
  BY <1>1 DEF Drift, Available
<1>2. CASE s.kind \in {"Expired", "QuotaExhausted"}
  <2>1. t.kind = s.kind /\ t.cause = "automatic"
    BY <1>2 DEF Drift
  <2>2. u.kind = t.kind /\ u.cause = "automatic"
    BY <1>2, <2>1 DEF Drift
  <2> QED
    BY <2>1, <2>2 DEF State
<1> QED
  BY <1>1, <1>2 DEF Drift

-----------------------------------------------------------------------------
(* What a step does to the commands of the others.                          *)

(* What a command is about, and what is known of it.                        *)
LEMMA Subjects ==
  ASSUME Shape, NEW o \in Operator
  PROVE  /\ command[o] \in Command /\ Subject(o) \in Credential
         /\ runtime[Subject(o)] \in State /\ durable[Subject(o)] \in State
         /\ command[o].kind \in CommandKind /\ command[o].state \in State
         /\ command[o].generation \in Nat /\ generation \in Nat
         /\ disturbed[o].state \in BOOLEAN /\ disturbed[o].store \in BOOLEAN
  BY DEF Shape, TypeOK, Command, Subject

(* What an observed step adds to the history of a command.                  *)
LEMMA Observed ==
  ASSUME NEW self, Observe(self), NEW o \in Operator, o # self,
         command[o].stage # "idle"
  PROVE  /\ disturbed'[o].state <=>
              disturbed[o].state \/ runtime'[Subject(o)] # runtime[Subject(o)]
         /\ disturbed'[o].store <=>
              \/ disturbed[o].store
              \/ durable'[Subject(o)] # durable[Subject(o)]
              \/ DurableOf(runtime'[Subject(o)]) # DurableOf(runtime[Subject(o)])
<1> DEFINE state == disturbed[o].state \/ runtime'[Subject(o)] # runtime[Subject(o)]
           store == \/ disturbed[o].store
                    \/ durable'[Subject(o)] # durable[Subject(o)]
                    \/ DurableOf(runtime'[Subject(o)]) # DurableOf(runtime[Subject(o)])
<1>1. disturbed'[o] = [state |-> state, store |-> store]
  BY DEF Observe, Subject
<1> HIDE DEF state, store
<1>2. disturbed'[o].state = state /\ disturbed'[o].store = store
  BY <1>1
<1> QED
  BY <1>2, Zenon DEF state, store

(* A drift or a new generation does not mislead a command under way.        *)
LEMMA OthersSeen ==
  ASSUME Inv, Moves, NEW self, Observe(self), NEW o \in Operator, o # self,
         command'[o] = command[o]
  PROVE  SeenOK(o)'
<1> DEFINE c == Subject(o)
<1> SUFFICES ASSUME Before(o)
             PROVE  SeenOK(o)'
  BY DEF SeenOK, Before
<1>1. /\ c \in Credential /\ runtime[c] \in State /\ runtime'[c] \in State
      /\ command[o].state \in State /\ command[o].generation \in Nat
      /\ generation \in Nat /\ generation' \in Nat /\ generation' >= generation
      /\ Subject(o)' = c
  BY Subjects DEF Inv, Moves, Subject
<1>2. /\ Decision(command[o].kind, command[o].state) = "Ready"
      /\ generation >= command[o].generation
      /\ ~disturbed[o].state => runtime[c] = command[o].state
      /\ disturbed[o].state /\ generation = command[o].generation =>
           Drift(command[o].state, runtime[c]) /\ runtime[c] # command[o].state
  BY DEF Inv, SeenOK
<1>3. disturbed'[o].state <=> disturbed[o].state \/ runtime'[c] # runtime[c]
  BY Observed DEF Before
<1>4. \/ runtime'[c] = runtime[c]
      \/ generation' > generation
      \/ Drift(runtime[c], runtime'[c])
  BY <1>1 DEF Moves
<1> HIDE DEF c
<1>5. ~disturbed'[o].state => runtime'[c] = command[o].state
  BY <1>2, <1>3
<1>6. ASSUME disturbed'[o].state, generation' = command[o].generation
      PROVE  Drift(command[o].state, runtime'[c]) /\ runtime'[c] # command[o].state
  <2>1. generation = command[o].generation /\ ~(generation' > generation)
    BY <1>1, <1>2, <1>6
  <2>2. CASE runtime'[c] = runtime[c]
    BY <1>2, <1>3, <1>6, <2>1, <2>2
  <2>3. CASE runtime'[c] # runtime[c] /\ disturbed[o].state
    BY <1>1, <1>2, <1>4, <2>1, <2>3, DriftsOnce
  <2>4. CASE runtime'[c] # runtime[c] /\ ~disturbed[o].state
    BY <1>2, <1>4, <2>1, <2>4
  <2> QED
    BY <2>2, <2>3, <2>4
<1> QED
  BY <1>1, <1>2, <1>5, <1>6 DEF SeenOK

(* A command nobody disturbed still knows what store and pool hold.         *)
LEMMA OthersAtomic ==
  ASSUME Inv, NEW self, Observe(self), NEW o \in Operator, o # self,
         command'[o] = command[o]
  PROVE  AtomicOK(o)'
<1>1. CASE command[o].stage = "idle"
  BY <1>1 DEF AtomicOK
<1>2. CASE command[o].stage # "idle"
  <2>1. /\ Subject(o)' = Subject(o)
        /\ AtomicOK(o)
    BY DEF Subject, Inv
  <2>2. ~disturbed'[o].store =>
          /\ ~disturbed[o].store
          /\ durable'[Subject(o)] = durable[Subject(o)]
          /\ DurableOf(runtime'[Subject(o)]) = DurableOf(runtime[Subject(o)])
    BY <1>2, Observed
  <2> QED
    BY <2>1, <2>2 DEF AtomicOK
<1> QED
  BY <1>1, <1>2

(* A step that touches neither store nor pool disturbs nobody.              *)
LEMMA QuietStep ==
  ASSUME Inv, NEW o \in Operator, command'[o] = command[o],
         disturbed'[o] = disturbed[o], KeepRuntime, UNCHANGED durable
  PROVE  SeenOK(o)' /\ AtomicOK(o)'
  BY DEF Inv, SeenOK, AtomicOK, Before, Subject, KeepRuntime

-----------------------------------------------------------------------------
(* The steps of a command.                                                  *)

(* The history keeps its shape, and has nothing about a command's own step. *)
LEMMA ObserveShape ==
  ASSUME Shape, NEW self, Observe(self)
  PROVE  /\ disturbed' \in [Operator -> [state : BOOLEAN, store : BOOLEAN]]
         /\ self \in Operator => disturbed'[self] = disturbed[self]
<1> DEFINE state(o) == disturbed[o].state \/ runtime'[Subject(o)] # runtime[Subject(o)]
           store(o) == \/ disturbed[o].store
                       \/ durable'[Subject(o)] # durable[Subject(o)]
                       \/ DurableOf(runtime'[Subject(o)])
                            # DurableOf(runtime[Subject(o)])
<1>1. disturbed' = [o \in Operator |->
        IF o = self \/ command[o].stage = "idle" THEN disturbed[o]
        ELSE [state |-> state(o), store |-> store(o)]]
  BY DEF Observe, Subject
<1>2. \A o \in Operator : state(o) \in BOOLEAN /\ store(o) \in BOOLEAN
  BY Zenon
<1> HIDE DEF state, store
<1>3. disturbed \in [Operator -> [state : BOOLEAN, store : BOOLEAN]]
  BY DEF Shape, TypeOK
<1>4. \A o \in Operator :
        [state |-> state(o), store |-> store(o)] \in [state : BOOLEAN, store : BOOLEAN]
  BY <1>2
<1> QED
  BY <1>1, <1>3, <1>4

(* The command of one operator goes on, and the others look on.             *)
LEMMA OwnStep ==
  ASSUME Inv, NEW o \in Operator, NEW cmd \in Command,
         command' = [command EXCEPT ![o] = cmd],
         Moves, durable' \in [Credential -> State], Observe(o),
         log' \subseteq Operator, UNCHANGED <<queue, worker, request, crashes>>,
         SeenOK(o)', AtomicOK(o)'
  PROVE  Inv'
<1>1. Shape'
  <2>1. command' \in [Operator -> Command]
    BY DEF Inv, Shape, TypeOK
  <2> QED
    BY <2>1, ObserveShape DEF Inv, Shape, TypeOK, Moves
<1>2. ASSUME NEW p \in Operator, p # o
      PROVE  SeenOK(p)' /\ AtomicOK(p)'
  <2>1. command'[p] = command[p]
    BY <1>2 DEF Inv, Shape, TypeOK
  <2> QED
    BY <1>2, <2>1, OthersSeen, OthersAtomic
<1> QED
  BY <1>1, <1>2 DEF Inv

(* A step of a command that changes its own record only.                    *)
LEMMA RecordStep ==
  ASSUME Inv, NEW o \in Operator, NEW cmd \in Command,
         command' = [command EXCEPT ![o] = cmd],
         KeepRuntime, log' \subseteq Operator,
         UNCHANGED <<durable, queue, worker, request, crashes>>, Observe(o),
         cmd.kind = command[o].kind, cmd.credential = command[o].credential,
         cmd.generation = command[o].generation, cmd.state = command[o].state,
         cmd.stage \in {"checking", "persisting", "appending", "applying"} =>
           Before(o),
         ~disturbed[o].store =>
           LET row == durable[Subject(o)]
               pool == DurableOf(runtime[Subject(o)])
               old == DurableOf(cmd.state)
               new == Target(cmd.kind, o)
           IN /\ cmd.stage \in {"checking", "persisting"} =>
                   row = old /\ pool = old
              /\ cmd.stage \in {"appending", "applying"} =>
                   row = new /\ pool = old
              /\ cmd.stage \in {"reading", "compensating"} => row \in {old, new}
              /\ cmd.stage = "compensating" => cmd.readBack = pool
              /\ cmd.stage = "done" /\ cmd.outcome # "CompensationFailed" =>
                   row = pool
  PROVE  Inv'
<1>1. /\ command'[o] = cmd /\ Subject(o)' = Subject(o)
      /\ disturbed'[o] = disturbed[o] /\ runtime' = runtime
      /\ generation' = generation /\ durable' = durable
  <2>1. command'[o] = cmd
    BY DEF Inv, Shape, TypeOK
  <2> QED
    BY <2>1, ObserveShape DEF Subject, Inv, KeepRuntime
<1>2. SeenOK(o)'
  BY <1>1 DEF Inv, SeenOK, Before, Subject
<1>3. AtomicOK(o)'
  BY <1>1 DEF AtomicOK
<1>4. Moves /\ durable' \in [Credential -> State]
  BY KeepMoves DEF Inv, Shape, TypeOK
<1> QED
  BY <1>2, <1>3, <1>4, OwnStep

(* The recheck ends the command, lets it go on, or refuses it.              *)
LEMMA CheckInv ==
  ASSUME Inv, NEW o \in Operator, Check(o)
  PROVE  Inv'
<1> DEFINE ended == [command[o] EXCEPT !.stage = "done", !.outcome = "Ok"]
           ahead == [command[o] EXCEPT !.stage = "persisting"]
           refused == [command[o] EXCEPT !.stage = "reading", !.outcome = "Refused"]
<1>1. /\ command[o] \in Command
      /\ ended \in Command /\ ahead \in Command /\ refused \in Command
  <2>1. command[o] \in Command
    BY Subjects DEF Inv
  <2> QED
    BY <2>1 DEF Command, Stage, Outcome
<1>2. \/ command' = [command EXCEPT ![o] = ended]
      \/ command' = [command EXCEPT ![o] = ahead]
      \/ command' = [command EXCEPT ![o] = refused]
  BY DEF Check, Stopped, At, Refused, Inv, Shape, TypeOK
<1>3. /\ command[o].stage = "checking" /\ KeepRuntime /\ log' \subseteq Operator
      /\ UNCHANGED <<durable, queue, worker, request, crashes>> /\ Observe(o)
  BY DEF Check, Inv, Shape, TypeOK
<1>4. ~disturbed[o].store =>
        /\ durable[Subject(o)] = DurableOf(command[o].state)
        /\ DurableOf(runtime[Subject(o)]) = DurableOf(command[o].state)
  BY <1>3 DEF Inv, AtomicOK
<1>5. CASE command' = [command EXCEPT ![o] = ended]
  BY <1>1, <1>3, <1>4, <1>5, RecordStep DEF Command
<1>6. CASE command' = [command EXCEPT ![o] = ahead]
  BY <1>1, <1>3, <1>4, <1>6, RecordStep DEF Command, Before
<1>7. CASE command' = [command EXCEPT ![o] = refused]
  BY <1>1, <1>3, <1>4, <1>7, RecordStep DEF Command
<1> QED
  BY <1>2, <1>5, <1>6, <1>7

(* The row is written, or nothing is.                                       *)
LEMMA PersistInv ==
  ASSUME Inv, NEW o \in Operator, Persist(o)
  PROVE  Inv'
<1> DEFINE ahead == [command[o] EXCEPT !.stage = "appending"]
           refused == [command[o] EXCEPT !.stage = "reading", !.outcome = "Refused"]
           new == Target(command[o].kind, o)
<1>1. /\ command[o] \in Command /\ ahead \in Command /\ refused \in Command
      /\ new \in State /\ Subject(o) \in Credential
  <2>1. command[o] \in Command /\ command[o].kind \in CommandKind
        /\ Subject(o) \in Credential
    BY Subjects DEF Inv
  <2> QED
    BY <2>1, StateShapes DEF Command, Stage, Outcome
<1>2. /\ command[o].stage = "persisting" /\ KeepRuntime /\ log' \subseteq Operator
      /\ UNCHANGED <<queue, worker, request, crashes>> /\ Observe(o)
  BY DEF Persist, Inv, Shape, TypeOK
<1>3. ~disturbed[o].store =>
        /\ durable[Subject(o)] = DurableOf(command[o].state)
        /\ DurableOf(runtime[Subject(o)]) = DurableOf(command[o].state)
  BY <1>2 DEF Inv, AtomicOK
<1>4. CASE durable' = [durable EXCEPT ![Subject(o)] = new] /\ command' = At(o, "appending")
  <2>1. command' = [command EXCEPT ![o] = ahead]
    BY <1>4 DEF At, Inv, Shape, TypeOK
  <2>2. /\ command'[o] = ahead /\ Subject(o)' = Subject(o)
        /\ disturbed'[o] = disturbed[o]
        /\ runtime' = runtime /\ generation' = generation
        /\ durable'[Subject(o)] = new
    <3>1. command'[o] = ahead
      BY <2>1 DEF Inv, Shape, TypeOK
    <3> QED
      BY <1>1, <1>2, <1>4, <3>1, ObserveShape
         DEF Inv, Shape, TypeOK, Subject, KeepRuntime, Command
  <2>3. SeenOK(o)'
    BY <1>1, <1>2, <2>2 DEF Inv, SeenOK, Before, Command
  <2>4. AtomicOK(o)'
    BY <1>1, <1>3, <2>2 DEF AtomicOK, Command
  <2>5. Moves /\ durable' \in [Credential -> State]
    BY <1>1, <1>2, <1>4, KeepMoves DEF Inv, Shape, TypeOK
  <2> QED
    BY <1>1, <1>2, <2>1, <2>3, <2>4, <2>5, OwnStep
<1>5. CASE command' = Refused(o) /\ UNCHANGED durable
  <2>1. command' = [command EXCEPT ![o] = refused]
    BY <1>5 DEF Refused, Inv, Shape, TypeOK
  <2> QED
    BY <1>1, <1>2, <1>3, <1>5, <2>1, RecordStep DEF Command
<1> QED
  BY <1>4, <1>5 DEF Persist, Subject

(* The event is in the log, or the command is refused.                      *)
LEMMA AppendInv ==
  ASSUME Inv, NEW o \in Operator, AppendEvent(o)
  PROVE  Inv'
<1> DEFINE ahead == [command[o] EXCEPT !.stage = "applying"]
           refused == [command[o] EXCEPT !.stage = "reading", !.outcome = "Refused"]
<1>1. command[o] \in Command /\ ahead \in Command /\ refused \in Command
  <2>1. command[o] \in Command
    BY Subjects DEF Inv
  <2> QED
    BY <2>1 DEF Command, Stage, Outcome
<1>2. /\ command[o].stage = "appending" /\ KeepRuntime /\ log' \subseteq Operator
      /\ UNCHANGED <<durable, queue, worker, request, crashes>> /\ Observe(o)
  BY DEF AppendEvent, Inv, Shape, TypeOK
<1>3. \/ command' = [command EXCEPT ![o] = ahead]
      \/ command' = [command EXCEPT ![o] = refused]
  BY DEF AppendEvent, At, Refused, Inv, Shape, TypeOK
<1>4. ~disturbed[o].store =>
        /\ durable[Subject(o)] = Target(command[o].kind, o)
        /\ DurableOf(runtime[Subject(o)]) = DurableOf(command[o].state)
  BY <1>2 DEF Inv, AtomicOK
<1>5. CASE command' = [command EXCEPT ![o] = ahead]
  BY <1>1, <1>2, <1>4, <1>5, RecordStep DEF Command, Before
<1>6. CASE command' = [command EXCEPT ![o] = refused]
  BY <1>1, <1>2, <1>4, <1>6, RecordStep DEF Command
<1> QED
  BY <1>3, <1>5, <1>6

(* A command that finds its work done, in a pool nobody touched, only saw   *)
(* a cooldown end.                                                          *)
LEMMA AppliedMeansTarget ==
  ASSUME NEW k \in CommandKind, NEW o \in Operator,
         NEW s \in State, NEW t \in State,
         Decision(k, s) = "Ready", Decision(k, t) = "AlreadyApplied",
         DurableOf(t) = DurableOf(s)
  PROVE  DurableOf(t) = Target(k, o)
<1>1. s.kind \in ReadyIn[k] /\ t.kind \in AppliedIn[k]
  BY DEF Decision
<1>2. t.kind # "CoolingDown" /\ DurableOf(t) = t
  BY <1>1 DEF CommandKind, AppliedIn, DurableOf
<1>3. s.kind # t.kind
  BY <1>1 DEF CommandKind, AppliedIn, ReadyIn
<1>4. s.kind = "CoolingDown" /\ t = Available
  BY <1>2, <1>3 DEF DurableOf
<1>5. t.kind = "Available"
  BY <1>4 DEF Available
<1>6. k = "ClearCooldown"
  BY <1>1, <1>4, <1>5 DEF CommandKind, AppliedIn, ReadyIn
<1> QED
  BY <1>2, <1>4, <1>6 DEF Target

(* What the recheck says of the pool.                                       *)
LEMMA Recheck ==
  ASSUME NEW o \in Operator
  PROVE  /\ Precondition(o) = "Ready" =>
              /\ Decision(command[o].kind, runtime[Subject(o)]) = "Ready"
              /\ command[o].generation = generation
              /\ command[o].state = runtime[Subject(o)]
         /\ Precondition(o) = "AlreadyApplied" =>
              Decision(command[o].kind, runtime[Subject(o)]) = "AlreadyApplied"
  BY DEF Precondition, Subject, Decision

(* A command that applies was not disturbed.                                *)
LEMMA AppliesUndisturbed ==
  ASSUME Inv, NEW o \in Operator, command[o].stage = "applying",
         Precondition(o) = "Ready"
  PROVE  ~disturbed[o].state
<1>1. Before(o)
  BY DEF Before
<1>2. command[o].generation = generation /\ command[o].state = runtime[Subject(o)]
  BY Recheck
<1> QED
  BY <1>1, <1>2 DEF Inv, SeenOK

(* The pool changes as the store did, finds the work done, or refuses.      *)
LEMMA ApplyInv ==
  ASSUME Inv, NEW o \in Operator, Apply(o)
  PROVE  Inv'
<1> DEFINE ended == [command[o] EXCEPT !.stage = "done", !.outcome = "Ok"]
           refused == [command[o] EXCEPT !.stage = "reading", !.outcome = "Refused"]
           new == Target(command[o].kind, o)
<1>1. /\ command[o] \in Command /\ ended \in Command /\ refused \in Command
      /\ new \in State /\ Subject(o) \in Credential
      /\ command[o].kind \in CommandKind
      /\ command[o].state \in State /\ runtime[Subject(o)] \in State
  <2>1. command[o] \in Command /\ command[o].kind \in CommandKind
        /\ Subject(o) \in Credential
        /\ command[o].state \in State /\ runtime[Subject(o)] \in State
    BY Subjects DEF Inv
  <2> QED
    BY <2>1, StateShapes DEF Command, Stage, Outcome
<1>2. /\ command[o].stage = "applying" /\ log' \subseteq Operator
      /\ UNCHANGED <<durable, queue, worker, request, crashes>> /\ Observe(o)
  BY DEF Apply, Inv, Shape, TypeOK
<1>3. ~disturbed[o].store =>
        /\ durable[Subject(o)] = new
        /\ DurableOf(runtime[Subject(o)]) = DurableOf(command[o].state)
  BY <1>2 DEF Inv, AtomicOK
<1>4. Stopped(o, "Ok") = [command EXCEPT ![o] = ended]
      /\ Refused(o) = [command EXCEPT ![o] = refused]
  BY DEF Stopped, Refused, Inv, Shape, TypeOK
<1>5. CASE /\ Precondition(o) = "Ready"
           /\ SetRuntime(command[o].credential, new)
           /\ command' = Stopped(o, "Ok")
  <2>1. SetRuntime(Subject(o), new) /\ command' = [command EXCEPT ![o] = ended]
    BY <1>4, <1>5 DEF Subject
  <2>2. runtime[Subject(o)].kind # new.kind
    BY <1>1, <1>5, Recheck, TargetFacts
  <2>3. Moves
    BY <1>1, <2>1, <2>2, SetMoves DEF Inv
  <2>4. /\ command'[o] = ended /\ Subject(o)' = Subject(o)
        /\ disturbed'[o] = disturbed[o] /\ durable' = durable
        /\ runtime'[Subject(o)] = new
    <3>1. command'[o] = ended
      BY <2>1 DEF Inv, Shape, TypeOK
    <3>2. runtime'[Subject(o)] = new
      BY <1>1, <2>1 DEF SetRuntime, Inv, Shape, TypeOK
    <3> QED
      BY <1>1, <1>2, <3>1, <3>2, ObserveShape DEF Inv, Subject, Command
  <2>5. SeenOK(o)'
    BY <1>1, <2>4 DEF SeenOK, Before, Command
  <2>6. AtomicOK(o)'
    <3>1. DurableOf(new) = new
      BY <1>1, TargetFacts
    <3>2. ended.stage = "done"
      BY <1>1 DEF Command
    <3> HIDE DEF new, ended
    <3> QED
      BY <1>3, <2>4, <3>1, <3>2 DEF AtomicOK
  <2>7. durable' \in [Credential -> State]
    BY <1>2 DEF Inv, Shape, TypeOK
  <2> QED
    BY <1>1, <1>2, <2>1, <2>3, <2>5, <2>6, <2>7, OwnStep
<1>6. CASE /\ Precondition(o) = "AlreadyApplied"
           /\ command' = Stopped(o, "Ok") /\ KeepRuntime
  <2>1. Decision(command[o].kind, command[o].state) = "Ready"
    BY <1>2 DEF Inv, SeenOK, Before
  <2>2. Decision(command[o].kind, runtime[Subject(o)]) = "AlreadyApplied"
    BY <1>6, Recheck
  <2>3. ~disturbed[o].store => DurableOf(runtime[Subject(o)]) = new
    BY <1>1, <1>3, <2>1, <2>2, AppliedMeansTarget
  <2> QED
    BY <1>1, <1>2, <1>3, <1>4, <1>6, <2>3, RecordStep DEF Command
<1>7. CASE command' = Refused(o) /\ KeepRuntime
  BY <1>1, <1>2, <1>3, <1>4, <1>7, RecordStep DEF Command
<1> QED
  BY <1>5, <1>6, <1>7 DEF Apply

(* What is read back is what the pool holds.                                *)
LEMMA ReadBackInv ==
  ASSUME Inv, NEW o \in Operator, ReadBack(o)
  PROVE  Inv'
<1> DEFINE pool == DurableOf(runtime[Subject(o)])
           read == [command[o] EXCEPT !.stage = "compensating", !.readBack = pool]
<1>1. command[o] \in Command /\ pool \in State /\ read \in Command
  <2>1. command[o] \in Command /\ pool \in State
    BY Subjects, StateShapes DEF Inv
  <2> HIDE DEF pool
  <2> QED
    BY <2>1 DEF Command, Stage
<1>2. /\ command[o].stage = "reading" /\ KeepRuntime /\ log' \subseteq Operator
      /\ UNCHANGED <<durable, queue, worker, request, crashes>> /\ Observe(o)
      /\ command' = [command EXCEPT ![o] = read]
  BY DEF ReadBack, At, Subject, Inv, Shape, TypeOK
<1>3. ~disturbed[o].store =>
        durable[Subject(o)] \in {DurableOf(command[o].state), Target(command[o].kind, o)}
  BY <1>2 DEF Inv, AtomicOK
<1>4. /\ read.stage = "compensating" /\ read.readBack = pool
      /\ read.kind = command[o].kind /\ read.credential = command[o].credential
      /\ read.generation = command[o].generation /\ read.state = command[o].state
  BY <1>1 DEF Command
<1> HIDE DEF read
<1> QED
  BY <1>1, <1>2, <1>3, <1>4, RecordStep

(* The row is what the pool was, or the compensation failed.                *)
LEMMA CompensateInv ==
  ASSUME Inv, NEW o \in Operator, Compensate(o)
  PROVE  Inv'
<1> DEFINE ended == [command[o] EXCEPT !.stage = "done"]
           failed == [command[o] EXCEPT !.stage = "done",
                                        !.outcome = "CompensationFailed"]
<1>1. /\ command[o] \in Command /\ ended \in Command /\ failed \in Command
      /\ Subject(o) \in Credential /\ command[o].readBack \in State
  <2>1. command[o] \in Command /\ Subject(o) \in Credential
    BY Subjects DEF Inv
  <2> QED
    BY <2>1 DEF Command, Stage, Outcome
<1>2. /\ command[o].stage = "compensating" /\ KeepRuntime /\ log' \subseteq Operator
      /\ UNCHANGED <<queue, worker, request, crashes>> /\ Observe(o)
  BY DEF Compensate, Inv, Shape, TypeOK
<1>3. ~disturbed[o].store => command[o].readBack = DurableOf(runtime[Subject(o)])
  BY <1>2 DEF Inv, AtomicOK
<1>4. CASE /\ durable' = [durable EXCEPT ![Subject(o)] = command[o].readBack]
           /\ command' = At(o, "done")
  <2>1. command' = [command EXCEPT ![o] = ended]
    BY <1>4 DEF At, Inv, Shape, TypeOK
  <2>2. /\ command'[o] = ended /\ Subject(o)' = Subject(o)
        /\ disturbed'[o] = disturbed[o] /\ runtime' = runtime
        /\ durable'[Subject(o)] = command[o].readBack
    <3>1. command'[o] = ended
      BY <2>1 DEF Inv, Shape, TypeOK
    <3> QED
      BY <1>1, <1>2, <1>4, <3>1, ObserveShape
         DEF Inv, Shape, TypeOK, Subject, KeepRuntime, Command
  <2>3. ended.stage = "done"
    BY <1>1 DEF Command
  <2> HIDE DEF ended
  <2>4. SeenOK(o)' /\ AtomicOK(o)'
    BY <1>3, <2>2, <2>3 DEF SeenOK, Before, AtomicOK
  <2>5. Moves /\ durable' \in [Credential -> State]
    BY <1>1, <1>2, <1>4, KeepMoves DEF Inv, Shape, TypeOK
  <2> QED
    BY <1>1, <1>2, <2>1, <2>4, <2>5, OwnStep
<1>5. CASE command' = Stopped(o, "CompensationFailed") /\ UNCHANGED durable
  <2>1. command' = [command EXCEPT ![o] = failed]
    BY <1>5 DEF Stopped, Inv, Shape, TypeOK
  <2> QED
    BY <1>1, <1>2, <1>5, <2>1, RecordStep DEF Command
<1> QED
  BY <1>4, <1>5 DEF Compensate, Subject

(* A command begins with what it sees of the pool and of the store.         *)
LEMMA SubmitInv ==
  ASSUME Inv, NEW o \in Operator, NEW k \in CommandKind, NEW c \in Credential,
         Submit(o, k, c)
  PROVE  Inv'
<1> DEFINE decision == Decision(k, runtime[c])
           stage == IF decision = "Ready" THEN "checking" ELSE "done"
           outcome == CASE decision = "AlreadyApplied" -> "Ok"
                        [] decision = "Rejected" -> "Refused"
                        [] OTHER -> "none"
           cmd == [stage |-> stage, kind |-> k, credential |-> c,
                   generation |-> generation, state |-> runtime[c],
                   outcome |-> outcome, readBack |-> Available]
           differ == durable[c] # DurableOf(runtime[c])
<1>1. /\ command' = [command EXCEPT ![o] = cmd]
      /\ disturbed' = [disturbed EXCEPT ![o] = [state |-> FALSE, store |-> differ]]
      /\ runtime' = runtime /\ generation' = generation
      /\ UNCHANGED <<durable, log, queue, worker, request, crashes>>
  BY DEF Submit, KeepRuntime
<1>2. cmd \in Command
  <2>1. runtime[c] \in State /\ generation \in Nat /\ Available \in State
    BY StateShapes DEF Inv, Shape, TypeOK
  <2>2. stage \in Stage /\ outcome \in Outcome
    BY DEF Stage, Outcome
  <2> HIDE DEF stage, outcome
  <2> QED
    BY <2>1, <2>2 DEF Command
<1>3. differ \in BOOLEAN
  BY Zenon
<1>4. /\ cmd.stage = stage /\ cmd.kind = k /\ cmd.credential = c
      /\ cmd.generation = generation /\ cmd.state = runtime[c]
  OBVIOUS
<1>5. /\ stage \in {"checking", "done"}
      /\ stage = "checking" => Decision(k, runtime[c]) = "Ready"
  OBVIOUS
<1>6. ~differ => durable[c] = DurableOf(runtime[c])
  OBVIOUS
<1> HIDE DEF cmd, differ, stage
<1>7. Shape'
  <2>1. command' \in [Operator -> Command]
    BY <1>1, <1>2 DEF Inv, Shape, TypeOK
  <2>2. disturbed' \in [Operator -> [state : BOOLEAN, store : BOOLEAN]]
    BY <1>1, <1>3 DEF Inv, Shape, TypeOK
  <2> QED
    BY <1>1, <2>1, <2>2 DEF Inv, Shape, TypeOK
<1>8. /\ command'[o] = cmd
      /\ ~disturbed'[o].state /\ disturbed'[o].store = differ
  <2>1. command'[o] = cmd
    BY <1>1 DEF Inv, Shape, TypeOK
  <2>2. disturbed'[o] = [state |-> FALSE, store |-> differ]
    BY <1>1 DEF Inv, Shape, TypeOK
  <2>3. disturbed'[o].state = FALSE /\ disturbed'[o].store = differ
    BY <2>2
  <2> QED
    BY <2>1, <2>3, Zenon
<1>9. SeenOK(o)'
  <2>1. generation \in Nat
    BY DEF Inv, Shape, TypeOK
  <2> QED
    BY <1>1, <1>4, <1>5, <1>8, <2>1 DEF SeenOK, Before, Subject
<1>10. AtomicOK(o)'
  BY <1>1, <1>4, <1>5, <1>6, <1>8 DEF AtomicOK, Subject
<1>11. ASSUME NEW p \in Operator, p # o
       PROVE  SeenOK(p)' /\ AtomicOK(p)'
  <2>1. command'[p] = command[p] /\ disturbed'[p] = disturbed[p]
    BY <1>1, <1>11 DEF Inv, Shape, TypeOK
  <2> QED
    BY <1>1, <2>1, QuietStep DEF KeepRuntime
<1> QED
  BY <1>7, <1>9, <1>10, <1>11 DEF Inv

-----------------------------------------------------------------------------
(* The steps of everyone else.                                              *)

(* A step that is no command's, watched by all of them.                     *)
LEMMA WatchedStep ==
  ASSUME Inv, Moves, Observe(NoOne), UNCHANGED <<command, log, crashes>>,
         durable' \in [Credential -> State],
         request' \in [Request -> RequestState],
         queue' \in Seq([credential : Credential, state : State]),
         Len(queue') <= QueueCapacity,
         worker' \in {<<>>} \cup {<<w>> : w \in [credential : Credential,
                                                 state : State]}
  PROVE  Inv'
<1>1. Shape'
  BY ObserveShape DEF Inv, Shape, TypeOK, Moves
<1>2. ASSUME NEW o \in Operator
      PROVE  SeenOK(o)' /\ AtomicOK(o)'
  <2>1. o # NoOne
    BY CommandAssumption DEF NoOne
  <2> QED
    BY <2>1, OthersSeen, OthersAtomic
<1> QED
  BY <1>1, <1>2 DEF Inv

(* A step that leaves store and pool alone, which nobody sees.              *)
LEMMA UnseenStep ==
  ASSUME Inv, KeepRuntime, UNCHANGED <<durable, log, command, crashes, disturbed>>,
         request' \in [Request -> RequestState],
         queue' \in Seq([credential : Credential, state : State]),
         Len(queue') <= QueueCapacity,
         worker' \in {<<>>} \cup {<<w>> : w \in [credential : Credential,
                                                 state : State]}
  PROVE  Inv'
<1>1. Shape'
  BY DEF Inv, Shape, TypeOK, KeepRuntime
<1>2. ASSUME NEW o \in Operator
      PROVE  SeenOK(o)' /\ AtomicOK(o)'
  BY QuietStep
<1> QED
  BY <1>1, <1>2 DEF Inv

(* A cooldown and an automatic failure are drifts, or count.                *)
LEMMA ReportMoves ==
  ASSUME Shape, NEW c \in Credential
  PROVE  /\ CoolDownIn(c) => Moves
         /\ HardFailure(c, Expired("automatic")) => Moves
         /\ HardFailure(c, QuotaExhausted("automatic")) => Moves
<1>1. runtime[c] \in State
  BY DEF Shape, TypeOK
<1>2. /\ CoolingDown \in State
      /\ Expired("automatic") \in State /\ QuotaExhausted("automatic") \in State
  BY StateShapes
<1>3. runtime[c].kind = CoolingDown.kind => runtime[c] = CoolingDown
  <2>1. \A s \in State : s.kind = "CoolingDown" =>
          s = [kind |-> "CoolingDown", cause |-> "none"]
    BY DEF State
  <2> QED
    BY <1>1, <2>1 DEF CoolingDown
<1>4. CoolDownIn(c) => Moves
  BY <1>2, <1>3, KeepMoves, SetMoves DEF CoolDownIn
<1>5. ASSUME NEW s \in {Expired("automatic"), QuotaExhausted("automatic")}
      PROVE  HardFailure(c, s) => Moves
  <2>1. s \in State
    BY <1>2
  <2>2. s.kind = runtime[c].kind => Drift(runtime[c], s)
    BY <1>1 DEF Drift, Expired, QuotaExhausted
  <2> QED
    BY <2>1, <2>2, KeepMoves, SetMoves DEF HardFailure
<1> QED
  BY <1>4, <1>5

(* A probe's cooldown ends the operator's turn.                             *)
LEMMA ProbeInv ==
  ASSUME Inv, NEW o \in Operator, NEW c \in Credential, ApplyProbeCooldown(o, c)
  PROVE  Inv'
<1> DEFINE probed == [command[o] EXCEPT !.stage = "probed"]
<1>1. /\ command' = [command EXCEPT ![o] = probed] /\ Observe(o) /\ CoolDownIn(c)
      /\ UNCHANGED <<durable, log, queue, worker, request, crashes>>
  BY DEF ApplyProbeCooldown, At, Inv, Shape, TypeOK
<1>2. probed \in Command /\ probed.stage = "probed"
  <2>1. command[o] \in Command
    BY Subjects DEF Inv
  <2> QED
    BY <2>1 DEF Command, Stage
<1> HIDE DEF probed
<1>3. command'[o] = probed
  BY <1>1 DEF Inv, Shape, TypeOK
<1>4. SeenOK(o)' /\ AtomicOK(o)'
  BY <1>2, <1>3 DEF SeenOK, Before, AtomicOK
<1>5. Moves /\ log' \subseteq Operator /\ durable' \in [Credential -> State]
  BY <1>1, ReportMoves DEF Inv, Shape, TypeOK
<1> QED
  BY <1>1, <1>2, <1>4, <1>5, OwnStep

(* A request selects, and is answered.                                      *)
LEMMA RequestInv ==
  ASSUME Inv, NEW r \in Request, Select(r) \/ Answered(r)
  PROVE  Inv'
<1>1. request \in [Request -> RequestState]
  BY DEF Inv, Shape
<1>2. request' \in [Request -> RequestState]
  <2>1. CASE Select(r)
    <3>1. PICK c \in Selectable : request' =
            [request EXCEPT ![r] = [stage |-> "sending", credential |-> c]]
      BY <2>1 DEF Select
    <3>2. c \in Credential
      BY DEF Selectable
    <3> QED
      BY <1>1, <3>1, <3>2 DEF RequestState
  <2>2. CASE Answered(r)
    <3>1. request[r] \in [stage : {"sending", "answered"}, credential : Credential]
      BY <1>1, <2>2 DEF Answered, RequestState
    <3>2. [request[r] EXCEPT !.stage = "answered"] \in RequestState
      BY <3>1 DEF RequestState
    <3>3. request' = [request EXCEPT ![r] = [request[r] EXCEPT !.stage = "answered"]]
      BY <1>1, <2>2 DEF Answered
    <3> QED
      BY <1>1, <3>2, <3>3
  <2> QED
    BY <2>1, <2>2
<1>3. /\ KeepRuntime
      /\ UNCHANGED <<durable, log, queue, worker, command, crashes, disturbed>>
  BY DEF Select, Answered
<1> QED
  BY <1>2, <1>3, UnseenStep DEF Inv, Shape, TypeOK

(* What an empty queue, and one more entry, are.                            *)
LEMMA Queues ==
  ASSUME NEW Entry
  PROVE  /\ <<>> \in Seq(Entry) /\ Len(<<>>) = 0
         /\ \A q \in Seq(Entry), e \in Entry :
              Append(q, e) \in Seq(Entry) /\ Len(Append(q, e)) = Len(q) + 1
  OBVIOUS

(* The queue never passes its capacity.                                     *)
LEMMA EnqueueShape ==
  ASSUME Shape, NEW c \in Credential, NEW s \in State, Enqueue(c, s)
  PROVE  /\ queue' \in Seq([credential : Credential, state : State])
         /\ Len(queue') <= QueueCapacity
<1> DEFINE entry == [credential |-> c, state |-> s]
<1>1. /\ entry \in [credential : Credential, state : State]
      /\ queue \in Seq([credential : Credential, state : State])
      /\ Len(queue) <= QueueCapacity
      /\ queue' = IF Len(queue) < QueueCapacity THEN Append(queue, entry) ELSE queue
  BY DEF Shape, TypeOK, Enqueue
<1>2. QueueCapacity \in Nat
  BY CommandAssumption
<1> HIDE DEF entry
<1>3. CASE Len(queue) < QueueCapacity
  <2>1. /\ Append(queue, entry) \in Seq([credential : Credential, state : State])
        /\ Len(Append(queue, entry)) = Len(queue) + 1
    BY <1>1, Queues
  <2>2. Len(queue) \in Nat
    BY <1>1
  <2> QED
    BY <1>1, <1>2, <1>3, <2>1, <2>2
<1>4. CASE ~(Len(queue) < QueueCapacity)
  BY <1>1, <1>4
<1> QED
  BY <1>3, <1>4

(* A report cools a credential down, or fails it and goes to the store.     *)
LEMMA ReportInv ==
  ASSUME Inv, NEW r \in Request, Report(r)
  PROVE  Inv'
<1> DEFINE c == request[r].credential
<1>1. c \in Credential
  BY DEF Report, Inv, Shape, RequestState
<1>2. /\ Observe(NoOne) /\ UNCHANGED <<durable, log, worker, command, crashes>>
      /\ request' = [request EXCEPT ![r] = [stage |-> "finished"]]
      /\ \/ KeepRuntime /\ UNCHANGED queue
         \/ CoolDownIn(c) /\ UNCHANGED queue
         \/ HardFailure(c, Expired("automatic"))
         \/ HardFailure(c, QuotaExhausted("automatic"))
  BY DEF Report
<1>3. request' \in [Request -> RequestState]
  BY <1>2 DEF Inv, Shape, RequestState
<1>4. Expired("automatic") \in State /\ QuotaExhausted("automatic") \in State
  BY StateShapes
<1> HIDE DEF c
<1>5. Moves
  BY <1>1, <1>2, KeepMoves, ReportMoves DEF Inv
<1>6. \/ UNCHANGED queue
      \/ Enqueue(c, Expired("automatic"))
      \/ Enqueue(c, QuotaExhausted("automatic"))
  BY <1>2 DEF HardFailure
<1>7. /\ queue' \in Seq([credential : Credential, state : State])
      /\ Len(queue') <= QueueCapacity
  <2>1. CASE UNCHANGED queue
    BY <2>1 DEF Inv, Shape, TypeOK
  <2>2. CASE Enqueue(c, Expired("automatic"))
    BY <1>1, <1>4, <2>2, EnqueueShape DEF Inv
  <2>3. CASE Enqueue(c, QuotaExhausted("automatic"))
    BY <1>1, <1>4, <2>3, EnqueueShape DEF Inv
  <2> QED
    BY <1>6, <2>1, <2>2, <2>3
<1> QED
  BY <1>2, <1>3, <1>5, <1>7, WatchedStep DEF Inv, Shape, TypeOK

(* The end of a cooldown is a drift.                                        *)
LEMMA ThawInv ==
  ASSUME Inv, NEW c \in Credential, Thaw(c)
  PROVE  Inv'
<1>1. Moves
  BY StateShapes DEF Thaw, Moves, Drift, Inv, Shape, TypeOK
<1> QED
  BY <1>1, WatchedStep DEF Thaw, Inv, Shape, TypeOK

(* The worker takes the oldest expiry, and writes it or does not.           *)
LEMMA WorkerInv ==
  ASSUME Inv, WorkerReceive \/ WorkerWrite
  PROVE  Inv'
<1> DEFINE Entry == [credential : Credential, state : State]
<1>1. /\ queue \in Seq(Entry) /\ Len(queue) <= QueueCapacity
      /\ worker \in {<<>>} \cup {<<w>> : w \in Entry}
      /\ QueueCapacity \in Nat
  BY CommandAssumption DEF Inv, Shape, TypeOK
<1>2. CASE WorkerReceive
  <2>1. /\ worker' = <<Head(queue)>> /\ queue' = Tail(queue) /\ queue # <<>>
        /\ KeepRuntime /\ UNCHANGED <<durable, log, command, request, crashes, disturbed>>
    BY <1>2 DEF WorkerReceive
  <2> HIDE DEF Entry
  <2>2. Head(queue) \in Entry /\ queue' \in Seq(Entry) /\ Len(queue') <= QueueCapacity
    BY <1>1, <2>1
  <2>3. worker' \in {<<>>} \cup {<<w>> : w \in Entry}
    BY <2>1, <2>2
  <2> USE DEF Entry
  <2> QED
    BY <2>1, <2>2, <2>3, UnseenStep DEF Inv, Shape
<1>3. CASE WorkerWrite
  <2>1. PICK w \in Entry : worker = <<w>>
    BY <1>1, <1>3 DEF WorkerWrite
  <2>2. worker[1] = w /\ w.credential \in Credential /\ w.state \in State
    BY <2>1
  <2>3. durable' \in [Credential -> State]
    BY <1>3, <2>2 DEF WorkerWrite, Inv, Shape, TypeOK
  <2>4. Moves
    BY <1>3, KeepMoves DEF WorkerWrite, Inv
  <2>5. /\ worker' = <<>> /\ Observe(NoOne)
        /\ UNCHANGED <<log, queue, command, request, crashes>>
    BY <1>3 DEF WorkerWrite
  <2> QED
    BY <1>1, <2>3, <2>4, <2>5, WatchedStep DEF Inv, Shape
<1> QED
  BY <1>2, <1>3

-----------------------------------------------------------------------------
(* A crash.                                                                 *)

(* A crash loses the commands under way; the store speaks for the others.   *)
LEMMA CrashInv ==
  ASSUME Inv, Crash
  PROVE  Inv'
<1>1. /\ crashes < MaxCrashes /\ crashes' = crashes + 1
      /\ runtime' = durable /\ generation' = 1 /\ queue' = <<>> /\ worker' = <<>>
      /\ command' = [o \in Operator |->
                       IF UnderWay(o) THEN At(o, "lost")[o] ELSE command[o]]
      /\ request' = [r \in Request |->
                       IF request[r].stage = "idle" THEN request[r]
                       ELSE [stage |-> "finished"]]
      /\ UNCHANGED <<durable, log>> /\ Observe(NoOne)
  BY DEF Crash
<1>2. ASSUME NEW o \in Operator
      PROVE  /\ command'[o] \in Command
             /\ ~UnderWay(o) => command'[o] = command[o]
             /\ UnderWay(o) => command'[o].stage = "lost"
  <2>1. command[o] \in Command
    BY Subjects DEF Inv
  <2>2. At(o, "lost")[o] = [command[o] EXCEPT !.stage = "lost"]
    BY DEF At, Inv, Shape, TypeOK
  <2>3. /\ [command[o] EXCEPT !.stage = "lost"] \in Command
        /\ [command[o] EXCEPT !.stage = "lost"].stage = "lost"
    BY <2>1 DEF Command, Stage
  <2>4. command'[o] = IF UnderWay(o) THEN At(o, "lost")[o] ELSE command[o]
    BY <1>1
  <2> QED
    BY <2>1, <2>2, <2>3, <2>4
<1>3. Shape'
  <2>1. command' \in [Operator -> Command]
    BY <1>1, <1>2
  <2>2. request' \in [Request -> RequestState]
    BY <1>1 DEF Inv, Shape, RequestState
  <2>3. disturbed' \in [Operator -> [state : BOOLEAN, store : BOOLEAN]]
    BY <1>1, ObserveShape DEF Inv
  <2>4. /\ queue' \in Seq([credential : Credential, state : State])
        /\ Len(queue') <= QueueCapacity /\ crashes' \in 0..MaxCrashes
    <3>1. /\ queue' \in Seq([credential : Credential, state : State])
          /\ Len(queue') = 0
      BY <1>1, Queues
    <3>2. QueueCapacity \in Nat /\ MaxCrashes \in Nat
      BY CommandAssumption
    <3>3. crashes \in 0..MaxCrashes
      BY DEF Inv, Shape, TypeOK
    <3>4. crashes' \in 0..MaxCrashes
      BY <1>1, <3>2, <3>3
    <3> QED
      BY <3>1, <3>2, <3>4
  <2> QED
    BY <1>1, <2>1, <2>2, <2>3, <2>4 DEF Inv, Shape, TypeOK
<1>4. ASSUME NEW o \in Operator
      PROVE  SeenOK(o)' /\ AtomicOK(o)'
  <2>1. CASE UnderWay(o)
    BY <1>2, <2>1 DEF SeenOK, AtomicOK, Before
  <2>2. CASE ~UnderWay(o)
    <3>1. command'[o] = command[o]
      BY <1>2, <2>2
    <3>2. SeenOK(o)'
      BY <2>2, <3>1 DEF SeenOK, Before, UnderWay
    <3>3. AtomicOK(o)'
      <4>1. o # NoOne
        BY CommandAssumption DEF NoOne
      <4> QED
        BY <1>1, <3>1, <4>1, OthersAtomic
    <3> QED
      BY <3>2, <3>3
  <2> QED
    BY <2>1, <2>2
<1> QED
  BY <1>3, <1>4 DEF Inv

-----------------------------------------------------------------------------
(* The invariant.                                                           *)

(* Nothing is under way at the start.                                       *)
LEMMA InitInv == Init => Inv
<1> SUFFICES ASSUME Init
             PROVE  Inv
  OBVIOUS
<1>1. Available \in State
  BY StateShapes
<1>2. command \in [Operator -> Command]
  <2>1. (CHOOSE c \in Credential : TRUE) \in Credential
    BY CommandAssumption
  <2> QED
    BY <1>1, <2>1 DEF Init, Command, Stage, Outcome, CommandKind
<1>3. disturbed \in [Operator -> [state : BOOLEAN, store : BOOLEAN]]
  BY DEF Init, Undisturbed
<1>4. request \in [Request -> RequestState]
  BY DEF Init, RequestState
<1>5. Shape
  <2>1. /\ queue \in Seq([credential : Credential, state : State])
        /\ Len(queue) = 0
    BY Queues DEF Init
  <2>2. Len(queue) <= QueueCapacity
    <3>1. QueueCapacity \in Nat
      BY CommandAssumption
    <3> QED
      BY <2>1, <3>1
  <2>3. /\ runtime \in [Credential -> State] /\ durable \in [Credential -> State]
        /\ generation \in Nat /\ log \subseteq Operator /\ worker = <<>>
    BY <1>1 DEF Init
  <2>4. crashes \in 0..MaxCrashes
    <3>1. MaxCrashes \in Nat /\ crashes = 0
      BY CommandAssumption DEF Init
    <3> QED
      BY <3>1
  <2> QED
    BY <1>2, <1>3, <1>4, <2>1, <2>2, <2>3, <2>4 DEF Shape, TypeOK
<1>6. \A o \in Operator : command[o].stage = "idle"
  BY DEF Init
<1>7. \A o \in Operator : SeenOK(o) /\ AtomicOK(o)
  BY <1>6 DEF SeenOK, AtomicOK, Before
<1> QED
  BY <1>5, <1>7 DEF Inv

(* Every step keeps the invariant.                                          *)
LEMMA NextInv == Inv /\ [Next]_vars => Inv'
<1> SUFFICES ASSUME Inv, [Next]_vars
             PROVE  Inv'
  OBVIOUS
<1>1. ASSUME NEW o \in Operator, NEW k \in CommandKind, NEW c \in Credential,
             Submit(o, k, c)
      PROVE  Inv'
  BY <1>1, SubmitInv
<1>2. ASSUME NEW o \in Operator, NEW c \in Credential, ApplyProbeCooldown(o, c)
      PROVE  Inv'
  BY <1>2, ProbeInv
<1>3. ASSUME NEW o \in Operator,
             \/ Check(o) \/ Persist(o) \/ AppendEvent(o)
             \/ Apply(o) \/ ReadBack(o) \/ Compensate(o)
      PROVE  Inv'
  BY <1>3, CheckInv, PersistInv, AppendInv, ApplyInv, ReadBackInv, CompensateInv
<1>4. ASSUME NEW r \in Request, Select(r) \/ Answered(r) \/ Report(r)
      PROVE  Inv'
  BY <1>4, RequestInv, ReportInv
<1>5. ASSUME NEW c \in Credential, Thaw(c)
      PROVE  Inv'
  BY <1>5, ThawInv
<1>6. CASE WorkerReceive \/ WorkerWrite
  BY <1>6, WorkerInv
<1>7. CASE Crash
  BY <1>7, CrashInv
<1>8. CASE UNCHANGED vars
  BY <1>8 DEF vars, Inv, Shape, TypeOK, SeenOK, AtomicOK, Before, Subject
<1> QED
  BY <1>1, <1>2, <1>3, <1>4, <1>5, <1>6, <1>7, <1>8 DEF Next

(* So it holds always.                                                      *)
LEMMA SpecInv == Spec => []Inv
<1> QED
  BY InitInv, NextInv, PTL DEF Spec

-----------------------------------------------------------------------------
(* The theorems.                                                            *)

(* Every state of the system is of its type, whatever the schedule of      *)
(* commands, reports, writes and crashes; and the queue keeps its bound.    *)
THEOREM CommandTypes == Spec => []TypeOK
<1>1. Inv => TypeOK
  BY DEF Inv, Shape
<1> QED
  BY <1>1, SpecInv, PTL

(* A command that changes the pool finds its credential as it was when the *)
(* command was decided, and as it has been all the time in between.         *)
THEOREM AppliesUnchanged == Spec => AppliesToStateSeen
<1>1. ASSUME Inv, NEW o \in Operator, Apply(o), runtime' # runtime
      PROVE  ~disturbed[o].state
  <2>1. command[o].stage = "applying" /\ Precondition(o) = "Ready"
    BY <1>1 DEF Apply, KeepRuntime
  <2> QED
    BY <1>1, <2>1, AppliesUndisturbed
<1>2. Inv => [\A o \in Operator : Apply(o) /\ runtime' # runtime =>
                ~disturbed[o].state]_vars
  BY <1>1
<1> QED
  BY <1>2, SpecInv, PTL DEF AppliesToStateSeen

(* Whatever step of an undisturbed command fails, the store holds the state *)
(* from before or the state asked for, and agrees with the pool when it     *)
(* ends.                                                                    *)
THEOREM AtomicWhenUndisturbed == Spec => []UndisturbedCommandAtomic
<1>1. Inv => UndisturbedCommandAtomic
  <2> SUFFICES ASSUME Inv, NEW o \in Operator, ~disturbed[o].store
               PROVE  /\ UnderWay(o) =>
                           durable[Subject(o)] \in {DurableOf(command[o].state),
                                                    Target(command[o].kind, o)}
                      /\ command[o].stage = "done"
                           /\ command[o].outcome # "CompensationFailed" =>
                           durable[Subject(o)] = DurableOf(runtime[Subject(o)])
    BY DEF UndisturbedCommandAtomic, Subject
  <2>1. command[o].stage \in Stage
    BY DEF Inv, Shape, TypeOK, Command
  <2>2. UnderWay(o) => command[o].stage \in {"checking", "persisting", "appending",
                                             "applying", "reading", "compensating"}
    BY <2>1 DEF UnderWay, Stage
  <2> QED
    BY <2>2 DEF Inv, AtomicOK
<1> QED
  BY <1>1, SpecInv, PTL

(* In a running process only Enable takes a credential out of Disabled.     *)
THEOREM DisabledStays == Spec => DisabledHoldsInPool
<1>1. ASSUME Inv, Next, NEW c \in Credential,
             runtime[c].kind = "Disabled", runtime'[c] # runtime[c]
      PROVE  \/ Crash
             \/ \E o \in Operator : /\ Apply(o)
                                    /\ command[o].kind = "Enable"
                                    /\ command[o].credential = c
  <2>1. ~KeepRuntime
    BY <1>1 DEF KeepRuntime
  <2>2. ASSUME NEW d \in Credential, NEW s, SetRuntime(d, s)
        PROVE  d = c
    BY <1>1, <2>2 DEF SetRuntime, Inv, Shape, TypeOK
  <2>3. ASSUME NEW o \in Operator, Apply(o)
        PROVE  command[o].kind = "Enable" /\ command[o].credential = c
    <3>1. /\ Precondition(o) = "Ready"
          /\ SetRuntime(Subject(o), Target(command[o].kind, o))
      BY <2>1, <2>3 DEF Apply, Subject
    <3>2. Subject(o) = c /\ command[o].kind \in CommandKind
      <4>1. Subject(o) \in Credential /\ command[o].kind \in CommandKind
        BY <1>1, Subjects DEF Inv
      <4> QED
        BY <2>2, <3>1, <4>1
    <3>3. Decision(command[o].kind, runtime[c]) = "Ready"
      BY <3>1, <3>2, Recheck
    <3> QED
      BY <1>1, <3>2, <3>3 DEF Decision, AppliedIn, ReadyIn, CommandKind, Subject
  <2>4. ASSUME NEW d \in Credential
        PROVE  ~CoolDownIn(d)
    BY <1>1, <2>1, <2>2 DEF CoolDownIn
  <2>5. ASSUME NEW d \in Credential, NEW s
        PROVE  ~HardFailure(d, s)
    BY <1>1, <2>1, <2>2 DEF HardFailure
  <2>6. ASSUME NEW d \in Credential
        PROVE  ~Thaw(d)
    BY <1>1 DEF Thaw, Inv, Shape, TypeOK
  <2>7. ASSUME NEW r \in Request
        PROVE  ~Report(r)
    <3>1. SUFFICES ASSUME Report(r) PROVE FALSE
      OBVIOUS
    <3>2. request[r].credential \in Credential
      BY <1>1, <3>1 DEF Report, Inv, Shape, RequestState
    <3> QED
      BY <2>1, <2>4, <2>5, <3>1, <3>2 DEF Report
  <2> QED
    BY <1>1, <2>1, <2>3, <2>4, <2>6, <2>7
       DEF Next, Submit, Check, Persist, AppendEvent, ReadBack, Compensate,
           ApplyProbeCooldown, Select, Answered, WorkerReceive, WorkerWrite
<1>2. Inv /\ [Next]_vars =>
        [\A c \in Credential :
           runtime[c].kind = "Disabled" /\ runtime'[c] # runtime[c] =>
             \/ Crash
             \/ \E o \in Operator : /\ Apply(o)
                                    /\ command[o].kind = "Enable"
                                    /\ command[o].credential = c]_vars
  BY <1>1
<1> QED
  BY <1>2, SpecInv, PTL DEF Spec, DisabledHoldsInPool
=============================================================================
