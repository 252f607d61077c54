------------------------- MODULE CredentialCommands -------------------------
(***************************************************************************)
(* Management commands on credentials, requests in flight, and the durable *)
(* lifecycle store, for one credential set with a writable store:          *)
(* src/management_commands.rs, src/failure_state_executor.rs, the          *)
(* persistence queue and startup of src/state.rs, and the lifecycle tables *)
(* of src/credential_repository.rs.                                        *)
(*                                                                         *)
(* A command runs in several steps, and holds the gates of the set in two  *)
(* of them only:                                                           *)
(*   Submit  read the state and decide;            (pool lock)             *)
(*   Check   decide again;                         (mutation gate, lock)   *)
(*   Persist write the new state to the store;     (no gate)               *)
(*   Append  write the audit event;                (no gate)               *)
(*   Apply   decide again, change the pool.        (every gate, lock)      *)
(* A command that fails on the way compensates: it reads the pool and      *)
(* writes what it read back to the store, in two further steps.            *)
(*                                                                         *)
(* Meanwhile requests that selected a credential report its failures, at   *)
(* any later time, and an automatic expiry travels to the store through a  *)
(* bounded queue served by one worker.  A crash loses everything but the   *)
(* store and the audit log.                                                *)
(*                                                                         *)
(* The pool itself is KeyPool; here it is seen without slots, indexes and  *)
(* clock, so a cooldown report may be stale or not, and may end any time.  *)
(***************************************************************************)
EXTENDS Integers, Sequences

CONSTANTS
  Credential,     \* the credentials of the set
  Operator,       \* management clients; each issues one command
  Request,        \* requests; each selects one credential
  QueueCapacity,  \* bound: the persistence queue (1024 in the code)
  MaxCrashes      \* bound: crashes of the process

ASSUME CommandAssumption ==
  /\ Credential # {} /\ "no one" \notin Operator
  /\ QueueCapacity \in Nat /\ MaxCrashes \in Nat

VARIABLES
  runtime,    \* state of each credential in the pool
  generation, \* selector_generation: counts changes of a state's kind
  durable,    \* the row of each credential in the store; none is Available
  log,        \* commands whose event is in the audit log
  queue,      \* automatic expiries on their way to the worker
  worker,     \* what the worker is writing, or none
  command,    \* the command of each operator
  request,    \* the request of each client
  crashes,    \* crashes so far
  disturbed   \* history: what others changed while a command was under way

vars == <<runtime, generation, durable, log, queue, worker, command, request,
          crashes, disturbed>>

-----------------------------------------------------------------------------
(* Credential states.  The cause stands for the reason text, which an      *)
(* available or cooling credential has not.                                *)

Kind == {"Available", "CoolingDown", "Expired", "QuotaExhausted", "Disabled"}
Cause == Operator \cup {"automatic", "none"}
State == {s \in [kind : Kind, cause : Cause] :
            s.kind \in {"Available", "CoolingDown"} => s.cause = "none"}

Available == [kind |-> "Available", cause |-> "none"]
CoolingDown == [kind |-> "CoolingDown", cause |-> "none"]
Expired(by) == [kind |-> "Expired", cause |-> by]
QuotaExhausted(by) == [kind |-> "QuotaExhausted", cause |-> by]
Disabled(by) == [kind |-> "Disabled", cause |-> by]

(* What the store keeps of a state: a cooldown is not durable.             *)
DurableOf(s) == IF s.kind = "CoolingDown" THEN Available ELSE s

-----------------------------------------------------------------------------
(* Commands.                                                               *)

CommandKind == {"Expire", "QuotaExhaust", "Restore", "Disable", "Enable",
                "ClearCooldown"}

AppliedIn ==
  [Expire |-> {"Expired"}, QuotaExhaust |-> {"QuotaExhausted"},
   Restore |-> {"Available"}, Disable |-> {"Disabled"},
   Enable |-> {"Available"}, ClearCooldown |-> {"Available"}]

ReadyIn ==
  [Expire |-> {"Available", "CoolingDown", "QuotaExhausted"},
   QuotaExhaust |-> {"Available", "CoolingDown", "Expired"},
   Restore |-> {"Expired", "QuotaExhausted"},
   Disable |-> {"Available", "CoolingDown", "QuotaExhausted"},
   Enable |-> {"Disabled"},
   ClearCooldown |-> {"CoolingDown"}]

Decision(k, s) ==
  CASE s.kind \in AppliedIn[k] -> "AlreadyApplied"
    [] s.kind \in ReadyIn[k] -> "Ready"
    [] OTHER -> "Rejected"

(* The state command k of operator o puts a credential in.                 *)
Target(k, o) ==
  CASE k = "Expire" -> Expired(o)
    [] k = "QuotaExhaust" -> QuotaExhausted(o)
    [] k = "Disable" -> Disabled(o)
    [] OTHER -> Available

Stage == {"idle", "checking", "persisting", "appending", "applying",
          "reading", "compensating", "done", "lost", "probed"}
Outcome == {"none", "Ok", "Refused", "CompensationFailed"}

Command == [stage : Stage, kind : CommandKind, credential : Credential,
            generation : Nat, state : State, outcome : Outcome,
            readBack : State]

UnderWay(o) == command[o].stage \notin {"idle", "done", "lost", "probed"}

Stopped(o, outcome) ==
  [command EXCEPT ![o].stage = "done", ![o].outcome = outcome]

At(o, stage) == [command EXCEPT ![o].stage = stage]

(* A refused command goes on to compensate, persisted or not.              *)
Refused(o) ==
  [command EXCEPT ![o].stage = "reading", ![o].outcome = "Refused"]

(* Mutant: only the state is compared, not the generation. *)
PreconditionStateOnly(o) ==
  LET c == command[o].credential
  IN IF Decision(command[o].kind, runtime[c]) = "Ready"
          /\ command[o].state # runtime[c]
     THEN "Rejected"
     ELSE Decision(command[o].kind, runtime[c])

(* check_command_precondition: the command is still applicable, and the    *)
(* credential is as the command first saw it.                              *)
Precondition(o) ==
  LET c == command[o].credential
  IN IF Decision(command[o].kind, runtime[c]) = "Ready"
          /\ (command[o].generation # generation
              \/ command[o].state # runtime[c])
     THEN "Rejected"
     ELSE Decision(command[o].kind, runtime[c])

-----------------------------------------------------------------------------
(* History, for the properties: what every step but a command's own        *)
(* changed of its credential, and whether pool and store agreed when it    *)
(* began.                                                                  *)

Undisturbed == [state |-> FALSE, store |-> FALSE]

Observe(self) ==
  disturbed' =
    [o \in Operator |->
       LET c == command[o].credential
       IN IF o = self \/ command[o].stage = "idle" THEN disturbed[o]
          ELSE [state |-> disturbed[o].state \/ runtime'[c] # runtime[c],
                store |-> \/ disturbed[o].store
                          \/ durable'[c] # durable[c]
                          \/ DurableOf(runtime'[c]) # DurableOf(runtime[c])]]

NoOne == "no one"

-----------------------------------------------------------------------------
Init ==
  /\ runtime = [c \in Credential |-> Available]
  /\ generation = 1
  /\ durable = [c \in Credential |-> Available]
  /\ log = {}
  /\ queue = <<>>
  /\ worker = <<>>
  /\ command \in [Operator -> [stage : {"idle"}, kind : {"Expire"},
                               credential : {CHOOSE c \in Credential : TRUE},
                               generation : {0}, state : {Available},
                               outcome : {"none"}, readBack : {Available}]]
  /\ request = [r \in Request |-> [stage |-> "idle"]]
  /\ crashes = 0
  /\ disturbed = [o \in Operator |-> Undisturbed]

(* Changes the pool's state of c, and the generation when the kind changes.*)
SetRuntime(c, s) ==
  /\ runtime' = [runtime EXCEPT ![c] = s]
  /\ generation' = IF s.kind = runtime[c].kind THEN generation
                   ELSE generation + 1

KeepRuntime == UNCHANGED <<runtime, generation>>

-----------------------------------------------------------------------------
(* The steps of a command.                                                 *)

Submit(o, k, c) ==
  /\ command[o].stage = "idle"
  /\ LET decision == Decision(k, runtime[c])
     IN command' = [command EXCEPT ![o] =
          [stage      |-> IF decision = "Ready" THEN "checking" ELSE "done",
           kind       |-> k,
           credential |-> c,
           generation |-> generation,
           state      |-> runtime[c],
           outcome    |-> CASE decision = "AlreadyApplied" -> "Ok"
                            [] decision = "Rejected" -> "Refused"
                            [] OTHER -> "none",
           readBack   |-> Available]]
  /\ disturbed' = [disturbed EXCEPT ![o] =
       [state |-> FALSE, store |-> durable[c] # DurableOf(runtime[c])]]
  /\ KeepRuntime
  /\ UNCHANGED <<durable, log, queue, worker, request, crashes>>

Check(o) ==
  /\ command[o].stage = "checking"
  /\ command' = CASE Precondition(o) = "AlreadyApplied" -> Stopped(o, "Ok")
                  [] Precondition(o) = "Ready" -> At(o, "persisting")
                  [] OTHER -> Refused(o)
  /\ KeepRuntime
  /\ UNCHANGED <<durable, log, queue, worker, request, crashes>>
  /\ Observe(o)

(* One immediate transaction writes the row and the history, or neither.   *)
Persist(o) ==
  /\ command[o].stage = "persisting"
  /\ \/ /\ durable' = [durable EXCEPT ![command[o].credential] =
                         Target(command[o].kind, o)]
        /\ command' = At(o, "appending")
     \/ /\ command' = Refused(o)
        /\ UNCHANGED durable
  /\ KeepRuntime
  /\ UNCHANGED <<log, queue, worker, request, crashes>>
  /\ Observe(o)

(* Mutant: a failed append ends the command without compensating. *)
AppendEventNoCompensation(o) ==
  /\ command[o].stage = "appending"
  /\ \/ /\ log' = log \cup {o}
        /\ command' = At(o, "applying")
     \/ /\ command' = Stopped(o, "Refused")
        /\ UNCHANGED log
  /\ KeepRuntime
  /\ UNCHANGED <<durable, queue, worker, request, crashes>>
  /\ Observe(o)

AppendEvent(o) ==
  /\ command[o].stage = "appending"
  /\ \/ /\ log' = log \cup {o}
        /\ command' = At(o, "applying")
     \/ /\ command' = Refused(o)
        /\ UNCHANGED log
  /\ KeepRuntime
  /\ UNCHANGED <<durable, queue, worker, request, crashes>>
  /\ Observe(o)

(* The send gate is write-locked: no request is waiting for its headers.   *)
SendGateFree == \A r \in Request : request[r].stage # "sending"

Apply(o) ==
  /\ command[o].stage = "applying"
  /\ SendGateFree
  /\ \/ /\ Precondition(o) = "Ready"
        /\ SetRuntime(command[o].credential, Target(command[o].kind, o))
        /\ command' = Stopped(o, "Ok")
     \/ /\ Precondition(o) = "AlreadyApplied"
        /\ command' = Stopped(o, "Ok")
        /\ KeepRuntime
     \/ /\ Precondition(o) = "Rejected"
        /\ command' = Refused(o)
        /\ KeepRuntime
  /\ UNCHANGED <<durable, log, queue, worker, request, crashes>>
  /\ Observe(o)

ReadBack(o) ==
  /\ command[o].stage = "reading"
  /\ command' = [At(o, "compensating") EXCEPT
                   ![o].readBack = DurableOf(runtime[command[o].credential])]
  /\ KeepRuntime
  /\ UNCHANGED <<durable, log, queue, worker, request, crashes>>
  /\ Observe(o)

Compensate(o) ==
  /\ command[o].stage = "compensating"
  /\ \/ /\ durable' = [durable EXCEPT ![command[o].credential] =
                         command[o].readBack]
        /\ command' = At(o, "done")
     \/ /\ command' = Stopped(o, "CompensationFailed")
        /\ UNCHANGED durable
  /\ KeepRuntime
  /\ UNCHANGED <<log, queue, worker, request, crashes>>
  /\ Observe(o)

-----------------------------------------------------------------------------
(* Requests.  A request holds the send gate from selection to headers; the *)
(* gate prefers writers.  It reports what became of its credential later.  *)

Selectable ==
  LET usable == {c \in Credential : runtime[c].kind = "Available"}
  IN IF usable # {} THEN usable
     ELSE {c \in Credential : runtime[c].kind = "CoolingDown"}

Select(r) ==
  /\ request[r].stage = "idle"
  /\ \A o \in Operator : command[o].stage # "applying"
  /\ \E c \in Selectable :
       request' = [request EXCEPT ![r] = [stage |-> "sending", credential |-> c]]
  /\ KeepRuntime
  /\ UNCHANGED <<durable, log, queue, worker, command, crashes, disturbed>>

Answered(r) ==
  /\ request[r].stage = "sending"
  /\ request' = [request EXCEPT ![r].stage = "answered"]
  /\ KeepRuntime
  /\ UNCHANGED <<durable, log, queue, worker, command, crashes, disturbed>>

(* The pool's handling of a cooldown: ignored on a disabled credential, or *)
(* when the pool no longer serves from it.                                 *)
CoolDownIn(c) ==
  \/ KeepRuntime
  \/ runtime[c].kind # "Disabled" /\ SetRuntime(c, CoolingDown)

(* Mutant: the queue grows past its capacity. *)
EnqueueUnbounded(c, s) ==
  queue' = Append(queue, [credential |-> c, state |-> s])

(* try_enqueue: the request is dropped when the queue is full.             *)
Enqueue(c, s) ==
  queue' = IF Len(queue) < QueueCapacity
           THEN Append(queue, [credential |-> c, state |-> s]) ELSE queue

(* Mutant: a failure report reaches a disabled credential. *)
HardFailureAlways(c, s) == SetRuntime(c, s) /\ Enqueue(c, s)

(* The pool ignores an expiry or quota report on a disabled credential;    *)
(* the report is queued for the store all the same.                        *)
HardFailure(c, s) ==
  /\ IF runtime[c].kind = "Disabled" THEN KeepRuntime ELSE SetRuntime(c, s)
  /\ Enqueue(c, s)

Report(r) ==
  /\ request[r].stage = "answered"
  /\ LET c == request[r].credential
     IN \/ KeepRuntime /\ UNCHANGED queue
        \/ CoolDownIn(c) /\ UNCHANGED queue
        \/ HardFailure(c, Expired("automatic"))
        \/ HardFailure(c, QuotaExhausted("automatic"))
  /\ request' = [request EXCEPT ![r] = [stage |-> "finished"]]
  /\ UNCHANGED <<durable, log, worker, command, crashes>>
  /\ Observe(NoOne)

(* A probe result applied as a cooldown: one step under every gate.        *)
ApplyProbeCooldown(o, c) ==
  /\ command[o].stage = "idle"
  /\ SendGateFree
  /\ CoolDownIn(c)
  /\ command' = At(o, "probed")
  /\ UNCHANGED <<durable, log, queue, worker, request, crashes>>
  /\ Observe(o)

(* A cooldown ends: the pool sees it by its clock, no step of anyone.      *)
Thaw(c) ==
  /\ runtime[c].kind = "CoolingDown"
  /\ runtime' = [runtime EXCEPT ![c] = Available]
  /\ UNCHANGED <<generation, durable, log, queue, worker, command, request,
                 crashes>>
  /\ Observe(NoOne)

-----------------------------------------------------------------------------
(* The persistence worker: one write at a time, its errors only logged.    *)

WorkerReceive ==
  /\ worker = <<>>
  /\ queue # <<>>
  /\ worker' = <<Head(queue)>>
  /\ queue' = Tail(queue)
  /\ KeepRuntime
  /\ UNCHANGED <<durable, log, command, request, crashes, disturbed>>

WorkerWrite ==
  /\ worker # <<>>
  /\ \/ durable' = [durable EXCEPT ![worker[1].credential] = worker[1].state]
     \/ UNCHANGED durable
  /\ worker' = <<>>
  /\ KeepRuntime
  /\ UNCHANGED <<log, queue, command, request, crashes>>
  /\ Observe(NoOne)

(* Crash and restart: the pool is rebuilt from the rows of the store, with *)
(* the audit log as display data only.                                     *)
Crash ==
  /\ crashes < MaxCrashes
  /\ crashes' = crashes + 1
  /\ runtime' = durable
  /\ generation' = 1
  /\ queue' = <<>>
  /\ worker' = <<>>
  /\ command' = [o \in Operator |->
                   IF UnderWay(o) THEN At(o, "lost")[o] ELSE command[o]]
  /\ request' = [r \in Request |->
                   IF request[r].stage = "idle" THEN request[r]
                   ELSE [stage |-> "finished"]]
  /\ UNCHANGED <<durable, log>>
  /\ Observe(NoOne)

-----------------------------------------------------------------------------
Next ==
  \/ \E o \in Operator :
       \/ \E k \in CommandKind, c \in Credential : Submit(o, k, c)
       \/ \E c \in Credential : ApplyProbeCooldown(o, c)
       \/ Check(o)
       \/ Persist(o)
       \/ AppendEvent(o)
       \/ Apply(o)
       \/ ReadBack(o)
       \/ Compensate(o)
  \/ \E r \in Request : Select(r) \/ Answered(r) \/ Report(r)
  \/ \E c \in Credential : Thaw(c)
  \/ WorkerReceive
  \/ WorkerWrite
  \/ Crash

Spec == Init /\ [][Next]_vars
-----------------------------------------------------------------------------
(* Properties.                                                             *)

TypeOK ==
  /\ runtime \in [Credential -> State]
  /\ generation \in Nat
  /\ durable \in [Credential -> State]
  /\ log \subseteq Operator
  /\ queue \in Seq([credential : Credential, state : State])
  /\ Len(queue) <= QueueCapacity
  /\ worker \in {<<>>} \cup {<<w>> : w \in [credential : Credential,
                                          state : State]}
  /\ command \in [Operator -> Command]
  /\ crashes \in 0..MaxCrashes
  /\ disturbed \in [Operator -> [state : BOOLEAN, store : BOOLEAN]]

(* A command that changes the pool finds the credential as it was when the *)
(* command was decided: nobody changed it in between, not even there and   *)
(* back again (the generation and state recheck before the apply).         *)
AppliesToStateSeen ==
  [][\A o \in Operator : Apply(o) /\ runtime' # runtime =>
       ~disturbed[o].state]_vars

(* A command nobody interferes with is atomic.  Whatever step of it fails, *)
(* and should the process die in the middle, the store holds the state     *)
(* from before or the state asked for; and when it ends, store and pool    *)
(* agree (persist, compensate).                                            *)
UndisturbedCommandAtomic ==
  \A o \in Operator :
    LET cmd == command[o]
        row == durable[cmd.credential]
    IN ~disturbed[o].store =>
         /\ UnderWay(o) =>
              row \in {DurableOf(cmd.state), Target(cmd.kind, o)}
         /\ cmd.stage = "done" /\ cmd.outcome # "CompensationFailed" =>
              row = DurableOf(runtime[cmd.credential])

(* No late report, no ended cooldown and no other command takes a disabled *)
(* credential out of that state in a running process: only Enable does.    *)
DisabledHoldsInPool ==
  [][\A c \in Credential :
       runtime[c].kind = "Disabled" /\ runtime'[c] # runtime[c] =>
         \/ Crash
         \/ \E o \in Operator : /\ Apply(o)
                                /\ command[o].kind = "Enable"
                                /\ command[o].credential = c]_vars

(* What the design document says of an expired credential: "durably        *)
(* excluded until restored".  A report of a rate limit that arrives after  *)
(* the expiry puts it back in rotation.                                    *)
ExpiredUntilRestored ==
  [][\A c \in Credential :
       runtime[c].kind = "Expired"
         /\ runtime'[c].kind \in {"Available", "CoolingDown"} =>
       \E o \in Operator : /\ command[o].kind = "Restore"
                           /\ command[o].credential = c
                           /\ command[o].stage # "idle"]_vars
=============================================================================
