------------------------------- MODULE Gates -------------------------------
(***************************************************************************)
(* The gates of a credential set, and who holds what while waiting for     *)
(* whom.  Every channel of a set shares a send gate (a read-write lock     *)
(* held by requests while they send, and taken whole to change what they   *)
(* may send with), a mutation gate and the pool's lock.  All three are     *)
(* fair semaphores of the async runtime: waiters are served in order, and  *)
(* a writer takes every permit.  Blocking work, and with it all management *)
(* storage, runs on a bounded pool of threads, served in order as well;    *)
(* the transaction of a credential command waits for gates on its thread.  *)
(*                                                                         *)
(* An operation is the sequence of its waits and releases; waits for       *)
(* storage that follow each other with nothing held are one.  What it does *)
(* to credentials and channels in between is the subject of other modules. *)
(***************************************************************************)
EXTENDS Integers, FiniteSetsExt, SequencesExt

CONSTANTS
  Process,         \* concurrent operations on one credential set
  Operations,      \* the kinds of operation each process runs
  BlockingThreads  \* threads for blocking work

ASSUME GatesAssumption ==
  /\ IsFiniteSet(Process)
  /\ BlockingThreads \in Nat \ {0}
  /\ DOMAIN Operations = Process

VARIABLES
  op,       \* what each process is running, or "idle"
  pc,       \* the step it is at
  held,     \* the permits it holds of each resource
  queue,    \* the processes that wait for each resource, in order
  storage   \* whether management storage answers

vars == <<op, pc, held, queue, storage>>

-----------------------------------------------------------------------------
Resource == {"send", "mutation", "pool", "thread"}

(* A reader of the send gate takes one permit, a writer all of them.       *)
Whole == Cardinality(Process)
Capacity == [send |-> Whole, mutation |-> 1, pool |-> 1,
             thread |-> BlockingThreads]

Take(resource, permits) ==
  [do |-> "take", of |-> {resource}, permits |-> permits]
Drop(resources) == [do |-> "drop", of |-> resources, permits |-> 0]
Upstream == [do |-> "upstream", of |-> {}, permits |-> 0]
Storage == [do |-> "storage", of |-> {}, permits |-> 0]
MayStop == [do |-> "may stop", of |-> {}, permits |-> 0]

Guarded == <<Take("mutation", 1), Take("pool", 1)>>
Unguard == Drop({"mutation", "pool"})
OnThread(steps) == <<Take("thread", 1)>> \o steps \o <<Drop({"thread"})>>

(* A request on one target: commit and send under the send gate, then, on  *)
(* a failure, report it.  A retry is another round of the same steps.      *)
Request ==
  <<Take("send", 1), Take("mutation", 1), MayStop, Take("pool", 1), MayStop,
    Unguard, Upstream, Drop({"send"}), MayStop>> \o Guarded

(* Mutant: the transaction persists and appends under the mutation gate. *)
CredentialCommandGuarded ==
  <<Take("pool", 1), MayStop, Drop({"pool"}), Take("thread", 1)>> \o Guarded
    \o <<MayStop, Drop({"pool"}), Storage, MayStop, Storage, MayStop,
         Unguard, Take("send", Whole)>> \o Guarded

(* A credential command.  Its transaction checks, persists, appends, and   *)
(* applies, all on one blocking thread.                                    *)
CredentialCommand ==
  <<Take("pool", 1), MayStop, Drop({"pool"}), Take("thread", 1)>> \o Guarded
    \o <<MayStop, Unguard, Storage, MayStop, Storage, MayStop,
         Take("send", Whole)>> \o Guarded

(* After a failed append: the credential is read back and persisted.       *)
Compensation == <<Take("pool", 1), Drop({"pool"})>> \o OnThread(<<Storage>>)

(* The cooldown that the result of a probe imposes.                        *)
ProbeCooldown ==
  OnThread(<<Storage>>) \o <<MayStop, Take("send", Whole)>> \o Guarded

Import ==
  <<Take("pool", 1), Drop({"pool"})>> \o OnThread(<<Storage>>)
    \o <<MayStop>> \o Guarded

Listing == <<Take("pool", 1)>>

(* Mutant: the disabling command takes the two gates in the other order. *)
DisableChannelReversed ==
  <<Take("mutation", 1), Take("send", Whole)>> \o OnThread(<<Storage>>)
    \o <<MayStop, Take("pool", 1)>>

(* Channel commands append their event under the gates, except a reset,    *)
(* which checks, lets go, appends, and checks again.  Each ends with the   *)
(* pool's status while its gates are still held.                           *)
DisableChannel ==
  <<Take("send", Whole), Take("mutation", 1)>> \o OnThread(<<Storage>>)
    \o <<MayStop, Take("pool", 1)>>

EnableChannel ==
  <<Take("mutation", 1)>> \o OnThread(<<Storage>>)
    \o <<MayStop, Take("pool", 1)>>

ResetChannelHealth ==
  <<Take("send", Whole), Take("mutation", 1), MayStop,
    Drop({"send", "mutation"})>> \o OnThread(<<Storage>>)
    \o <<MayStop, Take("send", Whole), Take("mutation", 1), MayStop,
         Take("pool", 1)>>

Steps ==
  [request |-> Request, command |-> CredentialCommand,
   compensation |-> Compensation, probe |-> ProbeCooldown, import |-> Import,
   listing |-> Listing, disable |-> DisableChannel, enable |-> EnableChannel,
   reset |-> ResetChannelHealth]

(* The operations that wait for storage while they hold a gate.            *)
ChannelCommand == {"disable", "enable"}

-----------------------------------------------------------------------------
Init ==
  /\ op = [p \in Process |-> "idle"]
  /\ pc = [p \in Process |-> 0]
  /\ held = [p \in Process |-> [r \in Resource |-> 0]]
  /\ queue = [r \in Resource |-> <<>>]
  /\ storage = TRUE

Step(p) == Steps[op[p]][pc[p]]
At(p, kind) == op[p] # "idle" /\ Step(p).do = kind
Free(r) == Capacity[r] - MapThenSumSet(LAMBDA p : held[p][r], Process)

Nothing == [r \in Resource |-> 0]

(* Process p goes on holding what `kept' says; the end of an operation     *)
(* drops every guard.                                                      *)
Advance(p, kept) ==
  IF pc[p] = Len(Steps[op[p]])
  THEN /\ op' = [op EXCEPT ![p] = "idle"]
       /\ pc' = [pc EXCEPT ![p] = 0]
       /\ held' = [held EXCEPT ![p] = Nothing]
  ELSE /\ pc' = [pc EXCEPT ![p] = @ + 1]
       /\ held' = [held EXCEPT ![p] = kept]
       /\ UNCHANGED op

Begin(p, kind) ==
  /\ op[p] = "idle"
  /\ op' = [op EXCEPT ![p] = kind]
  /\ pc' = [pc EXCEPT ![p] = 1]
  /\ UNCHANGED <<held, queue, storage>>

(* A process takes its permits at once, when nobody waits before it and    *)
(* there are enough, or joins the queue, whose head is served first.       *)
Grantable(p, r) ==
  /\ Free(r) >= Step(p).permits
  /\ queue[r] # <<>> => Head(queue[r]) = p

Acquire(p) ==
  /\ At(p, "take")
  /\ \E r \in Step(p).of :
       /\ Grantable(p, r)
       /\ queue' = [queue EXCEPT ![r] = IF @ = <<>> THEN @ ELSE Tail(@)]
       /\ Advance(p, [held[p] EXCEPT ![r] = Step(p).permits])
  /\ UNCHANGED storage

Wait(p) ==
  /\ At(p, "take")
  /\ \E r \in Step(p).of :
       /\ ~Grantable(p, r)
       /\ ~Contains(queue[r], p)
       /\ queue' = [queue EXCEPT ![r] = Append(@, p)]
  /\ UNCHANGED <<op, pc, held, storage>>

Release(p) ==
  /\ At(p, "drop")
  /\ Advance(p, [r \in Resource |-> IF r \in Step(p).of THEN 0
                                    ELSE held[p][r]])
  /\ UNCHANGED <<queue, storage>>

UpstreamAnswers(p) ==
  /\ At(p, "upstream")
  /\ Advance(p, held[p])
  /\ UNCHANGED <<queue, storage>>

StorageAnswers(p) ==
  /\ At(p, "storage")
  /\ storage
  /\ Advance(p, held[p])
  /\ UNCHANGED <<queue, storage>>

(* An early return drops every guard; or the operation goes on.            *)
Stop(p) ==
  /\ At(p, "may stop")
  /\ op' = [op EXCEPT ![p] = "idle"]
  /\ pc' = [pc EXCEPT ![p] = 0]
  /\ held' = [held EXCEPT ![p] = Nothing]
  /\ UNCHANGED <<queue, storage>>

GoOn(p) ==
  /\ At(p, "may stop")
  /\ Advance(p, held[p])
  /\ UNCHANGED <<queue, storage>>

(* A stalled disk, a locked database: storage no longer answers.           *)
StorageHangs ==
  /\ storage
  /\ storage' = FALSE
  /\ UNCHANGED <<op, pc, held, queue>>

Run(p) ==
  \/ Wait(p) \/ Acquire(p) \/ Release(p)
  \/ UpstreamAnswers(p) \/ StorageAnswers(p)
  \/ Stop(p) \/ GoOn(p)

Next ==
  \/ \E p \in Process : Run(p) \/ \E kind \in Operations[p] : Begin(p, kind)
  \/ StorageHangs

(* A step that can run does: the async runtime polls every task that is    *)
(* ready, every send has a timeout.  Nobody has to start an operation.     *)
Spec == Init /\ [][Next]_vars /\ \A p \in Process : WF_vars(Run(p))

-----------------------------------------------------------------------------
(* Properties.                                                             *)

Ends(p) == op[p] # "idle" ~> op[p] = "idle"

(* As long as storage answers, every operation comes to its end: whatever  *)
(* their order, the waits of requests, reports, commands, imports and      *)
(* probes for gates and threads never close a cycle, and nobody starves.   *)
EveryOperationEnds == []storage => \A p \in Process : Ends(p)

Requesting(p) == op[p] = "request"
NoChannelCommand == \A p \in Process : op[p] \notin ChannelCommand

(* Storage that hangs under credential commands, probes, imports or resets *)
(* blocks no request, neither its send nor the report of its failure.      *)
RequestsNeedNoStorage ==
  []NoChannelCommand => \A p \in Process : Requesting(p) ~> ~Requesting(p)
=============================================================================
